SPECIFICATION FairSpec
CONSTANTS
  Staffers <- MCStaffers
  Newcomer = "nina"
  Clerks = {1, 2}
  MaxInvites = 2
  Browsers = {"till", "office"}
  Me = "meera"
  Slots = {1, 2}
  Mixes <- MCMixes
  MaxLost = 1
  MaxTokens = 3
  MaxVersion = 4
CHECK_DEADLOCK FALSE
INVARIANTS StaffSound SessionsSound
PROPERTY StaleRecovers
