\* A shop may stop when its requests are answered.
CHECK_DEADLOCK FALSE
SPECIFICATION FairSpec
CONSTANTS
  asha = asha
  ravi = ravi
  mira = mira
  Free = Free
  Person = {asha, ravi, mira}
  Receipts = {"r1", "r2"}
  Bills = {"b1", "b2"}
  Returns = {"v1", "v2"}
  Notes = {"n1", "n2"}
  Desk <- AllDesks
  MaxOpen = 3
  Cost = 1
  UnitTax = 1
  Tolerance = 1
INVARIANTS DocumentsSound PayablesSound
PROPERTIES RequestsSound EveryoneFinishes
