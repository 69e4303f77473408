SPECIFICATION FairSpec
CONSTANTS
  Cats = {1, 2, 3, 4, 5}
  Shelves <- MCShelves
  Clerks = {1, 2}
  Prods = {1, 2, 3}
  MaxSku = 2
  Codes = {"pack"}
  Prices = {100, 118, 140}
  GstRate = 18
  Matrices <- MCMatrices
  Short <- MCShort
  Labels <- MCLabels
  DrawLimit = 2
  Desks = {1, 2}
  Editors = {"ann", "raj"}
  Texts = {1}
  MaxRevs = 2
  Editing = {1, 2}
  Mixes <- MCMixes
CHECK_DEADLOCK FALSE
INVARIANTS PathFollowsParent 
PROPERTY FreeSkuLands
