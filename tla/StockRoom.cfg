\* Every flow that moves stock, three clients at a time, on a server at its default, REPEATABLE READ.
SPECIFICATION FairSpec
CONSTANTS
  shop = shop
  back = back
  asha = asha
  ravi = ravi
  c1 = c1
  c2 = c2
  c3 = c3
  Item = {shop, back}
  SaleItem = shop
  Actor = {asha, ravi}
  Client = {c1, c2, c3}
  Scripts <- All
  Legacy = 2
  NoValue = NoValue
  ServerDefault = "REPEATABLE READ"
  MaxFaults = 1
\* The clients may be done.
CHECK_DEADLOCK FALSE
INVARIANT StockSound
PROPERTIES StockStaysTrue CountsExact DueHoldsFreed CachesConverge
