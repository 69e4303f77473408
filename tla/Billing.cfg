\* Three requests around one drawer, each of which may be rolled back and run again.
SPECIFICATION FairSpec
CONSTANTS
  asha = asha
  mohan = mohan
  c1 = c1
  Actor = {asha, mohan}
  Manager = {mohan}
  Customer = {c1}
  NoCustomer = NoCustomer
  Req = {1, 2, 3}
  Mixes <- AllMixes
  Requests <- AllRequests
  Stock = 3
  Price = 2
  Rupee = 3
  CreditLimit = 2
  MaxBalance = 4
  CashierMaxRefund = 2
  MaxAttempts = 2
  MaxReruns = 1
\* Everything rests once all requests are answered.
CHECK_DEADLOCK FALSE
INVARIANTS BooksReconcile DocumentsSound RowsGuarded
PROPERTIES ClosedDrawerFrozen  CreditLimitHolds Serializable
