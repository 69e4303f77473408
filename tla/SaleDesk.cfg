SPECIFICATION Spec
CONSTANTS
  MoneyMax = 705
  CashierLimit = 10
  CustomCap = 500
  CustomTotalCap = 1000
  Forms <- MCForms
  Requests <- MCRequests
  Portions = {0, 1000, 1500}
  Repayments = {400}
CHECK_DEADLOCK FALSE
INVARIANT BillsSound
PROPERTY PricesSound
