SPECIFICATION Spec
CONSTANTS
  Keys = {k1, k2}
  NoKey = NoKey
  Requests = {r1, r2}
  Tables = {t1}
  Takeaway = Takeaway
  None = None
  Conflict = Conflict
  MaxOrders = 2
SYMMETRY KeysAndRequests
INVARIANTS CommandAppliedOnce StockDeductedOnce LinesHaveTicket AnswersAgree
PROPERTY NumbersGrow
