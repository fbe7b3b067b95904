SPECIFICATION Spec
CONSTANTS
  Orders = {o1, o2}
  Lines = {l1, l2}
  Tables = {t1, t2}
  Requests = {r1, r2}
  None = None
  MaxQuantity = 2
  MaxAmount = 1
  MaxStarts = 4
SYMMETRY Symmetry
INVARIANTS PaidIsPayments TotalsAgree TablesAgree CancelledHasTicket
CHECK_DEADLOCK FALSE
