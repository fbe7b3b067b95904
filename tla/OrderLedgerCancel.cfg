SPECIFICATION Spec
CONSTANTS
  Orders = {o1}
  Lines = {l1}
  Tables = {t1}
  Requests = {r1, r2}
  None = None
  MaxQuantity = 1
  MaxAmount = 1
  MaxStarts = 3
INVARIANT OneTicketPerCancel
CHECK_DEADLOCK FALSE
