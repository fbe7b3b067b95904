SPECIFICATION Spec
CONSTANTS
  Originals = {j1}
  Commands = {c1}
  Requests = {r1}
  None = None
  MaxRows = 1
INVARIANT RetryIsAccepted
