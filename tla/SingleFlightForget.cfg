SPECIFICATION Spec
CONSTANTS
  Proc = {p1, p2, p3}
  Key = {k1}
  MaxForgets = 1
INVARIANTS OneInFlight
