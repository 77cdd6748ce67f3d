SPECIFICATION MCSpec
CONSTANTS
  Proc = {p1, p2, p3}
  Key = {k1, k2}
  MaxForgets = 1
  MaxMessages = 2
  TimerUser = {u1, u2}
  TimeTimer = {x1, x2, x3}
  MaxArmings = 4
INVARIANTS
  MCTypeOK
  SharedExact
  OneInFlightUntilForget
  AcceptedOnlyWithData
  TicksAreCurrent
PROPERTIES
  EveryoneReturns
  ConnectionEnds
  ResetReturns
