CONSTANTS
  Element = {a, b}
  Nil = Nil
  MaxLen = 3
  MaxReserve = 3
SPECIFICATION Spec
PROPERTY ImplementsDeque
