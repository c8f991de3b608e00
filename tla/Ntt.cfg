SPECIFICATION NttSpec
CONSTANTS
  N = 8
  Layers = 3
  Q = 241
  QBits = 8
  R = 8192
  QINV = 4113
  D = 3
  L = 2
  Root = 44
  zetas <- MCZetas
  f <- MCF
  Inputs <- MCInputs
INVARIANTS WithinBounds ResultExact
CHECK_DEADLOCK FALSE
