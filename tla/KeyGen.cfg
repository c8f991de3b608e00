SPECIFICATION Spec
CONSTANTS
  Q = 7
  Half = 2
  ETA = 1
  EtaCodes = 4
  Row <- MCRow
  Col <- MCCol
  Rho <- MCRho
  Flipped <- MCFlipped
  Key = {0, 1}
  Product <- MCProduct
  Tr <- PublicKey
  Hash <- MCHash
  Pct = TRUE
INVARIANTS PairOrNothing PctJudges DerivedExact ValidOrZeroed
