CONSTANTS
  N = 5
  OMEGA = 3
  K = 2
  Groups = 2
  Formats = {"t1", "t0", "eta2", "eta4", "z17", "z19", "w1_44", "w1_16"}
  Polys <- MCPolys
  Strings <- MCStrings
SPECIFICATION EncodingSpec
INVARIANTS OneEncoding StandardBits PolynomialRoundTrip
\* A section is done when it was unpacked.
CHECK_DEADLOCK FALSE
