SPECIFICATION Spec
CONSTANTS
  MaxContext = 2
  KeyIds = {1, 2}
  Requests <- MCRequests
  Shake256 <- MCShake256
  CRYPTO_BYTES = 5
  SigLengths = {0, 4, 5, 6}
  REDUCE_RAM = TRUE
INVARIANTS AcceptsOnlyGenuine AcceptsGenuine
