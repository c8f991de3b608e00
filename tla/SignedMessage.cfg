SPECIFICATION Spec
CONSTANTS
  CRYPTO_BYTES = 2
  MaxMessage = 4
  Bytes = {1, 2}
  Garbage = 0
INVARIANTS SignedMessageWhole OpenedIsSigned NothingUnverified
PROPERTY InputKept
CHECK_DEADLOCK FALSE
