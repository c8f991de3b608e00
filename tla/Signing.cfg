SPECIFICATION FairSpec
CONSTANTS
  K = 6
  L = 5
  UINT16_MAX = 24
  CTILDEBYTES = 48
  POLYZ_PACKEDBYTES = 640
  POLYW1_PACKEDBYTES = 128
  CRYPTO_BYTES = 3309
  REDUCE_RAM = TRUE
  RNG_REPORTS_STATUS = TRUE
  Entries = {"signature_internal", "signature", "signature_extmu", "sign", "pre_hash_internal", "pre_hash_shake256"}
  MessageLengths = {0, 3}
INVARIANTS SignatureOrNothing NonceFresh ErrorCodeTruthful NeverGivesUpEarly UnionsReadInTime
PROPERTIES EveryCallReturns ImplementsService
