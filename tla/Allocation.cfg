SPECIFICATION AllocationSpec
CONSTANTS
  Levels = {44, 65, 87}
  RamModes = {FALSE, TRUE}
  PctModes = {FALSE, TRUE}
  Operations = {"keypair", "pk_from_sk", "sign", "signature_extmu", "signature_pre_hash_internal", "open", "verify", "verify_extmu", "verify_pre_hash_internal"}
  MaxFailures = 3
INVARIANTS LiveBlocksSafe NoLeak DataOnlyInLiveBlocks OutOfMemoryExact DocumentedSizesTight
