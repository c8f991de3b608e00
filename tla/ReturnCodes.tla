---------------------------- MODULE ReturnCodes -----------------------------
(***************************************************************************)
(* What the functions of mldsa/src/sign.c return besides 0 (common.h).     *)
(***************************************************************************)
EXTENDS Integers

FAIL == -1              \* MLD_ERR_FAIL
OUT_OF_MEMORY == -2     \* MLD_ERR_OUT_OF_MEMORY
RNG_FAIL == -3          \* MLD_ERR_RNG_FAIL
Unset == 1              \* ret before it is assigned; no function returns it
=============================================================================
