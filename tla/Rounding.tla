------------------------------ MODULE Rounding ------------------------------
(***************************************************************************)
(* The arithmetic that makes a signature verify: one coefficient of w on   *)
(* its way through mld_attempt_signature_generation (sign.c), where it is  *)
(* split into high and low bits, checked and turned into a hint, and       *)
(* through mld_sign_verify_internal, where the hint has to restore the     *)
(* high bits that were signed (rounding.h, reduce.h, mld_poly_chknorm, and  *)
(* the AVX2 kernels that take the place of mld_poly_decompose_c and        *)
(* mld_poly_use_hint_c).                                                   *)
(*                                                                         *)
(* The coefficients of w, c s2 and c t0 come from the inverse NTT: they    *)
(* are representatives modulo Q between -Q and Q.  That Az - c t1 2^d is   *)
(* w - c s2 + c t0 is linear algebra, and taken as given.                  *)
(***************************************************************************)
EXTENDS Integers

CONSTANTS
  ParameterSets,     \* those to check, of 44, 65 and 87
  Ws, CS2s, CT0s     \* coefficients of w, of c s2 and of c t0

ASSUME RoundingAssumption ==
  /\ ParameterSets \subseteq {44, 65, 87}
  /\ Ws \subseteq Int /\ CS2s \subseteq Int /\ CT0s \subseteq Int

VARIABLES
  set,          \* MLD_CONFIG_PARAMETER_SET
  phase,
  w, cs2, ct0,  \* the coefficients, as they were drawn
  w0, w1,       \* low and high bits
  hint,
  recovered     \* high bits the verifier computes

vars == <<set, phase, w, cs2, ct0, w0, w1, hint, recovered>>

Q == 8380417

GAMMA2 == IF set = 44 THEN 95232 ELSE 261888    \* (Q - 1) / 88 or / 32
BETA == CASE set = 44 -> 78 [] set = 65 -> 196 [] set = 87 -> 120
TopHigh == IF set = 44 THEN 43 ELSE 15          \* largest high bits

-----------------------------------------------------------------------------
(* The functions of reduce.h, rounding.h and poly.c on one coefficient.    *)

\* For x of absolute value less than Q.
caddq(x) == IF x < 0 THEN x + Q ELSE x

\* Fault: 2^22 is not added before the shift.
Reduce32Unrounded(x) == x - (x \div 8388608) * Q

\* Shifts by 23 bits; x + 2^22 does not overflow.
reduce32(x) == x - ((x + 4194304) \div 8388608) * Q

\* mld_poly_chknorm: 0 stands for a valid coefficient.
ChkNorm(x, bound) == bound - 1 - (IF x < 0 THEN -x ELSE x) < 0

\* a1 of mld_decompose: division by 2 GAMMA2 as multiplication and shift.
High(a) ==
  LET f == (a + 127) \div 128
      g == (f * 11275 + 8388608) \div 16777216
  IN  IF set = 44 THEN IF 43 - g < 0 THEN 0 ELSE g
                  ELSE ((f * 1025 + 2097152) \div 4194304) % 16

\* Fault: a coefficient close to Q is not made negative.
LowUncentred(a) == a - High(a) * 2 * GAMMA2

\* a0 of mld_decompose.
Low(a) ==
  LET d == a - High(a) * 2 * GAMMA2
  IN  IF (Q - 1) \div 2 - d < 0 THEN d - Q ELSE d

\* Fault: the lower boundary is treated alike for all high bits.
MakeHintSymmetric(a0, a1) == IF a0 > GAMMA2 \/ a0 =< -GAMMA2 THEN 1 ELSE 0

make_hint(a0, a1) ==
  IF \/ a0 > GAMMA2 \/ a0 < -GAMMA2
     \/ a0 = -GAMMA2 /\ a1 # 0
    THEN 1 ELSE 0

\* Fault: the high bits move down for positive low bits, too.
UseHintDown(a, h) ==
  IF h = 0 THEN High(a)
  ELSE IF High(a) = 0 THEN TopHigh ELSE High(a) - 1

use_hint(a, h) ==
  IF h = 0 THEN High(a)
  ELSE IF Low(a) > 0
    THEN IF High(a) = TopHigh THEN 0 ELSE High(a) + 1
    ELSE IF High(a) = 0 THEN TopHigh ELSE High(a) - 1

-----------------------------------------------------------------------------
(* The AVX2 kernels (native/x86_64/src): f1 and f0 before and after they    *)
(* are corrected in the last interval below Q.                             *)

\* mulhi by v and mulhrs by shift: a rounded division by 2 GAMMA2.
f1(a) ==
  LET v == IF set = 44 THEN 11275 ELSE 1025
      shift == IF set = 44 THEN 128 ELSE 512
      high == (((a + 127) \div 128) * v) \div 65536
  IN  (high * shift + 16384) \div 32768

\* 1 if a is more than q_bound.
Above(a, q_bound) == IF a > q_bound THEN 1 ELSE 0

High_avx2(a, q_bound) == IF Above(a, q_bound) = 1 THEN 0 ELSE f1(a)
Low_avx2(a, q_bound) == a - f1(a) * 2 * GAMMA2 - Above(a, q_bound)

\* Of mld_poly_decompose_88_avx2 and mld_poly_decompose_32_avx2.
WrapsAbove == IF set = 44 THEN 87 * GAMMA2 ELSE 31 * GAMMA2

\* Of mld_poly_use_hint_88_avx2 and mld_poly_use_hint_32_avx2: the latter has
\* the factor of the former, which no coefficient exceeds.
HintWrapsAbove == 87 * GAMMA2

\* Reduction modulo 44 by comparison, modulo 16 by a mask.
use_hint_avx2(a, h) ==
  LET t == IF Low_avx2(a, HintWrapsAbove) > 0 THEN h ELSE -h
      f == High_avx2(a, HintWrapsAbove) + t
  IN  IF set # 44 THEN f % 16
      ELSE IF f < 0 THEN 43 ELSE IF f > 43 THEN 0 ELSE f

-----------------------------------------------------------------------------
(* The signer and the verifier.                                            *)

Representatives(x) == {y \in {x - Q, x, x + Q} : -Q < y /\ y < Q}

Init ==
  /\ set \in ParameterSets /\ phase = "multiply"
  /\ w = 0 /\ cs2 = 0 /\ ct0 = 0 /\ w0 = 0 /\ w1 = 0
  /\ hint = 0 /\ recovered = 0

\* w = A y, made canonical and decomposed, by the kernel or by the C code.
Decompose ==
  /\ phase = "multiply"
  /\ \E x \in Ws : \E y \in Representatives(x) :
       /\ w' = caddq(y)
       /\ \/ w1' = High(w') /\ w0' = Low(w')
          \/ w1' = High_avx2(w', WrapsAbove) /\ w0' = Low_avx2(w', WrapsAbove)
  /\ phase' = "decomposed"
  /\ UNCHANGED <<set, cs2, ct0, hint, recovered>>

\* Coefficients of c s2 are at most BETA = TAU ETA in size.
SubtractCS2 ==
  /\ phase = "decomposed"
  /\ \E e \in CS2s : \E y \in Representatives(e) :
       /\ -BETA =< e /\ e =< BETA
       /\ cs2' = e
       /\ w0' = reduce32(w0 - y)
       /\ phase' = IF ChkNorm(w0', GAMMA2 - BETA) THEN "rejected" ELSE "reduced"
  /\ UNCHANGED <<set, w, ct0, w1, hint, recovered>>

AddCT0 ==
  /\ phase = "reduced"
  /\ \E t \in CT0s : \E y \in Representatives(t) :
       /\ -Q < 2 * t /\ 2 * t < Q
       /\ ct0' = t
       /\ IF ChkNorm(reduce32(y), GAMMA2)
            THEN /\ phase' = "rejected"
                 /\ UNCHANGED <<w0, hint>>
            ELSE /\ w0' = w0 + reduce32(y)
                 /\ hint' = make_hint(w0', w1)
                 /\ phase' = "signed"
  /\ UNCHANGED <<set, w, cs2, w1, recovered>>

\* What the verifier computes from the signature and the public key.
Reconstructed == (w - cs2 + ct0) % Q

UseHint ==
  /\ phase = "signed"
  /\ recovered' \in {use_hint(Reconstructed, hint), use_hint_avx2(Reconstructed, hint)}
  /\ phase' = "verified"
  /\ UNCHANGED <<set, w, cs2, ct0, w0, w1, hint>>

Next == Decompose \/ SubtractCS2 \/ AddCT0 \/ UseHint

Spec == Init /\ [][Next]_vars

-----------------------------------------------------------------------------
(* The specification: FIPS 204, Algorithms 36 to 40.                       *)

\* The residue of x modulo m that is closest to 0 (m is even).
CentredMod(x, m) == IF 2 * (x % m) > m THEN (x % m) - m ELSE x % m

\* Decompose, for x in 0 .. Q - 1.
LowBits(x) == LET r == CentredMod(x, 2 * GAMMA2)
              IN  IF x - r = Q - 1 THEN r - 1 ELSE r
HighBits(x) == LET r == CentredMod(x, 2 * GAMMA2)
               IN  IF x - r = Q - 1 THEN 0 ELSE (x - r) \div (2 * GAMMA2)

Canonical(x) == x \in Int /\ 0 =< x /\ x < Q
Small(x, bound) == -bound < x /\ x < bound

TypeOK ==
  /\ set \in ParameterSets
  /\ phase \in {"multiply", "decomposed", "reduced", "rejected", "signed",
                "verified"}
  /\ Canonical(w) /\ cs2 \in Int /\ ct0 \in Int
  /\ w0 \in Int /\ -Q < w0 /\ w0 < Q /\ w1 \in 0 .. TopHigh
  /\ hint \in {0, 1} /\ recovered \in 0 .. TopHigh

\* Multiplying and shifting divides exactly: the bits are those of FIPS 204,
\* up to the last interval below Q, where they wrap.
DecomposeExact ==
  phase = "decomposed" => w1 = HighBits(w) /\ w0 = LowBits(w)

\* An attempt is rejected for w - c s2 or c t0 exactly when FIPS 204 says so.
\* The code looks at the low bits of w less c s2, where FIPS 204 decomposes
\* w - c s2 anew, and it looks at whatever representative mld_reduce32 gives.
RejectsAsSpecified ==
  /\ phase \in {"reduced", "signed", "verified"} =>
       Small(LowBits((w - cs2) % Q), GAMMA2 - BETA)
  /\ phase \in {"signed", "verified"} => Small(ct0, GAMMA2)
  /\ phase = "rejected" =>
       \/ ~Small(LowBits((w - cs2) % Q), GAMMA2 - BETA)
       \/ ~Small(ct0, GAMMA2)

\* The hint is set exactly when c t0 moves the high bits.
HintAsSpecified ==
  phase \in {"signed", "verified"} =>
    (hint = 1 <=> HighBits(Reconstructed) # HighBits((w - cs2) % Q))

\* The verifier hashes the high bits that the signer hashed.
VerifierSeesW1 == phase = "verified" => recovered = w1
=============================================================================
