----------------------------- MODULE Challenge ------------------------------
(***************************************************************************)
(* SampleInBall: mld_poly_challenge (poly_kl.c) draws the challenge, a     *)
(* polynomial with TAU coefficients 1 or -1 and all others 0, from SHAKE   *)
(* of its seed.  It is one of the callers of Sponge: it squeezes a block   *)
(* at a time into a buffer, and again whenever the buffer is used up.      *)
(*                                                                         *)
(* SHAKE is a random oracle here.  The values of its output bytes are      *)
(* chosen at the start: sign bits, then candidates for places.  The        *)
(* Horizon first candidates are arbitrary, the later ones 0, which is      *)
(* always accepted.                                                        *)
(***************************************************************************)
EXTENDS Sponge

CONSTANTS
  N,           \* MLDSA_N
  TAU,         \* MLDSA_TAU
  SeedBytes,   \* MLDSA_CTILDEBYTES
  SignBytes,   \* bytes at the start that hold the signs: 8
  Horizon      \* bound: candidates that vary

ASSUME ChallengeAssumption ==
  /\ N \in Nat /\ TAU \in 1 .. N
  /\ SeedBytes \in 0 .. MaxInput
  /\ SignBytes \in Nat \ {0} /\ SignBytes < Rate
  /\ Horizon \in Nat

VARIABLES
  step,                   \* of mld_poly_challenge; "idle" while others call
  candidates, signBits,   \* what SHAKE of the seed gives
  buf,                    \* the block squeezed last
  index,                  \* pos: index of the next byte in buf
  i,                      \* loop counter; N when the loop is over
  signs,                  \* sign bits shifted out
  c                       \* the polynomial

oracle == <<candidates, signBits>>
locals == <<buf, index, i, signs, c>>
challengeVars == <<step, oracle, locals>>

Indices == 0 .. N - 1
First == N - TAU
Loop == First .. N - 1

\* Byte b, counted from 0, of the output that follows the signs.
Candidate(b) == IF b < Horizon THEN candidates[b] ELSE 0

\* The value of an output byte; N stands for bytes that are not of the hash.
ValueOf(byte) ==
  LET places == {q \in SignBytes .. MaxOutput - 1 : Shake(message, q) = byte}
  IN  IF places = {} THEN N ELSE Candidate((CHOOSE q \in places : TRUE) - SignBytes)

ChallengeInit ==
  /\ Init
  /\ step = "idle"
  /\ candidates = [b \in 0 .. Horizon - 1 |-> 0]
  /\ signBits = [b \in 0 .. TAU - 1 |-> 0]
  /\ buf = <<>> /\ index = 0
  /\ i = First /\ signs = 0 /\ c = [k \in Indices |-> 0]

-----------------------------------------------------------------------------

\* Any other function that hashes.
OtherCaller == step = "idle" /\ Next /\ UNCHANGED challengeVars

Start ==
  /\ step = "idle" /\ ShakeInit /\ step' = "absorb"
  /\ candidates' \in [0 .. Horizon - 1 -> Indices]
  /\ signBits' \in [0 .. TAU - 1 -> {0, 1}]
  /\ UNCHANGED locals

AbsorbSeed ==
  /\ step = "absorb" /\ step' = "finalize"
  /\ \E b \in Byte : Absorb([k \in 1 .. SeedBytes |-> b])
  /\ UNCHANGED <<oracle, locals>>

\* The loops of keccak_absorb and keccak_squeeze.
Hash ==
  /\ step # "idle"
  /\ AbsorbBlock \/ AbsorbTail \/ SqueezeSome
  /\ UNCHANGED challengeVars

FinalizeSeed ==
  /\ step = "finalize" /\ Finalize /\ step' = "first_block"
  /\ UNCHANGED <<oracle, locals>>

FirstBlock ==
  /\ step = "first_block" /\ Squeeze(Rate) /\ step' = "signs"
  /\ UNCHANGED <<oracle, locals>>

Squeezed == SubSeq(out, Len(out) - Rate + 1, Len(out))

\* The sign bits are moved to signs, and the polynomial is cleared.
TakeSigns ==
  /\ step = "signs" /\ SqueezeDone /\ step' = "sample"
  /\ buf' = Squeezed /\ index' = SignBytes
  /\ signs' = 0 /\ c' = [k \in Indices |-> 0] /\ i' = First
  /\ UNCHANGED oracle

\* A used up buffer is squeezed anew.
Refill ==
  /\ step = "sample" /\ i < N /\ index >= Rate
  /\ Squeeze(Rate) /\ step' = "refill"
  /\ UNCHANGED <<oracle, locals>>

RefilledFrom(start) ==
  /\ step = "refill" /\ SqueezeDone /\ step' = "sample"
  /\ buf' = Squeezed /\ index' = start
  /\ UNCHANGED <<oracle, i, signs, c>>

\* Fault: the new block is not read from its start.
RefilledAsFirst == RefilledFrom(SignBytes)

Refilled == RefilledFrom(0)

Swap(j) == [c EXCEPT ![i] = c[j], ![j] = 1 - 2 * signBits[signs]]

\* One round of the do loop; the last one is followed by the rest of the body.
NextByte ==
  /\ step = "sample" /\ i < N /\ index < Rate
  /\ index' = index + 1
  /\ LET j == ValueOf(buf[index + 1])
     IN  IF j > i
           THEN UNCHANGED <<i, signs, c>>
           ELSE /\ c' = Swap(j)
                /\ signs' = signs + 1 /\ i' = i + 1
  /\ UNCHANGED <<spongeVars, step, oracle, buf>>

\* buf and signs are zeroized.
Drawn ==
  /\ step = "sample" /\ i = N
  /\ Release /\ step' = "drawn"
  /\ buf' = <<>> /\ signs' = 0
  /\ UNCHANGED <<oracle, index, i, c>>

ChallengeNext ==
  \/ OtherCaller
  \/ Start \/ AbsorbSeed \/ Hash \/ FinalizeSeed \/ FirstBlock \/ TakeSigns
  \/ Refill \/ Refilled \/ NextByte \/ Drawn

ChallengeSpec ==
  ChallengeInit /\ [][ChallengeNext]_<<spongeVars, challengeVars>>

-----------------------------------------------------------------------------
(* The specification: FIPS 204 takes one byte at a time from the stream.   *)

\* Number of the candidate that round k of the loop accepts.
Taken[k \in Loop] ==
  LET from == IF k = First THEN 0 ELSE Taken[k - 1] + 1
  IN  CHOOSE b \in from .. from + Horizon :
        /\ Candidate(b) =< k
        /\ \A d \in from .. b - 1 : Candidate(d) > k

\* The polynomial after rounds First to k - 1.
InBall[k \in First .. N] ==
  IF k = First THEN [x \in Indices |-> 0]
  ELSE LET d == InBall[k - 1]
           j == Candidate(Taken[k - 1])
       IN  [x \in Indices |-> CASE x = j -> IF signBits[k - 1 - First] = 0
                                              THEN 1 ELSE -1
                                [] x = k - 1 /\ x # j -> d[j]
                                [] OTHER -> d[x]]

\* Wherever a block of the hash ends, no byte of it is skipped or used twice:
\* the polynomial is the one of the byte-wise algorithm.
ChallengeAsSpecified == c = InBall[i]
=============================================================================
