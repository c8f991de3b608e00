------------------------------ MODULE Signing ------------------------------
(***************************************************************************)
(* Signature generation: every public signing entry point of               *)
(* mldsa/src/sign.c down to mld_sign_signature_internal, its rejection     *)
(* loop and mld_attempt_signature_generation.                              *)
(*                                                                         *)
(* Control is kept whole: every early return, every check that can reject  *)
(* a candidate, every write to the caller's buffers and their order.  The  *)
(* data is reduced to its provenance: a buffer holds the number of the     *)
(* attempt its contents were computed from, NoAttempt before it is         *)
(* written, and Mixed once it combines two attempts or reads a buffer      *)
(* that something else has overwritten.  Buffers of a function are dead    *)
(* once it leaves: that it zeroizes them is a matter of module Allocation. *)
(***************************************************************************)
EXTENDS ReturnCodes, FiniteSets

CONSTANTS
  K, L,                  \* dimensions of the public matrix
  UINT16_MAX,            \* largest uint16_t, scaled down for model checking
  CTILDEBYTES,           \* bytes of the challenge in a signature
  POLYZ_PACKEDBYTES,     \* bytes of one packed polynomial of z
  POLYW1_PACKEDBYTES,    \* bytes of one packed polynomial of w1
  CRYPTO_BYTES,          \* bytes of a signature
  REDUCE_RAM,            \* MLD_CONFIG_REDUCE_RAM: y/h and w1/tmp share memory
  RNG_REPORTS_STATUS,    \* does randombytes return a status (see RandomBytes)
  Entries,               \* the entry points the client calls
  MessageLengths         \* lengths of the messages the client signs

EntryPoints == {"signature_internal", "signature", "signature_extmu", "sign",
                "pre_hash_internal", "pre_hash_shake256"}

ASSUME SigningAssumption ==
  /\ K \in Nat \ {0} /\ L \in Nat \ {0}
  /\ UINT16_MAX \in Nat /\ UINT16_MAX >= 2 * L
  /\ CTILDEBYTES \in Nat \ {0} /\ POLYZ_PACKEDBYTES \in Nat \ {0}
  /\ POLYW1_PACKEDBYTES \in Nat \ {0} /\ CRYPTO_BYTES \in Nat \ {0}
  /\ REDUCE_RAM \in BOOLEAN /\ RNG_REPORTS_STATUS \in BOOLEAN
  /\ Entries \subseteq EntryPoints
  /\ MessageLengths \subseteq Nat

NoAttempt == -1
Mixed == -2
CallerValue == -1       \* *siglen before the callee writes it

(***************************************************************************)
(* The signature buffer is a row of regions: 0 is the challenge, 1 .. L    *)
(* are the polynomials of z, L+1 is the hint.  A region holds what was     *)
(* last written into it and the attempt it belongs to.                     *)
(***************************************************************************)
Lane == 0 .. L - 1
Region == 0 .. L + 1
HintRegion == L + 1
Kind == {"caller", "zero", "w1", "c", "z", "h"}
Content == [kind : Kind, of : Int]

RegionStart(r) ==
  IF r = 0 THEN 0 ELSE CTILDEBYTES + (r - 1) * POLYZ_PACKEDBYTES

\* mld_polyveck_pack_w1 writes K packed polynomials from the start of sig.
W1Regions == {r \in Region : RegionStart(r) < K * POLYW1_PACKEDBYTES}

CallerBuffer == [r \in Region |-> [kind |-> "caller", of |-> NoAttempt]]
ZeroBuffer == [r \in Region |-> [kind |-> "zero", of |-> NoAttempt]]
KindOf(r) == IF r = 0 THEN "c" ELSE IF r = HintRegion THEN "h" ELSE "z"

\* The buffer a verifier accepts: every region from the one attempt a.
Signature(a) == [r \in Region |-> [kind |-> KindOf(r), of |-> a]]

\* What a computation that reads buffers of the attempts in S belongs to.
From(S) == IF \E a \in S : S = {a} THEN CHOOSE a \in S : TRUE ELSE Mixed

NONCE_UB == (UINT16_MAX - L) \div L

\* Fault: the attempt number itself numbers the lanes.
YNonceUnscaled(n, i) == (n + i) % (UINT16_MAX + 1)

\* nonce of lane i of y in mld_polyvecl_uniform_gamma1, in uint16_t arithmetic
YNonce(n, i) == (((L * n) % (UINT16_MAX + 1)) + i) % (UINT16_MAX + 1)

VARIABLES
  pc,         \* where the thread is
  entry,      \* the entry point being executed
  mlen,       \* message length of the call
  ret,        \* the callee's return code
  siglen,     \* *siglen (or *smlen)
  sig,        \* the signature buffer
  nonce,      \* rejection loop counter, uint16_t
  zi,         \* loop index of mld_compute_pack_z
  y, h,       \* union yh_u
  tmp, w1,    \* union w1tmp_u
  w0, cp,     \* low part of w, challenge polynomial
  used,       \* history: nonces that a y of this call was sampled with
  faults      \* history: what really failed in this call

vars == <<pc, entry, mlen, ret, siglen, sig, nonce, zi, y, h, tmp, w1, w0, cp,
          used, faults>>
attempt == <<zi, y, h, tmp, w1, w0, cp>>
call == <<entry, mlen>>

Init ==
  /\ pc = "idle" /\ entry = "none" /\ mlen = 0
  /\ ret = Unset /\ siglen = CallerValue /\ sig = CallerBuffer
  /\ nonce = 0 /\ zi = 0
  /\ y = NoAttempt /\ h = NoAttempt /\ tmp = NoAttempt /\ w1 = NoAttempt
  /\ w0 = NoAttempt /\ cp = NoAttempt
  /\ used = {} /\ faults = {}

-----------------------------------------------------------------------------
(* Entry points.                                                           *)

HasPrefix(e) == e \in {"signature", "sign", "pre_hash_internal",
                       "pre_hash_shake256"}
DrawsRandomness(e) == e \in {"signature", "sign", "signature_extmu"}
AllocatesPrefix(e) == e \in {"signature", "sign"}

\* A client calls entry point e; mld_sign first copies the message behind
\* the signature (MessageCopy), the SHAKE256 wrapper hashes it into ph.
Call(e) ==
  /\ pc = "idle"
  /\ entry' = e
  /\ mlen' \in MessageLengths
  /\ pc' = IF HasPrefix(e) THEN "prefix"
           ELSE IF DrawsRandomness(e) THEN "rng" ELSE "setup"
  /\ ret' = Unset /\ siglen' = CallerValue /\ sig' = CallerBuffer
  /\ nonce' = 0 /\ used' = {} /\ faults' = {}
  /\ UNCHANGED attempt

\* MLD_ALLOC of pre or rnd returned NULL.
PrefixOutOfMemory ==
  /\ pc = "prefix" /\ AllocatesPrefix(entry)
  /\ ret' = OUT_OF_MEMORY
  /\ faults' = faults \cup {"alloc"}
  /\ pc' = "epilogue"
  /\ UNCHANGED <<call, siglen, sig, nonce, attempt, used>>

\* mld_prepare_domain_separation_prefix: 0 for a context of over 255 bytes
\* or a pre-hash of the wrong length, otherwise the length of the prefix.
PreparePrefix ==
  /\ pc = "prefix"
  /\ \/ /\ ret' = FAIL /\ pc' = "epilogue"
     \/ /\ UNCHANGED ret
        /\ pc' = IF DrawsRandomness(entry) THEN "rng" ELSE "setup"
  /\ UNCHANGED <<call, siglen, sig, nonce, attempt, used, faults>>

(***************************************************************************)
(* mld_randombytes(rnd).  The library declares "int randombytes", 0 for    *)
(* success.  The Zephyr module defines "void randombytes" around           *)
(* sys_rand_get, so the int the caller reads is indeterminate: any value,  *)
(* whatever happened.                                                      *)
(***************************************************************************)
RandomBytes ==
  /\ pc = "rng"
  /\ \E failed, reported \in BOOLEAN :
       /\ IF RNG_REPORTS_STATUS THEN reported = failed ELSE ~failed
       /\ faults' = IF failed THEN faults \cup {"rng"} ELSE faults
       /\ IF reported
            THEN /\ ret' = RNG_FAIL
                 /\ pc' = "epilogue"
                 /\ siglen' = IF entry = "signature_extmu" THEN 0 ELSE siglen
            ELSE /\ pc' = "setup"
                 /\ UNCHANGED <<ret, siglen>>
  /\ UNCHANGED <<call, sig, nonce, attempt, used>>

-----------------------------------------------------------------------------
(* mld_sign_signature_internal and mld_attempt_signature_generation.       *)

SetupOutOfMemory ==
  /\ pc = "setup"
  /\ ret' = OUT_OF_MEMORY /\ pc' = "cleanup"
  /\ faults' = faults \cup {"alloc"}
  /\ UNCHANGED <<call, siglen, sig, nonce, attempt, used>>

\* Unpack the key, derive mu and rhoprime, expand the matrix, transform.
Setup ==
  /\ pc = "setup"
  /\ ret' = FAIL /\ pc' = "loop"
  /\ UNCHANGED <<call, siglen, sig, nonce, attempt, used, faults>>

NoncesExhausted ==
  /\ pc = "loop" /\ nonce = NONCE_UB
  /\ pc' = "cleanup"
  /\ UNCHANGED <<call, ret, siglen, sig, nonce, attempt, used, faults>>

NewAttempt ==
  /\ zi' = 0
  /\ y' = NoAttempt /\ h' = NoAttempt /\ tmp' = NoAttempt /\ w1' = NoAttempt
  /\ w0' = NoAttempt /\ cp' = NoAttempt
  /\ UNCHANGED <<call, ret, siglen, sig, nonce, used, faults>>

\* A new attempt on freshly allocated buffers.
BeginAttempt == pc = "loop" /\ nonce # NONCE_UB /\ pc' = "sample" /\ NewAttempt

\* One of the seven buffers of the attempt could not be allocated.
AttemptOutOfMemory ==
  /\ pc = "sample"
  /\ ret' = OUT_OF_MEMORY /\ pc' = "attempted"
  /\ faults' = faults \cup {"alloc"}
  /\ UNCHANGED <<call, siglen, sig, nonce, attempt, used>>

\* Writing one member of a union destroys the other.
Clobbered(other) == IF REDUCE_RAM THEN Mixed ELSE other

SampleY ==
  /\ pc = "sample" /\ pc' = "multiply"
  /\ y' = nonce /\ h' = Clobbered(h)
  /\ used' = used \cup {YNonce(nonce, i) : i \in Lane}
  /\ UNCHANGED <<call, ret, siglen, sig, nonce, zi, tmp, w1, w0, cp, faults>>

\* tmp = NTT(y); w0 = A tmp
Multiply ==
  /\ pc = "multiply" /\ pc' = "commit"
  /\ tmp' = y /\ w1' = Clobbered(w1)
  /\ w0' = tmp'
  /\ UNCHANGED <<call, ret, siglen, sig, nonce, zi, y, h, cp, used, faults>>

\* Fault: w1 shares its union with y instead of tmp.
CommitOverY ==
  /\ pc = "commit" /\ pc' = "z"
  /\ w1' = w0 /\ y' = Clobbered(y)
  /\ sig' = [r \in Region |-> IF r \in W1Regions
                                THEN [kind |-> "w1", of |-> w1'] ELSE sig[r]]
  /\ cp' = From({sig'[r].of : r \in W1Regions})
  /\ UNCHANGED <<call, ret, siglen, nonce, zi, tmp, h, w0, used, faults>>

\* (w1, w0) = Decompose(w0); w1 is packed over the beginning of sig, hashed
\* with mu from there, and the challenge polynomial derived from the hash.
Commit ==
  /\ pc = "commit" /\ pc' = "z"
  /\ w1' = w0 /\ tmp' = Clobbered(tmp)
  /\ sig' = [r \in Region |-> IF r \in W1Regions
                                THEN [kind |-> "w1", of |-> w1'] ELSE sig[r]]
  /\ cp' = From({sig'[r].of : r \in W1Regions})
  /\ UNCHANGED <<call, ret, siglen, nonce, zi, y, h, w0, used, faults>>

Reject ==
  /\ ret' = FAIL /\ pc' = "attempted"
  /\ UNCHANGED sig

\* Iteration zi of mld_compute_pack_z: z = y + c s1[zi], packed if short.
PackZUpTo(last) ==
  /\ pc = "z"
  /\ \/ Reject /\ UNCHANGED zi
     \/ /\ sig' = [sig EXCEPT ![zi + 1] =
                     [kind |-> "z", of |-> From({y, cp})]]
        /\ zi' = zi + 1
        /\ pc' = IF zi' = last THEN "w0" ELSE "z"
        /\ UNCHANGED ret
  /\ UNCHANGED <<call, siglen, nonce, y, h, tmp, w1, w0, cp, used, faults>>

PackZ == PackZUpTo(L)

\* h = c s2; w0 -= h; reject unless w0 is short.
CheckW0 ==
  /\ pc = "w0"
  /\ h' = cp /\ y' = Clobbered(y)
  /\ w0' = From({w0, cp})
  /\ \/ Reject
     \/ pc' = "ct0" /\ UNCHANGED <<ret, sig>>
  /\ UNCHANGED <<call, siglen, nonce, zi, tmp, w1, cp, used, faults>>

\* h = c t0; reject unless h is short; w0 += h.
CheckCT0 ==
  /\ pc = "ct0"
  /\ h' = cp /\ y' = Clobbered(y)
  /\ \/ Reject /\ UNCHANGED w0
     \/ pc' = "hint" /\ w0' = From({w0, cp}) /\ UNCHANGED <<ret, sig>>
  /\ UNCHANGED <<call, siglen, nonce, zi, tmp, w1, cp, used, faults>>

\* h = MakeHint(w0, w1), rejected with more than OMEGA ones, else packed
\* with the challenge: the signature is complete.
MakeHint ==
  /\ pc = "hint"
  /\ h' = From({w0, w1}) /\ y' = Clobbered(y)
  /\ \/ Reject
     \/ /\ sig' = [sig EXCEPT ![0] = [kind |-> "c", of |-> cp],
                              ![HintRegion] = [kind |-> "h", of |-> h']]
        /\ ret' = 0 /\ pc' = "attempted"
  /\ UNCHANGED <<call, siglen, nonce, zi, tmp, w1, w0, cp, used, faults>>

\* The attempt returned: go on with nonce n, once more or not.
AfterAttempt(n, again) ==
  /\ pc = "attempted"
  /\ nonce' = n
  /\ siglen' = IF ret = 0 THEN CRYPTO_BYTES ELSE siglen
  /\ pc' = IF again THEN "loop" ELSE "cleanup"
  /\ UNCHANGED <<call, ret, sig, attempt, used, faults>>

NextNonce == (nonce + 1) % (UINT16_MAX + 1)

\* Faults: every error is retried; none is; the nonce is not counted.
EndAttemptRetryAll == AfterAttempt(NextNonce, ret # 0)
EndAttemptNoRetry == AfterAttempt(NextNonce, FALSE)
EndAttemptSameNonce == AfterAttempt(nonce, ret = FAIL)

EndAttempt == AfterAttempt(NextNonce, ret = FAIL)

\* Fault: the length is reset on failure, the buffer is not.
CleanupKeepsBuffer ==
  /\ pc = "cleanup" /\ pc' = "epilogue"
  /\ siglen' = IF ret # 0 THEN 0 ELSE siglen
  /\ UNCHANGED <<call, ret, sig, nonce, attempt, used, faults>>

\* cleanup of mld_sign_signature_internal
Cleanup ==
  /\ pc = "cleanup" /\ pc' = "epilogue"
  /\ siglen' = IF ret # 0 THEN 0 ELSE siglen
  /\ sig' = IF ret # 0 THEN ZeroBuffer ELSE sig
  /\ UNCHANGED <<call, ret, nonce, attempt, used, faults>>

-----------------------------------------------------------------------------

\* Entry points that clear the caller's buffers themselves when they fail.
ClearsOnFailure(e) == HasPrefix(e)

\* The entry point clears the buffer on failure if it does, and mld_sign adds
\* the message to a length that is own.
Leave(own) ==
  /\ pc = "epilogue" /\ pc' = "returned"
  /\ sig' = IF ret # 0 /\ ClearsOnFailure(entry) THEN ZeroBuffer ELSE sig
  /\ siglen' = IF entry = "sign" THEN own + mlen ELSE own
  /\ UNCHANGED <<call, ret, nonce, attempt, used, faults>>

OwnLength == IF ret # 0 /\ ClearsOnFailure(entry) THEN 0 ELSE siglen

\* Fault: mld_sign reports the length of a signed message when there is none.
EpilogueFixedLength ==
  Leave(IF entry = "sign" THEN CRYPTO_BYTES ELSE OwnLength)

\* What the entry points do after the internal function returned.
Epilogue == Leave(OwnLength)

\* The caller has seen the result and may call again.
Return ==
  /\ pc = "returned" /\ pc' = "idle"
  /\ UNCHANGED <<call, ret, siglen, sig, nonce, attempt, used, faults>>

Running ==
  \/ PrefixOutOfMemory \/ PreparePrefix \/ RandomBytes
  \/ SetupOutOfMemory \/ Setup
  \/ NoncesExhausted \/ BeginAttempt \/ AttemptOutOfMemory
  \/ SampleY \/ Multiply \/ Commit \/ PackZ \/ CheckW0 \/ CheckCT0 \/ MakeHint
  \/ EndAttempt \/ Cleanup \/ Epilogue

Next == Running \/ Return \/ \E e \in Entries : Call(e)

Spec == Init /\ [][Next]_vars

\* The library is a plain function call: the thread inside it keeps running.
FairSpec == Spec /\ WF_vars(Running)

-----------------------------------------------------------------------------
(* Properties.                                                             *)

PcValue == {"idle", "prefix", "rng", "setup", "loop", "sample", "multiply",
            "commit", "z", "w0", "ct0", "hint", "attempted", "cleanup",
            "epilogue", "returned"}

\* Every variable has the type the C declarations give it; in particular
\* nonce stays a uint16_t below the bound the loop tests for (sign.c:811).
TypeOK ==
  /\ pc \in PcValue
  /\ entry \in Entries \cup {"none"} /\ mlen \in Nat
  /\ ret \in {0, FAIL, OUT_OF_MEMORY, RNG_FAIL, Unset}
  /\ siglen \in Nat \cup {CallerValue}
  /\ sig \in [Region -> Content]
  /\ nonce \in 0 .. NONCE_UB
  /\ zi \in 0 .. L
  /\ \A b \in {y, h, tmp, w1, w0, cp} : b \in Int
  /\ used \subseteq Nat
  /\ faults \subseteq {"alloc", "rng"}

Appended == IF entry = "sign" THEN mlen ELSE 0

\* A call either hands out one whole signature - challenge, every z and hint
\* all of the last attempt, none left from the scratch use of the buffer or
\* from a rejected attempt - or reports failure with the buffer cleared and
\* a signature length of 0, to which mld_sign adds the length of the message
\* all the same.  (mld_sign_signature_extmu leaves the buffer as it found it
\* when randomness fails: sign.c:929-934.)
SignatureOrNothing ==
  pc = "returned" =>
    IF ret = 0
      THEN siglen = CRYPTO_BYTES + Appended /\ sig = Signature(nonce - 1)
      ELSE /\ siglen = Appended
           /\ \/ sig = ZeroBuffer
              \/ /\ entry = "signature_extmu" /\ ret = RNG_FAIL
                 /\ sig = CallerBuffer

\* A masking vector never repeats: the L nonces of the next y are distinct
\* and no earlier attempt of this call used one of them (sign.c:525-533).
NonceFresh ==
  pc = "sample" =>
    \A i \in Lane : /\ YNonce(nonce, i) \notin used
                    /\ \A j \in Lane : YNonce(nonce, i) = YNonce(nonce, j)
                                         => i = j

\* The return code names what happened: out of memory exactly when an
\* allocation failed, RNG failure exactly when the generator failed
\* (mldsa_native.h:125-134), however deep in the call it was.
ErrorCodeTruthful ==
  pc = "returned" => /\ (ret = OUT_OF_MEMORY) <=> ("alloc" \in faults)
                     /\ (ret = RNG_FAIL) <=> ("rng" \in faults)

\* Once it samples, signing gives up only when every nonce was tried:
\* no single rejected candidate makes the call fail (sign.c:806-833).
NeverGivesUpEarly ==
  pc = "returned" /\ ret = FAIL => used = {} \/ nonce = NONCE_UB

\* A buffer is read as a member of its union only while that member is the
\* one last written: y until z is packed, tmp until w is computed, and w0,
\* w1, h of the current attempt when the hint is made (sign.c:590-608).
UnionsReadInTime ==
  /\ pc = "multiply" => y = nonce
  /\ pc = "z" => y = nonce /\ cp = nonce
  /\ pc = "hint" => w0 = nonce /\ w1 = nonce

-----------------------------------------------------------------------------
(* What the documentation says and the code does not do.                   *)

\* "An rng failure occured" (mldsa_native.h:132): MLD_ERR_RNG_FAIL is only
\* returned when the generator failed.
RngErrorMeansRngFailure ==
  pc = "returned" /\ ret = RNG_FAIL => "rng" \in faults

-----------------------------------------------------------------------------
(* Signing implements SignatureService.                                    *)

BufferClass ==
  CASE sig = CallerBuffer -> "untouched"
    [] sig = ZeroBuffer -> "cleared"
    [] \E a \in 0 .. NONCE_UB : sig = Signature(a) -> "signature"
    [] OTHER -> "unknown"

InCall == pc \notin {"idle", "returned"}

\* The rejection loop is bounded: every call returns.
EveryCallReturns == InCall ~> (pc = "returned")

Service == INSTANCE SignatureService WITH
  SignEntries <- Entries,
  RandomizedEntries <- {e \in EntryPoints : DrawsRandomness(e)},
  SignatureBytes <- CRYPTO_BYTES,
  phase <- IF InCall THEN "busy"
           ELSE IF pc = "idle" THEN "idle" ELSE "answered",
  request <- [entry |-> entry, mlen |-> mlen],
  answer <- IF InCall \/ ret = Unset
              THEN [code |-> 1, len |-> 0, buffer |-> "unknown"]
              ELSE [code |-> ret, len |-> siglen, buffer |-> BufferClass]

\* The whole of sign.c's signing side, seen through its return code, length
\* and buffer, is a signature service.
ImplementsService == Service!ServiceSpec
=============================================================================
