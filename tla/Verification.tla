---------------------------- MODULE Verification ----------------------------
(***************************************************************************)
(* Signature verification: mld_sign_verify, _verify_extmu and the two      *)
(* pre-hash variants down to mld_sign_verify_internal (sign.c), run on     *)
(* what arrives of one signature.                                          *)
(*                                                                         *)
(* Hash functions are symbolic: a hash is the sequence of its inputs, so   *)
(* different inputs never collide.  A polynomial is the set of parts it    *)
(* was computed from, each by its name if it is the signer's and "other"   *)
(* if it is not; the commitment of the signer comes out again exactly when *)
(* all five parts went into it and nothing else did.                       *)
(***************************************************************************)
EXTENDS DomainSeparation, ReturnCodes

CONSTANTS
  KeyIds,            \* names of key material
  Requests,          \* [entry, alg, ctx, m] the clients may ask for
  Shake256(_),       \* SHAKE256 with 64 bytes of output, on messages
  CRYPTO_BYTES,      \* length of a signature
  SigLengths,        \* lengths a verifier may be given
  REDUCE_RAM         \* MLD_CONFIG_REDUCE_RAM: t1 and w1 share memory

EntryPoints == {"pure", "extmu", "pre_hash_internal", "pre_hash_shake256"}

ASSUME VerificationAssumption ==
  /\ KeyIds \subseteq Int
  /\ \A r \in Requests :
       /\ r.entry \in EntryPoints /\ r.alg \in Int
       /\ r.ctx \in Seq(Int) /\ r.m \in Seq(Int)
  /\ \A r, q \in {a \in Requests : a.entry = "pre_hash_shake256"} :
       /\ Shake256(r.m) \in Seq(Int) /\ Len(Shake256(r.m)) = 64
       /\ Shake256(r.m) = Shake256(q.m) => r.m = q.m
  /\ SigLengths \subseteq Int /\ CRYPTO_BYTES \in SigLengths
  /\ REDUCE_RAM \in BOOLEAN

PublicKey == [rho : KeyIds, t1 : KeyIds]
Parts == {"rho", "t1", "c", "z", "h"}

\* The digest and the algorithm that go into the prefix, and the message
\* that follows it.
Digest(r) == CASE r.entry = "pre_hash_shake256" -> Shake256(r.m)
               [] r.entry = "pre_hash_internal" -> r.m
               [] OTHER -> <<>>
HashAlg(r) == CASE r.entry = "pre_hash_shake256" -> PREHASH_SHAKE_256
                [] r.entry = "pre_hash_internal" -> r.alg
                [] OTHER -> PREHASH_NONE
Text(r) == IF r.entry = "pure" THEN r.m ELSE <<>>

PrefixOf(r) == Prefix(Digest(r), r.ctx, HashAlg(r))
Refused(r) == r.entry # "extmu" /\ PrefixOf(r) = <<>>

\* mu = CRH(H(pk), pre, m)
Mu(key, bytes) == <<key.rho, key.t1>> \o bytes
MuOf(key, r) == IF r.entry = "extmu" THEN r.m ELSE Mu(key, PrefixOf(r) \o Text(r))

\* c = H(mu, w1); 1 is the signer's w1, 0 any other.
Challenge(w1, mu) == <<w1>> \o mu

VARIABLES
  pc,
  signed,     \* history: [key, request, sig], what the signer signed
  request,    \* arguments of the verification running
  pk, sig, siglen,
  ret,
  pre, mu,    \* prefix, message representative
  rho, t1, w1, tmp, cp, z, h,   \* the buffers of mld_sign_verify_internal
  failed      \* history: an allocation failed in this call

vars == <<pc, signed, request, pk, sig, siglen, ret, pre, mu, rho, t1, w1,
          tmp, cp, z, h, failed>>
args == <<signed, request, pk, sig, siglen>>
buffers == <<rho, t1, w1, tmp, cp, z, h>>

\* A signature by key of request r.
SignatureOf(key, r) == [c |-> Challenge(1, MuOf(key, r)), z |-> "z", h |-> "h"]

\* Signing is modelled in module Signing; here it has happened.
Init ==
  /\ pc = "idle"
  /\ \E k \in KeyIds, r \in {q \in Requests : ~Refused(q)} :
       LET key == [rho |-> k, t1 |-> k]
       IN  signed = [key |-> key, request |-> r, sig |-> SignatureOf(key, r)]
  /\ request = signed.request /\ pk = signed.key /\ sig = signed.sig
  /\ siglen = CRYPTO_BYTES
  /\ ret = Unset /\ pre = <<>> /\ mu = <<>>
  /\ rho = {} /\ t1 = {} /\ w1 = {} /\ tmp = {} /\ cp = {} /\ z = {} /\ h = {}
  /\ failed = FALSE

Blank == /\ mu' = <<>> /\ rho' = {} /\ t1' = {} /\ w1' = {}
         /\ tmp' = {} /\ cp' = {} /\ z' = {} /\ h' = {}

\* A signature some part of which is not the signer's; no commitment hashes
\* to the wrong challenge, which is told by its 2.
Altered ==
  [c : {signed.sig.c, Challenge(2, MuOf(signed.key, signed.request))},
   z : {"z", "other", "long"}, h : {"h", "other", "malformed"}]

\* A verification begins: of the signed request with any key, any signature
\* or any length, or of any request.  mld_sign_verify_pre_hash_shake256
\* hashes the message; only mld_sign_verify_extmu does without a prefix.
Call ==
  /\ pc = "idle"
  /\ \/ /\ pk' \in PublicKey
        /\ UNCHANGED <<signed, request, sig, siglen>>
     \/ /\ sig' \in Altered
        /\ UNCHANGED <<signed, request, pk, siglen>>
     \/ /\ siglen' \in SigLengths
        /\ UNCHANGED <<signed, request, pk, sig>>
     \/ /\ request' \in Requests
        /\ UNCHANGED <<signed, pk, sig, siglen>>
  /\ pc' = IF request'.entry = "extmu" THEN "alloc" ELSE "prefix"
  /\ ret' = Unset /\ failed' = FALSE
  /\ UNCHANGED <<pre, mu, buffers>>

PreparePrefix ==
  /\ pc = "prefix"
  /\ pre' = PrefixOf(request)
  /\ IF pre' = <<>>
       THEN ret' = FAIL /\ pc' = "epilogue"
       ELSE pc' = "alloc" /\ UNCHANGED ret
  /\ UNCHANGED <<args, mu, buffers, failed>>

-----------------------------------------------------------------------------
(* mld_sign_verify_internal                                                *)

AllocationFails ==
  /\ pc = "alloc" /\ pc' = "cleanup"
  /\ ret' = OUT_OF_MEMORY /\ failed' = TRUE
  /\ UNCHANGED <<args, pre, mu, buffers>>

Proceed(from, to, ok) ==
  /\ pc = from
  /\ IF ok THEN pc' = to /\ UNCHANGED ret
           ELSE pc' = "cleanup" /\ ret' = FAIL
  /\ UNCHANGED <<args, pre, failed>>

CheckLength ==
  Proceed("alloc", "unpack", siglen = CRYPTO_BYTES) /\ UNCHANGED <<mu, buffers>>

\* What a buffer holds that was read from the signer's part, or not.
Part(name, genuine) == {IF genuine THEN name ELSE "other"}

\* mld_unpack_pk, mld_unpack_sig
Unpack ==
  /\ Proceed("unpack", "norm", sig.h # "malformed")
  /\ rho' = Part("rho", pk.rho = signed.key.rho)
  /\ t1' = Part("t1", pk.t1 = signed.key.t1)
  /\ cp' = Part("c", sig.c = signed.sig.c)
  /\ z' = Part("z", sig.z = signed.sig.z)
  /\ h' = Part("h", sig.h = signed.sig.h)
  /\ UNCHANGED <<mu, w1, tmp>>

\* mld_polyvecl_chknorm
CheckNorm ==
  Proceed("norm", "mu", sig.z # "long") /\ UNCHANGED <<mu, buffers>>

DeriveMu ==
  /\ Proceed("mu", "ct1", TRUE)
  /\ mu' = IF request.entry = "extmu" THEN request.m
           ELSE Mu(pk, pre \o Text(request))
  /\ UNCHANGED buffers

\* Writing one member of the union destroys the other.
Clobbered(other) == IF REDUCE_RAM THEN {"other"} ELSE other

\* Fault: w1 is computed before t1 was used.
MultiplyAfterW1 ==
  /\ Proceed("ct1", "az", TRUE)
  /\ tmp' = cp \cup Clobbered(t1)
  /\ UNCHANGED <<mu, rho, t1, w1, cp, z, h>>

\* tmp = c t1
MultiplyT1 ==
  /\ Proceed("ct1", "az", TRUE)
  /\ tmp' = cp \cup t1
  /\ w1' = Clobbered(w1)
  /\ UNCHANGED <<mu, rho, t1, cp, z, h>>

\* w1 = A z - tmp
MultiplyMatrix ==
  /\ Proceed("az", "hint", TRUE)
  /\ w1' = rho \cup z \cup tmp
  /\ t1' = Clobbered(t1)
  /\ UNCHANGED <<mu, rho, tmp, cp, z, h>>

\* tmp = UseHint(w1, h), packed into buf
UseHint ==
  /\ Proceed("hint", "compare", TRUE)
  /\ tmp' = w1 \cup h
  /\ UNCHANGED <<mu, rho, t1, w1, cp, z, h>>

Conclude(different) ==
  /\ pc = "compare" /\ pc' = "cleanup"
  /\ ret' = IF sig.c = Challenge(IF tmp = Parts THEN 1 ELSE 0, mu)
              THEN 0 ELSE different
  /\ UNCHANGED <<args, pre, mu, buffers, failed>>

\* c2 = H(mu, buf), compared with c in constant time
Compare == Conclude(FAIL)

\* cleanup: MLD_FREE zeroizes and releases the buffers.
Cleanup ==
  /\ pc = "cleanup" /\ pc' = "epilogue"
  /\ Blank /\ UNCHANGED <<args, ret, pre, failed>>

-----------------------------------------------------------------------------

\* The entry point zeroizes its prefix and passes the verdict on.
Epilogue ==
  /\ pc = "epilogue" /\ pc' = "returned"
  /\ pre' = <<>>
  /\ UNCHANGED <<args, ret, mu, buffers, failed>>

\* The verifier has seen the verdict; what arrives next starts from the
\* genuine arguments again.
Return ==
  /\ pc = "returned" /\ pc' = "idle"
  /\ request' = signed.request /\ pk' = signed.key /\ sig' = signed.sig
  /\ siglen' = CRYPTO_BYTES
  /\ ret' = Unset /\ failed' = FALSE
  /\ UNCHANGED <<signed, pre, mu, buffers>>

Next ==
  \/ Call \/ PreparePrefix \/ AllocationFails \/ CheckLength \/ Unpack
  \/ CheckNorm \/ DeriveMu \/ MultiplyT1 \/ MultiplyMatrix \/ UseHint
  \/ Compare \/ Cleanup \/ Epilogue \/ Return

Spec == Init /\ [][Next]_vars

-----------------------------------------------------------------------------
(* Properties.                                                             *)

\* Types; a buffer only ever holds parts of what it is computed from.
TypeOK ==
  /\ pc \in {"idle", "prefix", "alloc", "unpack", "norm", "mu", "ct1", "az",
             "hint", "compare", "cleanup", "epilogue", "returned"}
  /\ signed.key \in PublicKey /\ signed.request \in Requests
  /\ signed.sig = SignatureOf(signed.key, signed.request)
  /\ request \in Requests /\ pk \in PublicKey /\ siglen \in SigLengths
  /\ sig.c \in Seq(Int) /\ sig.z \in {"z", "other", "long"}
  /\ sig.h \in {"h", "other", "malformed"}
  /\ ret \in {0, FAIL, OUT_OF_MEMORY, Unset}
  /\ pre \in Seq(Int) /\ mu \in Seq(Int)
  /\ \A b \in {rho, t1, w1, tmp, cp, z, h} : b \subseteq Parts \cup {"other"}
  /\ failed \in BOOLEAN

\* What a request stands for, in the words of FIPS 204 and not in bytes.
Meaning(r) == [hashed |-> r.entry # "pure", alg |-> HashAlg(r), ctx |-> r.ctx,
               digest |-> Digest(r), text |-> Text(r)]

\* The signature is for what the verifier asks about: the same context and
\* the same message, hashed in the same way; or the representative that a
\* client of the external-mu entry points computed himself.
SameStatement ==
  IF "extmu" \notin {request.entry, signed.request.entry}
    THEN Meaning(request) = Meaning(signed.request)
    ELSE MuOf(pk, request) = MuOf(signed.key, signed.request)

Genuine ==
  /\ ~Refused(request) /\ SameStatement
  /\ pk = signed.key /\ sig = signed.sig /\ siglen = CRYPTO_BYTES

\* Nothing but what was signed is accepted: no other context, split of bytes
\* between context and message, pre-hash, key, or part of the signature
\* (sign.c:1018-1084, 1386-1420).
AcceptsOnlyGenuine == pc = "returned" /\ ret = 0 => Genuine

\* What was signed is accepted through every entry point that speaks of it,
\* and a failed allocation is the only reason not to (sign.c:996-1084).
AcceptsGenuine == pc = "returned" /\ Genuine /\ ~failed => ret = 0

-----------------------------------------------------------------------------
(* What the documentation says and the code does not do.                   *)

\* "HashML-DSA.Verify. Verifies signature with pre-hashed message", for an
\* algorithm that is "one of MLD_PREHASH_*" (mldsa_native.h:654-666): what it
\* accepts was signed with the digest it was given.
PreHashCoversDigest ==
  pc = "returned" /\ ret = 0 /\ request.entry = "pre_hash_internal"
    /\ signed.request.entry # "extmu"
  => Digest(signed.request) = Digest(request)
=============================================================================
