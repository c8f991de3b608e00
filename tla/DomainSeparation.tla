-------------------------- MODULE DomainSeparation --------------------------
(***************************************************************************)
(* mld_prepare_domain_separation_prefix and what it calls (sign.c): the    *)
(* bytes that keep messages, contexts and pre-hashed messages of pure      *)
(* ML-DSA and HashML-DSA apart.  Byte strings are sequences.               *)
(***************************************************************************)
EXTENDS Integers, Sequences

CONSTANT MaxContext    \* 255: the longest context, the largest uint8_t

ASSUME DomainSeparationAssumption == MaxContext \in Nat

PREHASH_NONE == 0
PREHASH_SHAKE_256 == 12
Algorithm == 1 .. 12          \* MLD_PREHASH_SHA2_224 .. MLD_PREHASH_SHAKE_256

\* Digest lengths in bytes, in the order of the constants.
HashLength == <<28, 32, 48, 64, 28, 32, 28, 32, 48, 64, 32, 64>>

\* mld_validate_hash_length; a NULL digest is the empty sequence.
ValidDigest(alg, ph) == alg \in Algorithm /\ Len(ph) = HashLength[alg]

LastOidByte == <<4, 1, 2, 3, 5, 6, 7, 8, 9, 10, 11, 12>>

\* mld_get_hash_oid: the object identifiers differ in their last byte.
HashOid(alg) == <<6, 9, 96, 134, 72, 1, 101, 3, 4, 2, LastOidByte[alg]>>

\* The prefix for a context and an algorithm that were found acceptable.
PrefixBytes(ph, ctx, alg) ==
  <<IF alg = PREHASH_NONE THEN 0 ELSE 1, Len(ctx) % (MaxContext + 1)>> \o ctx
    \o (IF alg = PREHASH_NONE THEN <<>> ELSE HashOid(alg) \o ph)

Acceptable(ph, ctx, alg) ==
  Len(ctx) =< MaxContext /\ (alg = PREHASH_NONE \/ ValidDigest(alg, ph))

\* Fault: the context length is cut to a byte unchecked.
PrefixLongContext(ph, ctx, alg) ==
  IF alg = PREHASH_NONE \/ ValidDigest(alg, ph)
    THEN PrefixBytes(ph, ctx, alg) ELSE <<>>

\* Empty when the caller's arguments are refused.
Prefix(ph, ctx, alg) ==
  IF Acceptable(ph, ctx, alg) THEN PrefixBytes(ph, ctx, alg) ELSE <<>>
=============================================================================
