------------------------- MODULE VerificationProofs -------------------------
(***************************************************************************)
(* Verification accepts what was signed and nothing else, for any keys,    *)
(* contexts, messages, digests and lengths.                                *)
(*                                                                         *)
(* IInv says of each stage of mld_sign_verify_internal what it computed,   *)
(* so that at the comparison the recomputed commitment is the signer's     *)
(* exactly when all five parts are, and the message representative is the  *)
(* one of the request.  MuTells then reads the request back from it, which *)
(* is where the domain separation is needed.                               *)
(***************************************************************************)
EXTENDS Verification, SequenceTheorems, TLAPS

-----------------------------------------------------------------------------
(* The prefix in front of a message says where it ends, whether the        *)
(* message is hashed, and how: two requests with the same bytes are the    *)
(* same request, for any contexts, messages and digests.                   *)

\* Sequences that are equal and are cut at the same place have equal parts.
SplitsAlike(a1, b1, a2, b2) == a1 \o b1 = a2 \o b2 => a1 = a2 /\ b1 = b2

LEMMA CutAtSamePlace ==
  ASSUME NEW a1 \in Seq(Int), NEW b1 \in Seq(Int),
         NEW a2 \in Seq(Int), NEW b2 \in Seq(Int), Len(a1) = Len(a2)
  PROVE  SplitsAlike(a1, b1, a2, b2)
<1> SUFFICES ASSUME a1 \o b1 = a2 \o b2 PROVE a1 = a2 /\ b1 = b2
  BY DEF SplitsAlike
<1>1. /\ Len(a1) \in Nat
      /\ \A i \in 1 .. Len(a1) + Len(b1) :
           (a1 \o b1)[i] = IF i =< Len(a1) THEN a1[i] ELSE b1[i - Len(a1)]
      /\ \A i \in 1 .. Len(a2) + Len(b2) :
           (a2 \o b2)[i] = IF i =< Len(a2) THEN a2[i] ELSE b2[i - Len(a2)]
  BY ConcatProperties, LenProperties
<1>2. Len(b1) \in Nat /\ Len(b2) \in Nat
  BY LenProperties
<1>3. \A i \in 1 .. Len(a1) : a1[i] = a2[i]
  BY <1>1, <1>2
<1>4. a1 = a2
  BY <1>3, SeqEqual
<1> QED BY <1>4, ConcatSimplifications

\* Concatenation of byte strings, as the steps below use it.
LEMMA Joined ==
  ASSUME NEW a \in Seq(Int), NEW b \in Seq(Int)
  PROVE  a \o b \in Seq(Int) /\ Len(a \o b) = Len(a) + Len(b)
BY ConcatProperties

LEMMA EmptyJoined ==
  ASSUME NEW a \in Seq(Int), NEW b \in Seq(Int), a # <<>>
  PROVE  a \o b # <<>>
BY ConcatProperties, EmptySeq, LenProperties

LEMMA Regrouped ==
  ASSUME NEW a \in Seq(Int), NEW b \in Seq(Int), NEW c \in Seq(Int)
  PROVE  (a \o b) \o c = a \o (b \o c)
BY ConcatAssociative

\* Four strings in a row, however they were put together.
SameString(a, b, c, d) == ((a \o b) \o c) \o d = a \o (b \o (c \o d))

LEMMA FourParts ==
  ASSUME NEW a \in Seq(Int), NEW b \in Seq(Int), NEW c \in Seq(Int),
         NEW d \in Seq(Int)
  PROVE  SameString(a, b, c, d)
<1>1. a \o b \in Seq(Int)
  BY Joined, Zenon
<1>2. c \o d \in Seq(Int)
  BY Joined, Zenon
<1>3. ((a \o b) \o c) \o d = (a \o b) \o (c \o d)
  BY <1>1, Regrouped, Zenon
<1>4. (a \o b) \o (c \o d) = a \o (b \o (c \o d))
  BY <1>2, Regrouped, ZenonT(60)
<1> QED BY <1>3, <1>4, Zenon DEF SameString

\* A context that is not too long has a length that fits into its byte.
LEMMA ByteHoldsLength ==
  ASSUME NEW n \in Nat, NEW k \in Nat, n =< k
  PROVE  n % (k + 1) = n
OBVIOUS

LEMMA OidBytes == \A x \in Algorithm : LastOidByte[x] \in Int
BY DEF Algorithm, LastOidByte

\* No two algorithms share an object identifier.
LEMMA OidsDiffer ==
  \A x, y \in Algorithm : LastOidByte[x] = LastOidByte[y] => x = y
BY DEF Algorithm, LastOidByte

\* The two bytes in front, and what stands behind the context.
Header(ctx, alg) ==
  <<IF alg = PREHASH_NONE THEN 0 ELSE 1, Len(ctx) % (MaxContext + 1)>>
Rest(ph, alg) == IF alg = PREHASH_NONE THEN <<>> ELSE HashOid(alg) \o ph

\* A prefix is its header, the context and the rest.
LEMMA PrefixParts ==
  ASSUME NEW ph \in Seq(Int), NEW ctx \in Seq(Int), NEW alg \in Int,
         Acceptable(ph, ctx, alg)
  PROVE  /\ Header(ctx, alg) \in Seq(Int) /\ Len(Header(ctx, alg)) = 2
         /\ Header(ctx, alg)[2] = Len(ctx)
         /\ Rest(ph, alg) \in Seq(Int)
         /\ PrefixBytes(ph, ctx, alg) \in Seq(Int)
         /\ PrefixBytes(ph, ctx, alg) # <<>>
<1>1. Len(ctx) \in Nat /\ Len(ctx) =< MaxContext
  BY LenProperties DEF Acceptable
<1>2. Len(ctx) % (MaxContext + 1) = Len(ctx)
  BY <1>1, ByteHoldsLength, DomainSeparationAssumption
<1>3. Header(ctx, alg) \in Seq(Int) /\ Len(Header(ctx, alg)) = 2
      /\ Header(ctx, alg)[2] = Len(ctx)
  BY <1>1, <1>2 DEF Header
<1>4. Rest(ph, alg) \in Seq(Int)
  <2>1. CASE alg = PREHASH_NONE
    BY <2>1 DEF Rest
  <2>2. CASE alg # PREHASH_NONE
    <3>1. alg \in Algorithm
      BY <2>2 DEF Acceptable, ValidDigest
    <3>2. LastOidByte[alg] \in Int
      BY <3>1, OidBytes
    <3>3. HashOid(alg) \in Seq(Int)
      BY <3>2 DEF HashOid
    <3> QED BY <2>2, <3>3, Joined DEF Rest
  <2> QED BY <2>1, <2>2
<1>5. PrefixBytes(ph, ctx, alg) = (Header(ctx, alg) \o ctx) \o Rest(ph, alg)
  BY DEF PrefixBytes, Header, Rest
<1>6. /\ Header(ctx, alg) \o ctx \in Seq(Int)
      /\ Len(Header(ctx, alg) \o ctx) = 2 + Len(ctx)
  BY <1>3, Joined
<1>7. (Header(ctx, alg) \o ctx) \o Rest(ph, alg) \in Seq(Int)
  BY <1>4, <1>6, Joined, Zenon
<1>8. Header(ctx, alg) \o ctx # <<>>
  BY <1>1, <1>6
<1>9. (Header(ctx, alg) \o ctx) \o Rest(ph, alg) # <<>>
  BY <1>4, <1>6, <1>8, EmptyJoined, Zenon
<1> QED BY <1>3, <1>4, <1>5, <1>7, <1>9, Zenon

\* Followed by a message, it is header, context, rest and message.
Framed(ph, ctx, alg, text) ==
  PrefixBytes(ph, ctx, alg) \o text
    = Header(ctx, alg) \o (ctx \o (Rest(ph, alg) \o text))

LEMMA PrefixFramed ==
  ASSUME NEW ph \in Seq(Int), NEW ctx \in Seq(Int), NEW alg \in Int,
         NEW text \in Seq(Int), Acceptable(ph, ctx, alg)
  PROVE  Framed(ph, ctx, alg, text)
<1>1. Header(ctx, alg) \in Seq(Int) /\ Rest(ph, alg) \in Seq(Int)
  BY PrefixParts, Zenon
<1>2. PrefixBytes(ph, ctx, alg) = (Header(ctx, alg) \o ctx) \o Rest(ph, alg)
  BY DEF PrefixBytes, Header, Rest
<1>3. SameString(Header(ctx, alg), ctx, Rest(ph, alg), text)
  BY <1>1, FourParts, Zenon
<1> QED BY <1>2, <1>3, Zenon DEF SameString, Framed

\* What two readers of the same bytes agree on.
ReadAlike(p1, c1, a1, m1, p2, c2, a2, m2) ==
  PrefixBytes(p1, c1, a1) \o m1 = PrefixBytes(p2, c2, a2) \o m2 =>
    /\ a1 = a2 /\ c1 = c2 /\ m1 = m2
    /\ a1 # PREHASH_NONE => p1 = p2

\* Arguments the entry points put together, with the message behind them.
WellFormed(p, c, a, t) ==
  /\ p \in Seq(Int) /\ c \in Seq(Int) /\ a \in Int /\ t \in Seq(Int)
  /\ Acceptable(p, c, a)
  /\ a # PREHASH_NONE => t = <<>>

\* The header tells where the context ends and what comes after it.
LEMMA PrefixRead ==
  ASSUME NEW p1, NEW c1, NEW a1, NEW m1, NEW p2, NEW c2, NEW a2, NEW m2,
         WellFormed(p1, c1, a1, m1), WellFormed(p2, c2, a2, m2)
  PROVE  ReadAlike(p1, c1, a1, m1, p2, c2, a2, m2)
<1> USE DEF WellFormed
<1> SUFFICES ASSUME PrefixBytes(p1, c1, a1) \o m1 = PrefixBytes(p2, c2, a2) \o m2
             PROVE  /\ a1 = a2 /\ c1 = c2 /\ m1 = m2
                    /\ a1 # PREHASH_NONE => p1 = p2
  BY Zenon DEF ReadAlike
<1> DEFINE b1 == Rest(p1, a1) \o m1
           b2 == Rest(p2, a2) \o m2
<1>1. /\ Header(c1, a1) \in Seq(Int) /\ Len(Header(c1, a1)) = 2
      /\ Header(c1, a1)[2] = Len(c1) /\ Rest(p1, a1) \in Seq(Int)
      /\ Header(c2, a2) \in Seq(Int) /\ Len(Header(c2, a2)) = 2
      /\ Header(c2, a2)[2] = Len(c2) /\ Rest(p2, a2) \in Seq(Int)
  BY PrefixParts
<1>2. b1 \in Seq(Int) /\ b2 \in Seq(Int)
  BY <1>1, Joined
<1>3. c1 \o b1 \in Seq(Int) /\ c2 \o b2 \in Seq(Int)
  BY <1>2, Joined
<1>4. Header(c1, a1) = Header(c2, a2) /\ c1 \o b1 = c2 \o b2
  <2>1. Framed(p1, c1, a1, m1) /\ Framed(p2, c2, a2, m2)
    BY PrefixFramed, Zenon
  <2>2. Header(c1, a1) \o (c1 \o b1) = Header(c2, a2) \o (c2 \o b2)
    BY <2>1, Zenon DEF Framed
  <2>3. Len(Header(c1, a1)) = Len(Header(c2, a2))
    BY <1>1
  <2>4. SplitsAlike(Header(c1, a1), c1 \o b1, Header(c2, a2), c2 \o b2)
    BY <1>1, <1>3, <2>3, CutAtSamePlace, Zenon
  <2> QED BY <2>2, <2>4, Zenon DEF SplitsAlike
<1> HIDE DEF b1, b2
<1>5. Len(c1) = Len(c2)
  BY <1>1, <1>4
<1>6. c1 = c2 /\ b1 = b2
  BY <1>2, <1>4, <1>5, CutAtSamePlace DEF SplitsAlike
<1>7. a1 = PREHASH_NONE <=> a2 = PREHASH_NONE
  BY <1>4 DEF Header
<1>8. CASE a1 = PREHASH_NONE
  <2>1. b1 = m1 /\ b2 = m2
    BY <1>7, <1>8, ConcatEmptySeq DEF b1, b2, Rest
  <2> QED BY <1>6, <1>7, <1>8, <2>1
<1>9. CASE a1 # PREHASH_NONE
  <2>1. a1 \in Algorithm /\ a2 \in Algorithm
    BY <1>7, <1>9 DEF Acceptable, ValidDigest
  <2>2. LastOidByte[a1] \in Int /\ LastOidByte[a2] \in Int
    BY <2>1, OidBytes
  <2>3. /\ HashOid(a1) \in Seq(Int) /\ HashOid(a2) \in Seq(Int)
        /\ Len(HashOid(a1)) = 11 /\ Len(HashOid(a2)) = 11
        /\ HashOid(a1)[11] = LastOidByte[a1] /\ HashOid(a2)[11] = LastOidByte[a2]
    BY <2>2 DEF HashOid
  <2>4. m1 = <<>> /\ m2 = <<>>
    BY <1>7, <1>9
  <2>5. b1 = HashOid(a1) \o p1 /\ b2 = HashOid(a2) \o p2
    BY <1>1, <1>7, <1>9, <2>4, ConcatEmptySeq DEF b1, b2, Rest
  <2>6. HashOid(a1) = HashOid(a2) /\ p1 = p2
    BY <1>6, <2>3, <2>5, CutAtSamePlace DEF SplitsAlike
  <2> QED BY <1>6, <2>1, <2>3, <2>4, <2>6, OidsDiffer
<1> QED BY <1>8, <1>9

\* mld_prepare_domain_separation_prefix is unambiguous: whoever reads the
\* bytes knows whether the message was hashed, with which algorithm, the
\* context, the digest and the message (sign.c:1386-1420).  A HashML-DSA
\* prefix has no message behind it.
THEOREM PrefixUnambiguous ==
  ASSUME NEW p1 \in Seq(Int), NEW c1 \in Seq(Int), NEW a1 \in Int,
         NEW m1 \in Seq(Int), NEW p2 \in Seq(Int), NEW c2 \in Seq(Int),
         NEW a2 \in Int, NEW m2 \in Seq(Int),
         Acceptable(p1, c1, a1), Acceptable(p2, c2, a2),
         a1 # PREHASH_NONE => m1 = <<>>, a2 # PREHASH_NONE => m2 = <<>>,
         PrefixBytes(p1, c1, a1) \o m1 = PrefixBytes(p2, c2, a2) \o m2
  PROVE  /\ a1 = a2 /\ c1 = c2 /\ m1 = m2
         /\ a1 # PREHASH_NONE => p1 = p2
<1>1. WellFormed(p1, c1, a1, m1) /\ WellFormed(p2, c2, a2, m2)
  BY Zenon DEF WellFormed
<1>2. ReadAlike(p1, c1, a1, m1, p2, c2, a2, m2)
  BY <1>1, PrefixRead, Zenon
<1> QED BY <1>2, Zenon DEF ReadAlike

-----------------------------------------------------------------------------
(* The inductive invariant.                                                *)

\* MLD_PREHASH_NONE is not asked for where an algorithm is expected.
DocumentedAlgorithms ==
  \A r \in Requests : r.entry = "pre_hash_internal" => r.alg # PREHASH_NONE


SignedInv ==
  /\ signed.key \in PublicKey /\ signed.request \in Requests
  /\ signed.sig = SignatureOf(signed.key, signed.request)
  /\ ~Refused(signed.request)

ArgumentsInv ==
  /\ request \in Requests /\ pk \in PublicKey /\ siglen \in SigLengths
  /\ sig \in Altered

PartRho == Part("rho", pk.rho = signed.key.rho)
PartT1 == Part("t1", pk.t1 = signed.key.t1)
PartC == Part("c", sig.c = signed.sig.c)
PartZ == Part("z", sig.z = signed.sig.z)
PartH == Part("h", sig.h = signed.sig.h)

PrefixedInv ==
  /\ pc = "prefix" => request.entry # "extmu"
  /\ pc \in {"alloc", "unpack", "norm", "mu", "ct1", "az", "hint", "compare"} =>
       /\ ~Refused(request)
       /\ request.entry # "extmu" => pre = PrefixOf(request)

SizedInv ==
  pc \in {"unpack", "norm", "mu", "ct1", "az", "hint", "compare"} =>
    siglen = CRYPTO_BYTES

PartsInv ==
  /\ pc \in {"norm", "mu", "ct1", "az", "hint", "compare"} =>
       rho = PartRho /\ cp = PartC /\ z = PartZ /\ h = PartH
  /\ pc \in {"norm", "mu", "ct1"} => t1 = PartT1
  /\ pc = "az" => tmp = PartC \cup PartT1
  /\ pc = "hint" => w1 = PartRho \cup PartZ \cup PartC \cup PartT1
  /\ pc = "compare" =>
       tmp = PartRho \cup PartZ \cup PartC \cup PartT1 \cup PartH

MuInv ==
  pc \in {"ct1", "az", "hint", "compare"} => mu = MuOf(pk, request)

VerdictInv ==
  pc \in {"cleanup", "epilogue", "returned"} =>
    /\ ret \in {0, FAIL, OUT_OF_MEMORY}
    /\ DocumentedAlgorithms /\ ret = 0 => Genuine
    /\ ret = FAIL => ~Genuine
    /\ ret = OUT_OF_MEMORY => failed

\* The parts of TypeOK that are not about the arguments.
ControlTypes ==
  /\ pc \in {"idle", "prefix", "alloc", "unpack", "norm", "mu", "ct1", "az",
             "hint", "compare", "cleanup", "epilogue", "returned"}
  /\ ret \in {0, FAIL, OUT_OF_MEMORY, Unset}
  /\ failed \in BOOLEAN
StringTypes == pre \in Seq(Int) /\ mu \in Seq(Int)
PartSet == SUBSET (Parts \cup {"other"})
BufferTypes ==
  /\ rho \in PartSet /\ t1 \in PartSet /\ w1 \in PartSet /\ tmp \in PartSet
  /\ cp \in PartSet /\ z \in PartSet /\ h \in PartSet

IInv ==
  /\ ControlTypes /\ StringTypes /\ BufferTypes
  /\ SignedInv /\ ArgumentsInv /\ PrefixedInv /\ SizedInv
  /\ PartsInv /\ MuInv /\ VerdictInv

-----------------------------------------------------------------------------
(* Message representatives.                                                *)

\* What the assumption says of one request.
LEMMA RequestTypes ==
  ASSUME NEW r \in Requests
  PROVE  /\ r.entry \in EntryPoints /\ r.ctx \in Seq(Int) /\ r.m \in Seq(Int)
         /\ HashAlg(r) \in Int /\ Digest(r) \in Seq(Int) /\ Text(r) \in Seq(Int)
         /\ HashAlg(r) # PREHASH_NONE => Text(r) = <<>>
<1>1. /\ r.entry \in EntryPoints /\ r.alg \in Int
      /\ r.ctx \in Seq(Int) /\ r.m \in Seq(Int)
  BY VerificationAssumption
<1>2. r.entry = "pre_hash_shake256" => Shake256(r.m) \in Seq(Int)
  BY VerificationAssumption
<1>3. <<>> \in Seq(Int)
  OBVIOUS
<1>4. HashAlg(r) \in Int
  BY <1>1 DEF HashAlg, PREHASH_NONE, PREHASH_SHAKE_256, EntryPoints
<1>5. Digest(r) \in Seq(Int)
  BY <1>1, <1>2, <1>3, Zenon DEF Digest, EntryPoints
<1>6. Text(r) \in Seq(Int)
  BY <1>1, <1>3, Zenon DEF Text
<1>7. HashAlg(r) # PREHASH_NONE => Text(r) = <<>>
  BY <1>1 DEF HashAlg, Text, EntryPoints
<1> QED BY <1>1, <1>4, <1>5, <1>6, <1>7

\* A request is refused exactly when its arguments are not acceptable.
LEMMA PrefixOfRequest ==
  ASSUME NEW r \in Requests
  PROVE  /\ PrefixOf(r) \in Seq(Int)
         /\ r.entry # "extmu" /\ ~Refused(r) =>
              /\ Acceptable(Digest(r), r.ctx, HashAlg(r))
              /\ PrefixOf(r) = PrefixBytes(Digest(r), r.ctx, HashAlg(r))
<1>1. /\ r.ctx \in Seq(Int) /\ HashAlg(r) \in Int /\ Digest(r) \in Seq(Int)
  BY RequestTypes
<1>2. CASE Acceptable(Digest(r), r.ctx, HashAlg(r))
  <2>1. PrefixOf(r) = PrefixBytes(Digest(r), r.ctx, HashAlg(r))
    BY <1>2, Zenon DEF PrefixOf, Prefix
  <2>2. PrefixBytes(Digest(r), r.ctx, HashAlg(r)) \in Seq(Int)
    BY <1>1, <1>2, PrefixParts, Zenon
  <2> QED BY <2>1, <2>2, <1>2, Zenon
<1>3. CASE ~Acceptable(Digest(r), r.ctx, HashAlg(r))
  <2>1. PrefixOf(r) = <<>>
    BY <1>3, Zenon DEF PrefixOf, Prefix
  <2>2. PrefixOf(r) \in Seq(Int)
    BY <2>1
  <2> QED BY <2>1, <2>2, Zenon DEF Refused
<1> QED BY <1>2, <1>3

LEMMA MuType ==
  ASSUME NEW key \in PublicKey, NEW r \in Requests
  PROVE  /\ MuOf(key, r) \in Seq(Int)
         /\ <<key.rho, key.t1>> \in Seq(Int)
         /\ PrefixOf(r) \o Text(r) \in Seq(Int)
<1>1. <<key.rho, key.t1>> \in Seq(Int)
  <2>1. key.rho \in Int /\ key.t1 \in Int
    BY VerificationAssumption, Zenon DEF PublicKey
  <2> QED BY <2>1
<1>2. PrefixOf(r) \o Text(r) \in Seq(Int)
  BY PrefixOfRequest, RequestTypes, Joined, Zenon
<1>3. <<key.rho, key.t1>> \o (PrefixOf(r) \o Text(r)) \in Seq(Int)
  BY <1>1, <1>2, Joined, Zenon
<1>4. r.m \in Seq(Int)
  BY RequestTypes
<1> QED BY <1>1, <1>2, <1>3, <1>4, Zenon DEF MuOf, Mu

\* The message representative tells the key and the request.
LEMMA MuTells ==
  ASSUME NEW k1 \in PublicKey, NEW r1 \in Requests,
         NEW k2 \in PublicKey, NEW r2 \in Requests,
         ~Refused(r1), ~Refused(r2), "extmu" \notin {r1.entry, r2.entry},
         DocumentedAlgorithms, MuOf(k1, r1) = MuOf(k2, r2)
  PROVE  Meaning(r1) = Meaning(r2)
<1> DEFINE b1 == PrefixOf(r1) \o Text(r1)
           b2 == PrefixOf(r2) \o Text(r2)
           h1 == <<k1.rho, k1.t1>>
           h2 == <<k2.rho, k2.t1>>
<1>1. h1 \in Seq(Int) /\ h2 \in Seq(Int) /\ b1 \in Seq(Int) /\ b2 \in Seq(Int)
  BY MuType
<1>2. Len(h1) = Len(h2)
  OBVIOUS
<1>3. h1 \o b1 = h2 \o b2
  BY Zenon DEF MuOf, Mu
<1>4. b1 = b2
  <2> HIDE DEF h1, h2, b1, b2
  <2>1. SplitsAlike(h1, b1, h2, b2)
    BY <1>1, <1>2, CutAtSamePlace, Zenon
  <2> QED BY <2>1, <1>3, Zenon DEF SplitsAlike
<1>5. /\ Acceptable(Digest(r1), r1.ctx, HashAlg(r1))
      /\ Acceptable(Digest(r2), r2.ctx, HashAlg(r2))
      /\ PrefixOf(r1) = PrefixBytes(Digest(r1), r1.ctx, HashAlg(r1))
      /\ PrefixOf(r2) = PrefixBytes(Digest(r2), r2.ctx, HashAlg(r2))
  BY PrefixOfRequest
<1>6. PrefixBytes(Digest(r1), r1.ctx, HashAlg(r1)) \o Text(r1)
        = PrefixBytes(Digest(r2), r2.ctx, HashAlg(r2)) \o Text(r2)
  BY <1>4, <1>5, Zenon
<1>7. /\ Digest(r1) \in Seq(Int) /\ r1.ctx \in Seq(Int) /\ HashAlg(r1) \in Int
      /\ Text(r1) \in Seq(Int)
      /\ HashAlg(r1) # PREHASH_NONE => Text(r1) = <<>>
      /\ Digest(r2) \in Seq(Int) /\ r2.ctx \in Seq(Int) /\ HashAlg(r2) \in Int
      /\ Text(r2) \in Seq(Int)
      /\ HashAlg(r2) # PREHASH_NONE => Text(r2) = <<>>
  BY RequestTypes
<1>8. /\ HashAlg(r1) = HashAlg(r2) /\ r1.ctx = r2.ctx /\ Text(r1) = Text(r2)
      /\ HashAlg(r1) # PREHASH_NONE => Digest(r1) = Digest(r2)
  <2>1. /\ WellFormed(Digest(r1), r1.ctx, HashAlg(r1), Text(r1))
        /\ WellFormed(Digest(r2), r2.ctx, HashAlg(r2), Text(r2))
    BY <1>5, <1>7, Zenon DEF WellFormed
  <2>2. ReadAlike(Digest(r1), r1.ctx, HashAlg(r1), Text(r1),
                  Digest(r2), r2.ctx, HashAlg(r2), Text(r2))
    BY <2>1, PrefixRead, Zenon
  <2> QED BY <1>6, <2>2, Zenon DEF ReadAlike
<1>9. \A r \in {r1, r2} : /\ HashAlg(r) = PREHASH_NONE <=> r.entry = "pure"
                          /\ r.entry = "pure" => Digest(r) = <<>>
  BY RequestTypes DEF DocumentedAlgorithms, HashAlg, Digest, EntryPoints,
                      PREHASH_NONE, PREHASH_SHAKE_256
<1>10. Digest(r1) = Digest(r2) /\ (r1.entry # "pure") = (r2.entry # "pure")
  BY <1>8, <1>9
<1> QED BY <1>8, <1>10, Zenon DEF Meaning

\* What has the same meaning has the same representative.
LEMMA MeaningTellsMu ==
  ASSUME NEW key \in PublicKey, NEW r1 \in Requests, NEW r2 \in Requests,
         "extmu" \notin {r1.entry, r2.entry}, Meaning(r1) = Meaning(r2)
  PROVE  MuOf(key, r1) = MuOf(key, r2)
<1>1. /\ HashAlg(r1) = HashAlg(r2) /\ r1.ctx = r2.ctx
      /\ Digest(r1) = Digest(r2) /\ Text(r1) = Text(r2)
  BY DEF Meaning
<1>2. PrefixOf(r1) = PrefixOf(r2)
  BY <1>1, Zenon DEF PrefixOf
<1> QED BY <1>1, <1>2, Zenon DEF MuOf, Mu

\* A challenge tells the commitment and the representative.
LEMMA ChallengeTells ==
  ASSUME NEW w1_1 \in Int, NEW mu1 \in Seq(Int),
         NEW w1_2 \in Int, NEW mu2 \in Seq(Int)
  PROVE  /\ Challenge(w1_1, mu1) \in Seq(Int)
         /\ Challenge(w1_1, mu1) = Challenge(w1_2, mu2) => w1_1 = w1_2 /\ mu1 = mu2
<1>1. <<w1_1>> \in Seq(Int) /\ <<w1_2>> \in Seq(Int) /\ Len(<<w1_1>>) = Len(<<w1_2>>)
  OBVIOUS
<1>2. SplitsAlike(<<w1_1>>, mu1, <<w1_2>>, mu2)
  BY <1>1, CutAtSamePlace, Zenon
<1>3. <<w1_1>> = <<w1_2>> => w1_1 = w1_2
  OBVIOUS
<1>4. <<w1_1>> \o mu1 \in Seq(Int)
  BY <1>1, Joined, Zenon
<1> QED BY <1>2, <1>3, <1>4, Zenon DEF SplitsAlike, Challenge

-----------------------------------------------------------------------------
(* The comparison of the challenges.                                       *)

\* The five parts are all there exactly if each is the signer's.
LEMMA AllParts ==
  ASSUME tmp = PartRho \cup PartZ \cup PartC \cup PartT1 \cup PartH
  PROVE  tmp = Parts <=>
           /\ pk.rho = signed.key.rho /\ pk.t1 = signed.key.t1
           /\ sig.c = signed.sig.c /\ sig.z = signed.sig.z /\ sig.h = signed.sig.h
BY DEF PartRho, PartZ, PartC, PartT1, PartH, Part, Parts

\* Keys and signatures are told by their parts.
LEMMA RecordsOfParts ==
  ASSUME SignedInv, ArgumentsInv
  PROVE  /\ pk = signed.key <=> pk.rho = signed.key.rho /\ pk.t1 = signed.key.t1
         /\ sig = signed.sig <=>
              /\ sig.c = signed.sig.c /\ sig.z = signed.sig.z /\ sig.h = signed.sig.h
<1>1. pk \in PublicKey /\ signed.key \in PublicKey
  BY DEF SignedInv, ArgumentsInv
<1>2. sig = [c |-> sig.c, z |-> sig.z, h |-> sig.h]
  BY DEF ArgumentsInv, Altered
<1>3. signed.sig = [c |-> signed.sig.c, z |-> signed.sig.z, h |-> signed.sig.h]
  BY DEF SignedInv, SignatureOf
<1>4. pk = signed.key <=> pk.rho = signed.key.rho /\ pk.t1 = signed.key.t1
  BY <1>1 DEF PublicKey
<1> QED BY <1>2, <1>3, <1>4, Zenon

\* What c2 is compared with tells everything that went into it.
LEMMA ComparisonTells ==
  ASSUME IInv, pc = "compare"
  PROVE  /\ DocumentedAlgorithms
              /\ sig.c = Challenge(IF tmp = Parts THEN 1 ELSE 0, mu) => Genuine
         /\ Genuine => sig.c = Challenge(IF tmp = Parts THEN 1 ELSE 0, mu)
<1> DEFINE mus == MuOf(signed.key, signed.request)
           n == IF tmp = Parts THEN 1 ELSE 0
<1>1. /\ SignedInv /\ ArgumentsInv /\ ~Refused(request) /\ siglen = CRYPTO_BYTES
      /\ mu = MuOf(pk, request)
      /\ tmp = PartRho \cup PartZ \cup PartC \cup PartT1 \cup PartH
  BY DEF IInv, PrefixedInv, SizedInv, MuInv, PartsInv
<1>2. mu \in Seq(Int) /\ mus \in Seq(Int)
  BY <1>1, MuType DEF SignedInv, ArgumentsInv
<1>3. signed.sig.c = Challenge(1, mus) /\ signed.sig.h = "h" /\ signed.sig.z = "z"
  BY <1>1 DEF SignedInv, SignatureOf
<1>4. sig.c \in {Challenge(1, mus), Challenge(2, mus)}
  BY <1>1, <1>3, Zenon DEF ArgumentsInv, Altered
<1>5. n \in {0, 1} /\ (n = 1 <=> tmp = Parts)
  OBVIOUS
<1>6. ASSUME DocumentedAlgorithms, sig.c = Challenge(n, mu) PROVE Genuine
  <2>1. n = 1 /\ mu = mus
    <3>1. \A k \in {1, 2} : Challenge(n, mu) = Challenge(k, mus) => n = k /\ mu = mus
      <4> HIDE DEF n, mus
      <4> QED BY <1>2, <1>5, ChallengeTells
    <3>2. PICK k \in {1, 2} : sig.c = Challenge(k, mus)
      BY <1>4, Zenon
    <3>3. n = k /\ mu = mus
      BY <3>1, <3>2, <1>6, Zenon
    <3> QED BY <1>5, <3>3
  <2>2. tmp = Parts
    BY <1>5, <2>1, Zenon
  <2>3. pk = signed.key /\ sig = signed.sig
    BY <1>1, <2>2, AllParts, RecordsOfParts, Zenon
  <2>4. SameStatement
    <3>1. CASE "extmu" \notin {request.entry, signed.request.entry}
      <4>1. MuOf(pk, request) = MuOf(signed.key, signed.request)
        BY <1>1, <2>1, Zenon
      <4>2. /\ pk \in PublicKey /\ signed.key \in PublicKey /\ request \in Requests
            /\ signed.request \in Requests /\ ~Refused(signed.request)
        BY <1>1, Zenon DEF SignedInv, ArgumentsInv
      <4>3. Meaning(request) = Meaning(signed.request)
        <5> HIDE DEF n, mus
        <5> QED BY <1>1, <1>6, <3>1, <4>1, <4>2, MuTells
      <4> QED BY <3>1, <4>3, Zenon DEF SameStatement
    <3>2. CASE ~("extmu" \notin {request.entry, signed.request.entry})
      BY <1>1, <2>1, <3>2, Zenon DEF SameStatement
    <3> QED BY <3>1, <3>2
  <2> QED BY <1>1, <2>3, <2>4, Zenon DEF Genuine
<1>7. ASSUME Genuine PROVE sig.c = Challenge(n, mu)
  <2>1. pk = signed.key /\ sig = signed.sig /\ SameStatement
    BY <1>7, Zenon DEF Genuine
  <2>2. tmp = Parts
    BY <1>1, <2>1, AllParts, Zenon
  <2>3. mu = mus
    <3>1. CASE "extmu" \notin {request.entry, signed.request.entry}
      <4>1. Meaning(request) = Meaning(signed.request)
        BY <2>1, <3>1, Zenon DEF SameStatement
      <4> QED BY <1>1, <2>1, <3>1, <4>1, MeaningTellsMu, Zenon
               DEF SignedInv, ArgumentsInv
    <3>2. CASE ~("extmu" \notin {request.entry, signed.request.entry})
      BY <1>1, <2>1, <3>2, Zenon DEF SameStatement
    <3> QED BY <3>1, <3>2
  <2> QED BY <1>3, <1>5, <2>1, <2>2, <2>3, Zenon
<1> QED BY <1>6, <1>7, Zenon

-----------------------------------------------------------------------------
(* Each step preserves IInv.                                               *)

\* What depends on the arguments alone stays while they do.
LEMMA ArgumentsKept ==
  ASSUME IInv, UNCHANGED args
  PROVE  /\ SignedInv' /\ ArgumentsInv' /\ Genuine' = Genuine
         /\ PartRho' = PartRho /\ PartT1' = PartT1 /\ PartC' = PartC
         /\ PartZ' = PartZ /\ PartH' = PartH
         /\ MuOf(pk, request)' = MuOf(pk, request)
         /\ Refused(request)' = Refused(request)
         /\ PrefixOf(request)' = PrefixOf(request)
         /\ request' = request /\ siglen' = siglen
<1>1. /\ signed' = signed /\ request' = request /\ pk' = pk /\ sig' = sig
      /\ siglen' = siglen
  BY DEF args
<1>2. SignedInv' /\ ArgumentsInv'
  BY <1>1, Zenon DEF IInv, SignedInv, ArgumentsInv, Altered
<1>3. Genuine' = Genuine
  BY <1>1, Zenon DEF Genuine, SameStatement
<1> QED BY <1>1, <1>2, <1>3, Zenon DEF PartRho, PartT1, PartC, PartZ, PartH

\* A signature that arrives has parts of the right kind.
LEMMA AlteredType ==
  ASSUME NEW key \in PublicKey, NEW r \in Requests
  PROVE  \A s \in [c : {SignatureOf(key, r).c, Challenge(2, MuOf(key, r))},
                   z : {"z", "other", "long"}, h : {"h", "other", "malformed"}] :
           /\ s.c \in Seq(Int) /\ s.z \in {"z", "other", "long"}
           /\ s.h \in {"h", "other", "malformed"}
<1>1. Challenge(1, MuOf(key, r)) \in Seq(Int)
  BY MuType, ChallengeTells
<1>2. Challenge(2, MuOf(key, r)) \in Seq(Int)
  BY MuType, ChallengeTells
<1>3. SignatureOf(key, r).c = Challenge(1, MuOf(key, r))
  BY DEF SignatureOf
<1> QED BY <1>1, <1>2, <1>3

\* The part of TypeOK that is about the arguments.
ArgumentTypes ==
  /\ signed.key \in PublicKey /\ signed.request \in Requests
  /\ signed.sig = SignatureOf(signed.key, signed.request)
  /\ request \in Requests /\ pk \in PublicKey /\ siglen \in SigLengths
  /\ sig.c \in Seq(Int) /\ sig.z \in {"z", "other", "long"}
  /\ sig.h \in {"h", "other", "malformed"}

LEMMA TypesOfArguments == SignedInv /\ ArgumentsInv => ArgumentTypes
<1> SUFFICES ASSUME SignedInv, ArgumentsInv PROVE ArgumentTypes
  OBVIOUS
<1>1. /\ signed.key \in PublicKey /\ signed.request \in Requests
      /\ signed.sig = SignatureOf(signed.key, signed.request)
  BY DEF SignedInv
<1>2. sig \in [c : {SignatureOf(signed.key, signed.request).c,
                    Challenge(2, MuOf(signed.key, signed.request))},
               z : {"z", "other", "long"}, h : {"h", "other", "malformed"}]
  BY <1>1, Zenon DEF ArgumentsInv, Altered
<1>3. /\ sig.c \in Seq(Int) /\ sig.z \in {"z", "other", "long"}
      /\ sig.h \in {"h", "other", "malformed"}
  BY <1>1, <1>2, AlteredType, Zenon
<1> QED BY <1>1, <1>3, Zenon DEF ArgumentTypes, ArgumentsInv

\* The arguments a client of the signer starts from.
LEMMA GenuineArguments ==
  ASSUME SignedInv
  PROVE  signed.sig \in Altered
<1>1. signed.sig = [c |-> signed.sig.c, z |-> "z", h |-> "h"]
  BY DEF SignedInv, SignatureOf
<1> QED BY <1>1 DEF Altered

LEMMA TypeInv == IInv => TypeOK
<1> SUFFICES ASSUME IInv PROVE TypeOK
  OBVIOUS
<1>1. ArgumentTypes
  BY TypesOfArguments DEF IInv
<1>2. \A b \in {rho, t1, w1, tmp, cp, z, h} : b \subseteq Parts \cup {"other"}
  BY DEF IInv, BufferTypes, PartSet
<1> QED BY <1>1, <1>2, Zenon
        DEF IInv, ControlTypes, StringTypes, TypeOK, ArgumentTypes

LEMMA InitStep == Init => IInv
<1> SUFFICES ASSUME Init PROVE IInv
  OBVIOUS
<1>1. SignedInv
  <2>1. PICK k \in KeyIds, r \in {q \in Requests : ~Refused(q)} :
          signed = [key |-> [rho |-> k, t1 |-> k], request |-> r,
                    sig |-> SignatureOf([rho |-> k, t1 |-> k], r)]
    BY DEF Init
  <2>2. signed.key = [rho |-> k, t1 |-> k] /\ signed.request = r
        /\ signed.sig = SignatureOf([rho |-> k, t1 |-> k], r)
    BY <2>1
  <2>3. signed.key \in PublicKey
    BY <2>2 DEF PublicKey
  <2> QED BY <2>2, <2>3, Zenon DEF SignedInv
<1>2. /\ request = signed.request /\ pk = signed.key /\ sig = signed.sig
      /\ siglen = CRYPTO_BYTES
  BY DEF Init
<1>3. ArgumentsInv
  BY <1>1, <1>2, GenuineArguments, VerificationAssumption, Zenon
     DEF ArgumentsInv, SignedInv
<1>4. /\ pc = "idle" /\ ret = Unset /\ failed = FALSE
      /\ pre = <<>> /\ mu = <<>>
      /\ rho = {} /\ t1 = {} /\ w1 = {} /\ tmp = {} /\ cp = {} /\ z = {} /\ h = {}
  BY DEF Init
<1>5. ControlTypes /\ StringTypes /\ BufferTypes
  <2>1. ControlTypes
    BY <1>4, Zenon DEF ControlTypes
  <2>2. StringTypes
    BY <1>4 DEF StringTypes
  <2>3. BufferTypes
    BY <1>4 DEF BufferTypes, PartSet
  <2> QED BY <2>1, <2>2, <2>3
<1> QED BY <1>1, <1>3, <1>4, <1>5
        DEF IInv, PrefixedInv, SizedInv, PartsInv, MuInv, VerdictInv

LEMMA CallStep == IInv /\ Call => IInv'
<1> SUFFICES ASSUME IInv, Call PROVE IInv'
  OBVIOUS
<1>1. signed' = signed /\ SignedInv'
  BY Zenon DEF Call, IInv, SignedInv
<1>2. ArgumentsInv'
  BY Zenon DEF Call, IInv, SignedInv, ArgumentsInv, Altered
<1>3. /\ pc' \in {"alloc", "prefix"} /\ ret' = Unset /\ failed' = FALSE
      /\ UNCHANGED <<pre, mu, buffers>>
      /\ pc' = "alloc" <=> request'.entry = "extmu"
  BY DEF Call
<1>4. ControlTypes' /\ StringTypes' /\ BufferTypes'
  BY <1>3 DEF IInv, ControlTypes, StringTypes, BufferTypes, buffers
<1>5. PrefixedInv'
  BY <1>3 DEF PrefixedInv, Refused
<1> QED BY <1>1, <1>2, <1>3, <1>4, <1>5
        DEF IInv, SizedInv, PartsInv, MuInv, VerdictInv

LEMMA PreparePrefixStep == IInv /\ PreparePrefix => IInv'
<1> SUFFICES ASSUME IInv, PreparePrefix PROVE IInv'
  OBVIOUS
<1>1. UNCHANGED <<args, mu, buffers, failed>> /\ pc = "prefix" /\ pre' = PrefixOf(request)
  BY DEF PreparePrefix
<1>2. request \in Requests
  BY DEF IInv, ArgumentsInv
<1>3. SignedInv' /\ ArgumentsInv' /\ Genuine' = Genuine
      /\ Refused(request)' = Refused(request) /\ request' = request
      /\ PrefixOf(request)' = PrefixOf(request)
  BY <1>1, ArgumentsKept
<1>4. StringTypes' /\ BufferTypes'
  BY <1>1, <1>2, PrefixOfRequest DEF buffers, IInv, StringTypes, BufferTypes
<1>5. request.entry # "extmu"
  BY <1>1 DEF IInv, PrefixedInv
<1>6. CASE PrefixOf(request) = <<>>
  <2>1. pc' = "epilogue" /\ ret' = FAIL
    BY <1>1, <1>6 DEF PreparePrefix
  <2>2. ~Genuine
    BY <1>5, <1>6, Zenon DEF Genuine, Refused
  <2>3. ControlTypes' /\ VerdictInv'
    BY <1>1, <1>3, <2>1, <2>2 DEF IInv, ControlTypes, VerdictInv, FAIL, OUT_OF_MEMORY
  <2> QED BY <1>3, <1>4, <2>1, <2>3
          DEF IInv, PrefixedInv, SizedInv, PartsInv, MuInv
<1>7. CASE PrefixOf(request) # <<>>
  <2>1. pc' = "alloc" /\ ret' = ret
    BY <1>1, <1>7 DEF PreparePrefix
  <2>2. ~Refused(request)
    BY <1>7, Zenon DEF Refused
  <2>3. ControlTypes' /\ PrefixedInv'
    BY <1>1, <1>3, <2>1, <2>2 DEF IInv, ControlTypes, PrefixedInv
  <2> QED BY <1>3, <1>4, <2>1, <2>3
          DEF IInv, SizedInv, PartsInv, MuInv, VerdictInv
<1> QED BY <1>6, <1>7

LEMMA AllocationFailsStep == IInv /\ AllocationFails => IInv'
<1> SUFFICES ASSUME IInv, AllocationFails PROVE IInv'
  OBVIOUS
<1>1. /\ UNCHANGED <<args, pre, mu, buffers>>
      /\ pc' = "cleanup" /\ ret' = OUT_OF_MEMORY /\ failed' = TRUE
  BY DEF AllocationFails
<1>2. SignedInv' /\ ArgumentsInv'
  BY <1>1, ArgumentsKept
<1>3. StringTypes' /\ BufferTypes'
  BY <1>1 DEF buffers, IInv, StringTypes, BufferTypes
<1>4. ControlTypes' /\ VerdictInv'
  BY <1>1 DEF IInv, ControlTypes, VerdictInv, FAIL, OUT_OF_MEMORY
<1> QED BY <1>1, <1>2, <1>3, <1>4
        DEF IInv, PrefixedInv, SizedInv, PartsInv, MuInv

\* An early return of mld_sign_verify_internal, or the step past it.
LEMMA Rejects ==
  ASSUME IInv, NEW from, NEW to, NEW ok, Proceed(from, to, ok), ~ok, ~Genuine,
         StringTypes', BufferTypes'
  PROVE  IInv'
<1>1. /\ UNCHANGED <<args, pre, failed>>
      /\ pc' = "cleanup" /\ ret' = FAIL
  BY DEF Proceed
<1>2. SignedInv' /\ ArgumentsInv' /\ Genuine' = Genuine
  BY <1>1, ArgumentsKept
<1>3. ControlTypes' /\ VerdictInv'
  BY <1>1, <1>2 DEF IInv, ControlTypes, VerdictInv, FAIL, OUT_OF_MEMORY
<1> QED BY <1>1, <1>2, <1>3
        DEF IInv, PrefixedInv, SizedInv, PartsInv, MuInv

LEMMA CheckLengthStep == IInv /\ CheckLength => IInv'
<1> SUFFICES ASSUME IInv, CheckLength PROVE IInv'
  OBVIOUS
<1> DEFINE ok == siglen = CRYPTO_BYTES
<1>1. Proceed("alloc", "unpack", ok) /\ UNCHANGED <<mu, buffers>> /\ pc = "alloc"
  BY DEF CheckLength, Proceed
<1>2. StringTypes' /\ BufferTypes'
  BY <1>1 DEF Proceed, buffers, IInv, StringTypes, BufferTypes
<1>3. CASE ~ok
  <2>1. ~Genuine
    BY <1>3, Zenon DEF Genuine
  <2> HIDE DEF ok
  <2> QED BY <1>1, <1>2, <1>3, <2>1, Rejects
<1>4. CASE ok
  <2>1. /\ UNCHANGED <<args, pre, mu, buffers, failed, ret>>
        /\ pc' = "unpack"
    BY <1>1, <1>4 DEF Proceed
  <2>2. /\ SignedInv' /\ ArgumentsInv' /\ Refused(request)' = Refused(request)
        /\ PrefixOf(request)' = PrefixOf(request) /\ request' = request
        /\ siglen' = siglen
    BY <2>1, ArgumentsKept
  <2>3. ControlTypes' /\ PrefixedInv' /\ SizedInv'
    BY <1>1, <1>4, <2>1, <2>2 DEF IInv, ControlTypes, PrefixedInv, SizedInv
  <2> QED BY <1>2, <2>1, <2>2, <2>3
          DEF IInv, PartsInv, MuInv, VerdictInv
<1> QED BY <1>3, <1>4

LEMMA UnpackStep == IInv /\ Unpack => IInv'
<1> SUFFICES ASSUME IInv, Unpack PROVE IInv'
  OBVIOUS
<1> DEFINE ok == sig.h # "malformed"
<1>1. /\ Proceed("unpack", "norm", ok) /\ pc = "unpack"
      /\ rho' = PartRho /\ t1' = PartT1 /\ cp' = PartC /\ z' = PartZ /\ h' = PartH
      /\ mu' = mu /\ w1' = w1 /\ tmp' = tmp
  BY DEF Unpack, Proceed, PartRho, PartT1, PartC, PartZ, PartH
<1>2. PartRho \in PartSet /\ PartT1 \in PartSet /\ PartC \in PartSet
      /\ PartZ \in PartSet /\ PartH \in PartSet
  BY DEF PartRho, PartT1, PartC, PartZ, PartH, Part, PartSet, Parts
<1>3. StringTypes' /\ BufferTypes'
  BY <1>1, <1>2 DEF Proceed, IInv, StringTypes, BufferTypes
<1>4. CASE ~ok
  <2>1. signed.sig.h = "h"
    BY DEF IInv, SignedInv, SignatureOf
  <2>2. ~Genuine
    BY <1>4, <2>1 DEF Genuine
  <2> HIDE DEF ok
  <2> QED BY <1>1, <1>3, <1>4, <2>2, Rejects
<1>5. CASE ok
  <2>1. /\ UNCHANGED <<args, pre, failed, ret>> /\ pc' = "norm"
    BY <1>1, <1>5 DEF Proceed
  <2>2. /\ SignedInv' /\ ArgumentsInv' /\ Refused(request)' = Refused(request)
        /\ PrefixOf(request)' = PrefixOf(request) /\ request' = request
        /\ siglen' = siglen /\ PartRho' = PartRho /\ PartT1' = PartT1
        /\ PartC' = PartC /\ PartZ' = PartZ /\ PartH' = PartH
    BY <2>1, ArgumentsKept
  <2>3. ControlTypes' /\ PrefixedInv' /\ SizedInv' /\ PartsInv'
    BY <1>1, <2>1, <2>2 DEF IInv, ControlTypes, PrefixedInv, SizedInv, PartsInv
  <2> QED BY <1>3, <2>1, <2>2, <2>3
          DEF IInv, MuInv, VerdictInv
<1> QED BY <1>4, <1>5

LEMMA CheckNormStep == IInv /\ CheckNorm => IInv'
<1> SUFFICES ASSUME IInv, CheckNorm PROVE IInv'
  OBVIOUS
<1> DEFINE ok == sig.z # "long"
<1>1. Proceed("norm", "mu", ok) /\ UNCHANGED <<mu, buffers>> /\ pc = "norm"
  BY DEF CheckNorm, Proceed
<1>2. StringTypes' /\ BufferTypes'
  BY <1>1 DEF Proceed, buffers, IInv, StringTypes, BufferTypes
<1>3. CASE ~ok
  <2>1. signed.sig.z = "z"
    BY DEF IInv, SignedInv, SignatureOf
  <2>2. ~Genuine
    BY <1>3, <2>1 DEF Genuine
  <2> HIDE DEF ok
  <2> QED BY <1>1, <1>2, <1>3, <2>2, Rejects
<1>4. CASE ok
  <2>1. /\ UNCHANGED <<args, pre, mu, buffers, failed, ret>>
        /\ pc' = "mu"
    BY <1>1, <1>4 DEF Proceed
  <2>2. /\ SignedInv' /\ ArgumentsInv' /\ Refused(request)' = Refused(request)
        /\ PrefixOf(request)' = PrefixOf(request) /\ request' = request
        /\ siglen' = siglen /\ PartRho' = PartRho /\ PartT1' = PartT1
        /\ PartC' = PartC /\ PartZ' = PartZ /\ PartH' = PartH
    BY <2>1, ArgumentsKept
  <2>3. ControlTypes' /\ PrefixedInv' /\ SizedInv' /\ PartsInv'
    BY <1>1, <2>1, <2>2
       DEF IInv, ControlTypes, PrefixedInv, SizedInv, PartsInv, buffers
  <2> QED BY <1>2, <2>1, <2>2, <2>3
          DEF IInv, MuInv, VerdictInv
<1> QED BY <1>3, <1>4

\* A computation that does not fail: the next stage has what it needs if its
\* types, its parts and its representative are right.
LEMMA Computes ==
  ASSUME IInv, NEW from, NEW to, Proceed(from, to, TRUE),
         from \in {"mu", "ct1", "az", "hint"},
         to \in {"ct1", "az", "hint", "compare"},
         StringTypes', BufferTypes', PartsInv', MuInv'
  PROVE  IInv'
<1>1. /\ UNCHANGED <<args, pre, failed, ret>>
      /\ pc = from /\ pc' = to
  BY DEF Proceed
<1>2. /\ SignedInv' /\ ArgumentsInv' /\ Refused(request)' = Refused(request)
      /\ PrefixOf(request)' = PrefixOf(request) /\ request' = request
      /\ siglen' = siglen
  BY <1>1, ArgumentsKept
<1>3. ControlTypes' /\ PrefixedInv' /\ SizedInv'
  BY <1>1, <1>2 DEF IInv, ControlTypes, PrefixedInv, SizedInv
<1> QED BY <1>1, <1>2, <1>3 DEF IInv, VerdictInv

LEMMA DeriveMuStep == IInv /\ DeriveMu => IInv'
<1> SUFFICES ASSUME IInv, DeriveMu PROVE IInv'
  OBVIOUS
<1>1. Proceed("mu", "ct1", TRUE) /\ UNCHANGED <<args, buffers, pre>>
      /\ pc = "mu" /\ pc' = "ct1"
  BY DEF DeriveMu, Proceed
<1>2. mu' = MuOf(pk, request)
  BY <1>1, Zenon DEF DeriveMu, IInv, PrefixedInv, MuOf
<1>3. /\ PartRho' = PartRho /\ PartT1' = PartT1 /\ PartC' = PartC /\ PartZ' = PartZ
      /\ PartH' = PartH /\ MuOf(pk, request)' = MuOf(pk, request)
  BY <1>1, ArgumentsKept
<1>4. MuOf(pk, request) \in Seq(Int)
  BY MuType DEF IInv, ArgumentsInv
<1>5. StringTypes' /\ BufferTypes'
  BY <1>1, <1>2, <1>4 DEF buffers, IInv, StringTypes, BufferTypes
<1>6. PartsInv' /\ MuInv'
  BY <1>1, <1>2, <1>3 DEF IInv, PartsInv, MuInv, buffers
<1> QED BY <1>1, <1>5, <1>6, Computes

\* Parts are joined and clobbered within their kind.
LEMMA PartsJoined ==
  ASSUME NEW a \in PartSet, NEW b \in PartSet
  PROVE  a \cup b \in PartSet /\ Clobbered(a) \in PartSet
BY DEF PartSet, Clobbered

LEMMA MultiplyT1Step == IInv /\ MultiplyT1 => IInv'
<1> SUFFICES ASSUME IInv, MultiplyT1 PROVE IInv'
  OBVIOUS
<1>1. /\ Proceed("ct1", "az", TRUE) /\ UNCHANGED <<args, pre>>
      /\ pc = "ct1" /\ pc' = "az"
      /\ tmp' = cp \cup t1 /\ w1' = Clobbered(w1)
      /\ UNCHANGED <<mu, rho, t1, cp, z, h>>
  BY DEF MultiplyT1, Proceed
<1>2. /\ PartRho' = PartRho /\ PartT1' = PartT1 /\ PartC' = PartC /\ PartZ' = PartZ
      /\ PartH' = PartH /\ MuOf(pk, request)' = MuOf(pk, request)
  BY <1>1, ArgumentsKept
<1>3. StringTypes' /\ BufferTypes'
  BY <1>1, PartsJoined DEF IInv, StringTypes, BufferTypes
<1>4. PartsInv' /\ MuInv'
  BY <1>1, <1>2 DEF IInv, PartsInv, MuInv
<1> QED BY <1>1, <1>3, <1>4, Computes

LEMMA MultiplyMatrixStep == IInv /\ MultiplyMatrix => IInv'
<1> SUFFICES ASSUME IInv, MultiplyMatrix PROVE IInv'
  OBVIOUS
<1>1. /\ Proceed("az", "hint", TRUE) /\ UNCHANGED <<args, pre>>
      /\ pc = "az" /\ pc' = "hint"
      /\ w1' = rho \cup z \cup tmp /\ t1' = Clobbered(t1)
      /\ UNCHANGED <<mu, rho, tmp, cp, z, h>>
  BY DEF MultiplyMatrix, Proceed
<1>2. /\ PartRho' = PartRho /\ PartT1' = PartT1 /\ PartC' = PartC /\ PartZ' = PartZ
      /\ PartH' = PartH /\ MuOf(pk, request)' = MuOf(pk, request)
  BY <1>1, ArgumentsKept
<1>3. StringTypes' /\ BufferTypes'
  BY <1>1, PartsJoined DEF IInv, StringTypes, BufferTypes
<1>4. rho = PartRho /\ z = PartZ /\ cp = PartC /\ h = PartH
      /\ tmp = PartC \cup PartT1 /\ mu = MuOf(pk, request)
  BY <1>1 DEF IInv, PartsInv, MuInv
<1>5. w1' = PartRho \cup PartZ \cup PartC \cup PartT1
  BY <1>1, <1>4
<1>6. PartsInv' /\ MuInv'
  BY <1>1, <1>2, <1>4, <1>5 DEF PartsInv, MuInv
<1> QED BY <1>1, <1>3, <1>6, Computes

LEMMA UseHintStep == IInv /\ UseHint => IInv'
<1> SUFFICES ASSUME IInv, UseHint PROVE IInv'
  OBVIOUS
<1>1. /\ Proceed("hint", "compare", TRUE) /\ UNCHANGED <<args, pre>>
      /\ pc = "hint" /\ pc' = "compare"
      /\ tmp' = w1 \cup h /\ UNCHANGED <<mu, rho, t1, w1, cp, z, h>>
  BY DEF UseHint, Proceed
<1>2. /\ PartRho' = PartRho /\ PartT1' = PartT1 /\ PartC' = PartC /\ PartZ' = PartZ
      /\ PartH' = PartH /\ MuOf(pk, request)' = MuOf(pk, request)
  BY <1>1, ArgumentsKept
<1>3. StringTypes' /\ BufferTypes'
  BY <1>1, PartsJoined DEF IInv, StringTypes, BufferTypes
<1>4. PartsInv' /\ MuInv'
  BY <1>1, <1>2 DEF IInv, PartsInv, MuInv
<1> QED BY <1>1, <1>3, <1>4, Computes

LEMMA CompareStep == IInv /\ Compare => IInv'
<1> SUFFICES ASSUME IInv, Compare PROVE IInv'
  OBVIOUS
<1> DEFINE same == sig.c = Challenge(IF tmp = Parts THEN 1 ELSE 0, mu)
<1>1. /\ UNCHANGED <<args, pre, mu, buffers, failed>>
      /\ pc = "compare" /\ pc' = "cleanup"
      /\ ret' = IF same THEN 0 ELSE FAIL
  BY DEF Compare, Conclude
<1>2. /\ DocumentedAlgorithms /\ same => Genuine
      /\ Genuine => same
  BY <1>1, ComparisonTells
<1>3. SignedInv' /\ ArgumentsInv' /\ Genuine' = Genuine
  BY <1>1, ArgumentsKept
<1>4. StringTypes' /\ BufferTypes'
  BY <1>1 DEF buffers, IInv, StringTypes, BufferTypes
<1> HIDE DEF same
<1>5. ControlTypes' /\ VerdictInv'
  BY <1>1, <1>2, <1>3 DEF IInv, ControlTypes, VerdictInv, FAIL, OUT_OF_MEMORY
<1> QED BY <1>1, <1>3, <1>4, <1>5
        DEF IInv, PrefixedInv, SizedInv, PartsInv, MuInv

\* The verdict stands while buffers are zeroized.
LEMMA CleanupStep == IInv /\ (Cleanup \/ Epilogue) => IInv'
<1> SUFFICES ASSUME IInv, Cleanup \/ Epilogue PROVE IInv'
  OBVIOUS
<1>1. /\ UNCHANGED <<args, ret, failed>>
      /\ pc \in {"cleanup", "epilogue"} /\ pc' \in {"epilogue", "returned"}
  BY DEF Cleanup, Epilogue
<1>2. SignedInv' /\ ArgumentsInv' /\ Genuine' = Genuine
  BY <1>1, ArgumentsKept
<1>3. StringTypes' /\ BufferTypes'
  <2>1. pre' \in {pre, <<>>} /\ mu' \in {mu, <<>>} /\ <<>> \in Seq(Int)
    BY DEF Cleanup, Epilogue, Blank
  <2>2. BufferTypes'
    BY DEF Cleanup, Epilogue, Blank, buffers, IInv, BufferTypes, PartSet
  <2> QED BY <2>1, <2>2 DEF IInv, StringTypes
<1>4. ControlTypes' /\ VerdictInv'
  BY <1>1, <1>2 DEF IInv, ControlTypes, VerdictInv
<1> QED BY <1>1, <1>2, <1>3, <1>4
        DEF IInv, PrefixedInv, SizedInv, PartsInv, MuInv

LEMMA ReturnStep == IInv /\ Return => IInv'
<1> SUFFICES ASSUME IInv, Return PROVE IInv'
  OBVIOUS
<1>1. /\ pc = "returned" /\ pc' = "idle" /\ signed' = signed
      /\ request' = signed.request /\ pk' = signed.key /\ sig' = signed.sig
      /\ siglen' = CRYPTO_BYTES /\ ret' = Unset /\ failed' = FALSE
      /\ UNCHANGED <<pre, mu, buffers>>
  BY DEF Return
<1>2. SignedInv'
  BY <1>1, Zenon DEF IInv, SignedInv
<1>3. ArgumentsInv'
  <2>1. signed.sig \in Altered /\ Altered' = Altered
    BY <1>1, GenuineArguments DEF IInv, Altered
  <2> QED BY <1>1, <2>1, VerificationAssumption, Zenon DEF IInv, SignedInv, ArgumentsInv
<1>4. ControlTypes' /\ StringTypes' /\ BufferTypes'
  BY <1>1 DEF IInv, ControlTypes, StringTypes, BufferTypes, buffers
<1> QED BY <1>1, <1>2, <1>3, <1>4
        DEF IInv, PrefixedInv, SizedInv, PartsInv, MuInv, VerdictInv

LEMMA NextStep == IInv /\ [Next]_vars => IInv'
<1> SUFFICES ASSUME IInv, [Next]_vars PROVE IInv'
  OBVIOUS
<1>1. CASE UNCHANGED vars
  <2>1. UNCHANGED args /\ pc' = pc
        /\ UNCHANGED <<ret, pre, mu, rho, t1, w1, tmp, cp, z, h, failed>>
    BY <1>1 DEF vars, args
  <2>2. /\ SignedInv' /\ ArgumentsInv' /\ Refused(request)' = Refused(request)
        /\ PrefixOf(request)' = PrefixOf(request) /\ request' = request
        /\ siglen' = siglen /\ PartRho' = PartRho /\ PartT1' = PartT1
        /\ PartC' = PartC /\ PartZ' = PartZ /\ PartH' = PartH
        /\ MuOf(pk, request)' = MuOf(pk, request) /\ Genuine' = Genuine
    BY <2>1, ArgumentsKept
  <2>3. ControlTypes' /\ StringTypes' /\ BufferTypes'
    BY <2>1 DEF IInv, ControlTypes, StringTypes, BufferTypes
  <2>4. PrefixedInv' /\ SizedInv' /\ PartsInv' /\ MuInv' /\ VerdictInv'
    BY <2>1, <2>2 DEF IInv, PrefixedInv, SizedInv, PartsInv, MuInv, VerdictInv
  <2> QED BY <2>2, <2>3, <2>4 DEF IInv
<1>2. CASE Next
  BY <1>2, CallStep, PreparePrefixStep, AllocationFailsStep, CheckLengthStep,
     UnpackStep, CheckNormStep, DeriveMuStep, MultiplyT1Step, MultiplyMatrixStep,
     UseHintStep, CompareStep, CleanupStep, ReturnStep, Zenon DEF Next
<1> QED BY <1>1, <1>2, Zenon

-----------------------------------------------------------------------------
(* The theorems.                                                           *)

\* IInv holds throughout.
LEMMA IInvHolds == Spec => []IInv
BY InitStep, NextStep, PTL DEF Spec

\* The buffers of a verification and its verdict have their types, and a
\* buffer holds parts of the arguments only (sign.c:976-1100).
THEOREM TypeCorrect == Spec => []TypeOK
BY IInvHolds, TypeInv, PTL

\* Nothing but what was signed is accepted, as long as the pre-hash entry
\* points are asked for a pre-hash: this is where the domain separation and
\* the binding of the key into mu are needed (sign.c:1018-1084, 1386-1420).
THEOREM OnlyGenuineAccepted ==
  ASSUME DocumentedAlgorithms
  PROVE  Spec => []AcceptsOnlyGenuine
<1>1. IInv => AcceptsOnlyGenuine
  BY DEF IInv, VerdictInv, AcceptsOnlyGenuine
<1> QED BY <1>1, IInvHolds, PTL

\* What was signed is accepted, through whichever entry point speaks of it,
\* unless an allocation fails (sign.c:996-1084).
THEOREM GenuineAccepted == Spec => []AcceptsGenuine
<1>1. IInv => AcceptsGenuine
  BY DEF IInv, VerdictInv, AcceptsGenuine, FAIL, OUT_OF_MEMORY
<1> QED BY <1>1, IInvHolds, PTL
=============================================================================
