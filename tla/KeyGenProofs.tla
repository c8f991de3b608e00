---------------------------- MODULE KeyGenProofs ----------------------------
(* Proofs about module KeyGen: the inductive invariant IInv says, for each *)
(* point of each function, which of the buffers hold what of the key pair. *)
EXTENDS KeyGen, TLAPS

-----------------------------------------------------------------------------
(* Rounding and packing.                                                   *)

\* Division with remainder.
LEMMA Division ==
  ASSUME NEW p \in Nat \ {0}, NEW x \in Nat
  PROVE  /\ x \div p \in Nat
         /\ (x \div p) * p =< x
         /\ x < (x \div p) * p + p
<1>1. x \div p \in Nat
  OBVIOUS
<1>2. (x \div p) * p =< x
  OBVIOUS
<1>3. x < (x \div p) * p + p
  OBVIOUS
<1> QED BY <1>1, <1>2, <1>3

\* The larger of two numbers has the larger quotient.
LEMMA DivisionMonotone ==
  ASSUME NEW p \in Nat \ {0}, NEW x \in Nat, NEW y \in Nat, x =< y
  PROVE  x \div p =< y \div p
  OBVIOUS

\* A canonical residue is its own remainder.
LEMMA Canonical ==
  ASSUME NEW q \in Nat \ {0}, NEW x \in 0 .. q - 1
  PROVE  x % q = x
  OBVIOUS

\* mld_power2round splits a canonical residue into a high part that fits a
\* public key and a low part that fits a secret key (rounding.h:57-59).
LEMMA Power2Round ==
  ASSUME NEW t \in [Row -> 0 .. Q - 1]
  PROVE  /\ HighPart(t) \in [Row -> T1]
         /\ LowPart(t) \in [Row -> 1 - Half .. Half]
         /\ \A r \in Row : HighPart(t)[r] * POWER_D + LowPart(t)[r] = t[r]
<1> USE KeyGenAssumption DEF KeyGenAssumption
<1>p. POWER_D \in Nat \ {0} /\ POWER_D = 2 * Half
  BY DEF POWER_D
<1>1. ASSUME NEW r \in Row
      PROVE  /\ HighPart(t)[r] \in T1
             /\ LowPart(t)[r] \in 1 - Half .. Half
             /\ HighPart(t)[r] * POWER_D + LowPart(t)[r] = t[r]
  <2> DEFINE x == t[r] + Half - 1
             y == Q - 1 + Half - 1
             d == x \div POWER_D
  <2>1. t[r] \in 0 .. Q - 1 /\ x \in Nat /\ y \in Nat /\ x =< y
    OBVIOUS
  <2>2. HighPart(t)[r] = d /\ LowPart(t)[r] = t[r] - d * POWER_D
    BY DEF HighPart, LowPart
  <2>3. d \in Nat /\ d * POWER_D =< x /\ x < d * POWER_D + POWER_D
    <3> HIDE DEF x
    <3> QED BY <1>p, <2>1, Division
  <2>4. d =< y \div POWER_D /\ y \div POWER_D \in Nat
    <3> HIDE DEF x, y
    <3> QED BY <1>p, <2>1, Division, DivisionMonotone
  <2>5. d \in T1
    BY <2>3, <2>4 DEF T1
  <2>6. d * POWER_D \in Int
    BY <2>3, <1>p
  <2> HIDE DEF d
  <2>7. t[r] - d * POWER_D \in 1 - Half .. Half
    BY <1>p, <2>1, <2>3, <2>6
  <2>8. d * POWER_D + (t[r] - d * POWER_D) = t[r]
    BY <2>1, <2>6
  <2> QED BY <2>2, <2>5, <2>7, <2>8
<1>2. HighPart(t) = [r \in Row |-> HighPart(t)[r]]
      /\ LowPart(t) = [r \in Row |-> LowPart(t)[r]]
  BY DEF HighPart, LowPart
<1> QED BY <1>1, <1>2

\* Short vectors survive packing, and packing survives unpacking; what is
\* unpacked is short exactly when the norm check says so.
LEMMA EtaPacking ==
  ASSUME NEW Index
  PROVE  /\ \A s \in [Index -> Short] :
              /\ PackEta(s) \in [Index -> EtaCode]
              /\ UnpackEta(PackEta(s)) = s /\ ~TooLong(s)
         /\ \A codes \in [Index -> EtaCode] :
              /\ UnpackEta(codes) \in [Index -> Unpacked]
              /\ PackEta(UnpackEta(codes)) = codes
              /\ ~TooLong(UnpackEta(codes))
                   => UnpackEta(codes) \in [Index -> Short]
<1> USE KeyGenAssumption DEF KeyGenAssumption, Short, EtaCode, Unpacked,
        PackEta, UnpackEta, TooLong
<1>1. ASSUME NEW s \in [Index -> Short]
      PROVE  /\ PackEta(s) \in [Index -> EtaCode]
             /\ UnpackEta(PackEta(s)) = s /\ ~TooLong(s)
  <2>1. PackEta(s) \in [Index -> EtaCode]
    OBVIOUS
  <2>2. UnpackEta(PackEta(s)) = s
    <3>1. \A c \in Index : ETA - (ETA - s[c]) = s[c]
      OBVIOUS
    <3>2. UnpackEta(PackEta(s)) = [c \in Index |-> ETA - (ETA - s[c])]
      OBVIOUS
    <3> QED BY <3>1, <3>2
  <2>3. ~TooLong(s)
    OBVIOUS
  <2> QED BY <2>1, <2>2, <2>3
<1>2. ASSUME NEW codes \in [Index -> EtaCode]
      PROVE  /\ UnpackEta(codes) \in [Index -> Unpacked]
             /\ PackEta(UnpackEta(codes)) = codes
             /\ ~TooLong(UnpackEta(codes))
                  => UnpackEta(codes) \in [Index -> Short]
  <2>1. UnpackEta(codes) \in [Index -> Unpacked]
    OBVIOUS
  <2>2. PackEta(UnpackEta(codes)) = codes
    <3>1. \A c \in Index : ETA - (ETA - codes[c]) = codes[c]
      OBVIOUS
    <3>2. PackEta(UnpackEta(codes)) = [c \in Index |-> ETA - (ETA - codes[c])]
      OBVIOUS
    <3> QED BY <3>1, <3>2
  <2>3. ~TooLong(UnpackEta(codes)) => UnpackEta(codes) \in [Index -> Short]
    <3>1. \A c \in Index : UnpackEta(codes)[c] \in Int
      OBVIOUS
    <3> QED BY <3>1
  <2> QED BY <2>1, <2>2, <2>3
<1> QED BY <1>1, <1>2

\* The same of the low parts.
LEMMA T0Packing ==
  /\ \A v \in [Row -> 1 - Half .. Half] :
       PackT0(v) \in [Row -> T0Code] /\ UnpackT0(PackT0(v)) = v
  /\ \A codes \in [Row -> T0Code] :
       PackT0(UnpackT0(codes)) = codes
<1> USE KeyGenAssumption DEF KeyGenAssumption, T0Code, PackT0, UnpackT0, POWER_D
<1>1. ASSUME NEW v \in [Row -> 1 - Half .. Half]
      PROVE  PackT0(v) \in [Row -> T0Code] /\ UnpackT0(PackT0(v)) = v
  <2>1. \A r \in Row : Half - (Half - v[r]) = v[r]
    OBVIOUS
  <2>2. UnpackT0(PackT0(v)) = [r \in Row |-> Half - (Half - v[r])]
    OBVIOUS
  <2>3. PackT0(v) \in [Row -> T0Code]
    OBVIOUS
  <2> QED BY <2>1, <2>2, <2>3
<1>2. ASSUME NEW codes \in [Row -> T0Code]
      PROVE  PackT0(UnpackT0(codes)) = codes
  <2>1. \A r \in Row : Half - (Half - codes[r]) = codes[r]
    OBVIOUS
  <2>2. PackT0(UnpackT0(codes)) = [r \in Row |-> Half - (Half - codes[r])]
    OBVIOUS
  <2> QED BY <2>1, <2>2
<1> QED BY <1>1, <1>2


-----------------------------------------------------------------------------
(* Key pairs.                                                              *)

\* t = A s1 + s2 is canonical.
LEMMA SumTyped ==
  ASSUME NEW rho \in Rho, NEW a \in [Col -> Unpacked],
         NEW b \in [Row -> Unpacked]
  PROVE  SumModQ(rho, a, b) \in [Row -> 0 .. Q - 1]
<1> USE KeyGenAssumption DEF KeyGenAssumption
<1>1. Product[<<rho, a>>] \in [Row -> 0 .. Q - 1]
  OBVIOUS
<1>2. \A r \in Row : Product[<<rho, a>>][r] + b[r] \in Int
  BY <1>1 DEF Unpacked
<1>3. \A x \in Int : x % Q \in 0 .. Q - 1
  OBVIOUS
<1> QED BY <1>2, <1>3 DEF SumModQ

\* Short vectors are among those that can be unpacked.
LEMMA ShortUnpacked ==
  ASSUME NEW Index
  PROVE  [Index -> Short] \subseteq [Index -> Unpacked]
BY KeyGenAssumption DEF KeyGenAssumption, Short, Unpacked

\* Public keys have the type of public keys.
LEMMA PublicTyped ==
  ASSUME NEW rho \in Rho, NEW a \in [Col -> Unpacked],
         NEW b \in [Row -> Unpacked]
  PROVE  PublicOf(rho, a, b) \in PublicKey
BY SumTyped, Power2Round DEF PublicOf, PublicKey

PairOf(g) == PublicOf(g.rho, g.s1, g.s2)

\* A generated pair is well formed, and the keys belong together.
LEMMA GeneratedMatch ==
  ASSUME NEW g \in Seed
  PROVE  /\ PairOf(g) \in PublicKey
         /\ Generated(g) \in SecretKey
         /\ Matching(PairOf(g), Generated(g))
<1> DEFINE p == PairOf(g)
           t == SumModQ(g.rho, g.s1, g.s2)
           low == LowPart(t)
           s == Generated(g)
<1>1. g.rho \in Rho /\ g.key \in Key
  BY DEF Seed
<1>2. g.s1 \in [Col -> Short] /\ g.s2 \in [Row -> Short]
  BY DEF Seed
<1>3. g.s1 \in [Col -> Unpacked] /\ g.s2 \in [Row -> Unpacked]
  BY <1>2, ShortUnpacked
<1>4. t \in [Row -> 0 .. Q - 1]
  BY <1>1, <1>3, SumTyped
<1>5. p \in PublicKey /\ Hash[p] \in Tr
  BY <1>1, <1>3, PublicTyped, KeyGenAssumption DEF KeyGenAssumption, PairOf
<1>6. low \in [Row -> 1 - Half .. Half]
  BY <1>4, Power2Round
<1>7. /\ PackEta(g.s1) \in [Col -> EtaCode] /\ PackEta(g.s2) \in [Row -> EtaCode]
      /\ UnpackEta(PackEta(g.s1)) = g.s1 /\ UnpackEta(PackEta(g.s2)) = g.s2
      /\ ~TooLong(g.s1) /\ ~TooLong(g.s2)
  BY <1>2, EtaPacking
<1>8. PackT0(low) \in [Row -> T0Code] /\ UnpackT0(PackT0(low)) = low
  BY <1>6, T0Packing
<1>9. s = [rho |-> g.rho, key |-> g.key, tr |-> Hash[p], s1 |-> PackEta(g.s1),
           s2 |-> PackEta(g.s2), t0 |-> PackT0(low)]
  BY DEF Generated, PackSk, PairOf
<1>10. s \in SecretKey
  <2> HIDE DEF p, low, t, s
  <2> QED BY <1>1, <1>5, <1>7, <1>8, <1>9 DEF SecretKey
<1>11. Matching(p, s)
  <2>1. p.rho = g.rho /\ p.t1 = HighPart(t)
    BY DEF PairOf, PublicOf
  <2>2. \A r \in Row : p.t1[r] * POWER_D + low[r] = t[r] /\ t[r] \in 0 .. Q - 1
    BY <1>4, <2>1, Power2Round
  <2>3. \A x \in 0 .. Q - 1 : x % Q = x
    BY KeyGenAssumption, Canonical DEF KeyGenAssumption
  <2>4. \A r \in Row : (p.t1[r] * POWER_D + low[r]) % Q = t[r]
    BY <2>2, <2>3
  <2>5. /\ s.rho = g.rho /\ s.tr = Hash[p] /\ UnpackT0(s.t0) = low
        /\ UnpackEta(s.s1) = g.s1 /\ UnpackEta(s.s2) = g.s2
    BY <1>7, <1>8, <1>9
  <2>6. SumModQ(s.rho, UnpackEta(s.s1), UnpackEta(s.s2)) = t
    BY <2>5
  <2> HIDE DEF p, s, low, t
  <2> QED BY <1>7, <2>1, <2>4, <2>5, <2>6 DEF Matching
<1> QED BY <1>5, <1>10, <1>11

\* What mld_sign_pk_from_sk computes from a secret key, and tests.
DerivedPk(s) == PublicOf(s.rho, UnpackEta(s.s1), UnpackEta(s.s2))
DerivedT0(s) == LowPart(SumModQ(s.rho, UnpackEta(s.s1), UnpackEta(s.s2)))
Accepted(s) ==
  /\ UnpackT0(s.t0) = DerivedT0(s) /\ s.tr = Hash[DerivedPk(s)]
  /\ ~TooLong(UnpackEta(s.s1)) /\ ~TooLong(UnpackEta(s.s2))

\* It computes a public key from any secret key, and the vectors it unpacks
\* and computes have their types.
LEMMA DerivedTyped ==
  ASSUME NEW s \in SecretKey
  PROVE  /\ UnpackEta(s.s1) \in [Col -> Unpacked]
         /\ UnpackEta(s.s2) \in [Row -> Unpacked]
         /\ DerivedPk(s) \in PublicKey
         /\ DerivedT0(s) \in [Row -> 1 - Half .. Half]
<1>1. s.rho \in Rho /\ s.s1 \in [Col -> EtaCode] /\ s.s2 \in [Row -> EtaCode]
  BY DEF SecretKey
<1>2. UnpackEta(s.s1) \in [Col -> Unpacked] /\ UnpackEta(s.s2) \in [Row -> Unpacked]
  BY <1>1, EtaPacking
<1> QED BY <1>1, <1>2, PublicTyped, SumTyped, Power2Round DEF DerivedPk, DerivedT0

\* Its tests accept exactly the keys that can be generated.
LEMMA AcceptedExact ==
  ASSUME NEW s \in SecretKey
  PROVE  /\ Accepted(s) => \E g \in Seed : s = Generated(g) /\ DerivedPk(s) = PairOf(g)
         /\ (\E g \in Seed : s = Generated(g)) => Accepted(s)
<1>1. ASSUME Accepted(s)
      PROVE  \E g \in Seed : s = Generated(g) /\ DerivedPk(s) = PairOf(g)
  <2> DEFINE a == UnpackEta(s.s1)
             b == UnpackEta(s.s2)
             g == [rho |-> s.rho, key |-> s.key, s1 |-> a, s2 |-> b]
  <2>1. /\ s.rho \in Rho /\ s.key \in Key /\ s.t0 \in [Row -> T0Code]
        /\ s.s1 \in [Col -> EtaCode] /\ s.s2 \in [Row -> EtaCode]
    BY DEF SecretKey
  <2>2. ~TooLong(a) /\ ~TooLong(b)
    BY <1>1 DEF Accepted
  <2>3. a \in [Col -> Short] /\ b \in [Row -> Short]
    BY <2>1, <2>2, EtaPacking
  <2>4. PackEta(a) = s.s1 /\ PackEta(b) = s.s2
    BY <2>1, EtaPacking
  <2>5. g \in Seed
    BY <2>1, <2>3 DEF Seed
  <2>6. DerivedPk(s) = PairOf(g)
    BY DEF DerivedPk, PairOf
  <2>7. s.t0 = PackT0(LowPart(SumModQ(s.rho, a, b)))
    <3>1. UnpackT0(s.t0) = LowPart(SumModQ(s.rho, a, b))
      BY <1>1 DEF Accepted, DerivedT0
    <3>2. PackT0(UnpackT0(s.t0)) = s.t0
      BY <2>1, T0Packing
    <3> QED BY <3>1, <3>2
  <2>8. s.tr = Hash[PublicOf(s.rho, a, b)]
    BY <1>1 DEF Accepted, DerivedPk
  <2>9. Generated(g) = [rho |-> s.rho, key |-> s.key,
                        tr |-> Hash[PublicOf(s.rho, a, b)],
                        s1 |-> PackEta(a), s2 |-> PackEta(b),
                        t0 |-> PackT0(LowPart(SumModQ(s.rho, a, b)))]
    BY DEF Generated, PackSk
  <2>10. s = [rho |-> s.rho, key |-> s.key, tr |-> s.tr, s1 |-> s.s1,
              s2 |-> s.s2, t0 |-> s.t0]
    BY DEF SecretKey
  <2>11. s = Generated(g)
    <3> HIDE DEF g, a, b
    <3> QED BY <2>4, <2>7, <2>8, <2>9, <2>10
  <2> QED BY <2>5, <2>6, <2>11
<1>2. ASSUME NEW g \in Seed, s = Generated(g)
      PROVE  Accepted(s)
  <2>1. g.s1 \in [Col -> Short] /\ g.s2 \in [Row -> Short] /\ g.rho \in Rho
    BY DEF Seed
  <2>2. /\ UnpackEta(PackEta(g.s1)) = g.s1 /\ UnpackEta(PackEta(g.s2)) = g.s2
        /\ ~TooLong(g.s1) /\ ~TooLong(g.s2)
    BY <2>1, EtaPacking
  <2>3. SumModQ(g.rho, g.s1, g.s2) \in [Row -> 0 .. Q - 1]
    BY <2>1, ShortUnpacked, SumTyped
  <2>4. UnpackT0(PackT0(LowPart(SumModQ(g.rho, g.s1, g.s2))))
          = LowPart(SumModQ(g.rho, g.s1, g.s2))
    BY <2>3, Power2Round, T0Packing
  <2>5. /\ s.rho = g.rho /\ s.s1 = PackEta(g.s1) /\ s.s2 = PackEta(g.s2)
        /\ s.tr = Hash[PublicOf(g.rho, g.s1, g.s2)]
        /\ s.t0 = PackT0(LowPart(SumModQ(g.rho, g.s1, g.s2)))
    BY <1>2 DEF Generated, PackSk
  <2> QED BY <2>2, <2>4, <2>5 DEF Accepted, DerivedPk, DerivedT0
<1> QED BY <1>1, <1>2

-----------------------------------------------------------------------------
(* The inductive invariant.                                                *)

PcValue == {"idle", "rng", "alloc", "compute", "pack", "pct sign",
            "pct verify", "compare", "cleanup", "returned"}
Deriving == op = "pk_from_sk"
KeygenCalled == op \in KeygenOps

Pair == /\ seed \in Seed /\ pk = PairOf(seed) /\ sk = Generated(seed)
Unwritten == pk = Untouched /\ sk = Untouched

Control ==
  /\ pc \in PcValue /\ op \in KeygenOps \cup {"none", "pk_from_sk"}
  /\ pc # "idle" => op # "none"
  /\ pc \in {"pack", "pct sign", "pct verify", "rng"} => KeygenCalled
  /\ pc \in {"compare", "cleanup"} => Deriving
  /\ pc # "returned" => ~broken /\ ~unsigned

KeygenBuffers ==
  /\ KeygenCalled /\ pc \in {"rng", "alloc", "compute"} =>
       seed \in Seed /\ Unwritten
  /\ KeygenCalled /\ pc \in {"compute", "pack"} => s1 = seed.s1 /\ s2 = seed.s2
  /\ pc = "pack" =>
       /\ seed \in Seed /\ sk = Untouched /\ pk = PairOf(seed)
       /\ t0 = LowPart(SumModQ(seed.rho, seed.s1, seed.s2)) /\ tr = Hash[pk]
  /\ pc \in {"pct sign", "pct verify"} => Pair
  /\ KeygenCalled /\ pc = "returned" =>
       Pair \/ (Unwritten /\ ret \in {OUT_OF_MEMORY, RNG_FAIL})

Judged ==
  KeygenCalled /\ pc = "returned" =>
    (ret = 0 => ~broken) /\ (ret = FAIL => broken \/ unsigned)

Verdict ==
  /\ ret \in {0, FAIL, OUT_OF_MEMORY}
  /\ ret = 0 => Accepted(sk)
  /\ ret = FAIL => ~Accepted(sk)

DeriveBuffers ==
  /\ Deriving /\ pc # "idle" => sk \in SecretKey
  /\ Deriving /\ pc \in {"compute", "compare"} =>
       /\ s1 = UnpackEta(sk.s1) /\ s2 = UnpackEta(sk.s2)
       /\ long = (TooLong(s1) \/ TooLong(s2))
  /\ pc = "compare" =>
       pk = DerivedPk(sk) /\ t0 = DerivedT0(sk) /\ tr = Hash[pk]
  /\ pc = "cleanup" => Verdict /\ (ret = 0 => pk = DerivedPk(sk))
  /\ Deriving /\ pc = "returned" =>
       Verdict /\ pk = IF ret = 0 THEN DerivedPk(sk) ELSE Zeroed

IInv == TypeOK /\ Control /\ KeygenBuffers /\ Judged /\ DeriveBuffers

\* The error codes are distinct.
LEMMA Codes ==
  /\ 0 # FAIL /\ 0 # OUT_OF_MEMORY /\ 0 # RNG_FAIL
  /\ FAIL # OUT_OF_MEMORY /\ FAIL # RNG_FAIL
BY DEF FAIL, OUT_OF_MEMORY, RNG_FAIL

\* The pieces of the invariant with the definitions the steps need.
LEMMA InitInv == Init => IInv
<1> SUFFICES ASSUME Init PROVE IInv
  OBVIOUS
<1> USE DEF Init
<1>1. TypeOK
  BY DEF TypeOK, Buffers
<1>2. Control
  BY DEF Control, PcValue, KeygenCalled, KeygenOps, Deriving
<1>3. KeygenBuffers /\ Judged /\ DeriveBuffers
  BY DEF KeygenBuffers, Judged, DeriveBuffers, KeygenCalled, KeygenOps, Deriving
<1> QED BY <1>1, <1>2, <1>3 DEF IInv

\* The sentinels are not keys.
LEMMA Sentinels ==
  /\ Untouched \notin PublicKey /\ Zeroed \notin PublicKey
  /\ Untouched \notin SecretKey /\ Untouched # Zeroed
<1>1. \A k \in PublicKey : DOMAIN k = {"rho", "t1"}
  BY DEF PublicKey
<1>2. \A k \in SecretKey : DOMAIN k = {"rho", "key", "tr", "s1", "s2", "t0"}
  BY DEF SecretKey
<1>3. DOMAIN Untouched = {"buffer"} /\ DOMAIN Zeroed = {"buffer"}
  BY DEF Untouched, Zeroed
<1>4. Untouched.buffer # Zeroed.buffer
  BY DEF Untouched, Zeroed
<1> QED BY <1>1, <1>2, <1>3, <1>4

LEMMA CallKeygenInv ==
  ASSUME NEW o \in KeygenOps PROVE IInv /\ CallKeygen(o) => IInv'
<1> SUFFICES ASSUME IInv, CallKeygen(o) PROVE IInv'
  OBVIOUS
<1> USE DEF CallKeygen, locals, IInv
<1>0. o \in {"keypair", "keypair_internal"}
  BY DEF KeygenOps
<1>1. TypeOK'
  BY DEF TypeOK, Buffers
<1>2. Control'
  BY <1>0 DEF Control, PcValue, KeygenCalled, KeygenOps, Deriving
<1>3. KeygenBuffers' /\ Judged'
  BY <1>0 DEF KeygenBuffers, Judged, KeygenCalled, Unwritten
<1>4. DeriveBuffers'
  BY <1>0 DEF DeriveBuffers, Deriving
<1> QED BY <1>1, <1>2, <1>3, <1>4

LEMMA CallDeriveInv == IInv /\ CallDerive => IInv'
<1> SUFFICES ASSUME IInv, CallDerive PROVE IInv'
  OBVIOUS
<1> USE DEF CallDerive, locals, history, IInv
<1>1. TypeOK'
  BY DEF TypeOK
<1>2. Control'
  BY DEF Control, PcValue, KeygenCalled, KeygenOps, Deriving
<1>3. KeygenBuffers' /\ Judged'
  BY DEF KeygenBuffers, Judged, KeygenCalled, KeygenOps
<1>4. DeriveBuffers'
  BY DEF DeriveBuffers, TypeOK
<1> QED BY <1>1, <1>2, <1>3, <1>4

LEMMA RandomBytesInv == IInv /\ RandomBytes => IInv'
<1> SUFFICES ASSUME IInv, RandomBytes PROVE IInv'
  OBVIOUS
<1> USE DEF RandomBytes, locals, history, IInv
<1>0. KeygenCalled /\ ~Deriving /\ ~Deriving' /\ KeygenCalled'
  BY DEF Control, KeygenCalled, KeygenOps, Deriving
<1>1. TypeOK'
  BY DEF TypeOK
<1>2. Control'
  BY <1>0 DEF Control, PcValue, KeygenCalled
<1>3. KeygenBuffers'
  BY <1>0 DEF KeygenBuffers, Unwritten
<1>j. Judged'
  <2>1. pc' = "returned" => ret' = RNG_FAIL
    OBVIOUS
  <2> QED BY <2>1, Codes DEF Judged
<1>4. DeriveBuffers'
  BY <1>0 DEF DeriveBuffers
<1> QED BY <1>1, <1>2, <1>3, <1>j, <1>4

LEMMA AllocationFailsInv == IInv /\ AllocationFails => IInv'
<1> SUFFICES ASSUME IInv, AllocationFails PROVE IInv'
  OBVIOUS
<1> USE DEF AllocationFails, Failed, locals, history, IInv
<1>0. (KeygenCalled /\ ~Deriving) \/ (Deriving /\ ~KeygenCalled)
  BY DEF Control, KeygenCalled, KeygenOps, Deriving
<1>1. TypeOK'
  BY DEF TypeOK
<1>2. Control'
  BY <1>0 DEF Control, PcValue, KeygenCalled, Deriving
<1>3. KeygenBuffers'
  BY <1>0 DEF KeygenBuffers, Unwritten, KeygenCalled, Deriving
<1>j. Judged'
  <2>1. ret' = OUT_OF_MEMORY
    OBVIOUS
  <2> QED BY <2>1, Codes DEF Judged
<1>4. DeriveBuffers'
  BY <1>0 DEF DeriveBuffers, Deriving, KeygenCalled, Verdict, OUT_OF_MEMORY,
              FAIL
<1> QED BY <1>1, <1>2, <1>3, <1>j, <1>4

LEMMA SampleInv == IInv /\ Sample => IInv'
<1> SUFFICES ASSUME IInv, Sample PROVE IInv'
  OBVIOUS
<1> USE DEF Sample, history, IInv
<1>0. KeygenCalled /\ ~Deriving /\ KeygenCalled' /\ ~Deriving' /\ seed \in Seed
  BY DEF KeygenBuffers, KeygenCalled, KeygenOps, Deriving
<1>1. TypeOK'
  <2>1. s1' \in [Col -> Unpacked] /\ s2' \in [Row -> Unpacked]
    BY <1>0, ShortUnpacked DEF Seed
  <2> QED BY <2>1 DEF TypeOK, Buffers
<1>2. Control'
  BY <1>0 DEF Control, PcValue, KeygenCalled
<1>3. KeygenBuffers' /\ Judged'
  BY <1>0 DEF KeygenBuffers, Judged, Unwritten
<1>4. DeriveBuffers'
  BY <1>0 DEF DeriveBuffers
<1> QED BY <1>1, <1>2, <1>3, <1>4

LEMMA UnpackInv == IInv /\ Unpack => IInv'
<1> SUFFICES ASSUME IInv, Unpack PROVE IInv'
  OBVIOUS
<1> USE DEF Unpack, history, IInv
<1>0. Deriving /\ ~KeygenCalled /\ Deriving' /\ ~KeygenCalled' /\ sk \in SecretKey
  BY DEF DeriveBuffers, KeygenCalled, KeygenOps, Deriving
<1>1. TypeOK'
  BY <1>0, DerivedTyped DEF TypeOK, Buffers
<1>2. Control'
  BY <1>0 DEF Control, PcValue, Deriving
<1>3. KeygenBuffers' /\ Judged'
  BY <1>0 DEF KeygenBuffers, Judged
<1>4. DeriveBuffers'
  BY <1>0 DEF DeriveBuffers
<1> QED BY <1>1, <1>2, <1>3, <1>4

LEMMA ComputeInv == IInv /\ Compute => IInv'
<1> SUFFICES ASSUME IInv, Compute PROVE IInv'
  OBVIOUS
<1> USE DEF Compute, history
<1>a. TypeOK /\ Control /\ KeygenBuffers /\ Judged /\ DeriveBuffers
  BY DEF IInv
<1>1. CASE Deriving
  <2>0. ~KeygenCalled /\ Deriving' /\ ~KeygenCalled' /\ sk \in SecretKey
        /\ CurrentRho = sk.rho /\ pc' = "compare"
    BY <1>a, <1>1 DEF DeriveBuffers, KeygenCalled, KeygenOps, Deriving, CurrentRho
  <2>1. s1 = UnpackEta(sk.s1) /\ s2 = UnpackEta(sk.s2)
    BY <1>a, <1>1 DEF DeriveBuffers
  <2>2. pk' = DerivedPk(sk) /\ t0' = DerivedT0(sk) /\ tr' = Hash[pk']
    BY <2>0, <2>1 DEF DerivedPk, DerivedT0
  <2>3. pk' \in PublicKey /\ t0' \in [Row -> 1 - Half .. Half]
    BY <2>0, <2>2, DerivedTyped
  <2>4. t1' \in [Row -> T1] /\ tr' \in Tr
    <3>1. t1' = pk'.t1 /\ tr' = Hash[pk']
      OBVIOUS
    <3>2. Hash \in [PublicKey -> Tr]
      BY KeyGenAssumption DEF KeyGenAssumption
    <3>3. pk'.t1 \in [Row -> T1]
      BY <2>3 DEF PublicKey
    <3> QED BY <2>3, <3>1, <3>2, <3>3
  <2>5. TypeOK'
    BY <1>a, <2>3, <2>4 DEF TypeOK, Buffers
  <2>6. Control'
    BY <1>a, <2>0 DEF Control, PcValue, Deriving
  <2>7. KeygenBuffers' /\ Judged'
    BY <2>0 DEF KeygenBuffers, Judged
  <2>8. DeriveBuffers'
    BY <1>a, <1>1, <2>0, <2>2 DEF DeriveBuffers
  <2> QED BY <2>5, <2>6, <2>7, <2>8 DEF IInv
<1>2. CASE ~Deriving
  <2>0. /\ KeygenCalled /\ KeygenCalled' /\ ~Deriving' /\ CurrentRho = seed.rho
        /\ pc' = "pack"
    BY <1>a, <1>2 DEF Control, KeygenCalled, Deriving, CurrentRho
  <2>1. seed \in Seed /\ Unwritten /\ s1 = seed.s1 /\ s2 = seed.s2
    BY <1>a, <2>0 DEF KeygenBuffers
  <2>2. pk' = PairOf(seed) /\ t0' = LowPart(SumModQ(seed.rho, seed.s1, seed.s2))
    BY <2>0, <2>1 DEF PairOf
  <2>3. pk' \in PublicKey
    BY <2>1, <2>2, GeneratedMatch
  <2>4. t1' \in [Row -> T1] /\ tr' \in Tr
    BY <2>3, KeyGenAssumption DEF PublicKey, KeyGenAssumption
  <2>5. t0' \in [Row -> 1 - Half .. Half]
    <3>1. seed.rho \in Rho /\ seed.s1 \in [Col -> Unpacked]
          /\ seed.s2 \in [Row -> Unpacked]
      BY <2>1, ShortUnpacked DEF Seed
    <3> QED BY <2>2, <3>1, SumTyped, Power2Round
  <2>6. TypeOK'
    BY <1>a, <2>3, <2>4, <2>5 DEF TypeOK, Buffers
  <2>7. Control'
    BY <1>a, <2>0 DEF Control, PcValue, KeygenCalled
  <2>8. KeygenBuffers' /\ Judged'
    BY <2>0, <2>1, <2>2 DEF KeygenBuffers, Judged, Unwritten
  <2>9. DeriveBuffers'
    BY <2>0 DEF DeriveBuffers
  <2> QED BY <2>6, <2>7, <2>8, <2>9 DEF IInv
<1> QED BY <1>1, <1>2

LEMMA PackInv == IInv /\ Pack => IInv'
<1> SUFFICES ASSUME IInv, Pack PROVE IInv'
  OBVIOUS
<1> USE DEF Pack, locals, history
<1>a. TypeOK /\ Control /\ KeygenBuffers /\ Judged /\ DeriveBuffers
  BY DEF IInv
<1>1. /\ KeygenCalled /\ ~Deriving /\ KeygenCalled' /\ ~Deriving'
      /\ pc' \in {"pct sign", "returned"} /\ ret' \in {ret, 0}
      /\ pc' = "returned" => ret' = 0
  BY <1>a DEF Control, KeygenCalled, KeygenOps, Deriving
<1>2. Pair'
  <2>1. /\ seed \in Seed /\ pk = PairOf(seed) /\ s1 = seed.s1 /\ s2 = seed.s2
        /\ t0 = LowPart(SumModQ(seed.rho, seed.s1, seed.s2)) /\ tr = Hash[pk]
    BY <1>a, <1>1 DEF KeygenBuffers
  <2>2. sk' = Generated(seed)
    BY <2>1 DEF Generated, PairOf
  <2> QED BY <2>1, <2>2 DEF Pair
<1>3. sk' \in SecretKey
  BY <1>2, GeneratedMatch DEF Pair
<1>4. TypeOK'
  BY <1>a, <1>1, <1>3 DEF TypeOK, Buffers
<1>5. Control'
  BY <1>a, <1>1 DEF Control, PcValue, KeygenCalled
<1>6. KeygenBuffers'
  BY <1>1, <1>2 DEF KeygenBuffers
<1>j. Judged'
  <2>1. ~broken'
    BY <1>a DEF Control
  <2> QED BY <1>1, <2>1, Codes DEF Judged
<1>7. DeriveBuffers'
  BY <1>1 DEF DeriveBuffers
<1> QED BY <1>4, <1>5, <1>6, <1>j, <1>7 DEF IInv

LEMMA PctSignInv == IInv /\ PctSign => IInv'
<1> SUFFICES ASSUME IInv, PctSign PROVE IInv'
  OBVIOUS
<1> USE DEF PctSign, locals
<1>a. TypeOK /\ Control /\ KeygenBuffers /\ Judged /\ DeriveBuffers
  BY DEF IInv
<1>1. KeygenCalled /\ ~Deriving /\ KeygenCalled' /\ ~Deriving'
  BY <1>a DEF Control, KeygenCalled, KeygenOps, Deriving
<1>2. Pair /\ Pair'
  BY <1>a DEF KeygenBuffers, Pair
<1>3. TypeOK'
  BY <1>a DEF TypeOK
<1>o. ~broken /\ ~unsigned /\ ~broken'
  BY <1>a DEF Control
<1>c. \/ pc' = "pct verify" /\ ~unsigned'
      \/ pc' = "returned" /\ unsigned' /\ ret' \in {FAIL, OUT_OF_MEMORY, RNG_FAIL}
  BY <1>o
<1>4. Control'
  <2>1. /\ pc' \in PcValue /\ op' \in KeygenOps \cup {"none", "pk_from_sk"}
        /\ op' # "none"
    BY <1>a, <1>c DEF Control, PcValue
  <2>2. pc' # "returned" => ~unsigned'
    BY <1>c, Zenon
  <2>3. pc' \notin {"compare", "cleanup"}
    BY <1>c
  <2> QED BY <1>1, <1>o, <2>1, <2>2, <2>3, Zenon DEF Control
<1>5. KeygenBuffers'
  BY <1>a, <1>1, <1>2, <1>c DEF KeygenBuffers
<1>j. Judged'
  <2>1. ASSUME pc' = "returned" PROVE ret' # 0 /\ unsigned'
    BY <1>c, <2>1, Codes
  <2> QED BY <2>1, Zenon DEF Judged
<1>6. DeriveBuffers'
  BY <1>1 DEF DeriveBuffers
<1> QED BY <1>3, <1>4, <1>5, <1>j, <1>6 DEF IInv

LEMMA PctVerifyInv == IInv /\ PctVerify => IInv'
<1> SUFFICES ASSUME IInv, PctVerify PROVE IInv'
  OBVIOUS
<1>a. TypeOK /\ Control /\ KeygenBuffers /\ Judged /\ DeriveBuffers
  BY DEF IInv
<1> DEFINE pk_test == IF broken' THEN [pk EXCEPT !.rho = Flipped[@]] ELSE pk
<1>0. /\ pc = "pct verify" /\ pc' = "returned" /\ broken' \in BOOLEAN
      /\ ret' \in {OUT_OF_MEMORY, IF Matching(pk_test, sk) THEN 0 ELSE FAIL}
      /\ UNCHANGED <<op, pk, sk, seed, s1, s2, t0, t1, tr, long, unsigned>>
  BY DEF PctVerify, locals
<1>1. KeygenCalled /\ ~Deriving /\ KeygenCalled' /\ ~Deriving'
  BY <1>a, <1>0 DEF Control, KeygenCalled, KeygenOps, Deriving
<1>2. Pair /\ Pair'
  BY <1>a, <1>0 DEF KeygenBuffers, Pair
<1>3. pk \in PublicKey /\ sk \in SecretKey /\ Matching(pk, sk)
  BY <1>2, GeneratedMatch DEF Pair
<1>4. broken' => ~Matching(pk_test, sk)
  <2>1. pk.rho \in Rho /\ pk.rho = sk.rho /\ Flipped[pk.rho] # pk.rho
    BY <1>3, KeyGenAssumption DEF PublicKey, Matching, KeyGenAssumption
  <2>2. ASSUME broken' PROVE pk_test.rho = Flipped[pk.rho]
    BY <1>3, <2>2 DEF PublicKey
  <2> HIDE DEF pk_test
  <2> QED BY <2>1, <2>2 DEF Matching
<1>5. ~broken' => Matching(pk_test, sk)
  BY <1>3
<1> HIDE DEF pk_test
<1>6. ret' \in {0, OUT_OF_MEMORY, FAIL}
  BY <1>0
<1>7. (ret' = 0 => ~broken') /\ (ret' = FAIL => broken')
  <2>1. CASE Matching(pk_test, sk)
    <3>1. ret' \in {OUT_OF_MEMORY, 0}
      BY <1>0, <2>1
    <3>2. ret' # FAIL
      BY <3>1, Codes
    <3> QED BY <1>4, <2>1, <3>2, Zenon
  <2>2. CASE ~Matching(pk_test, sk)
    <3>1. ret' \in {OUT_OF_MEMORY, FAIL}
      BY <1>0, <2>2
    <3>2. ret' # 0
      BY <3>1, Codes
    <3> QED BY <1>5, <2>2, <3>2, Zenon
  <2> QED BY <2>1, <2>2, Zenon
<1>8. TypeOK'
  BY <1>a, <1>0, <1>6 DEF TypeOK
<1>9. Control'
  BY <1>a, <1>0, <1>1 DEF Control, PcValue, KeygenCalled
<1>10. KeygenBuffers' /\ Judged'
  BY <1>0, <1>2, <1>7 DEF KeygenBuffers, Judged
<1>11. DeriveBuffers'
  BY <1>0, <1>1 DEF DeriveBuffers
<1> QED BY <1>8, <1>9, <1>10, <1>11 DEF IInv

LEMMA CompareInv == IInv /\ Compare => IInv'
<1> SUFFICES ASSUME IInv, Compare PROVE IInv'
  OBVIOUS
<1> USE DEF Compare, locals, history
<1>a. TypeOK /\ Control /\ KeygenBuffers /\ Judged /\ DeriveBuffers
  BY DEF IInv
<1>1. Deriving /\ ~KeygenCalled /\ Deriving' /\ ~KeygenCalled'
  BY <1>a DEF Control, KeygenCalled, KeygenOps, Deriving
<1>2. /\ sk \in SecretKey /\ s1 = UnpackEta(sk.s1) /\ s2 = UnpackEta(sk.s2)
      /\ long = (TooLong(s1) \/ TooLong(s2))
      /\ pk = DerivedPk(sk) /\ t0 = DerivedT0(sk) /\ tr = Hash[pk]
  BY <1>a, <1>1 DEF DeriveBuffers
<1>3. Accepted(sk) <=> ~(UnpackT0(sk.t0) # t0 \/ sk.tr # tr \/ long)
  BY <1>2 DEF Accepted
<1>4. Verdict' /\ pk' = DerivedPk(sk')
  <2>1. ret' \in {0, FAIL} /\ (ret' = 0 <=> Accepted(sk)) /\ 0 # FAIL
    BY <1>3 DEF FAIL
  <2> QED BY <1>2, <2>1 DEF Verdict
<1>5. TypeOK'
  BY <1>a DEF TypeOK
<1>6. Control'
  BY <1>a, <1>1 DEF Control, PcValue, Deriving
<1>7. KeygenBuffers' /\ Judged'
  BY <1>1 DEF KeygenBuffers, Judged
<1>8. DeriveBuffers'
  BY <1>2, <1>4 DEF DeriveBuffers
<1> QED BY <1>5, <1>6, <1>7, <1>8 DEF IInv

LEMMA CleanupInv == IInv /\ Cleanup => IInv'
<1> SUFFICES ASSUME IInv, Cleanup PROVE IInv'
  OBVIOUS
<1> USE DEF Cleanup, locals, history
<1>a. TypeOK /\ Control /\ KeygenBuffers /\ Judged /\ DeriveBuffers
  BY DEF IInv
<1>1. Deriving /\ ~KeygenCalled /\ Deriving' /\ ~KeygenCalled'
  BY <1>a DEF Control, KeygenCalled, KeygenOps, Deriving
<1>2. sk \in SecretKey /\ Verdict /\ (ret = 0 => pk = DerivedPk(sk))
  BY <1>a, <1>1 DEF DeriveBuffers
<1>3. Verdict' /\ pk' = (IF ret' = 0 THEN DerivedPk(sk') ELSE Zeroed)
  BY <1>2 DEF Verdict
<1>4. TypeOK'
  BY <1>a DEF TypeOK
<1>5. Control'
  BY <1>a, <1>1 DEF Control, PcValue, Deriving
<1>6. KeygenBuffers' /\ Judged'
  BY <1>1 DEF KeygenBuffers, Judged
<1>7. DeriveBuffers'
  BY <1>2, <1>3 DEF DeriveBuffers
<1> QED BY <1>4, <1>5, <1>6, <1>7 DEF IInv

LEMMA ReturnInv == IInv /\ Return => IInv'
<1> SUFFICES ASSUME IInv, Return PROVE IInv'
  OBVIOUS
<1> USE DEF Return, Fresh, IInv
<1>1. TypeOK'
  BY DEF TypeOK, Buffers
<1>2. Control'
  BY DEF Control, PcValue
<1>3. KeygenBuffers' /\ Judged' /\ DeriveBuffers'
  BY DEF KeygenBuffers, Judged, DeriveBuffers
<1> QED BY <1>1, <1>2, <1>3

LEMMA StutterInv == IInv /\ UNCHANGED vars => IInv'
<1> SUFFICES ASSUME IInv, UNCHANGED vars PROVE IInv'
  OBVIOUS
<1> USE DEF IInv, vars
<1>1. TypeOK'
  BY DEF TypeOK
<1>2. Control'
  BY DEF Control, KeygenCalled, Deriving
<1>3. KeygenBuffers'
  BY DEF KeygenBuffers, KeygenCalled, Pair, Unwritten
<1>4. Judged'
  BY Zenon DEF Judged, KeygenCalled
<1>5. DeriveBuffers'
  BY DEF DeriveBuffers, Deriving, Verdict
<1> QED BY <1>1, <1>2, <1>3, <1>4, <1>5

LEMMA Invariance == Spec => []IInv
<1>1. IInv /\ [Next]_vars => IInv'
  BY CallKeygenInv, CallDeriveInv, RandomBytesInv, AllocationFailsInv,
     SampleInv, UnpackInv, ComputeInv, PackInv, PctSignInv, PctVerifyInv,
     CompareInv, CleanupInv, ReturnInv, StutterInv DEF Next
<1> QED BY InitInv, <1>1, PTL DEF Spec

-----------------------------------------------------------------------------
(* The theorems.                                                           *)

\* Every buffer keeps its type; what is packed fits its codes
\* (sign.c:234-262, packing.c:20-75).
THEOREM TypeCorrect == Spec => []TypeOK
<1>1. IInv => TypeOK
  BY DEF IInv
<1> QED BY Invariance, <1>1, PTL

\* Key generation writes a pair of keys that belong together, or neither
\* buffer (sign.c:294-364), for all dimensions, moduli and hash functions.
THEOREM PairWhole == Spec => []PairOrNothing
<1>1. IInv => PairOrNothing
  <2> SUFFICES ASSUME IInv, KeygenReturned PROVE PairOrNothing
    BY DEF PairOrNothing
  <2>1. Pair \/ (Unwritten /\ ret \in {OUT_OF_MEMORY, RNG_FAIL})
    BY DEF IInv, KeygenBuffers, KeygenReturned, KeygenCalled
  <2>2. ASSUME Pair
        PROVE  pk # Untouched /\ sk # Untouched /\ Matching(pk, sk)
    BY <2>2, GeneratedMatch, Sentinels DEF Pair
  <2> QED BY <2>1, <2>2 DEF PairOrNothing, Unwritten
<1> QED BY Invariance, <1>1, PTL

\* The pairwise consistency test passes no broken pair and fails no good one
\* (sign.c:86-131).
THEOREM TestJudges == Spec => []PctJudges
<1>1. IInv => PctJudges
  BY DEF IInv, Judged, PctJudges, KeygenReturned, KeygenCalled
<1> QED BY Invariance, <1>1, PTL

\* The public key is derived from exactly the secret keys that can be
\* generated (sign.c:1423-1495), for all dimensions, moduli and hash functions.
THEOREM DerivesExactly == Spec => []DerivedExact
<1>1. IInv => DerivedExact
  <2> SUFFICES ASSUME IInv, pc = "returned", op = "pk_from_sk",
                      ret # OUT_OF_MEMORY
               PROVE  \/ ret = FAIL /\ ~\E g \in Seed : sk = Generated(g)
                      \/ ret = 0 /\ \E g \in Seed : sk = Generated(g)
                                      /\ pk = PublicOf(g.rho, g.s1, g.s2)
    BY DEF DerivedExact
  <2>1. /\ sk \in SecretKey /\ Verdict
        /\ pk = IF ret = 0 THEN DerivedPk(sk) ELSE Zeroed
    BY DEF IInv, DeriveBuffers, Deriving
  <2> QED BY <2>1, AcceptedExact DEF Verdict, PairOf
<1> QED BY Invariance, <1>1, PTL

\* The public key derived is valid or zeroed (sign.c:1473-1481).
THEOREM NeverHalfDerived == Spec => []ValidOrZeroed
<1>1. IInv => ValidOrZeroed
  <2> SUFFICES ASSUME IInv, pc = "returned", op = "pk_from_sk"
               PROVE  IF ret = 0 THEN pk # Zeroed /\ Matching(pk, sk)
                                 ELSE pk = Zeroed
    BY DEF ValidOrZeroed
  <2>1. /\ sk \in SecretKey /\ Verdict
        /\ pk = IF ret = 0 THEN DerivedPk(sk) ELSE Zeroed
    BY DEF IInv, DeriveBuffers, Deriving
  <2>2. ASSUME ret = 0 PROVE pk # Zeroed /\ Matching(pk, sk)
    <3>1. PICK g \in Seed : sk = Generated(g) /\ DerivedPk(sk) = PairOf(g)
      BY <2>1, <2>2, AcceptedExact DEF Verdict
    <3> QED BY <2>1, <2>2, <3>1, GeneratedMatch, Sentinels
  <2> QED BY <2>1, <2>2
<1> QED BY Invariance, <1>1, PTL
=============================================================================
