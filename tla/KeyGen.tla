------------------------------- MODULE KeyGen -------------------------------
(***************************************************************************)
(* Key generation and the derivation of the public from the secret key:    *)
(* mld_sign_keypair, mld_sign_keypair_internal, mld_check_pct and          *)
(* mld_sign_pk_from_sk, with the computation the last two share            *)
(* (mld_compute_t0_t1_tr_from_sk_components), in sign.c.                   *)
(*                                                                         *)
(* Vectors are functions from coefficient indices to integers, and keys    *)
(* hold them packed.  The product of the matrix expanded from rho with s1  *)
(* and the hash of a public key are parameters.  What a seed expands to is *)
(* chosen freely; sampling is not modelled here.                           *)
(***************************************************************************)
EXTENDS ReturnCodes

CONSTANTS
  Q, ETA,           \* MLDSA_Q, MLDSA_ETA
  Half,             \* 2^(MLDSA_D - 1)
  EtaCodes,         \* 8 or 16: values of a packed coefficient of s1 and s2
  Col, Row,         \* coefficients of s1, and of s2, t0 and t1
  Rho, Flipped,     \* values of rho; rho with its first byte inverted
  Key,              \* values of the key K
  Product,          \* Product[rho, s1]: A(rho) s1 modulo Q, a vector
  Tr, Hash,         \* Hash[pk]: the SHAKE256 hash tr of a public key
  Pct               \* MLD_CONFIG_KEYGEN_PCT

POWER_D == 2 * Half      \* MLD_2_POW_D

Short == -ETA .. ETA                          \* what keygen samples
Unpacked == ETA - EtaCodes + 1 .. ETA         \* what unpacking can yield
EtaCode == 0 .. EtaCodes - 1
T0Code == 0 .. POWER_D - 1
T1 == 0 .. (Q - 1 + Half - 1) \div POWER_D
PublicKey == [rho : Rho, t1 : [Row -> T1]]
SecretKey == [rho : Rho, key : Key, tr : Tr, s1 : [Col -> EtaCode],
              s2 : [Row -> EtaCode], t0 : [Row -> T0Code]]

\* EtaCodes is the power of two above 2 ETA: packing s1 and s2 is lossless.
ASSUME KeyGenAssumption ==
  /\ Q \in Nat \ {0} /\ ETA \in Nat /\ EtaCodes \in Nat /\ 2 * ETA < EtaCodes
  /\ Half \in Nat \ {0}
  /\ Product \in [Rho \X [Col -> Unpacked] -> [Row -> 0 .. Q - 1]]
  /\ Hash \in [PublicKey -> Tr]
  /\ Flipped \in [Rho -> Rho] /\ \A r \in Rho : Flipped[r] # r
  /\ Pct \in BOOLEAN

\* A buffer not written by the call, and one that was zeroized.
Untouched == [buffer |-> "untouched"]
Zeroed == [buffer |-> "zeroed"]

-----------------------------------------------------------------------------
(* Packing and the arithmetic on one coefficient.                          *)

PackEta(s) == [c \in DOMAIN s |-> ETA - s[c]]
UnpackEta(codes) == [c \in DOMAIN codes |-> ETA - codes[c]]
PackT0(t0) == [r \in Row |-> Half - t0[r]]
UnpackT0(codes) == [r \in Row |-> Half - codes[r]]

\* chknorm(s, ETA + 1): some coefficient is beyond ETA.
TooLong(s) == \E c \in DOMAIN s : s[c] >= ETA + 1 \/ s[c] =< -(ETA + 1)

\* t = A s1 + s2, made canonical by reduce and caddq.
SumModQ(rho, s1, s2) == [r \in Row |-> (Product[<<rho, s1>>][r] + s2[r]) % Q]

\* mld_power2round
HighPart(t) == [r \in Row |-> (t[r] + Half - 1) \div POWER_D]
LowPart(t) == [r \in Row |-> t[r] - HighPart(t)[r] * POWER_D]

\* The key pair of rho, key and the short vectors s1, s2.
Seed == [rho : Rho, key : Key, s1 : [Col -> Short], s2 : [Row -> Short]]
PublicOf(rho, s1, s2) ==
  [rho |-> rho, t1 |-> HighPart(SumModQ(rho, s1, s2))]
PackSk(rho, key, tr, s1, s2, t0) ==
  [rho |-> rho, key |-> key, tr |-> tr, s1 |-> PackEta(s1), s2 |-> PackEta(s2),
   t0 |-> PackT0(t0)]

-----------------------------------------------------------------------------

VARIABLES
  pc, op,
  pk, sk,            \* the caller's buffers
  seed,              \* what the seed expands to
  s1, s2, t0, t1, tr,   \* buffers; t0, tr as computed by the shared function
  long,              \* chk1 | chk2 of mld_sign_pk_from_sk
  ret,
  broken,            \* history: mld_break_pct said yes in this call
  unsigned           \* history: the test signature of the PCT failed

vars == <<pc, op, pk, sk, seed, s1, s2, t0, t1, tr, long, ret, broken,
          unsigned>>
locals == <<s1, s2, t0, t1, tr, long>>
history == <<broken, unsigned>>

KeygenOps == {"keypair", "keypair_internal"}
Nothing == <<>>

Fresh ==
  /\ s1' = Nothing /\ s2' = Nothing /\ t0' = Nothing /\ t1' = Nothing
  /\ tr' = Nothing /\ long' = FALSE
  /\ broken' = FALSE /\ unsigned' = FALSE

\* The client may hold any bytes as a secret key.
Init ==
  /\ pc = "idle" /\ op = "none" /\ ret = Unset
  /\ pk = Untouched /\ sk \in SecretKey /\ seed = Nothing
  /\ s1 = Nothing /\ s2 = Nothing /\ t0 = Nothing /\ t1 = Nothing
  /\ tr = Nothing /\ long = FALSE
  /\ broken = FALSE /\ unsigned = FALSE

\* mld_sign_keypair draws the seed; mld_sign_keypair_internal is given one.
CallKeygen(o) ==
  /\ pc = "idle" /\ op' = o /\ ret' = Unset
  /\ pc' = IF o = "keypair" THEN "rng" ELSE "alloc"
  /\ pk' = Untouched /\ sk' = Untouched
  /\ seed' \in Seed
  /\ UNCHANGED <<locals, broken, unsigned>>

CallDerive ==
  /\ pc = "idle" /\ sk # Untouched
  /\ op' = "pk_from_sk" /\ ret' = Unset /\ pc' = "alloc"
  /\ pk' = Untouched
  /\ UNCHANGED <<sk, seed, locals, history>>

RandomBytes ==
  /\ pc = "rng"
  /\ \/ pc' = "alloc" /\ UNCHANGED ret
     \/ pc' = "returned" /\ ret' = RNG_FAIL
  /\ UNCHANGED <<op, pk, sk, seed, locals, history>>

\* Where a failure in the common part leads.
Failed(code) ==
  /\ ret' = code
  /\ pc' = IF op = "pk_from_sk" THEN "cleanup" ELSE "returned"

\* Fault: the public key is out before the shared function has its buffers.
AllocationFailsLate ==
  /\ pc \in {"alloc", "compute"} /\ Failed(OUT_OF_MEMORY)
  /\ pk' = IF pc = "compute" /\ op \in KeygenOps
             THEN PublicOf(seed.rho, s1, s2) ELSE pk
  /\ UNCHANGED <<op, sk, seed, locals, history>>

AllocationFails ==
  /\ pc \in {"alloc", "compute"} /\ Failed(OUT_OF_MEMORY)
  /\ UNCHANGED <<op, pk, sk, seed, locals, history>>

Sample ==
  /\ pc = "alloc" /\ op \in KeygenOps /\ pc' = "compute"
  /\ s1' = seed.s1 /\ s2' = seed.s2
  /\ UNCHANGED <<op, pk, sk, seed, t0, t1, tr, long, ret, history>>

\* Fault: only s1 is checked.
UnpackCheckingS1 ==
  /\ pc = "alloc" /\ op = "pk_from_sk" /\ pc' = "compute"
  /\ s1' = UnpackEta(sk.s1) /\ s2' = UnpackEta(sk.s2)
  /\ long' = TooLong(s1')
  /\ UNCHANGED <<op, pk, sk, seed, t0, t1, tr, ret, history>>

Unpack ==
  /\ pc = "alloc" /\ op = "pk_from_sk" /\ pc' = "compute"
  /\ s1' = UnpackEta(sk.s1) /\ s2' = UnpackEta(sk.s2)
  /\ long' = (TooLong(s1') \/ TooLong(s2'))
  /\ UNCHANGED <<op, pk, sk, seed, t0, t1, tr, ret, history>>

\* mld_compute_t0_t1_tr_from_sk_components: writes pk on the way.
CurrentRho == IF op = "pk_from_sk" THEN sk.rho ELSE seed.rho
Compute ==
  /\ pc = "compute"
  /\ pk' = PublicOf(CurrentRho, s1, s2)
  /\ t1' = pk'.t1
  /\ t0' = LowPart(SumModQ(CurrentRho, s1, s2))
  /\ tr' = Hash[pk']
  /\ pc' = IF op = "pk_from_sk" THEN "compare" ELSE "pack"
  /\ UNCHANGED <<op, sk, seed, s1, s2, long, ret, history>>

Pack ==
  /\ pc = "pack"
  /\ sk' = PackSk(seed.rho, seed.key, tr, s1, s2, t0)
  /\ IF Pct THEN pc' = "pct sign" /\ UNCHANGED ret
            ELSE pc' = "returned" /\ ret' = 0
  /\ UNCHANGED <<op, pk, seed, locals, history>>

\* mld_check_pct signs a message with sk; that, or an allocation, may fail.
PctSign ==
  /\ pc = "pct sign"
  /\ \/ pc' = "pct verify" /\ UNCHANGED <<ret, unsigned>>
     \/ /\ pc' = "returned" /\ unsigned' = TRUE
        /\ ret' \in {FAIL, OUT_OF_MEMORY, RNG_FAIL}
  /\ UNCHANGED <<op, pk, sk, seed, locals, broken>>

\* What key generation establishes between the keys, and verification needs:
\* t1 2^D + t0 = A s1 + s2 modulo Q, with s1 and s2 short, and tr = H(pk).
Matching(p, s) ==
  /\ p.rho = s.rho /\ s.tr = Hash[p]
  /\ ~TooLong(UnpackEta(s.s1)) /\ ~TooLong(UnpackEta(s.s2))
  /\ \A r \in Row :
       (p.t1[r] * POWER_D + UnpackT0(s.t0)[r]) % Q
         = SumModQ(s.rho, UnpackEta(s.s1), UnpackEta(s.s2))[r]

\* Fault: the pair is tested with the original public key.
PctVerifyOriginal ==
  /\ pc = "pct verify" /\ pc' = "returned"
  /\ broken' \in BOOLEAN
  /\ ret' \in {OUT_OF_MEMORY, IF Matching(pk, sk) THEN 0 ELSE FAIL}
  /\ UNCHANGED <<op, pk, sk, seed, locals, unsigned>>

\* It verifies the signature with a copy of pk, deliberately broken or not.
PctVerify ==
  /\ pc = "pct verify" /\ pc' = "returned"
  /\ broken' \in BOOLEAN
  /\ LET pk_test == IF broken' THEN [pk EXCEPT !.rho = Flipped[@]] ELSE pk
     IN  ret' \in {OUT_OF_MEMORY, IF Matching(pk_test, sk) THEN 0 ELSE FAIL}
  /\ UNCHANGED <<op, pk, sk, seed, locals, unsigned>>

\* cmp0 | cmp1 | chk1 | chk2
Compare ==
  /\ pc = "compare" /\ pc' = "cleanup"
  /\ ret' = IF UnpackT0(sk.t0) # t0 \/ sk.tr # tr \/ long THEN FAIL ELSE 0
  /\ UNCHANGED <<op, pk, sk, seed, locals, history>>

\* Fault: pk is zeroized only when the key was found invalid.
CleanupOnMismatch ==
  /\ pc = "cleanup" /\ pc' = "returned"
  /\ pk' = IF ret = FAIL THEN Zeroed ELSE pk
  /\ UNCHANGED <<op, sk, seed, locals, ret, history>>

Cleanup ==
  /\ pc = "cleanup" /\ pc' = "returned"
  /\ pk' = IF ret # 0 THEN Zeroed ELSE pk
  /\ UNCHANGED <<op, sk, seed, locals, ret, history>>

-----------------------------------------------------------------------------
Return ==
  /\ pc = "returned" /\ pc' = "idle"
  /\ Fresh
  /\ UNCHANGED <<op, pk, sk, seed, ret>>

Next ==
  \/ \E o \in KeygenOps : CallKeygen(o)
  \/ RandomBytes \/ CallDerive \/ AllocationFails
  \/ Sample \/ Unpack \/ Compute \/ Pack \/ PctSign \/ PctVerify
  \/ Compare \/ Cleanup
  \/ Return

Spec == Init /\ [][Next]_vars

-----------------------------------------------------------------------------
(* Properties.                                                             *)

Buffers(values) == {Nothing} \cup values

\* Types; what is packed fits its codes.
TypeOK ==
  /\ pk \in PublicKey \cup {Untouched, Zeroed}
  /\ sk \in SecretKey \cup {Untouched}
  /\ seed \in Buffers(Seed)
  /\ s1 \in Buffers([Col -> Unpacked]) /\ s2 \in Buffers([Row -> Unpacked])
  /\ t0 \in Buffers([Row -> 1 - Half .. Half]) /\ t1 \in Buffers([Row -> T1])
  /\ tr \in Buffers(Tr)
  /\ ret \in {0, FAIL, OUT_OF_MEMORY, RNG_FAIL, Unset}

KeygenReturned == pc = "returned" /\ op \in KeygenOps

\* Key generation writes a pair of keys that belong together or, when it
\* fails before it has one, neither buffer; it never reports success for
\* less (sign.c:294-364).  (A pair that fails its test stays in the buffers.)
PairOrNothing ==
  KeygenReturned =>
    \/ pk # Untouched /\ sk # Untouched /\ Matching(pk, sk)
    \/ pk = Untouched /\ sk = Untouched /\ ret \in {OUT_OF_MEMORY, RNG_FAIL}

\* With the pairwise consistency test, a pair broken before the test is not
\* reported as good, and no good one is refused: MLD_ERR_FAIL means that the
\* pair was broken or that signing failed (sign.c:86-131).
PctJudges ==
  KeygenReturned => /\ ret = 0 => ~broken
                    /\ ret = FAIL => broken \/ unsigned

\* The secret keys key generation can produce.
Generated(g) ==
  LET p == PublicOf(g.rho, g.s1, g.s2)
  IN  PackSk(g.rho, g.key, Hash[p], g.s1, g.s2,
             LowPart(SumModQ(g.rho, g.s1, g.s2)))

\* Deriving a public key succeeds for exactly these, and yields the one that
\* was generated with it (sign.c:1423-1495); memory aside.
DerivedExact ==
  pc = "returned" /\ op = "pk_from_sk" /\ ret # OUT_OF_MEMORY =>
    \/ ret = FAIL /\ ~\E g \in Seed : sk = Generated(g)
    \/ ret = 0 /\ \E g \in Seed : sk = Generated(g)
                               /\ pk = PublicOf(g.rho, g.s1, g.s2)

\* "pk is either the valid public key or zeroed on error" (sign.c:1480).
ValidOrZeroed ==
  pc = "returned" /\ op = "pk_from_sk" =>
    IF ret = 0 THEN pk # Zeroed /\ Matching(pk, sk) ELSE pk = Zeroed

=============================================================================
