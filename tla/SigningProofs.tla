--------------------------- MODULE SigningProofs ---------------------------
(***************************************************************************)
(* The invariants of Signing hold for every parameter set, not only for    *)
(* the small ones TLC checks: any K and L, any width of the nonce, any     *)
(* sizes of the parts of a signature.                                      *)
(*                                                                         *)
(* The invariants are layered.  TypeInv bounds the variables; Outcome ties *)
(* the return code to the place the call has reached; Provenance says from *)
(* which attempt each buffer comes; Freshness bounds the nonces used.      *)
(***************************************************************************)
EXTENDS Signing, TLAPS

InAttempt == {"sample", "multiply", "commit", "z", "w0", "ct0", "hint",
              "attempted"}

TypeInv ==
  /\ TypeOK
  /\ pc \in InAttempt => nonce < NONCE_UB
  /\ pc \in {"sample", "multiply", "commit"} => zi = 0
  /\ pc = "z" => zi < L

-----------------------------------------------------------------------------
(* Arithmetic of the nonce bound.                                          *)

\* NONCE_UB is a uint16_t, positive, and leaves room for one more y.
LEMMA NonceBound ==
  /\ NONCE_UB \in Nat \ {0}
  /\ L * NONCE_UB + L =< UINT16_MAX
  /\ NONCE_UB < UINT16_MAX
<1> DEFINE a == UINT16_MAX - L
<1>1. a \in Nat /\ L \in Nat \ {0} /\ L =< a
  BY SigningAssumption
<1>2. a \div L \in Nat /\ L * (a \div L) =< a
  BY <1>1, SMT
<1>3. a < L * ((a \div L) + 1)
  BY <1>1, SMT
<1>4. a \div L # 0
  BY <1>1, <1>3
<1>5. a \div L =< L * (a \div L)
  BY <1>1, <1>2, SMT
<1> QED BY <1>1, <1>2, <1>4, <1>5, SigningAssumption DEF NONCE_UB

\* Below the bound, the uint16_t arithmetic of the lane nonces never wraps.
LEMMA NonceExact ==
  ASSUME NEW n \in Nat, n < NONCE_UB, NEW i \in Lane
  PROVE  YNonce(n, i) = L * n + i
<1>1. L \in Nat \ {0} /\ UINT16_MAX \in Nat /\ i \in Nat /\ i < L
  BY SigningAssumption DEF Lane
<1>2. L * n \in Nat /\ L * n + L =< L * NONCE_UB
  BY <1>1, NonceBound, SMT
<1>3. L * n + i \in Nat /\ L * n =< UINT16_MAX /\ L * n + i =< UINT16_MAX
  BY <1>1, <1>2, NonceBound
<1>4. ASSUME NEW x \in Nat, x =< UINT16_MAX PROVE x % (UINT16_MAX + 1) = x
  BY <1>1, <1>4
<1> QED BY <1>2, <1>3, <1>4 DEF YNonce

\* Counting an attempt below the bound does not wrap either.
LEMMA NextNonceExact ==
  ASSUME nonce \in Nat, nonce < NONCE_UB
  PROVE  NextNonce = nonce + 1
<1>1. nonce + 1 \in Nat /\ nonce + 1 =< UINT16_MAX /\ UINT16_MAX \in Nat
  BY NonceBound, SigningAssumption
<1> QED BY <1>1 DEF NextNonce

-----------------------------------------------------------------------------
(* Provenance of what is computed from several buffers.                    *)

LEMMA FromType == ASSUME NEW S \in SUBSET Int PROVE From(S) \in Int
<1>1. CASE \E a \in S : S = {a}
  <2>1. (CHOOSE a \in S : TRUE) \in S
    BY <1>1
  <2> QED BY <1>1, <2>1 DEF From
<1>2. CASE ~\E a \in S : S = {a}
  BY <1>2 DEF From, Mixed
<1> QED BY <1>1, <1>2

LEMMA FromOne == ASSUME NEW S, NEW a, S = {a} PROVE From(S) = a
<1>1. \E b \in S : S = {b}
  OBVIOUS
<1>2. (CHOOSE b \in S : TRUE) = a
  OBVIOUS
<1> QED BY <1>1, <1>2 DEF From

-----------------------------------------------------------------------------
(* Type correctness.                                                       *)

LEMMA TypeInit == Init => TypeInv
<1> SUFFICES ASSUME Init PROVE TypeInv
  OBVIOUS
<1>1. CallerBuffer \in [Region -> Content]
  BY DEF CallerBuffer, Content, Kind, NoAttempt
<1>2. nonce \in 0 .. NONCE_UB /\ zi \in 0 .. L
  BY NonceBound, SigningAssumption DEF Init
<1> QED BY <1>1, <1>2 DEF Init, TypeInv, TypeOK, PcValue, InAttempt,
           CallerValue, NoAttempt, Unset

LEMMA TypeNext == TypeInv /\ [Next]_vars => TypeInv'
<1> SUFFICES ASSUME TypeInv, [Next]_vars PROVE TypeInv'
  OBVIOUS
<1> USE SigningAssumption DEF TypeInv, TypeOK, PcValue, InAttempt, call,
        attempt, FAIL, OUT_OF_MEMORY, RNG_FAIL, Unset, CallerValue, NoAttempt,
        Mixed, Clobbered
<1>0. /\ CallerBuffer \in [Region -> Content]
      /\ ZeroBuffer \in [Region -> Content]
  BY DEF CallerBuffer, ZeroBuffer, Content, Kind
<1>n. NONCE_UB \in Nat \ {0}
  BY NonceBound
<1>f. ASSUME NEW a \in Int, NEW b \in Int PROVE From({a, b}) \in Int
  BY FromType
<1>1. ASSUME NEW e \in Entries, Call(e) PROVE TypeInv'
  BY <1>0, <1>n, <1>1 DEF Call
<1>2. CASE PrefixOutOfMemory
  BY <1>2 DEF PrefixOutOfMemory
<1>3. CASE PreparePrefix
  BY <1>3 DEF PreparePrefix
<1>4. CASE RandomBytes
  <2>1. faults' \subseteq {"alloc", "rng"}
    BY <1>4 DEF RandomBytes
  <2>2. \/ ret' = RNG_FAIL /\ pc' = "epilogue" /\ siglen' \in {0, siglen}
        \/ ret' = ret /\ pc' = "setup" /\ siglen' = siglen
    BY <1>4 DEF RandomBytes
  <2> QED BY <1>4, <2>1, <2>2 DEF RandomBytes
<1>5. CASE SetupOutOfMemory
  BY <1>5 DEF SetupOutOfMemory
<1>6. CASE Setup
  BY <1>6 DEF Setup
<1>7. CASE NoncesExhausted
  BY <1>7 DEF NoncesExhausted
<1>8. CASE BeginAttempt
  BY <1>8, <1>n DEF BeginAttempt, NewAttempt
<1>9. CASE AttemptOutOfMemory
  BY <1>9 DEF AttemptOutOfMemory
<1>10. CASE SampleY
  <2>1. {YNonce(nonce, i) : i \in Lane} \subseteq Nat
    <3> SUFFICES ASSUME NEW i \in Lane PROVE YNonce(nonce, i) \in Nat
      OBVIOUS
    <3>1. nonce \in Nat /\ nonce < NONCE_UB /\ i \in Nat
      BY <1>10, <1>n DEF SampleY, Lane
    <3>2. L * nonce + i \in Nat
      BY <3>1, SMT
    <3> QED BY <3>1, <3>2, NonceExact
  <2>2. used' \subseteq Nat
    BY <1>10, <2>1 DEF SampleY
  <2>3. y' \in Int /\ h' \in Int
    BY <1>10, <1>n DEF SampleY
  <2>4. pc = "sample" /\ pc' = "multiply"
    BY <1>10 DEF SampleY
  <2>5. UNCHANGED <<call, ret, siglen, sig, nonce, zi, tmp, w1, w0, cp,
                    faults>>
    BY <1>10 DEF SampleY
  <2> QED BY <2>2, <2>3, <2>4, <2>5
<1>11. CASE Multiply
  BY <1>11 DEF Multiply
<1>12. CASE Commit
  <2>1. w1' = w0 /\ w0 \in Int
    BY <1>12 DEF Commit
  <2>2. sig' \in [Region -> Content]
    BY <1>12, <2>1 DEF Commit, Content, Kind
  <2>3. cp' \in Int
    <3>1. {sig'[r].of : r \in W1Regions} \subseteq Int
      BY <2>2 DEF W1Regions, Content
    <3> QED BY <1>12, <3>1, FromType DEF Commit
  <2>4. zi' = 0 /\ 0 < L
    BY <1>12 DEF Commit
  <2> QED BY <1>12, <2>1, <2>2, <2>3, <2>4 DEF Commit
<1>13. CASE PackZ
  <2>1. zi \in 0 .. L - 1 /\ zi + 1 \in Region
    BY <1>13 DEF PackZ, PackZUpTo, Region
  <2>2. [kind |-> "z", of |-> From({y, cp})] \in Content
    BY <1>f DEF Content, Kind
  <2>3. sig' \in [Region -> Content]
    BY <1>13, <2>1, <2>2 DEF PackZ, PackZUpTo, Reject
  <2> QED BY <1>13, <2>1, <2>3 DEF PackZ, PackZUpTo, Reject
<1>14. CASE CheckW0
  BY <1>14, <1>f DEF CheckW0, Reject
<1>15. CASE CheckCT0
  BY <1>15, <1>f DEF CheckCT0, Reject
<1>16. CASE MakeHint
  <2>1. h' \in Int /\ y' \in Int
    BY <1>16, <1>f DEF MakeHint
  <2>2. /\ [kind |-> "c", of |-> cp] \in Content
        /\ [kind |-> "h", of |-> h'] \in Content
    BY <2>1 DEF Content, Kind
  <2>3. 0 \in Region /\ HintRegion \in Region
    BY DEF Region, HintRegion
  <2>4. sig' \in [Region -> Content]
    BY <1>16, <2>2, <2>3 DEF MakeHint, Reject
  <2> QED BY <1>16, <2>1, <2>4 DEF MakeHint, Reject
<1>17. CASE EndAttempt
  <2>1. nonce' = nonce + 1 /\ nonce < NONCE_UB
    BY <1>17, <1>n, NextNonceExact DEF EndAttempt, AfterAttempt
  <2> QED BY <1>17, <1>n, <2>1 DEF EndAttempt, AfterAttempt
<1>18. CASE Cleanup
  BY <1>18, <1>0 DEF Cleanup
<1>19. CASE Epilogue
  <2>1. mlen \in Nat /\ OwnLength \in Nat \cup {-1}
    BY DEF OwnLength
  <2>2. siglen' \in Nat \cup {-1}
    BY <1>19, <2>1 DEF Epilogue, Leave
  <2> QED BY <1>19, <1>0, <2>2 DEF Epilogue, Leave
<1>20. CASE Return
  BY <1>20 DEF Return
<1>21. CASE UNCHANGED vars
  BY <1>21 DEF vars
<1> QED BY <1>1, <1>2, <1>3, <1>4, <1>5, <1>6, <1>7, <1>8, <1>9, <1>10,
           <1>11, <1>12, <1>13, <1>14, <1>15, <1>16, <1>17, <1>18, <1>19,
           <1>20, <1>21 DEF Next, Running

\* Every variable keeps its C type, for every parameter set: the uint16_t
\* nonce never wraps below the bound the loop tests (sign.c:811-823).
THEOREM TypeCorrect == Spec => []TypeOK
<1>1. TypeInv => TypeOK
  BY DEF TypeInv
<1> QED BY <1>1, TypeInit, TypeNext, PTL DEF Spec

-----------------------------------------------------------------------------
(* The return code and the place the call has reached.                     *)

Outcome ==
  /\ pc = "prefix" => HasPrefix(entry)
  /\ pc = "rng" => DrawsRandomness(entry)
  /\ pc \in {"prefix", "rng", "setup"} =>
       /\ ret = Unset /\ siglen = CallerValue /\ sig = CallerBuffer
       /\ nonce = 0 /\ used = {}
  /\ pc \in {"loop"} \cup (InAttempt \ {"attempted"}) => ret = FAIL
  /\ pc \in {"attempted", "cleanup"} => ret \in {0, FAIL, OUT_OF_MEMORY}
  /\ pc \in {"epilogue", "returned"} =>
       ret \in {0, FAIL, OUT_OF_MEMORY, RNG_FAIL}

LEMMA OutcomeInit == Init => Outcome
BY DEF Init, Outcome, InAttempt

LEMMA OutcomeNext ==
  TypeInv /\ Outcome /\ [Next]_vars => Outcome'
<1> SUFFICES ASSUME TypeInv, Outcome, [Next]_vars PROVE Outcome'
  OBVIOUS
<1> USE DEF Outcome, InAttempt, call, attempt, FAIL, OUT_OF_MEMORY, RNG_FAIL,
        Unset, HasPrefix, DrawsRandomness
<1>1. ASSUME NEW e \in Entries, Call(e) PROVE Outcome'
  BY <1>1 DEF Call
<1>2. CASE PrefixOutOfMemory
  BY <1>2 DEF PrefixOutOfMemory
<1>3. CASE PreparePrefix
  BY <1>3 DEF PreparePrefix
<1>4. CASE RandomBytes
  BY <1>4 DEF RandomBytes
<1>5. CASE SetupOutOfMemory
  BY <1>5 DEF SetupOutOfMemory
<1>6. CASE Setup
  BY <1>6 DEF Setup
<1>7. CASE NoncesExhausted
  BY <1>7 DEF NoncesExhausted
<1>8. CASE BeginAttempt
  BY <1>8 DEF BeginAttempt, NewAttempt
<1>9. CASE AttemptOutOfMemory
  BY <1>9 DEF AttemptOutOfMemory
<1>10. CASE SampleY
  BY <1>10 DEF SampleY
<1>11. CASE Multiply
  BY <1>11 DEF Multiply
<1>12. CASE Commit
  BY <1>12 DEF Commit
<1>13. CASE PackZ
  BY <1>13 DEF PackZ, PackZUpTo, Reject
<1>14. CASE CheckW0
  BY <1>14 DEF CheckW0, Reject
<1>15. CASE CheckCT0
  BY <1>15 DEF CheckCT0, Reject
<1>16. CASE MakeHint
  BY <1>16 DEF MakeHint, Reject
<1>17. CASE EndAttempt
  BY <1>17 DEF EndAttempt, AfterAttempt
<1>18. CASE Cleanup
  BY <1>18 DEF Cleanup
<1>19. CASE Epilogue
  BY <1>19 DEF Epilogue, Leave
<1>20. CASE Return
  BY <1>20 DEF Return
<1>21. CASE UNCHANGED vars
  BY <1>21 DEF vars
<1> QED BY <1>1, <1>2, <1>3, <1>4, <1>5, <1>6, <1>7, <1>8, <1>9, <1>10, <1>11,
           <1>12, <1>13, <1>14, <1>15, <1>16, <1>17, <1>18, <1>19, <1>20,
           <1>21 DEF Next, Running

-----------------------------------------------------------------------------
(* From which attempt each buffer comes.                                   *)

\* The first n polynomials of z in the buffer are of this attempt.
ZPacked(n) == \A r \in 1 .. n : sig[r] = [kind |-> "z", of |-> nonce]

Provenance ==
  /\ pc = "multiply" => y = nonce
  /\ pc = "commit" => y = nonce /\ w0 = nonce
  /\ pc = "z" => y = nonce /\ ZPacked(zi)
  /\ pc \in {"z", "w0", "ct0", "hint"} => cp = nonce /\ w1 = nonce /\ w0 = nonce
  /\ pc \in {"w0", "ct0", "hint"} => ZPacked(L)
  /\ pc = "attempted" /\ ret = 0 => sig = Signature(nonce)

LEMMA ProvenanceInit == Init => Provenance
BY DEF Init, Provenance

LEMMA ProvenanceNext ==
  TypeInv /\ TypeInv' /\ Outcome /\ Provenance /\ [Next]_vars => Provenance'
<1> SUFFICES ASSUME TypeInv, TypeInv', Outcome, Provenance, [Next]_vars PROVE
            Provenance'
  OBVIOUS
<1> USE DEF Provenance, Outcome, InAttempt, call, attempt
<1>1. ASSUME NEW e \in Entries, Call(e) PROVE Provenance'
  BY <1>1 DEF Call
<1>2. CASE PrefixOutOfMemory
  BY <1>2 DEF PrefixOutOfMemory
<1>3. CASE PreparePrefix
  BY <1>3 DEF PreparePrefix
<1>4. CASE RandomBytes
  <2>1. pc' \in {"epilogue", "setup"}
    BY <1>4 DEF RandomBytes
  <2> QED BY <2>1
<1>5. CASE SetupOutOfMemory
  BY <1>5 DEF SetupOutOfMemory
<1>6. CASE Setup
  BY <1>6 DEF Setup
<1>7. CASE NoncesExhausted
  BY <1>7 DEF NoncesExhausted
<1>8. CASE BeginAttempt
  BY <1>8 DEF BeginAttempt, NewAttempt
<1>9. CASE AttemptOutOfMemory
  BY <1>9 DEF AttemptOutOfMemory, OUT_OF_MEMORY
<1>10. CASE SampleY
  BY <1>10 DEF SampleY
<1>11. CASE Multiply
  BY <1>11 DEF Multiply
<1>12. CASE Commit
  <2>1. y = nonce /\ w0 = nonce /\ zi = 0 /\ pc' = "z"
    BY <1>12 DEF Commit, TypeInv
  <2>2. UNCHANGED <<y, w0, zi, nonce>> /\ w1' = nonce
    BY <1>12, <2>1 DEF Commit
  <2>3. 0 \in W1Regions
    <3>1. K * POLYW1_PACKEDBYTES > 0
      BY SigningAssumption, SMT
    <3> QED BY <3>1, SigningAssumption DEF W1Regions, Region, RegionStart
  <2>4. \A r \in W1Regions : sig'[r].of = nonce
    BY <1>12, <2>2 DEF Commit, W1Regions
  <2>5. {sig'[r].of : r \in W1Regions} = {nonce}
    BY <2>3, <2>4
  <2>6. cp' = nonce
    BY <1>12, <2>5, FromOne DEF Commit
  <2> QED BY <2>1, <2>2, <2>6 DEF ZPacked
<1>13. CASE PackZ
  <2>1. y = nonce /\ cp = nonce /\ w1 = nonce /\ w0 = nonce /\ ZPacked(zi)
    BY <1>13 DEF PackZ, PackZUpTo
  <2>2. UNCHANGED <<y, cp, w1, w0, nonce>>
    BY <1>13 DEF PackZ, PackZUpTo
  <2>3. CASE Reject
    BY <2>3 DEF Reject, FAIL
  <2>4. CASE ~Reject
    <3>1. sig' = [sig EXCEPT ![zi + 1] = [kind |-> "z", of |-> From({y, cp})]]
      BY <1>13, <2>4 DEF PackZ, PackZUpTo
    <3>2. zi \in Nat /\ zi < L /\ zi' = zi + 1
      BY <1>13, <2>4, SigningAssumption DEF PackZ, PackZUpTo, TypeInv, TypeOK
    <3>3. From({y, cp}) = nonce
      BY <2>1, FromOne
    <3>4. \A r \in 1 .. zi : sig'[r] = [kind |-> "z", of |-> nonce]
      BY <2>1, <3>1, <3>2, SigningAssumption
         DEF ZPacked, TypeInv, TypeOK, Region
    <3>5. sig'[zi + 1] = [kind |-> "z", of |-> nonce]
      BY <3>1, <3>2, <3>3, SigningAssumption DEF TypeInv, TypeOK, Region
    <3>6. ZPacked(zi)'
      BY <2>2, <3>2, <3>4, <3>5 DEF ZPacked
    <3>7. \/ pc' = "w0" /\ zi' = L
          \/ pc' = "z"
      BY <1>13, <2>4 DEF PackZ, PackZUpTo
    <3> QED BY <2>1, <2>2, <3>6, <3>7 DEF ZPacked
  <2> QED BY <2>3, <2>4
<1>14. CASE CheckW0
  <2>1. cp = nonce /\ w1 = nonce /\ w0 = nonce /\ ZPacked(L)
    BY <1>14 DEF CheckW0
  <2>2. UNCHANGED <<cp, w1, nonce>>
    BY <1>14 DEF CheckW0
  <2>3. CASE Reject
    BY <2>3 DEF Reject, FAIL
  <2>4. CASE ~Reject
    <3>1. sig' = sig /\ w0' = From({w0, cp}) /\ pc' \in {"ct0", "hint"}
      BY <1>14, <2>4 DEF CheckW0
    <3>2. w0' = nonce
      BY <2>1, <3>1, FromOne
    <3> QED BY <2>1, <2>2, <3>1, <3>2 DEF ZPacked
  <2> QED BY <2>3, <2>4
<1>15. CASE CheckCT0
  <2>1. cp = nonce /\ w1 = nonce /\ w0 = nonce /\ ZPacked(L)
    BY <1>15 DEF CheckCT0
  <2>2. UNCHANGED <<cp, w1, nonce>>
    BY <1>15 DEF CheckCT0
  <2>3. CASE Reject
    BY <2>3 DEF Reject, FAIL
  <2>4. CASE ~Reject
    <3>1. sig' = sig /\ w0' = From({w0, cp}) /\ pc' \in {"ct0", "hint"}
      BY <1>15, <2>4 DEF CheckCT0
    <3>2. w0' = nonce
      BY <2>1, <3>1, FromOne
    <3> QED BY <2>1, <2>2, <3>1, <3>2 DEF ZPacked
  <2> QED BY <2>3, <2>4
<1>16. CASE MakeHint
  <2>1. cp = nonce /\ w1 = nonce /\ w0 = nonce /\ ZPacked(L) /\ nonce' = nonce
    BY <1>16 DEF MakeHint
  <2>2. CASE Reject
    BY <2>2 DEF Reject, FAIL
  <2>3. CASE ~Reject
    <3>1. h' = nonce
      BY <1>16, <2>1, FromOne DEF MakeHint
    <3>2. /\ sig' = [sig EXCEPT ![0] = [kind |-> "c", of |-> cp],
                                ![HintRegion] = [kind |-> "h", of |-> h']]
          /\ pc' = "attempted"
      BY <1>16, <2>3 DEF MakeHint
    <3>3. ASSUME NEW r \in Region
          PROVE  sig'[r] = [kind |-> KindOf(r), of |-> nonce]
      <4>1. r = 0 \/ r = HintRegion \/ r \in 1 .. L
        BY SigningAssumption DEF Region, HintRegion
      <4>2. sig \in [Region -> Content] /\ HintRegion # 0
        BY SigningAssumption DEF TypeInv, TypeOK, HintRegion
      <4>3. r \in 1 .. L => r # 0 /\ r # HintRegion
        BY SigningAssumption DEF HintRegion
      <4> QED BY <2>1, <3>1, <3>2, <4>1, <4>2, <4>3 DEF ZPacked, KindOf
    <3>4. sig' = Signature(nonce)
      <4>1. sig' \in [Region -> Content]
        BY DEF TypeInv, TypeOK
      <4> QED BY <3>3, <4>1 DEF Signature
    <3> QED BY <2>1, <3>2, <3>4
  <2> QED BY <2>2, <2>3
<1>17. CASE EndAttempt
  BY <1>17 DEF EndAttempt, AfterAttempt
<1>18. CASE Cleanup
  BY <1>18 DEF Cleanup
<1>19. CASE Epilogue
  BY <1>19 DEF Epilogue, Leave
<1>20. CASE Return
  BY <1>20 DEF Return
<1>21. CASE UNCHANGED vars
  BY <1>21 DEF vars, ZPacked
<1> QED BY <1>1, <1>2, <1>3, <1>4, <1>5, <1>6, <1>7, <1>8, <1>9, <1>10, <1>11,
           <1>12, <1>13, <1>14, <1>15, <1>16, <1>17, <1>18, <1>19, <1>20,
           <1>21 DEF Next, Running

-----------------------------------------------------------------------------
(* What the caller is handed.                                              *)

EmptyHanded ==
  /\ siglen = 0
  /\ \/ sig = ZeroBuffer
     \/ entry = "signature_extmu" /\ ret = RNG_FAIL /\ sig = CallerBuffer

Delivery ==
  /\ pc \in {"cleanup", "epilogue"} /\ ret = 0 =>
       sig = Signature(nonce - 1) /\ siglen = CRYPTO_BYTES
  /\ pc = "epilogue" /\ ret # 0 /\ ~HasPrefix(entry) => EmptyHanded
  /\ SignatureOrNothing

LEMMA DeliveryInit == Init => Delivery
BY DEF Init, Delivery, SignatureOrNothing

LEMMA DeliveryNext ==
  TypeInv /\ Outcome /\ Provenance /\ Delivery /\ [Next]_vars => Delivery'
<1> SUFFICES ASSUME TypeInv, Outcome, Provenance, Delivery, [Next]_vars PROVE
            Delivery'
  OBVIOUS
<1> USE DEF Delivery, SignatureOrNothing, Outcome, InAttempt, call, attempt,
        FAIL, OUT_OF_MEMORY, RNG_FAIL, Unset
<1>1. ASSUME NEW e \in Entries, Call(e) PROVE Delivery'
  BY <1>1 DEF Call
<1>2. CASE PrefixOutOfMemory
  BY <1>2 DEF PrefixOutOfMemory, HasPrefix
<1>3. CASE PreparePrefix
  <2>1. HasPrefix(entry) /\ entry' = entry /\ ret = Unset
    BY <1>3 DEF PreparePrefix
  <2>2. \/ pc' = "epilogue" /\ ret' = FAIL
        \/ pc' \in {"rng", "setup"}
    BY <1>3 DEF PreparePrefix
  <2> QED BY <2>1, <2>2 DEF HasPrefix
<1>4. CASE RandomBytes
  <2>1. DrawsRandomness(entry) /\ sig = CallerBuffer /\ ret = Unset
    BY <1>4 DEF RandomBytes
  <2>2. UNCHANGED <<entry, sig>>
    BY <1>4 DEF RandomBytes
  <2>3. \/ pc' = "setup" /\ UNCHANGED ret
        \/ /\ pc' = "epilogue" /\ ret' = RNG_FAIL
           /\ entry = "signature_extmu" => siglen' = 0
    BY <1>4 DEF RandomBytes
  <2> QED BY <2>1, <2>2, <2>3 DEF EmptyHanded, DrawsRandomness, HasPrefix
<1>5. CASE SetupOutOfMemory
  BY <1>5 DEF SetupOutOfMemory
<1>6. CASE Setup
  BY <1>6 DEF Setup
<1>7. CASE NoncesExhausted
  BY <1>7 DEF NoncesExhausted
<1>8. CASE BeginAttempt
  BY <1>8 DEF BeginAttempt, NewAttempt
<1>9. CASE AttemptOutOfMemory
  BY <1>9 DEF AttemptOutOfMemory
<1>10. CASE SampleY
  BY <1>10 DEF SampleY
<1>11. CASE Multiply
  BY <1>11 DEF Multiply
<1>12. CASE Commit
  BY <1>12 DEF Commit
<1>13. CASE PackZ
  BY <1>13 DEF PackZ, PackZUpTo, Reject
<1>14. CASE CheckW0
  BY <1>14 DEF CheckW0, Reject
<1>15. CASE CheckCT0
  BY <1>15 DEF CheckCT0, Reject
<1>16. CASE MakeHint
  BY <1>16 DEF MakeHint, Reject
<1>17. CASE EndAttempt
  <2>1. nonce \in Nat /\ nonce' = nonce + 1
    BY <1>17, NextNonceExact DEF EndAttempt, AfterAttempt, TypeInv, TypeOK
  <2>2. ret = 0 => sig = Signature(nonce)
    BY <1>17 DEF EndAttempt, AfterAttempt, Provenance
  <2>3. nonce' - 1 = nonce
    BY <2>1
  <2>4. /\ pc' \in {"loop", "cleanup"} /\ UNCHANGED <<sig, ret>>
        /\ ret = 0 => siglen' = CRYPTO_BYTES
    BY <1>17 DEF EndAttempt, AfterAttempt
  <2> QED BY <2>2, <2>3, <2>4
<1>18. CASE Cleanup
  BY <1>18 DEF Cleanup, EmptyHanded
<1>19. CASE Epilogue
  <2>1. /\ pc = "epilogue" /\ pc' = "returned"
        /\ UNCHANGED <<ret, entry, mlen, nonce>>
        /\ sig' = IF ret # 0 /\ HasPrefix(entry) THEN ZeroBuffer ELSE sig
        /\ siglen' = IF entry = "sign" THEN OwnLength + mlen ELSE OwnLength
    BY <1>19 DEF Epilogue, Leave, ClearsOnFailure
  <2>2. mlen \in Nat /\ CRYPTO_BYTES \in Nat
    BY SigningAssumption DEF TypeInv, TypeOK
  <2>3. CASE ret = 0
    <3>1. OwnLength = CRYPTO_BYTES /\ sig = Signature(nonce - 1)
      BY <2>1, <2>3 DEF OwnLength
    <3> QED BY <2>1, <2>2, <2>3, <3>1 DEF Appended
  <2>4. CASE ret # 0
    <3>1. OwnLength = 0
      BY <2>1, <2>4 DEF OwnLength, EmptyHanded, ClearsOnFailure
    <3>2. siglen' = Appended'
      BY <2>1, <2>2, <3>1 DEF Appended
    <3>3. sig' = ZeroBuffer \/ (/\ entry = "signature_extmu"
                                /\ ret = RNG_FAIL /\ sig' = CallerBuffer)
      BY <2>1, <2>4 DEF EmptyHanded
    <3> QED BY <2>1, <2>4, <3>2, <3>3
  <2> QED BY <2>3, <2>4
<1>20. CASE Return
  BY <1>20 DEF Return
<1>21. CASE UNCHANGED vars
  BY <1>21 DEF vars, EmptyHanded, Appended
<1> QED BY <1>1, <1>2, <1>3, <1>4, <1>5, <1>6, <1>7, <1>8, <1>9, <1>10, <1>11,
           <1>12, <1>13, <1>14, <1>15, <1>16, <1>17, <1>18, <1>19, <1>20,
           <1>21 DEF Next, Running

\* All or nothing, whatever the sizes and the layout of a signature: what a
\* successful call hands out comes whole from its last attempt, and a failed
\* call hands out nothing (sign.c:716-850, 895-909).
THEOREM AllOrNothing == Spec => []SignatureOrNothing
<1> DEFINE IInv == TypeInv /\ Outcome /\ Provenance /\ Delivery
<1>1. Init => IInv
  BY TypeInit, OutcomeInit, ProvenanceInit, DeliveryInit
<1>2. IInv /\ [Next]_vars => IInv'
  BY TypeNext, OutcomeNext, ProvenanceNext, DeliveryNext
<1>3. IInv => SignatureOrNothing
  BY DEF Delivery
<1> QED BY <1>1, <1>2, <1>3, PTL DEF Spec

\* A union member is read only while it is the one last written, in either
\* memory layout (sign.c:590-608).
THEOREM UnionsSafe == Spec => []UnionsReadInTime
<1> DEFINE IInv == TypeInv /\ Outcome /\ Provenance
<1>1. Init => IInv
  BY TypeInit, OutcomeInit, ProvenanceInit
<1>2. IInv /\ [Next]_vars => IInv'
  BY TypeNext, OutcomeNext, ProvenanceNext
<1>3. IInv => UnionsReadInTime
  BY DEF Provenance, UnionsReadInTime
<1> QED BY <1>1, <1>2, <1>3, PTL DEF Spec

-----------------------------------------------------------------------------
(* Nonces.                                                                 *)

\* All nonces used so far lie below those of the next y; the y of the
\* current attempt, once sampled, used the next L of them.
Freshness ==
  /\ pc \in {"loop", "sample"} => \A x \in used : x < L * nonce
  /\ pc \in InAttempt => \A x \in used : x < L * nonce + L

LEMMA FreshnessInit == Init => Freshness
BY DEF Init, Freshness, InAttempt

LEMMA FreshnessNext ==
  TypeInv /\ Outcome /\ Freshness /\ [Next]_vars => Freshness'
<1> SUFFICES ASSUME TypeInv, Outcome, Freshness, [Next]_vars PROVE Freshness'
  OBVIOUS
<1> USE DEF Freshness, InAttempt, call, attempt
<1>1. ASSUME NEW e \in Entries, Call(e) PROVE Freshness'
  BY <1>1 DEF Call
<1>2. CASE PrefixOutOfMemory
  BY <1>2 DEF PrefixOutOfMemory
<1>3. CASE PreparePrefix
  BY <1>3 DEF PreparePrefix
<1>4. CASE RandomBytes
  <2>1. pc' \in {"epilogue", "setup"}
    BY <1>4 DEF RandomBytes
  <2> QED BY <2>1
<1>5. CASE SetupOutOfMemory
  BY <1>5 DEF SetupOutOfMemory
<1>6. CASE Setup
  <2>1. used' = {}
    BY <1>6 DEF Setup, Outcome
  <2> QED BY <2>1
<1>7. CASE NoncesExhausted
  BY <1>7 DEF NoncesExhausted
<1>8. CASE BeginAttempt
  <2>1. used' = used /\ nonce' = nonce /\ nonce \in Nat /\ used \subseteq Nat
    BY <1>8 DEF BeginAttempt, NewAttempt, TypeInv, TypeOK
  <2>2. \A x \in used : x < L * nonce
    BY <1>8 DEF BeginAttempt
  <2>3. L * nonce \in Nat /\ L \in Nat
    BY <2>1, SigningAssumption, SMT
  <2>4. \A x \in used : x < L * nonce + L
    BY <2>1, <2>2, <2>3
  <2>5. pc' = "sample"
    BY <1>8 DEF BeginAttempt
  <2> QED BY <2>1, <2>2, <2>4, <2>5
<1>9. CASE AttemptOutOfMemory
  BY <1>9 DEF AttemptOutOfMemory
<1>10. CASE SampleY
  <2>1. /\ pc' = "multiply" /\ nonce' = nonce
        /\ used' = used \cup {YNonce(nonce, i) : i \in Lane}
        /\ \A x \in used : x < L * nonce + L
        /\ nonce \in Nat /\ nonce < NONCE_UB
    BY <1>10, NonceBound DEF SampleY, TypeInv, TypeOK
  <2>2. ASSUME NEW i \in Lane PROVE YNonce(nonce, i) < L * nonce + L
    <3>1. i \in Nat /\ i < L /\ L \in Nat
      BY SigningAssumption DEF Lane
    <3>2. L * nonce \in Nat
      BY <2>1, <3>1, SMT
    <3> QED BY <2>1, <3>1, <3>2, NonceExact
  <2>3. \A x \in used' : x < L * nonce + L
    BY <2>1, <2>2
  <2> QED BY <2>1, <2>3
<1>11. CASE Multiply
  BY <1>11 DEF Multiply
<1>12. CASE Commit
  BY <1>12 DEF Commit
<1>13. CASE PackZ
  BY <1>13 DEF PackZ, PackZUpTo, Reject
<1>14. CASE CheckW0
  BY <1>14 DEF CheckW0, Reject
<1>15. CASE CheckCT0
  BY <1>15 DEF CheckCT0, Reject
<1>16. CASE MakeHint
  BY <1>16 DEF MakeHint, Reject
<1>17. CASE EndAttempt
  <2>1. used' = used /\ nonce' = nonce + 1 /\ nonce \in Nat
    BY <1>17, NextNonceExact DEF EndAttempt, AfterAttempt, TypeInv, TypeOK
  <2>2. \A x \in used : x < L * nonce + L
    BY <1>17 DEF EndAttempt, AfterAttempt
  <2>3. L * (nonce + 1) = L * nonce + L
    BY <2>1, SigningAssumption, SMT
  <2>4. pc' \in {"loop", "cleanup"}
    BY <1>17 DEF EndAttempt, AfterAttempt
  <2> QED BY <2>1, <2>2, <2>3, <2>4
<1>18. CASE Cleanup
  BY <1>18 DEF Cleanup
<1>19. CASE Epilogue
  BY <1>19 DEF Epilogue, Leave
<1>20. CASE Return
  BY <1>20 DEF Return
<1>21. CASE UNCHANGED vars
  BY <1>21 DEF vars
<1> QED BY <1>1, <1>2, <1>3, <1>4, <1>5, <1>6, <1>7, <1>8, <1>9, <1>10, <1>11,
           <1>12, <1>13, <1>14, <1>15, <1>16, <1>17, <1>18, <1>19, <1>20,
           <1>21 DEF Next, Running

\* No masking vector is ever sampled twice in a call: with any L and any
\* width of the counter, the bound the loop tests (sign.c:525-533, 811)
\* keeps the lane nonces of all attempts apart.
THEOREM MasksNeverRepeat == Spec => []NonceFresh
<1> DEFINE IInv == TypeInv /\ Outcome /\ Freshness
<1>1. Init => IInv
  BY TypeInit, OutcomeInit, FreshnessInit
<1>2. IInv /\ [Next]_vars => IInv'
  BY TypeNext, OutcomeNext, FreshnessNext
<1>3. IInv => NonceFresh
  <2> SUFFICES ASSUME IInv, pc = "sample", NEW i \in Lane
               PROVE  /\ YNonce(nonce, i) \notin used
                      /\ \A j \in Lane : YNonce(nonce, i) = YNonce(nonce, j)
                                           => i = j
    BY DEF NonceFresh
  <2>1. nonce \in Nat /\ nonce < NONCE_UB /\ used \subseteq Nat
    BY NonceBound DEF TypeInv, TypeOK, InAttempt
  <2>2. L * nonce \in Nat /\ Lane \subseteq Nat
    BY <2>1, SigningAssumption, SMT DEF Lane
  <2>3. \A j \in Lane : YNonce(nonce, j) = L * nonce + j
    BY <2>1, NonceExact
  <2>4. \A x \in used : x < L * nonce
    BY DEF Freshness
  <2>5. i \in Nat
    BY <2>2
  <2>6. L * nonce + i \notin used
    BY <2>1, <2>2, <2>4, <2>5
  <2> QED BY <2>2, <2>3, <2>5, <2>6
<1> QED BY <1>1, <1>2, <1>3, PTL DEF Spec

-----------------------------------------------------------------------------
(* Return codes.                                                           *)

Truth ==
  /\ pc \in {"prefix", "rng", "setup", "loop"} \cup (InAttempt \ {"attempted"})
       => faults = {}
  /\ pc \in {"attempted", "cleanup", "epilogue", "returned"} =>
       /\ (ret = OUT_OF_MEMORY) <=> ("alloc" \in faults)
       /\ (ret = RNG_FAIL) <=> ("rng" \in faults)

LEMMA TruthInit == Init => Truth
BY DEF Init, Truth, InAttempt

LEMMA TruthNext ==
  RNG_REPORTS_STATUS /\ TypeInv /\ Outcome /\ Truth /\ [Next]_vars
    => Truth'
<1> SUFFICES ASSUME RNG_REPORTS_STATUS, TypeInv, Outcome, Truth, [Next]_vars
             PROVE  Truth'
  OBVIOUS
<1> USE DEF Truth, Outcome, InAttempt, call, attempt, FAIL, OUT_OF_MEMORY,
        RNG_FAIL, Unset
<1>1. ASSUME NEW e \in Entries, Call(e) PROVE Truth'
  BY <1>1 DEF Call
<1>2. CASE PrefixOutOfMemory
  BY <1>2 DEF PrefixOutOfMemory
<1>3. CASE PreparePrefix
  BY <1>3 DEF PreparePrefix
<1>4. CASE RandomBytes
  <2>1. PICK failed, reported \in BOOLEAN :
          /\ reported = failed
          /\ faults' = IF failed THEN faults \cup {"rng"} ELSE faults
          /\ IF reported THEN ret' = RNG_FAIL /\ pc' = "epilogue"
                         ELSE pc' = "setup" /\ UNCHANGED ret
    BY <1>4 DEF RandomBytes
  <2>2. faults = {}
    BY <1>4 DEF RandomBytes
  <2>3. CASE failed = TRUE
    <3>1. faults' = {"rng"} /\ pc' = "epilogue" /\ ret' = RNG_FAIL
      BY <2>1, <2>2, <2>3
    <3> QED BY <3>1
  <2>4. CASE failed = FALSE
    <3>1. faults' = {} /\ pc' = "setup"
      BY <2>1, <2>2, <2>4
    <3> QED BY <3>1
  <2> QED BY <2>1, <2>3, <2>4
<1>5. CASE SetupOutOfMemory
  BY <1>5 DEF SetupOutOfMemory
<1>6. CASE Setup
  BY <1>6 DEF Setup
<1>7. CASE NoncesExhausted
  BY <1>7 DEF NoncesExhausted
<1>8. CASE BeginAttempt
  BY <1>8 DEF BeginAttempt, NewAttempt
<1>9. CASE AttemptOutOfMemory
  BY <1>9 DEF AttemptOutOfMemory
<1>10. CASE SampleY
  BY <1>10 DEF SampleY
<1>11. CASE Multiply
  BY <1>11 DEF Multiply
<1>12. CASE Commit
  BY <1>12 DEF Commit
<1>13. CASE PackZ
  BY <1>13 DEF PackZ, PackZUpTo, Reject
<1>14. CASE CheckW0
  BY <1>14 DEF CheckW0, Reject
<1>15. CASE CheckCT0
  BY <1>15 DEF CheckCT0, Reject
<1>16. CASE MakeHint
  BY <1>16 DEF MakeHint, Reject
<1>17. CASE EndAttempt
  <2>1. faults' = faults /\ ret' = ret /\ faults \subseteq {"alloc", "rng"}
    BY <1>17 DEF EndAttempt, AfterAttempt, TypeInv, TypeOK
  <2>2. \/ ret = FAIL /\ pc' = "loop"
        \/ pc' = "cleanup"
    BY <1>17 DEF EndAttempt, AfterAttempt
  <2>3. ret = FAIL => faults = {}
    BY <1>17, <2>1 DEF EndAttempt, AfterAttempt
  <2> QED BY <1>17, <2>1, <2>2, <2>3 DEF EndAttempt, AfterAttempt
<1>18. CASE Cleanup
  BY <1>18 DEF Cleanup
<1>19. CASE Epilogue
  BY <1>19 DEF Epilogue, Leave
<1>20. CASE Return
  BY <1>20 DEF Return
<1>21. CASE UNCHANGED vars
  BY <1>21 DEF vars
<1> QED BY <1>1, <1>2, <1>3, <1>4, <1>5, <1>6, <1>7, <1>8, <1>9, <1>10, <1>11,
           <1>12, <1>13, <1>14, <1>15, <1>16, <1>17, <1>18, <1>19, <1>20,
           <1>21 DEF Next, Running

\* If the random generator reports its failures, the return code names the
\* fault that occurred, in every call (mldsa_native.h:125-134).  Without that
\* assumption it does not: see RngErrorMeansRngFailure.
THEOREM CodesTruthful ==
  ASSUME RNG_REPORTS_STATUS
  PROVE  Spec => []ErrorCodeTruthful
<1> DEFINE IInv == Outcome /\ Truth
<1>1. Init => IInv
  BY OutcomeInit, TruthInit
<1>2. TypeInv /\ IInv /\ [Next]_vars => IInv'
  BY OutcomeNext, TruthNext
<1>3. IInv => ErrorCodeTruthful
  BY DEF Truth, ErrorCodeTruthful
<1> QED BY <1>1, <1>2, <1>3, TypeInit, TypeNext, PTL DEF Spec

-----------------------------------------------------------------------------
(* Giving up, and what is left on the stack.                               *)

Persistence ==
  /\ pc = "cleanup" /\ ret = FAIL => nonce = NONCE_UB
  /\ pc \in {"epilogue", "returned"} /\ ret = FAIL =>
       used = {} \/ nonce = NONCE_UB

LEMMA PersistenceInit == Init => Persistence
BY DEF Init, Persistence

LEMMA PersistenceNext ==
  Outcome /\ Persistence /\ [Next]_vars => Persistence'
<1> SUFFICES ASSUME Outcome, Persistence, [Next]_vars PROVE Persistence'
  OBVIOUS
<1> USE DEF Persistence, Outcome, InAttempt, call, attempt, FAIL,
        OUT_OF_MEMORY, RNG_FAIL, Unset
<1>1. ASSUME NEW e \in Entries, Call(e) PROVE Persistence'
  BY <1>1 DEF Call
<1>2. CASE PrefixOutOfMemory
  BY <1>2 DEF PrefixOutOfMemory
<1>3. CASE PreparePrefix
  BY <1>3 DEF PreparePrefix
<1>4. CASE RandomBytes
  <2>1. \/ pc' = "epilogue" /\ ret' = RNG_FAIL
        \/ pc' = "setup"
    BY <1>4 DEF RandomBytes
  <2> QED BY <2>1
<1>5. CASE SetupOutOfMemory
  BY <1>5 DEF SetupOutOfMemory
<1>6. CASE Setup
  BY <1>6 DEF Setup
<1>7. CASE NoncesExhausted
  BY <1>7 DEF NoncesExhausted
<1>8. CASE BeginAttempt
  BY <1>8 DEF BeginAttempt, NewAttempt
<1>9. CASE AttemptOutOfMemory
  BY <1>9 DEF AttemptOutOfMemory
<1>10. CASE SampleY
  BY <1>10 DEF SampleY
<1>11. CASE Multiply
  BY <1>11 DEF Multiply
<1>12. CASE Commit
  BY <1>12 DEF Commit
<1>13. CASE PackZ
  BY <1>13 DEF PackZ, PackZUpTo, Reject
<1>14. CASE CheckW0
  BY <1>14 DEF CheckW0, Reject
<1>15. CASE CheckCT0
  BY <1>15 DEF CheckCT0, Reject
<1>16. CASE MakeHint
  BY <1>16 DEF MakeHint, Reject
<1>17. CASE EndAttempt
  BY <1>17 DEF EndAttempt, AfterAttempt
<1>18. CASE Cleanup
  BY <1>18 DEF Cleanup
<1>19. CASE Epilogue
  BY <1>19 DEF Epilogue, Leave
<1>20. CASE Return
  BY <1>20 DEF Return
<1>21. CASE UNCHANGED vars
  BY <1>21 DEF vars
<1> QED BY <1>1, <1>2, <1>3, <1>4, <1>5, <1>6, <1>7, <1>8, <1>9, <1>10, <1>11,
           <1>12, <1>13, <1>14, <1>15, <1>16, <1>17, <1>18, <1>19, <1>20,
           <1>21 DEF Next, Running

\* A rejected candidate alone never makes a call fail: it fails without a
\* fault only when no nonce is left (sign.c:806-833).
THEOREM Persistent == Spec => []NeverGivesUpEarly
<1> DEFINE IInv == TypeInv /\ Outcome /\ Persistence
<1>1. Init => IInv
  BY TypeInit, OutcomeInit, PersistenceInit
<1>2. IInv /\ [Next]_vars => IInv'
  BY TypeNext, OutcomeNext, PersistenceNext
<1>3. IInv => NeverGivesUpEarly
  BY DEF Persistence, NeverGivesUpEarly
<1> QED BY <1>1, <1>2, <1>3, PTL DEF Spec

-----------------------------------------------------------------------------
(* Signing implements SignatureService.                                    *)

Attribution ==
  /\ pc \in {"cleanup", "epilogue"} /\ ret = 0 => nonce > 0
  /\ pc = "epilogue" /\ ret = RNG_FAIL =>
       /\ DrawsRandomness(entry)
       /\ entry = "signature_extmu" => sig = CallerBuffer

LEMMA AttributionInit == Init => Attribution
BY DEF Init, Attribution

LEMMA AttributionNext ==
  TypeInv /\ Outcome /\ Attribution /\ [Next]_vars => Attribution'
<1> SUFFICES ASSUME TypeInv, Outcome, Attribution, [Next]_vars PROVE
            Attribution'
  OBVIOUS
<1> USE DEF Attribution, Outcome, InAttempt, call, attempt, FAIL,
        OUT_OF_MEMORY, RNG_FAIL, Unset
<1>1. ASSUME NEW e \in Entries, Call(e) PROVE Attribution'
  BY <1>1 DEF Call
<1>2. CASE PrefixOutOfMemory
  BY <1>2 DEF PrefixOutOfMemory
<1>3. CASE PreparePrefix
  BY <1>3 DEF PreparePrefix
<1>4. CASE RandomBytes
  <2>1. DrawsRandomness(entry) /\ ret = Unset /\ sig = CallerBuffer
    BY <1>4 DEF RandomBytes
  <2>3. UNCHANGED <<entry, sig>>
    BY <1>4 DEF RandomBytes
  <2>2. \/ pc' = "epilogue" /\ ret' = RNG_FAIL
        \/ pc' = "setup"
    BY <1>4 DEF RandomBytes
  <2> QED BY <2>1, <2>3, <2>2 DEF DrawsRandomness
<1>5. CASE SetupOutOfMemory
  BY <1>5 DEF SetupOutOfMemory
<1>6. CASE Setup
  BY <1>6 DEF Setup
<1>7. CASE NoncesExhausted
  BY <1>7 DEF NoncesExhausted
<1>8. CASE BeginAttempt
  BY <1>8 DEF BeginAttempt, NewAttempt
<1>9. CASE AttemptOutOfMemory
  BY <1>9 DEF AttemptOutOfMemory
<1>10. CASE SampleY
  BY <1>10 DEF SampleY
<1>11. CASE Multiply
  BY <1>11 DEF Multiply
<1>12. CASE Commit
  BY <1>12 DEF Commit
<1>13. CASE PackZ
  BY <1>13 DEF PackZ, PackZUpTo, Reject
<1>14. CASE CheckW0
  BY <1>14 DEF CheckW0, Reject
<1>15. CASE CheckCT0
  BY <1>15 DEF CheckCT0, Reject
<1>16. CASE MakeHint
  BY <1>16 DEF MakeHint, Reject
<1>17. CASE EndAttempt
  <2>1. nonce' > 0
    BY <1>17, NextNonceExact DEF EndAttempt, AfterAttempt, TypeInv, TypeOK
  <2>2. pc' \in {"loop", "cleanup"}
    BY <1>17 DEF EndAttempt, AfterAttempt
  <2> QED BY <2>1, <2>2
<1>18. CASE Cleanup
  BY <1>18 DEF Cleanup, DrawsRandomness
<1>19. CASE Epilogue
  BY <1>19 DEF Epilogue, Leave
<1>20. CASE Return
  BY <1>20 DEF Return
<1>21. CASE UNCHANGED vars
  BY <1>21 DEF vars
<1> QED BY <1>1, <1>2, <1>3, <1>4, <1>5, <1>6, <1>7, <1>8, <1>9, <1>10, <1>11,
           <1>12, <1>13, <1>14, <1>15, <1>16, <1>17, <1>18, <1>19, <1>20,
           <1>21 DEF Next, Running

\* The three kinds of buffer a caller can see are told apart.
Classes ==
  /\ sig = CallerBuffer => BufferClass = "untouched"
  /\ sig = ZeroBuffer => BufferClass = "cleared"
  /\ \A a \in 0 .. NONCE_UB : sig = Signature(a) => BufferClass = "signature"

LEMMA BuffersDistinct == Classes
<1>1. 0 \in Region
  BY SigningAssumption DEF Region
<1>2. /\ CallerBuffer[0].kind = "caller"
      /\ ZeroBuffer[0].kind = "zero"
      /\ \A a \in 0 .. NONCE_UB : Signature(a)[0].kind = "c"
  BY <1>1 DEF CallerBuffer, ZeroBuffer, Signature, KindOf
<1> QED BY <1>2 DEF Classes, BufferClass

Implementing == TypeInv /\ Outcome /\ Provenance /\ Delivery /\ Attribution

LEMMA AnswerStep ==
  Implementing /\ Implementing' /\ Epilogue => Service!Answer
<1> SUFFICES ASSUME Implementing, Implementing', Epilogue
             PROVE  Service!Answer
  OBVIOUS
<1>1. /\ pc = "epilogue" /\ pc' = "returned"
      /\ UNCHANGED <<ret, entry, mlen, nonce>>
  BY DEF Epilogue, Leave, call
<1>2. ret \in {0, FAIL, OUT_OF_MEMORY, RNG_FAIL}
  BY <1>1 DEF Implementing, Outcome
<1>3. SignatureOrNothing'
  BY DEF Implementing, Delivery
<1>4. Appended' = Service!Attached([entry |-> entry, mlen |-> mlen])
  BY <1>1 DEF Appended, Service!Attached
<1>c. Classes'
  BY BuffersDistinct, PTL
<1>5. CASE ret = 0
  <2>1. siglen' = CRYPTO_BYTES + Appended' /\ sig' = Signature(nonce - 1)
    BY <1>1, <1>3, <1>5 DEF SignatureOrNothing
  <2>2. nonce - 1 \in 0 .. NONCE_UB
    BY <1>1, <1>5, NonceBound
       DEF Implementing, Attribution, TypeInv, TypeOK
  <2>3. BufferClass' = "signature"
    BY <1>1, <1>c, <2>1, <2>2 DEF Classes
  <2> QED BY <1>1, <1>4, <1>5, <2>1, <2>3
          DEF Service!Answer, Service!Granted, InCall, Unset
<1>6. CASE ret # 0
  <2>1. siglen' = Appended'
    BY <1>1, <1>3, <1>6 DEF SignatureOrNothing
  <2>2. IF entry = "signature_extmu" /\ ret = RNG_FAIL
          THEN BufferClass' = "untouched"
          ELSE BufferClass' = "cleared"
    <3>1. CASE entry = "signature_extmu" /\ ret = RNG_FAIL
      BY <1>1, <1>c, <3>1 DEF Implementing, Attribution, Epilogue, Leave,
         ClearsOnFailure, HasPrefix, Classes
    <3>2. CASE ~(entry = "signature_extmu" /\ ret = RNG_FAIL)
      BY <1>1, <1>3, <1>6, <1>c, <3>2 DEF SignatureOrNothing, Classes
    <3> QED BY <3>1, <3>2
  <2>3. ret = RNG_FAIL => entry \in {e \in EntryPoints : DrawsRandomness(e)}
    BY <1>1 DEF Implementing, Attribution, EntryPoints, DrawsRandomness
  <2> DEFINE req == [entry |-> entry, mlen |-> mlen]
             ans == [code |-> ret, len |-> siglen', buffer |-> BufferClass']
  <2>4. siglen' = Service!Attached(req)
    BY <1>4, <2>1
  <2>5. req.entry = entry
    OBVIOUS
  <2>6. ASSUME ret = RNG_FAIL PROVE ans \in Service!Refused(req)
    BY <2>2, <2>3, <2>4, <2>5, <2>6 DEF Service!Refused, RNG_FAIL
  <2>7. ASSUME ret \in {FAIL, OUT_OF_MEMORY}
        PROVE  ans \in Service!Refused(req)
    <3>1. BufferClass' = "cleared"
      BY <2>2, <2>7 DEF FAIL, OUT_OF_MEMORY, RNG_FAIL
    <3> QED BY <2>4, <2>7, <3>1 DEF Service!Refused, FAIL, OUT_OF_MEMORY
  <2>8. ans \in Service!Refused(req)
    BY <1>2, <1>6, <2>6, <2>7
  <2>9. ret # Unset
    BY <1>2 DEF Unset, FAIL, OUT_OF_MEMORY, RNG_FAIL
  <2> QED BY <1>1, <2>8, <2>9 DEF Service!Answer, InCall
<1> QED BY <1>5, <1>6

LEMMA ServiceStep ==
  Implementing /\ Implementing' /\ [Next]_vars
    => [Service!ServiceNext]_(Service!serviceVars)
<1> SUFFICES ASSUME Implementing, Implementing', [Next]_vars
             PROVE  [Service!ServiceNext]_(Service!serviceVars)
  OBVIOUS
\* Inside a call nothing the service shows changes.
<1>s. ASSUME InCall, InCall', UNCHANGED call
      PROVE  UNCHANGED Service!serviceVars
  BY <1>s DEF Service!serviceVars, call
<1>1. ASSUME NEW e \in Entries, Call(e) PROVE Service!Begin
  BY <1>1 DEF Call, Service!Begin, Service!NoAnswer, InCall
<1>2. CASE Epilogue
  BY <1>2, AnswerStep DEF Service!ServiceNext
<1>3. CASE Return
  <2>1. /\ pc = "returned" /\ pc' = "idle"
        /\ UNCHANGED <<entry, mlen, ret, siglen, sig>>
    BY <1>3 DEF Return, call
  <2>2. ret # Unset
    BY <2>1 DEF Implementing, Outcome, Unset, FAIL, OUT_OF_MEMORY, RNG_FAIL
  <2>3. BufferClass' = BufferClass
    BY <2>1 DEF BufferClass
  <2> QED BY <2>1, <2>2, <2>3
          DEF Service!ServiceNext, Service!Release, InCall
<1>4. CASE UNCHANGED vars
  BY <1>4 DEF vars, Service!serviceVars, InCall, BufferClass
<1>5. CASE PrefixOutOfMemory
  BY <1>5, <1>s DEF PrefixOutOfMemory, InCall
<1>6. CASE PreparePrefix
  BY <1>6, <1>s DEF PreparePrefix, InCall
<1>7. CASE RandomBytes
  BY <1>7, <1>s DEF RandomBytes, InCall
<1>8. CASE SetupOutOfMemory
  BY <1>8, <1>s DEF SetupOutOfMemory, InCall
<1>9. CASE Setup
  BY <1>9, <1>s DEF Setup, InCall
<1>10. CASE NoncesExhausted
  BY <1>10, <1>s DEF NoncesExhausted, InCall
<1>11. CASE BeginAttempt
  BY <1>11, <1>s DEF BeginAttempt, NewAttempt, InCall
<1>12. CASE AttemptOutOfMemory
  BY <1>12, <1>s DEF AttemptOutOfMemory, InCall
<1>13. CASE SampleY
  BY <1>13, <1>s DEF SampleY, InCall
<1>14. CASE Multiply
  BY <1>14, <1>s DEF Multiply, InCall
<1>15. CASE Commit
  BY <1>15, <1>s DEF Commit, InCall
<1>16. CASE PackZ
  BY <1>16, <1>s DEF PackZ, PackZUpTo, Reject, InCall
<1>17. CASE CheckW0
  BY <1>17, <1>s DEF CheckW0, Reject, InCall
<1>18. CASE CheckCT0
  BY <1>18, <1>s DEF CheckCT0, Reject, InCall
<1>19. CASE MakeHint
  BY <1>19, <1>s DEF MakeHint, Reject, InCall
<1>20. CASE EndAttempt
  BY <1>20, <1>s DEF EndAttempt, AfterAttempt, InCall
<1>21. CASE Cleanup
  BY <1>21, <1>s DEF Cleanup, InCall
<1> QED BY <1>1, <1>2, <1>3, <1>4, <1>5, <1>6, <1>7, <1>8, <1>9, <1>10, <1>11,
           <1>12, <1>13, <1>14, <1>15, <1>16, <1>17, <1>18, <1>19, <1>20,
           <1>21 DEF Next, Running, Service!ServiceNext

\* Seen through return code, length and buffer, all of sign.c's signing side
\* is the signature service, for every parameter set: each step of a call is
\* invisible to the caller, except the last, which answers.
THEOREM SigningImplements == Spec => ImplementsService
<1>1. Init => Service!ServiceInit
  BY DEF Init, Service!ServiceInit, Service!NoAnswer, InCall
<1>2. Init => Implementing
  BY TypeInit, OutcomeInit, ProvenanceInit, DeliveryInit, AttributionInit
     DEF Implementing
<1>3. Implementing /\ [Next]_vars => Implementing'
  BY TypeNext, OutcomeNext, ProvenanceNext, DeliveryNext, AttributionNext
     DEF Implementing
<1> QED BY <1>1, <1>2, <1>3, ServiceStep, PTL
        DEF Spec, ImplementsService, Service!ServiceSpec

=============================================================================
