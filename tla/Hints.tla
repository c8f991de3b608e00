------------------------------- MODULE Hints -------------------------------
(***************************************************************************)
(* The hint section of a signature: the encoder inside mld_pack_sig_c_h    *)
(* and mld_unpack_hints (packing.c).                                       *)
(*                                                                         *)
(* A hint vector says for each of the K polynomials which of its N         *)
(* coefficients are set.  Its encoding is OMEGA bytes of indices and K     *)
(* bytes with the running tally.  A signature is only strongly unforgeable *)
(* if no other bytes decode to the same vector.                            *)
(***************************************************************************)
EXTENDS Integers, FiniteSets

CONSTANTS
  N,          \* MLDSA_N, coefficients of a polynomial; a byte counts up to N - 1
  OMEGA,      \* MLDSA_OMEGA, the most hints a signature may have
  K           \* MLDSA_K, polynomials of the vector

ASSUME HintsAssumption ==
  N \in Nat /\ OMEGA \in Nat /\ K \in Nat /\ OMEGA < N

Byte == 0 .. N - 1
Section == 0 .. OMEGA + K - 1      \* MLDSA_POLYVECH_PACKEDBYTES
Poly == 0 .. K - 1
Encodings == [Section -> Byte]
HintVectors == [Poly -> SUBSET Byte]
NoHints == [p \in Poly |-> {}]

VARIABLES
  pc,         \* "pack", "unpack", "indices", "tail", "unpacked"
  given,      \* history: the vector that was packed, a set of at most one
  packed,     \* the hint section
  h,          \* the vector unpacked
  i, j,       \* loop indices
  k,          \* hints written so far, or old_hint_count
  new,        \* new_hint_count
  ret

vars == <<pc, given, packed, h, i, j, k, new, ret>>

\* mld_pack_sig_c_h is given what the signer found to have at most OMEGA
\* hints; mld_unpack_hints is given any bytes.
Hinted(g) == {c \in Poly \X Byte : c[2] \in g[c[1]]}

Init ==
  /\ \/ /\ pc = "pack"
        /\ given \in {{g} : g \in {v \in HintVectors : Cardinality(Hinted(v)) =< OMEGA}}
        /\ packed = [a \in Section |-> 0]                 \* mld_memset
     \/ pc = "unpack" /\ given = {} /\ packed \in Encodings
  /\ h = NoHints /\ i = 0 /\ j = 0 /\ k = 0 /\ new = 0 /\ ret = 1

-----------------------------------------------------------------------------
(* mld_pack_sig_c_h                                                        *)

\* One coefficient; the second conjunct of the test is what the code has to
\* stay in bounds whatever the vector.
PackCoefficient ==
  /\ pc = "pack" /\ i < K /\ j < N
  /\ \E g \in given :
       IF j \in g[i] /\ k < Cardinality(Hinted(g))
         THEN packed' = [packed EXCEPT ![k] = j] /\ k' = k + 1
         ELSE UNCHANGED <<packed, k>>
  /\ j' = j + 1
  /\ UNCHANGED <<pc, given, h, i, new, ret>>

WriteTally(tally) ==
  /\ pc = "pack" /\ i < K /\ j = N
  /\ packed' = [packed EXCEPT ![OMEGA + i] = tally]
  /\ i' = i + 1 /\ j' = 0
  /\ UNCHANGED <<pc, given, h, k, new, ret>>

\* sig[OMEGA + i] = k
PackTally == WriteTally(k)

\* The signature reaches the verifier, who unpacks its hints.
Packed ==
  /\ pc = "pack" /\ i = K
  /\ pc' = "unpack" /\ i' = 0 /\ j' = 0 /\ k' = 0
  /\ UNCHANGED <<given, packed, h, new, ret>>

-----------------------------------------------------------------------------
(* mld_unpack_hints                                                        *)

Malformed ==
  /\ ret' = 1 /\ pc' = "unpacked"
  /\ UNCHANGED <<given, packed, h, i, j, k, new>>

TakeTally(tally, refused) ==
  /\ pc = "unpack" /\ i < K
  /\ IF refused
       THEN Malformed
       ELSE /\ new' = tally /\ j' = k /\ pc' = "indices"
            /\ UNCHANGED <<given, packed, h, i, k, ret>>

\* The tally must not fall and not exceed OMEGA.
ReadTally ==
  TakeTally(packed[OMEGA + i], packed[OMEGA + i] < k \/ packed[OMEGA + i] > OMEGA)

TakeIndex(index, refused) ==
  /\ pc = "indices" /\ j < new
  /\ IF refused
       THEN Malformed
       ELSE /\ h' = [h EXCEPT ![i] = h[i] \cup {index}]
            /\ j' = j + 1
            /\ UNCHANGED <<pc, given, packed, i, k, new, ret>>

\* Fault: an index may be repeated.
ReadIndexRepeated == TakeIndex(packed[j], j > k /\ packed[j] < packed[j - 1])

\* Indices must increase within a polynomial.
ReadIndex == TakeIndex(packed[j], j > k /\ packed[j] =< packed[j - 1])

\* old_hint_count = new_hint_count
NextPoly ==
  /\ pc = "indices" /\ j = new
  /\ k' = new /\ i' = i + 1 /\ pc' = "unpack"
  /\ UNCHANGED <<given, packed, h, j, new, ret>>

AllRead ==
  /\ pc = "unpack" /\ i = K
  /\ j' = k /\ pc' = "tail"
  /\ UNCHANGED <<given, packed, h, i, k, new, ret>>

\* Index bytes that are not used must be zero.
CheckTail ==
  /\ pc = "tail"
  /\ IF j < OMEGA
       THEN IF packed[j] # 0 THEN Malformed
            ELSE j' = j + 1 /\ UNCHANGED <<pc, given, packed, h, i, k, new, ret>>
       ELSE /\ ret' = 0 /\ pc' = "unpacked"
            /\ UNCHANGED <<given, packed, h, i, j, k, new>>

Next ==
  \/ PackCoefficient \/ PackTally \/ Packed
  \/ ReadTally \/ ReadIndex \/ NextPoly \/ AllRead \/ CheckTail

Spec == Init /\ [][Next]_vars

-----------------------------------------------------------------------------
(* What an encoding is, without an algorithm.                              *)

\* Hints of the polynomials before p.
Tally(b, p) == IF p = 0 THEN 0 ELSE b[OMEGA + p - 1]
Segment(b, p) == Tally(b, p) .. Tally(b, p + 1) - 1

\* b is the encoding of g: the tallies rise to OMEGA at most, the segment of
\* each polynomial lists its hints in increasing order, the rest is zero.
Encodes(b, g) ==
  /\ \A p \in Poly : Tally(b, p) =< Tally(b, p + 1) /\ Tally(b, p + 1) =< OMEGA
  /\ \A p \in Poly : g[p] = {b[a] : a \in Segment(b, p)}
  /\ \A p \in Poly : \A a1, a2 \in Segment(b, p) : a1 < a2 => b[a1] < b[a2]
  /\ \A a \in Tally(b, K) .. OMEGA - 1 : b[a] = 0

\* What the segments of b list.
Listed(b) == [p \in Poly |-> {b[a] : a \in Segment(b, p)}]

-----------------------------------------------------------------------------
(* Properties.                                                             *)

\* Unpacking accepts exactly the encodings, understands one as the hints it
\* is the encoding of, and accepts no other bytes with the same meaning:
\* nobody can vary a signature and have it accepted again ("for strong
\* unforgeability", packing.c:243, 254).  And what the signer packed is what
\* the verifier unpacks.
OneEncoding ==
  pc = "unpacked" =>
    /\ ret = 0 <=> Encodes(packed, Listed(packed))
    /\ ret = 0 => \A b \in Encodings : Encodes(b, h) <=> b = packed
    /\ \A g \in given : ret = 0 /\ h = g
=============================================================================
