--------------------------- MODULE EncodingProofs ---------------------------
(***************************************************************************)
(* Keys and signatures have one encoding each, for every number of         *)
(* polynomials, coefficients, hints and groups, and for every polynomial   *)
(* and every string of bytes.                                              *)
(*                                                                         *)
(* Hints.  That no vector has two encodings (Unambiguous) is about the     *)
(* definition Encodes alone: at the least place where two encodings        *)
(* differed, one would miss a hint.  That packing writes the encoding and  *)
(* unpacking reads nothing else is an invariant: the rows before i are     *)
(* coded, and so is the part of row i done so far.                         *)
(*                                                                         *)
(* Polynomials.  The shifts that the code writes out are, in every format, *)
(* those of Parts: byte b of a group is bits 8 b .. 8 b + 7 of it.  So a   *)
(* round writes bits where the standard has them (Held), a coefficient is  *)
(* determined by its bits and a byte by the coefficients it holds parts    *)
(* of, and what is written of the output so far agrees with the input.     *)
(***************************************************************************)
EXTENDS Encoding, FiniteSetTheorems, WellFoundedInduction, TLAPS

LEMMA LeastNumber ==
  ASSUME NEW S \in SUBSET Nat, S # {}
  PROVE  \E x \in S : \A y \in S : x =< y
<1> DEFINE R == OpToRel(<, Nat)
<1>1. R = {ss \in Nat \X Nat : ss[1] < ss[2]}
  BY DEF OpToRel
<1>2. IsWellFoundedOn(R, Nat)
  BY NatLessThanWellFounded
<1> HIDE DEF R
<1>3. PICK x \in S : \A y \in S : ~ (<<y, x>> \in R)
  BY <1>2, WFMin
<1>4. \A y \in S : ~ (y < x)
  BY <1>1, <1>3
<1> QED
  BY <1>4

-----------------------------------------------------------------------------
(* Hints: what b lists in places lo to hi - 1, and that it rises there.     *)

Row(b, lo, hi) == {b[at] : at \in lo .. hi - 1}
Rising(b, lo, hi) ==
  \A a1 \in lo .. hi - 1 : \A a2 \in lo .. hi - 1 : a1 < a2 => b[a1] < b[a2]
ZeroFrom(b, lo) == \A at \in lo .. OMEGA - 1 : b[at] = 0

\* Polynomial p of g is coded by b.
RowCodes(b, g, p) ==
  /\ Tally(b, p) =< Tally(b, p + 1) /\ Tally(b, p + 1) =< OMEGA
  /\ g[p] = Row(b, Tally(b, p), Tally(b, p + 1))
  /\ Rising(b, Tally(b, p), Tally(b, p + 1))

-----------------------------------------------------------------------------
(* Encodings are unambiguous.                                              *)

LEMMA TallyType ==
  ASSUME NEW b \in Encodings, NEW p \in 0 .. K
  PROVE  Tally(b, p) \in 0 .. N - 1
BY HintsAssumption DEF Tally, Encodings, Section, Byte

LEMMA EncodesRows ==
  ASSUME NEW b, NEW g
  PROVE  Encodes(b, g) <=> /\ \A p \in Poly : RowCodes(b, g, p)
                           /\ ZeroFrom(b, Tally(b, K))
BY Zenon DEF Encodes, RowCodes, Row, Rising, ZeroFrom, Segment

\* A row that lists the same as another has no entry the other has not.
LEMMA RowPrefix ==
  ASSUME NEW b \in Encodings, NEW c \in Encodings,
         NEW t \in Nat, NEW u \in Nat, NEW v \in Nat, u =< OMEGA, v =< OMEGA,
         Rising(b, t, u), Rising(c, t, v), Row(b, t, u) = Row(c, t, v)
  PROVE  \A at \in t .. u - 1 : at < v /\ b[at] = c[at]
<1> USE HintsAssumption
<1>1. \A at \in 0 .. OMEGA - 1 : b[at] \in Nat /\ c[at] \in Nat
  BY DEF Encodings, Section, Byte
<1> DEFINE D == {at \in t .. u - 1 : ~ (at < v /\ b[at] = c[at])}
<1>2. SUFFICES ASSUME D # {} PROVE FALSE
  OBVIOUS
<1>3. D \in SUBSET Nat
  OBVIOUS
<1>4. PICK d \in D : \A y \in D : d =< y
  <2> HIDE DEF D
  <2> QED
    BY <1>2, <1>3, LeastNumber
<1>5. /\ d \in t .. u - 1 /\ ~ (d < v /\ b[d] = c[d])
      /\ \A at \in t .. d - 1 : at < v /\ b[at] = c[at]
  BY <1>4
<1> HIDE DEF D
<1>6. PICK e \in t .. v - 1 : b[d] = c[e]
  BY <1>5 DEF Row
<1>7. e >= d
  BY <1>1, <1>5, <1>6 DEF Rising
<1>8. d < v /\ e > d
  BY <1>5, <1>6, <1>7
<1>9. c[d] < b[d]
  BY <1>1, <1>5, <1>6, <1>8 DEF Rising
<1>10. PICK f \in t .. u - 1 : c[d] = b[f]
  <2>1. d \in t .. v - 1
    BY <1>5, <1>8
  <2>2. c[d] \in Row(c, t, v)
    BY <2>1 DEF Row
  <2>3. c[d] \in Row(b, t, u)
    BY <2>2
  <2> QED
    BY <2>3 DEF Row
<1>11. f < d
  BY <1>1, <1>5, <1>9, <1>10 DEF Rising
<1>12. c[f] = c[d]
  BY <1>5, <1>10, <1>11
<1> QED
  BY <1>1, <1>5, <1>8, <1>11, <1>12 DEF Rising

LEMMA RowUnique ==
  ASSUME NEW b \in Encodings, NEW c \in Encodings,
         NEW t \in Nat, NEW u \in Nat, NEW v \in Nat,
         t =< u, t =< v, u =< OMEGA, v =< OMEGA,
         Rising(b, t, u), Rising(c, t, v), Row(b, t, u) = Row(c, t, v)
  PROVE  u = v /\ \A at \in t .. u - 1 : b[at] = c[at]
<1>1. /\ \A at \in t .. u - 1 : at < v /\ b[at] = c[at]
      /\ \A at \in t .. v - 1 : at < u /\ c[at] = b[at]
  BY RowPrefix
<1>2. ~ (u > v)
  BY <1>1
<1>3. ~ (v > u)
  BY <1>1
<1> QED
  BY <1>1, <1>2, <1>3

\* Two encodings of a vector have the same tallies: none is the first to differ.
LEMMA SameTallies ==
  ASSUME NEW b \in Encodings, NEW c \in Encodings, NEW g,
         \A p \in Poly : RowCodes(b, g, p) /\ RowCodes(c, g, p)
  PROVE  \A p \in 0 .. K : Tally(b, p) = Tally(c, p)
<1> USE HintsAssumption
<1> DEFINE D == {p \in 0 .. K : Tally(b, p) # Tally(c, p)}
<1>1. SUFFICES ASSUME D # {} PROVE FALSE
  OBVIOUS
<1>2. D \in SUBSET Nat
  OBVIOUS
<1>3. PICK d \in D : \A y \in D : d =< y
  <2> HIDE DEF D
  <2> QED
    BY <1>1, <1>2, LeastNumber
<1>4. /\ d \in 0 .. K /\ Tally(b, d) # Tally(c, d)
      /\ \A p \in 0 .. d - 1 : Tally(b, p) = Tally(c, p)
  BY <1>3
<1> HIDE DEF D
<1>5. d # 0
  BY <1>4 DEF Tally
<1> DEFINE p == d - 1
<1>6. p \in Poly /\ p + 1 = d /\ p \in 0 .. d - 1
  BY <1>4, <1>5 DEF Poly
<1> HIDE DEF p
<1>7. Tally(b, p) = Tally(c, p)
  BY <1>4, <1>6
<1>8. RowCodes(b, g, p) /\ RowCodes(c, g, p)
  BY <1>6
<1>9. /\ Tally(b, p) \in Nat /\ Tally(b, d) \in Nat /\ Tally(c, d) \in Nat
  BY <1>4, <1>6, TallyType DEF Poly
<1> QED
  BY <1>4, <1>6, <1>7, <1>8, <1>9, RowUnique DEF RowCodes

\* Every place before the last tally lies in some row.
LEMMA InSomeRow ==
  ASSUME NEW b \in Encodings, NEW at \in Nat, at < Tally(b, K)
  PROVE  \E p \in Poly : Tally(b, p) =< at /\ at < Tally(b, p + 1)
<1> USE HintsAssumption
<1> DEFINE D == {p \in 0 .. K : at < Tally(b, p)}
<1>1. D \in SUBSET Nat /\ D # {}
  OBVIOUS
<1>2. PICK d \in D : \A y \in D : d =< y
  <2> HIDE DEF D
  <2> QED
    BY <1>1, LeastNumber
<1>3. /\ d \in 0 .. K /\ at < Tally(b, d)
      /\ \A p \in 0 .. d - 1 : ~ (at < Tally(b, p))
  BY <1>2
<1> HIDE DEF D
<1>4. d # 0
  BY <1>3 DEF Tally
<1> DEFINE p == d - 1
<1>5. p \in Poly /\ p + 1 = d /\ p \in 0 .. d - 1 /\ p \in 0 .. K
  BY <1>3, <1>4 DEF Poly
<1> HIDE DEF p
<1>6. Tally(b, p) \in Nat
  BY <1>5, TallyType
<1> QED
  BY <1>3, <1>5, <1>6

LEMMA Unambiguous ==
  ASSUME NEW b \in Encodings, NEW c \in Encodings, NEW g,
         Encodes(b, g), Encodes(c, g)
  PROVE  b = c
<1> USE HintsAssumption
<1>1. /\ \A p \in Poly : RowCodes(b, g, p) /\ RowCodes(c, g, p)
      /\ ZeroFrom(b, Tally(b, K)) /\ ZeroFrom(c, Tally(c, K))
  BY EncodesRows
<1>2. \A p \in 0 .. K : Tally(b, p) = Tally(c, p)
  BY <1>1, SameTallies
<1>3. ASSUME NEW at \in Section PROVE b[at] = c[at]
  <2>1. at \in Nat /\ Tally(b, K) \in Nat /\ Tally(b, K) = Tally(c, K)
    BY <1>2, TallyType DEF Section
  <2>2. CASE at < Tally(b, K)
    <3>1. PICK p \in Poly : Tally(b, p) =< at /\ at < Tally(b, p + 1)
      BY <2>1, <2>2, InSomeRow
    <3>2. p \in 0 .. K /\ p + 1 \in 0 .. K
      BY DEF Poly
    <3>3. /\ Tally(b, p) \in Nat /\ Tally(b, p + 1) \in Nat
          /\ Tally(c, p) = Tally(b, p) /\ Tally(c, p + 1) = Tally(b, p + 1)
      BY <1>2, <3>2, TallyType
    <3>4. \A x \in Tally(b, p) .. Tally(b, p + 1) - 1 : b[x] = c[x]
      BY <1>1, <3>3, RowUnique DEF RowCodes
    <3> QED
      BY <2>1, <3>1, <3>3, <3>4
  <2>3. CASE ~ (at < Tally(b, K)) /\ at < OMEGA
    BY <1>1, <2>1, <2>3 DEF ZeroFrom
  <2>4. CASE ~ (at < OMEGA)
    <3> DEFINE p == at - OMEGA + 1
    <3>1. p \in 0 .. K /\ p # 0 /\ OMEGA + p - 1 = at
      BY <2>1, <2>4 DEF Section
    <3> HIDE DEF p
    <3>2. Tally(b, p) = b[at] /\ Tally(c, p) = c[at]
      BY <3>1 DEF Tally
    <3> QED
      BY <1>2, <3>1, <3>2
  <2> QED
    BY <2>1, <2>2, <2>3, <2>4
<1> QED
  BY <1>3 DEF Encodings

-----------------------------------------------------------------------------
(* The invariant.                                                          *)

\* Hints before coefficient x of polynomial p.
Seen(g, p, x) == {c \in Hinted(g) : c[1] < p \/ (c[1] = p /\ c[2] < x)}

HintsType ==
  /\ pc \in {"pack", "unpack", "indices", "tail", "unpacked"}
  /\ given \in SUBSET HintVectors
  /\ \A g \in given : Cardinality(Hinted(g)) =< OMEGA
  /\ \A g1 \in given : \A g2 \in given : g1 = g2
  /\ packed \in Encodings /\ h \in HintVectors
  /\ i \in 0 .. K /\ j \in 0 .. N /\ k \in 0 .. OMEGA /\ new \in 0 .. OMEGA
  /\ ret \in {0, 1}

\* While packing, up to coefficient j of polynomial i.
PartlyPacked(b, g) ==
  /\ \A p \in 0 .. i - 1 : RowCodes(b, g, p)
  /\ \A p \in 0 .. i : Tally(b, p) =< k
  /\ k = Cardinality(Seen(g, i, j))
  /\ i < K => Row(b, Tally(b, i), k) = {x \in g[i] : x < j}
  /\ i = K => k = Tally(b, K)
  /\ Rising(b, Tally(b, i), k)
  /\ ZeroFrom(b, k)

PackInv ==
  pc = "pack" => /\ h = NoHints /\ ret = 1
                 /\ \A g \in given : PartlyPacked(packed, g)

\* While unpacking, up to index j of polynomial i.
Unpacking(b, f) ==
  /\ \A p \in 0 .. i - 1 : RowCodes(b, f, p)
  /\ \A p \in i + 1 .. K - 1 : f[p] = {}
  /\ k = Tally(b, i) /\ ret = 1

UnpackInv ==
  /\ pc \in {"unpack", "indices", "tail"} => Unpacking(packed, h)
  /\ pc = "unpack" /\ i < K => h[i] = {}
  /\ pc = "indices" =>
       /\ i < K /\ new = Tally(packed, i + 1) /\ j \in k .. new
       /\ h[i] = Row(packed, k, j) /\ Rising(packed, k, j)
  /\ pc = "tail" =>
       /\ i = K /\ j \in k .. OMEGA
       /\ \A at \in k .. j - 1 : packed[at] = 0

\* What unpacking is given by the signer, and what it comes to.
Meant == pc # "pack" => \A g \in given : Encodes(packed, g)
Judged ==
  pc = "unpacked" => /\ ret = 0 => Encodes(packed, h)
                     /\ ret = 1 => ~ Encodes(packed, Listed(packed))

HintsInv == HintsType /\ PackInv /\ UnpackInv /\ Meant /\ Judged

\* The vector that an encoding lists is the only one it encodes.
LEMMA OnlyListed ==
  ASSUME NEW b, NEW g \in HintVectors, Encodes(b, g)
  PROVE  g = Listed(b)
<1>1. \A p \in Poly : g[p] = Listed(b)[p]
  BY DEF Encodes, Listed
<1>2. g = [p \in Poly |-> g[p]] /\ Listed(b) = [p \in Poly |-> Listed(b)[p]]
  BY DEF HintVectors, Listed
<1> QED
  BY <1>1, <1>2

LEMMA HintsInvImplies == HintsInv => OneEncoding
<1> SUFFICES ASSUME HintsInv, pc = "unpacked"
             PROVE  /\ ret = 0 <=> Encodes(packed, Listed(packed))
                    /\ ret = 0 => \A b \in Encodings : Encodes(b, h) <=> b = packed
                    /\ \A g \in given : ret = 0 /\ h = g
  BY DEF OneEncoding
<1>1. /\ ret \in {0, 1} /\ packed \in Encodings /\ h \in HintVectors
      /\ given \in SUBSET HintVectors
      /\ ret = 0 => Encodes(packed, h)
      /\ ret = 1 => ~ Encodes(packed, Listed(packed))
      /\ \A g \in given : Encodes(packed, g)
  BY DEF HintsInv, HintsType, Meant, Judged
<1>2. ret = 0 => h = Listed(packed)
  BY <1>1, OnlyListed
<1>3. ret = 0 <=> Encodes(packed, Listed(packed))
  BY <1>1, <1>2
<1>4. ret = 0 => \A b \in Encodings : Encodes(b, h) <=> b = packed
  BY <1>1, Unambiguous
<1>5. \A g \in given : ret = 0 /\ h = g
  BY <1>1, <1>2, <1>3, OnlyListed
<1> QED
  BY <1>3, <1>4, <1>5

-----------------------------------------------------------------------------
(* How many hints packing has seen.                                        *)

LEMMA HintedFinite ==
  ASSUME NEW g \in HintVectors
  PROVE  /\ IsFiniteSet(Hinted(g)) /\ Hinted(g) \subseteq Poly \X Byte
         /\ \A p \in Poly : \A x \in Byte : <<p, x>> \in Hinted(g) <=> x \in g[p]
<1>1. IsFiniteSet(Poly) /\ IsFiniteSet(Byte)
  BY HintsAssumption, FS_Interval DEF Poly, Byte
<1>2. IsFiniteSet(Poly \X Byte)
  BY <1>1, FS_Product
<1>3. Hinted(g) \subseteq Poly \X Byte
  BY DEF Hinted
<1>4. IsFiniteSet(Hinted(g))
  BY <1>2, <1>3, FS_Subset
<1> QED
  BY <1>3, <1>4 DEF Hinted

LEMMA SeenFinite ==
  ASSUME NEW g \in HintVectors, NEW p, NEW x
  PROVE  /\ IsFiniteSet(Seen(g, p, x)) /\ Cardinality(Seen(g, p, x)) \in Nat
         /\ Cardinality(Hinted(g)) \in Nat
         /\ Cardinality(Seen(g, p, x)) =< Cardinality(Hinted(g))
<1>1. Seen(g, p, x) \subseteq Hinted(g)
  BY DEF Seen
<1> QED
  BY <1>1, HintedFinite, FS_Subset, FS_CardinalityType

LEMMA SeenStart ==
  ASSUME NEW g \in HintVectors
  PROVE  Cardinality(Seen(g, 0, 0)) = 0
<1>1. Seen(g, 0, 0) = {}
  BY HintedFinite DEF Seen, Poly, Byte
<1> QED
  BY <1>1, FS_EmptySet

LEMMA SeenRow ==
  ASSUME NEW g \in HintVectors, NEW p \in Poly
  PROVE  Seen(g, p, N) = Seen(g, p + 1, 0)
<1>1. ASSUME NEW c \in Hinted(g)
      PROVE  c[1] < p \/ (c[1] = p /\ c[2] < N) <=> c[1] < p + 1 \/ (c[1] = p + 1 /\ c[2] < 0)
  <2>1. c[1] \in Poly /\ c[2] \in Byte
    BY HintedFinite
  <2>2. c[1] \in Int /\ p \in Int /\ c[2] \in Int /\ 0 =< c[2] /\ c[2] < N
    BY <2>1, HintsAssumption DEF Poly, Byte
  <2> QED
    BY <2>2
<1> QED
  BY <1>1 DEF Seen

LEMMA SeenNone ==
  ASSUME NEW g \in HintVectors, NEW p \in Poly, NEW x \in Byte, x \notin g[p]
  PROVE  Seen(g, p, x + 1) = Seen(g, p, x)
<1>1. ASSUME NEW c \in Hinted(g)
      PROVE  c[1] < p \/ (c[1] = p /\ c[2] < x + 1) <=> c[1] < p \/ (c[1] = p /\ c[2] < x)
  <2>1. c[1] \in Poly /\ c[2] \in Byte /\ c = <<c[1], c[2]>>
    BY HintedFinite
  <2>2. c[1] = p => c[2] # x
    BY <2>1, HintedFinite
  <2> QED
    BY <2>1, <2>2 DEF Poly, Byte
<1> QED
  BY <1>1 DEF Seen

LEMMA SeenOne ==
  ASSUME NEW g \in HintVectors, NEW p \in Poly, NEW x \in Byte, x \in g[p]
  PROVE  /\ Cardinality(Seen(g, p, x + 1)) = Cardinality(Seen(g, p, x)) + 1
         /\ Cardinality(Seen(g, p, x)) < Cardinality(Hinted(g))
<1> DEFINE S == Seen(g, p, x)
           e == <<p, x>>
<1>1. e \in Hinted(g)
  BY HintedFinite
<1>2. Seen(g, p, x + 1) = S \cup {e}
  <2>1. ASSUME NEW c \in Hinted(g)
        PROVE  c[1] < p \/ (c[1] = p /\ c[2] < x + 1)
                 <=> c[1] < p \/ (c[1] = p /\ c[2] < x) \/ c = e
    <3>1. c[1] \in Poly /\ c[2] \in Byte /\ c = <<c[1], c[2]>>
      BY HintedFinite
    <3>2. c = e <=> c[1] = p /\ c[2] = x
      BY <3>1
    <3> QED
      BY <3>1, <3>2 DEF Poly, Byte
  <2> HIDE DEF e
  <2> QED
    BY <1>1, <2>1 DEF Seen
<1>3. e \notin S
  BY DEF Seen, Poly, Byte
<1>4. IsFiniteSet(S) /\ Cardinality(S) \in Nat
  BY SeenFinite
<1>5. Cardinality(S \cup {e}) = Cardinality(S) + 1
  <2> HIDE DEF S, e
  <2> QED
    BY <1>3, <1>4, FS_AddElement
<1>6. Cardinality(S \cup {e}) =< Cardinality(Hinted(g)) /\ Cardinality(Hinted(g)) \in Nat
  <2>1. /\ Cardinality(Seen(g, p, x + 1)) =< Cardinality(Hinted(g))
        /\ Cardinality(Hinted(g)) \in Nat
    BY SeenFinite
  <2> HIDE DEF S, e
  <2> QED
    BY <1>2, <2>1
<1> HIDE DEF S, e
<1>7. Cardinality(S) < Cardinality(Hinted(g))
  BY <1>4, <1>5, <1>6
<1> QED
  BY <1>2, <1>5, <1>7 DEF S

-----------------------------------------------------------------------------
(* Rows and tallies that a step does not reach.                            *)

LEMMA RowKept ==
  ASSUME NEW b \in Encodings, NEW c \in Encodings, NEW g, NEW f, NEW p \in Poly,
         RowCodes(b, g, p), f[p] = g[p],
         Tally(c, p) = Tally(b, p), Tally(c, p + 1) = Tally(b, p + 1),
         \A at \in 0 .. Tally(b, p + 1) - 1 : c[at] = b[at]
  PROVE  RowCodes(c, f, p)
<1>1. Tally(b, p) \in Nat /\ Tally(b, p + 1) \in Nat
  BY TallyType, HintsAssumption DEF Poly
<1>2. \A at \in Tally(b, p) .. Tally(b, p + 1) - 1 : c[at] = b[at]
  BY <1>1
<1>3. Row(c, Tally(b, p), Tally(b, p + 1)) = Row(b, Tally(b, p), Tally(b, p + 1))
  BY <1>2 DEF Row
<1>4. Rising(c, Tally(b, p), Tally(b, p + 1))
  BY <1>2 DEF Rising, RowCodes
<1> QED
  BY <1>3, <1>4 DEF RowCodes

\* One more place of a row.
Agree(b, c, lo, hi) == \A at \in lo .. hi - 1 : c[at] = b[at]
Below(S, v) == \A y \in S : y < v

LEMMA RowExtend ==
  ASSUME NEW b \in Encodings, NEW c \in Encodings, NEW lo \in Nat, NEW hi \in Nat,
         lo =< hi, hi < OMEGA, Agree(b, c, lo, hi),
         Rising(b, lo, hi), Below(Row(b, lo, hi), c[hi])
  PROVE  /\ Row(c, lo, hi + 1) = Row(b, lo, hi) \cup {c[hi]}
         /\ Rising(c, lo, hi + 1)
<1>1. lo .. hi + 1 - 1 = (lo .. hi - 1) \cup {hi}
  OBVIOUS
<1>2. Row(c, lo, hi + 1) = Row(b, lo, hi) \cup {c[hi]}
  BY <1>1 DEF Row, Agree
<1>3. \A at \in lo .. hi - 1 : c[at] < c[hi]
  BY DEF Row, Agree, Below
<1>4. ASSUME NEW a1 \in lo .. hi + 1 - 1, NEW a2 \in lo .. hi + 1 - 1, a1 < a2
      PROVE  c[a1] < c[a2]
  <2>1. a1 \in lo .. hi - 1
    BY <1>4
  <2>2. CASE a2 = hi
    BY <1>3, <2>1, <2>2
  <2>3. CASE a2 # hi
    <3>1. a2 \in lo .. hi - 1
      BY <2>3
    <3>2. b[a1] < b[a2]
      BY <1>4, <2>1, <3>1 DEF Rising
    <3> QED
      BY <2>1, <3>1, <3>2 DEF Agree
  <2> QED
    BY <2>2, <2>3
<1>5. Rising(c, lo, hi + 1)
  BY <1>4 DEF Rising
<1> QED
  BY <1>2, <1>5

-----------------------------------------------------------------------------
(* The invariant holds.                                                    *)

LEMMA HintsInitInv == Init => HintsInv
<1> SUFFICES ASSUME Init PROVE HintsInv
  OBVIOUS
<1> USE HintsAssumption
<1>1. /\ h = NoHints /\ i = 0 /\ j = 0 /\ k = 0 /\ new = 0 /\ ret = 1
      /\ h \in HintVectors
      /\ \A p \in Poly : h[p] = {}
  BY DEF Init, NoHints, HintVectors
<1>2. CASE pc = "unpack" /\ given = {} /\ packed \in Encodings
  <2>1. HintsType
    BY <1>1, <1>2 DEF HintsType
  <2>2. Unpacking(packed, h)
    <3>1. Tally(packed, 0) = 0
      BY DEF Tally
    <3>2. \A p \in 0 + 1 .. K - 1 : p \in Poly
      BY DEF Poly
    <3> QED
      BY <1>1, <3>1, <3>2 DEF Unpacking
  <2>3. UnpackInv
    BY <1>1, <1>2, <2>2 DEF UnpackInv, Poly
  <2>4. PackInv /\ Meant /\ Judged
    BY <1>2 DEF PackInv, Meant, Judged
  <2> QED
    BY <2>1, <2>3, <2>4 DEF HintsInv
<1>3. ASSUME NEW g \in HintVectors, Cardinality(Hinted(g)) =< OMEGA, pc = "pack",
             given = {g}, packed = [at \in Section |-> 0]
      PROVE  HintsInv
  <2>1. packed \in Encodings
    BY <1>3 DEF Encodings, Byte
  <2>2. HintsType
    BY <1>1, <1>3, <2>1 DEF HintsType
  <2>3. PartlyPacked(packed, g)
    <3>1. Tally(packed, 0) = 0
      BY DEF Tally
    <3>2. Row(packed, 0, 0) = {} /\ Rising(packed, 0, 0)
      BY DEF Row, Rising
    <3>3. 0 < K => {x \in g[0] : x < 0} = {}
      BY DEF HintVectors, Poly, Byte
    <3>4. ZeroFrom(packed, 0)
      BY <1>3 DEF ZeroFrom, Section
    <3>5. Cardinality(Seen(g, 0, 0)) = 0
      BY SeenStart
    <3> QED
      BY <1>1, <3>1, <3>2, <3>3, <3>4, <3>5 DEF PartlyPacked
  <2>4. PackInv /\ UnpackInv /\ Meant /\ Judged
    BY <1>1, <1>3, <2>3 DEF PackInv, UnpackInv, Meant, Judged
  <2> QED
    BY <2>2, <2>4 DEF HintsInv
<1> QED
  BY <1>2, <1>3 DEF Init

\* b codes g up to coefficient x of polynomial p, with n hints.
CodedUpTo(b, g, p, n, x) ==
  /\ \A q \in 0 .. p - 1 : RowCodes(b, g, q)
  /\ \A q \in 0 .. p : Tally(b, q) =< n
  /\ Row(b, Tally(b, p), n) = {y \in g[p] : y < x}
  /\ Rising(b, Tally(b, p), n)
  /\ ZeroFrom(b, n)

Writes(b, c, n, x) == c = [b EXCEPT ![n] = x]

LEMMA PackHint ==
  ASSUME NEW b \in Encodings, NEW c \in Encodings, NEW g \in HintVectors,
         NEW n \in 0 .. OMEGA - 1, NEW p \in Poly, NEW x \in g[p],
         Writes(b, c, n, x), CodedUpTo(b, g, p, n, x)
  PROVE  CodedUpTo(c, g, p, n + 1, x + 1)
<1> USE HintsAssumption
<1>1. /\ g[p] \subseteq Byte /\ x \in Byte /\ n \in Section
      /\ \A q \in 0 .. p : q \in 0 .. K /\ Tally(b, q) \in Nat
  BY TallyType DEF HintVectors, Poly, Section
<1>2. c[n] = x /\ \A at \in Section : at # n => c[at] = b[at]
  BY <1>1 DEF Encodings, Writes
<1>3. \A q \in 0 .. p : Tally(c, q) = Tally(b, q)
  BY <1>1, <1>2 DEF Tally, Section
<1>4. p \in 0 .. p /\ \A q \in 0 .. p - 1 : q \in Poly /\ q \in 0 .. p /\ q + 1 \in 0 .. p
  BY DEF Poly
<1>5. \A at \in 0 .. n - 1 : c[at] = b[at]
  BY <1>2 DEF Section
<1>6. Tally(b, p) \in Nat /\ Tally(b, p) =< n /\ n \in Nat /\ n < OMEGA
  BY <1>1, <1>4 DEF CodedUpTo
<1>7. ASSUME NEW q \in 0 .. p - 1 PROVE RowCodes(c, g, q)
  <2>1. RowCodes(b, g, q) /\ Tally(b, q + 1) \in Nat /\ Tally(b, q + 1) =< n
    BY <1>1, <1>4 DEF CodedUpTo
  <2>2. \A at \in 0 .. Tally(b, q + 1) - 1 : c[at] = b[at]
    BY <1>5, <2>1
  <2> QED
    BY <1>3, <1>4, <2>1, <2>2, RowKept
<1>8. ASSUME NEW q \in 0 .. p PROVE Tally(c, q) =< n + 1
  <2>1. Tally(b, q) \in Nat /\ Tally(c, q) = Tally(b, q) /\ Tally(b, q) =< n
    BY <1>1, <1>3 DEF CodedUpTo
  <2> QED
    BY <1>6, <2>1
<1>9. /\ Row(c, Tally(c, p), n + 1) = {y \in g[p] : y < x + 1}
      /\ Rising(c, Tally(c, p), n + 1)
  <2>1. Agree(b, c, Tally(b, p), n)
    BY <1>5, <1>6 DEF Agree
  <2>2. Row(b, Tally(b, p), n) = {y \in g[p] : y < x} /\ Rising(b, Tally(b, p), n)
    BY DEF CodedUpTo
  <2>3. Below(Row(b, Tally(b, p), n), c[n])
    BY <1>2, <2>2 DEF Below
  <2>4. /\ Row(c, Tally(b, p), n + 1) = Row(b, Tally(b, p), n) \cup {c[n]}
        /\ Rising(c, Tally(b, p), n + 1)
    BY <1>6, <2>1, <2>2, <2>3, RowExtend
  <2>5. {y \in g[p] : y < x} \cup {x} = {y \in g[p] : y < x + 1}
    BY <1>1 DEF Byte
  <2>6. Tally(c, p) = Tally(b, p)
    BY <1>3, <1>4
  <2> QED
    BY <1>2, <2>2, <2>4, <2>5, <2>6
<1>10. ZeroFrom(c, n + 1)
  BY <1>2 DEF CodedUpTo, ZeroFrom, Section
<1> QED
  BY <1>7, <1>8, <1>9, <1>10 DEF CodedUpTo

LEMMA PackCoefficientInv == HintsInv /\ PackCoefficient => HintsInv'
<1> SUFFICES ASSUME HintsInv, PackCoefficient PROVE HintsInv'
  OBVIOUS
<1> USE HintsAssumption
<1>1. PICK g \in given : IF j \in g[i] /\ k < Cardinality(Hinted(g))
                           THEN packed' = [packed EXCEPT ![k] = j] /\ k' = k + 1
                           ELSE UNCHANGED <<packed, k>>
  BY DEF PackCoefficient
<1>2. /\ pc = "pack" /\ i \in Poly /\ j \in Byte /\ j' = j + 1
      /\ UNCHANGED <<pc, given, h, i, new, ret>>
  BY DEF PackCoefficient, HintsInv, HintsType, Poly, Byte
<1>3. /\ g \in HintVectors /\ given = {g} /\ Cardinality(Hinted(g)) =< OMEGA
      /\ packed \in Encodings /\ k \in 0 .. OMEGA /\ g[i] \subseteq Byte
      /\ h = NoHints /\ ret = 1 /\ PartlyPacked(packed, g)
  BY <1>2 DEF HintsInv, HintsType, PackInv, HintVectors
<1>4. k = Cardinality(Seen(g, i, j)) /\ CodedUpTo(packed, g, i, k, j)
  BY <1>2, <1>3 DEF PartlyPacked, CodedUpTo, Poly
<1>5. /\ packed' \in Encodings /\ k' \in 0 .. OMEGA
      /\ k' = Cardinality(Seen(g, i, j + 1)) /\ CodedUpTo(packed', g, i, k', j + 1)
  <2>1. CASE j \in g[i]
    <3>1. /\ Cardinality(Seen(g, i, j + 1)) = k + 1
          /\ k < Cardinality(Hinted(g)) /\ Cardinality(Hinted(g)) \in Nat
      BY <1>2, <1>3, <1>4, <2>1, SeenOne, SeenFinite
    <3>2. packed' = [packed EXCEPT ![k] = j] /\ k' = k + 1 /\ k \in 0 .. OMEGA - 1
      BY <1>1, <1>3, <2>1, <3>1
    <3>3. packed' \in Encodings
      BY <1>2, <1>3, <3>2 DEF Encodings
    <3>4. k' \in 0 .. OMEGA
      BY <3>2
    <3>5. CodedUpTo(packed', g, i, k + 1, j + 1)
      BY <1>2, <1>3, <1>4, <2>1, <3>2, <3>3, PackHint DEF Writes
    <3> QED
      BY <3>1, <3>2, <3>3, <3>4, <3>5
  <2>2. CASE j \notin g[i]
    <3>1. UNCHANGED <<packed, k>>
      BY <1>1, <2>2
    <3>2. Cardinality(Seen(g, i, j + 1)) = k
      BY <1>2, <1>3, <1>4, <2>2, SeenNone
    <3>3. {x \in g[i] : x < j + 1} = {x \in g[i] : x < j}
      BY <1>2, <1>3, <2>2 DEF Byte
    <3> QED
      BY <1>3, <1>4, <3>1, <3>2, <3>3 DEF CodedUpTo
  <2> QED
    BY <2>1, <2>2
<1>6. PartlyPacked(packed, g)'
  BY <1>2, <1>5 DEF PartlyPacked, CodedUpTo, Poly
<1>7. HintsType'
  BY <1>2, <1>3, <1>5 DEF HintsInv, HintsType, Byte
<1> QED
  BY <1>2, <1>3, <1>6, <1>7 DEF HintsInv, PackInv, UnpackInv, Meant, Judged

LEMMA PackTallyInv == HintsInv /\ PackTally => HintsInv'
<1> SUFFICES ASSUME HintsInv, PackTally PROVE HintsInv'
  OBVIOUS
<1> USE HintsAssumption
<1>1. /\ pc = "pack" /\ i \in Poly /\ j = N /\ packed' = [packed EXCEPT ![OMEGA + i] = k]
      /\ i' = i + 1 /\ j' = 0 /\ UNCHANGED <<pc, given, h, k, new, ret>>
  BY DEF PackTally, WriteTally, HintsInv, HintsType, Poly
<1>2. packed \in Encodings /\ k \in 0 .. OMEGA /\ OMEGA + i \in Section /\ k \in Byte
  BY <1>1 DEF HintsInv, HintsType, Section, Poly, Byte
<1>3. /\ packed' \in Encodings /\ packed'[OMEGA + i] = k
      /\ \A at \in Section : at # OMEGA + i => packed'[at] = packed[at]
  BY <1>1, <1>2 DEF Encodings
<1>4. /\ \A p \in 0 .. i : Tally(packed', p) = Tally(packed, p)
      /\ Tally(packed', i + 1) = k
  BY <1>1, <1>3 DEF Tally, Section, Poly
<1>5. /\ i \in 0 .. K /\ i \in 0 .. i
      /\ \A p \in 0 .. i - 1 : p \in Poly /\ p \in 0 .. i /\ p + 1 \in 0 .. i
  BY <1>1 DEF Poly
<1>6. HintsType'
  BY <1>1, <1>2, <1>3 DEF HintsInv, HintsType, Poly
<1>7. ASSUME NEW g \in given PROVE PartlyPacked(packed, g)'
  <2>1. /\ g \in HintVectors /\ PartlyPacked(packed, g)
    BY <1>1 DEF HintsInv, HintsType, PackInv
  <2>2. /\ \A p \in 0 .. i - 1 : RowCodes(packed, g, p)
        /\ \A p \in 0 .. i : Tally(packed, p) =< k
        /\ k = Cardinality(Seen(g, i, N))
        /\ Row(packed, Tally(packed, i), k) = {x \in g[i] : x < N}
        /\ Rising(packed, Tally(packed, i), k) /\ ZeroFrom(packed, k)
    BY <1>1, <2>1 DEF PartlyPacked, Poly
  <2>3. \A at \in 0 .. OMEGA - 1 : packed'[at] = packed[at]
    BY <1>1, <1>3 DEF Section, Poly
  <2>4. ASSUME NEW p \in 0 .. i - 1 PROVE RowCodes(packed', g, p)
    <3>1. Tally(packed, p + 1) =< OMEGA /\ RowCodes(packed, g, p)
      BY <2>2 DEF RowCodes
    <3>2. p + 1 \in 0 .. K /\ Tally(packed, p + 1) \in Nat
      BY <1>2, <1>5, TallyType DEF Poly
    <3>3. \A at \in 0 .. Tally(packed, p + 1) - 1 : packed'[at] = packed[at]
      BY <2>3, <3>1, <3>2
    <3> QED
      BY <1>2, <1>3, <1>4, <1>5, <3>1, <3>3, RowKept
  <2>5. Tally(packed, i) \in Nat /\ Tally(packed, i) =< k
    BY <1>2, <1>5, <2>2, TallyType
  <2>6. \A at \in Tally(packed, i) .. k - 1 : packed'[at] = packed[at]
    BY <1>2, <2>3, <2>5
  <2>7. /\ Row(packed', Tally(packed, i), k) = g[i]
        /\ Rising(packed', Tally(packed, i), k)
    <3>1. g[i] \subseteq Byte
      BY <1>1, <2>1 DEF HintVectors
    <3>2. {x \in g[i] : x < N} = g[i]
      BY <3>1 DEF Byte
    <3>3. Row(packed', Tally(packed, i), k) = Row(packed, Tally(packed, i), k)
      BY <2>6 DEF Row
    <3>4. Rising(packed', Tally(packed, i), k)
      BY <2>2, <2>6 DEF Rising
    <3> QED
      BY <2>2, <3>2, <3>3, <3>4
  <2>8. RowCodes(packed', g, i)
    BY <1>2, <1>4, <1>5, <2>5, <2>7 DEF RowCodes
  <2>9. \A p \in 0 .. i + 1 - 1 : RowCodes(packed', g, p)
    <3>1. 0 .. i + 1 - 1 = (0 .. i - 1) \cup {i}
      BY <1>5
    <3> QED
      BY <2>4, <2>8, <3>1
  <2>10. \A p \in 0 .. i + 1 : Tally(packed', p) =< k
    <3>1. 0 .. i + 1 = (0 .. i) \cup {i + 1}
      BY <1>5
    <3> QED
      BY <1>2, <1>4, <2>2, <3>1
  <2>11. k = Cardinality(Seen(g, i + 1, 0))
    BY <1>1, <2>1, <2>2, SeenRow
  <2>12. /\ Row(packed', k, k) = {} /\ Rising(packed', k, k)
         /\ ZeroFrom(packed', k)
    <3>1. k .. k - 1 = {}
      BY <1>2
    <3>2. ZeroFrom(packed', k)
      BY <1>2, <2>2, <2>3 DEF ZeroFrom
    <3> QED
      BY <3>1, <3>2 DEF Row, Rising
  <2>13. i + 1 < K => {x \in g[i + 1] : x < 0} = {}
    BY <1>5, <2>1 DEF HintVectors, Poly, Byte
  <2>14. Tally(packed', i') = k /\ i' = i + 1 /\ j' = 0 /\ k' = k
    BY <1>1, <1>4
  <2>15. /\ \A p \in 0 .. i' - 1 : RowCodes(packed', g, p)
         /\ \A p \in 0 .. i' : Tally(packed', p) =< k'
         /\ k' = Cardinality(Seen(g, i', j'))
    <3>1. \A p \in 0 .. i' - 1 : RowCodes(packed', g, p)
      <4>1. i + 1 - 1 = i' - 1
        BY <1>5, <2>14
      <4> QED
        BY <2>9, <4>1, Zenon
    <3>2. \A p \in 0 .. i' : Tally(packed', p) =< k'
      BY <2>10, <2>14
    <3>3. k' = Cardinality(Seen(g, i', j'))
      BY <2>11, <2>14
    <3> QED
      BY <3>1, <3>2, <3>3
  <2>16. /\ i' < K => Row(packed', Tally(packed', i'), k') = {x \in g[i'] : x < j'}
         /\ i' = K => k' = Tally(packed', K)
         /\ Rising(packed', Tally(packed', i'), k') /\ ZeroFrom(packed', k')
    BY <2>12, <2>13, <2>14
  <2> QED
    BY <2>15, <2>16 DEF PartlyPacked
<1> QED
  BY <1>1, <1>6, <1>7 DEF HintsInv, PackInv, UnpackInv, Meant, Judged

LEMMA PackedInv == HintsInv /\ Packed => HintsInv'
<1> SUFFICES ASSUME HintsInv, Packed PROVE HintsInv'
  OBVIOUS
<1> USE HintsAssumption
<1>1. /\ pc = "pack" /\ i = K /\ pc' = "unpack" /\ i' = 0 /\ j' = 0 /\ k' = 0
      /\ UNCHANGED <<given, packed, h, new, ret>>
  BY DEF Packed
<1>2. packed \in Encodings /\ h = NoHints /\ ret = 1 /\ \A p \in Poly : h[p] = {}
  BY <1>1 DEF HintsInv, HintsType, PackInv, NoHints
<1>3. ASSUME NEW g \in given PROVE Encodes(packed, g)
  <2>1. PartlyPacked(packed, g)
    BY <1>1 DEF HintsInv, PackInv
  <2>2. /\ \A p \in Poly : RowCodes(packed, g, p)
        /\ ZeroFrom(packed, Tally(packed, K))
    BY <1>1, <2>1 DEF PartlyPacked, Poly
  <2> QED
    BY <2>2, EncodesRows
<1>4. HintsType'
  BY <1>1 DEF HintsInv, HintsType
<1>5. UnpackInv'
  <2>1. Tally(packed, 0) = 0
    BY DEF Tally
  <2>2. \A p \in 0 + 1 .. K - 1 : p \in Poly
    BY DEF Poly
  <2> QED
    BY <1>1, <1>2, <2>1, <2>2 DEF UnpackInv, Unpacking, Poly
<1> QED
  BY <1>1, <1>3, <1>4, <1>5 DEF HintsInv, PackInv, Meant, Judged

\* Every way of refusing refutes that the bytes are an encoding.
LEMMA MalformedInv ==
  HintsInv /\ pc # "pack" /\ Malformed /\ ~ Encodes(packed, Listed(packed)) => HintsInv'
<1> SUFFICES ASSUME HintsInv, pc # "pack", Malformed, ~ Encodes(packed, Listed(packed))
             PROVE  HintsInv'
  OBVIOUS
<1>1. ret' = 1 /\ pc' = "unpacked" /\ UNCHANGED <<given, packed, h, i, j, k, new>>
  BY DEF Malformed
<1>2. HintsType'
  BY <1>1 DEF HintsInv, HintsType
<1> QED
  BY <1>1, <1>2 DEF HintsInv, PackInv, UnpackInv, Meant, Judged

LEMMA ReadTallyInv == HintsInv /\ ReadTally => HintsInv'
<1> SUFFICES ASSUME HintsInv, ReadTally PROVE HintsInv'
  OBVIOUS
<1> USE HintsAssumption
<1>1. pc = "unpack" /\ i \in Poly
  BY DEF ReadTally, TakeTally, HintsInv, HintsType, Poly
<1>2. /\ packed \in Encodings /\ k \in 0 .. OMEGA /\ k = Tally(packed, i)
      /\ Unpacking(packed, h) /\ h[i] = {}
  BY <1>1 DEF HintsInv, HintsType, UnpackInv, Unpacking, Poly
<1>3. i \in 0 .. K /\ i + 1 \in 0 .. K
  BY <1>1 DEF Poly
<1>4. /\ packed[OMEGA + i] = Tally(packed, i + 1)
      /\ Tally(packed, i + 1) \in Nat
  BY <1>1, <1>2, <1>3, TallyType DEF Tally, Poly
<1>5. CASE packed[OMEGA + i] < k \/ packed[OMEGA + i] > OMEGA
  <2>1. Malformed
    BY <1>5 DEF ReadTally, TakeTally
  <2>2. ~ (Tally(packed, i) =< Tally(packed, i + 1) /\ Tally(packed, i + 1) =< OMEGA)
    BY <1>2, <1>4, <1>5
  <2>3. ~ Encodes(packed, Listed(packed))
    BY <1>1, <2>2 DEF Encodes
  <2> QED
    BY <1>1, <2>1, <2>3, MalformedInv
<1>6. CASE ~ (packed[OMEGA + i] < k \/ packed[OMEGA + i] > OMEGA)
  <2>1. /\ new' = Tally(packed, i + 1) /\ j' = k /\ pc' = "indices"
        /\ UNCHANGED <<given, packed, h, i, k, ret>>
    BY <1>4, <1>6 DEF ReadTally, TakeTally
  <2>2. new' \in k .. OMEGA
    BY <1>2, <1>4, <1>6, <2>1
  <2>3. HintsType'
    BY <1>1, <1>2, <2>1, <2>2 DEF HintsInv, HintsType
  <2>4. Row(packed, k, k) = {} /\ Rising(packed, k, k)
    BY <1>2 DEF Row, Rising
  <2>5. UnpackInv'
    BY <1>1, <1>2, <2>1, <2>2, <2>4 DEF UnpackInv, Unpacking, Poly
  <2> QED
    BY <1>1, <2>1, <2>3, <2>5 DEF HintsInv, PackInv, Meant, Judged
<1> QED
  BY <1>5, <1>6

LEMMA ReadIndexInv == HintsInv /\ ReadIndex => HintsInv'
<1> SUFFICES ASSUME HintsInv, ReadIndex PROVE HintsInv'
  OBVIOUS
<1> USE HintsAssumption
<1>1. /\ pc = "indices" /\ j < new /\ i \in Poly /\ j \in k .. new /\ k \in 0 .. OMEGA
      /\ new \in 0 .. OMEGA /\ new = Tally(packed, i + 1) /\ k = Tally(packed, i)
      /\ packed \in Encodings /\ h \in HintVectors /\ Unpacking(packed, h)
      /\ h[i] = Row(packed, k, j) /\ Rising(packed, k, j)
  BY DEF ReadIndex, TakeIndex, HintsInv, HintsType, UnpackInv, Unpacking, Poly
<1>2. /\ j \in Nat /\ j < OMEGA /\ j \in Section
      /\ \A at \in 0 .. OMEGA - 1 : packed[at] \in Byte /\ packed[at] \in Nat
  BY <1>1 DEF Section, Encodings, Byte
<1>3. CASE j > k /\ packed[j] =< packed[j - 1]
  <2>1. Malformed
    BY <1>3 DEF ReadIndex, TakeIndex
  <2>2. j \in Segment(packed, i) /\ j - 1 \in Segment(packed, i) /\ j - 1 < j
    BY <1>1, <1>3 DEF Segment
  <2>3. ~ (packed[j - 1] < packed[j])
    BY <1>1, <1>2, <1>3
  <2>4. ~ Encodes(packed, Listed(packed))
    BY <1>1, <2>2, <2>3 DEF Encodes
  <2> QED
    BY <1>1, <2>1, <2>4, MalformedInv
<1>4. CASE ~ (j > k /\ packed[j] =< packed[j - 1])
  <2>1. /\ h' = [h EXCEPT ![i] = h[i] \cup {packed[j]}] /\ j' = j + 1
        /\ UNCHANGED <<pc, given, packed, i, k, new, ret>>
    BY <1>4 DEF ReadIndex, TakeIndex
  <2>2. Below(Row(packed, k, j), packed[j])
    <3>1. ASSUME NEW at \in k .. j - 1 PROVE packed[at] < packed[j]
      <4>1. /\ j > k /\ packed[j - 1] < packed[j] /\ packed[at] \in Nat
            /\ packed[j - 1] \in Nat /\ packed[j] \in Nat
        BY <1>1, <1>2, <1>4
      <4>2. at = j - 1 \/ packed[at] < packed[j - 1]
        BY <1>1, <1>2 DEF Rising
      <4> QED
        BY <4>1, <4>2
    <3> QED
      BY <3>1 DEF Below, Row
  <2>3. Agree(packed, packed, k, j)
    BY DEF Agree
  <2>4. /\ Row(packed, k, j + 1) = Row(packed, k, j) \cup {packed[j]}
        /\ Rising(packed, k, j + 1)
    <3>1. /\ packed \in Encodings /\ k \in Nat /\ j \in Nat /\ k =< j /\ j < OMEGA
          /\ Rising(packed, k, j)
      BY <1>1, <1>2
    <3> QED
      BY <2>2, <2>3, <3>1, RowExtend
  <2>5. /\ h' \in HintVectors /\ h'[i] = Row(packed, k, j + 1)
        /\ \A p \in Poly : p # i => h'[p] = h[p]
    BY <1>1, <1>2, <2>1, <2>4 DEF HintVectors
  <2>6. j' \in k .. new /\ j' \in 0 .. N
    BY <1>1, <2>1
  <2>7. HintsType'
    BY <2>1, <2>5, <2>6 DEF HintsInv, HintsType
  <2>8. ASSUME NEW p \in 0 .. i - 1 PROVE RowCodes(packed, h', p)
    <3>1. RowCodes(packed, h, p) /\ p \in Poly /\ p # i
      BY <1>1 DEF Unpacking, Poly
    <3> QED
      BY <2>5, <3>1 DEF RowCodes
  <2>9. Unpacking(packed, h)'
    <3>1. \A p \in i + 1 .. K - 1 : p \in Poly /\ p # i /\ h[p] = {}
      BY <1>1 DEF Unpacking, Poly
    <3> QED
      BY <1>1, <2>1, <2>5, <2>8, <3>1 DEF Unpacking
  <2>10. UnpackInv'
    BY <1>1, <2>1, <2>4, <2>5, <2>6, <2>9 DEF UnpackInv, Poly
  <2> QED
    BY <1>1, <2>1, <2>7, <2>10 DEF HintsInv, PackInv, Meant, Judged
<1> QED
  BY <1>3, <1>4

LEMMA NextPolyInv == HintsInv /\ NextPoly => HintsInv'
<1> SUFFICES ASSUME HintsInv, NextPoly PROVE HintsInv'
  OBVIOUS
<1> USE HintsAssumption
<1>1. /\ pc = "indices" /\ j = new /\ i \in Poly /\ j \in k .. new /\ k \in 0 .. OMEGA
      /\ new \in 0 .. OMEGA /\ new = Tally(packed, i + 1) /\ k = Tally(packed, i)
      /\ Unpacking(packed, h) /\ h[i] = Row(packed, k, j) /\ Rising(packed, k, j)
      /\ k' = new /\ i' = i + 1 /\ pc' = "unpack"
      /\ UNCHANGED <<given, packed, h, j, new, ret>>
  BY DEF NextPoly, HintsInv, HintsType, UnpackInv, Unpacking, Poly
<1>2. RowCodes(packed, h, i)
  BY <1>1 DEF RowCodes
<1>3. HintsType'
  BY <1>1 DEF HintsInv, HintsType, Poly
<1>4. \A p \in 0 .. i + 1 - 1 : RowCodes(packed, h, p)
  <2>1. 0 .. i + 1 - 1 = (0 .. i - 1) \cup {i}
    BY <1>1 DEF Poly
  <2> QED
    BY <1>1, <1>2, <2>1 DEF Unpacking
<1>5. \A p \in i + 1 .. K - 1 : h[p] = {}
  BY <1>1 DEF Unpacking
<1>6. /\ \A p \in i + 1 + 1 .. K - 1 : h[p] = {}
      /\ i + 1 < K => h[i + 1] = {}
  BY <1>1, <1>5 DEF Poly
<1>7. i' - 1 = i + 1 - 1 /\ ret = 1
  BY <1>1 DEF Unpacking, Poly
<1>8. Unpacking(packed, h)'
  BY <1>1, <1>4, <1>6, <1>7 DEF Unpacking
<1>9. UnpackInv'
  BY <1>1, <1>6, <1>8 DEF UnpackInv
<1> QED
  BY <1>1, <1>3, <1>9 DEF HintsInv, PackInv, Meant, Judged

LEMMA AllReadInv == HintsInv /\ AllRead => HintsInv'
<1> SUFFICES ASSUME HintsInv, AllRead PROVE HintsInv'
  OBVIOUS
<1> USE HintsAssumption
<1>1. /\ pc = "unpack" /\ i = K /\ j' = k /\ pc' = "tail" /\ k \in 0 .. OMEGA
      /\ UNCHANGED <<given, packed, h, i, k, new, ret>> /\ Unpacking(packed, h)
  BY DEF AllRead, HintsInv, HintsType, UnpackInv
<1>2. HintsType'
  BY <1>1 DEF HintsInv, HintsType
<1>3. UnpackInv'
  BY <1>1 DEF UnpackInv, Unpacking
<1> QED
  BY <1>1, <1>2, <1>3 DEF HintsInv, PackInv, Meant, Judged

LEMMA CheckTailInv == HintsInv /\ CheckTail => HintsInv'
<1> SUFFICES ASSUME HintsInv, CheckTail PROVE HintsInv'
  OBVIOUS
<1> USE HintsAssumption
<1>1. /\ pc = "tail" /\ i = K /\ j \in k .. OMEGA /\ k \in 0 .. OMEGA
      /\ Unpacking(packed, h) /\ k = Tally(packed, K)
      /\ \A at \in k .. j - 1 : packed[at] = 0
  BY DEF CheckTail, HintsInv, HintsType, UnpackInv, Unpacking
<1>2. CASE j < OMEGA /\ packed[j] # 0
  <2>1. Malformed
    BY <1>2 DEF CheckTail
  <2>2. j \in Tally(packed, K) .. OMEGA - 1
    BY <1>1, <1>2
  <2>3. ~ Encodes(packed, Listed(packed))
    BY <1>2, <2>2 DEF Encodes
  <2> QED
    BY <1>1, <2>1, <2>3, MalformedInv
<1>3. CASE j < OMEGA /\ packed[j] = 0
  <2>1. j' = j + 1 /\ UNCHANGED <<pc, given, packed, h, i, k, new, ret>>
    BY <1>3 DEF CheckTail
  <2>2. j' \in k .. OMEGA /\ \A at \in k .. j' - 1 : packed[at] = 0
    BY <1>1, <1>3, <2>1
  <2>3. HintsType'
    BY <1>1, <2>1, <2>2 DEF HintsInv, HintsType
  <2>4. UnpackInv'
    BY <1>1, <2>1, <2>2 DEF UnpackInv, Unpacking
  <2> QED
    BY <1>1, <2>1, <2>3, <2>4 DEF HintsInv, PackInv, Meant, Judged
<1>4. CASE ~ (j < OMEGA)
  <2>1. ret' = 0 /\ pc' = "unpacked" /\ UNCHANGED <<given, packed, h, i, j, k, new>>
    BY <1>4 DEF CheckTail
  <2>2. /\ \A p \in Poly : RowCodes(packed, h, p)
        /\ ZeroFrom(packed, Tally(packed, K))
    BY <1>1, <1>4 DEF Unpacking, Poly, ZeroFrom
  <2>3. Encodes(packed, h)
    BY <2>2, EncodesRows
  <2>4. HintsType'
    BY <2>1 DEF HintsInv, HintsType
  <2> QED
    BY <1>1, <2>1, <2>3, <2>4 DEF HintsInv, PackInv, UnpackInv, Meant, Judged
<1> QED
  BY <1>2, <1>3, <1>4

LEMMA StutterInv == HintsInv /\ UNCHANGED vars => HintsInv'
<1> SUFFICES ASSUME HintsInv, UNCHANGED vars PROVE HintsInv'
  OBVIOUS
<1>1. HintsType'
  BY DEF vars, HintsInv, HintsType
<1>2. PackInv'
  BY DEF vars, HintsInv, PackInv, PartlyPacked
<1>3. UnpackInv'
  BY DEF vars, HintsInv, UnpackInv, Unpacking
<1>4. Meant' /\ Judged'
  BY DEF vars, HintsInv, Meant, Judged
<1> QED
  BY <1>1, <1>2, <1>3, <1>4 DEF HintsInv

-----------------------------------------------------------------------------
(* Numbers and their bits.  2^n counts the subsets of 1 .. n.              *)

LEMMA SubsetsOfInterval ==
  ASSUME NEW n \in Nat
  PROVE  IsFiniteSet(SUBSET (1 .. n)) /\ Cardinality(SUBSET (1 .. n)) = 2 ^ n
<1>1. IsFiniteSet(1 .. n) /\ Cardinality(1 .. n) = IF 1 > n THEN 0 ELSE n - 1 + 1
  BY FS_Interval
<1>2. Cardinality(1 .. n) = n
  BY <1>1
<1>3. Cardinality(SUBSET (1 .. n)) = 2 ^ Cardinality(1 .. n)
  BY <1>1, FS_SUBSET
<1>4. IsFiniteSet(SUBSET (1 .. n))
  BY <1>1, FS_SUBSET
<1> QED BY <1>2, <1>3, <1>4

LEMMA PowerType ==
  ASSUME NEW n \in Nat
  PROVE  2 ^ n \in Nat \ {0}
<1> DEFINE S == SUBSET (1 .. n)
<1>1. IsFiniteSet(S) /\ Cardinality(S) = 2 ^ n
  BY SubsetsOfInterval
<1>2. S # {}
  OBVIOUS
<1> HIDE DEF S
<1>3. Cardinality(S) \in Nat
  BY <1>1, FS_CardinalityType
<1>4. Cardinality(S) # 0
  BY <1>1, <1>2, FS_EmptySet
<1> QED BY <1>1, <1>3, <1>4

\* Half of the subsets of a set with one more element have it.
LEMMA SubsetsWith ==
  ASSUME NEW A, NEW e, e \notin A
  PROVE  /\ SUBSET (A \cup {e}) = (SUBSET A) \cup ((SUBSET (A \cup {e})) \ (SUBSET A))
         /\ ExistsBijection(SUBSET A, (SUBSET (A \cup {e})) \ (SUBSET A))
<1> DEFINE S == SUBSET A
           T == (SUBSET (A \cup {e})) \ (SUBSET A)
           Plus(x) == x \cup {e}
           g == [x \in S |-> Plus(x)]
<1>1. SUBSET (A \cup {e}) = S \cup T
  OBVIOUS
<1>2. \A x \in S : Plus(x) \in T
  OBVIOUS
<1>3. \A x \in S, y \in S : Plus(x) = Plus(y) => x = y
  OBVIOUS
<1>4. \A y \in T : \E x \in S : Plus(x) = y
  <2> SUFFICES ASSUME NEW y \in T PROVE \E x \in S : Plus(x) = y
    OBVIOUS
  <2>1. e \in y
    OBVIOUS
  <2>2. y \ {e} \in S /\ Plus(y \ {e}) = y
    BY <2>1
  <2> QED BY <2>2
<1>5. g \in [S -> T]
  BY <1>2
<1>6. \A x \in S : g[x] = Plus(x)
  OBVIOUS
<1> HIDE DEF g, Plus, S, T
<1>7. g \in Injection(S, T)
  BY <1>3, <1>5, <1>6 DEF Injection, IsInjective
<1>8. g \in Surjection(S, T)
  BY <1>4, <1>5, <1>6 DEF Surjection
<1>9. ExistsBijection(S, T)
  BY <1>7, <1>8 DEF ExistsBijection, Bijection
<1> QED BY <1>1, <1>9 DEF S, T

LEMMA PowerDoubles ==
  ASSUME NEW n \in Nat
  PROVE  2 ^ (n + 1) = 2 * 2 ^ n
<1> DEFINE S == SUBSET (1 .. n)
           T == (SUBSET (1 .. n + 1)) \ (SUBSET (1 .. n))
<1>1. IsFiniteSet(S) /\ Cardinality(S) = 2 ^ n
  BY SubsetsOfInterval
<1>2. IsFiniteSet(SUBSET (1 .. n + 1)) /\ Cardinality(SUBSET (1 .. n + 1)) = 2 ^ (n + 1)
  BY SubsetsOfInterval
<1>3. 1 .. n + 1 = (1 .. n) \cup {n + 1} /\ n + 1 \notin 1 .. n
  OBVIOUS
<1>4. SUBSET (1 .. n + 1) = S \cup T /\ ExistsBijection(S, T)
  BY <1>3, SubsetsWith, Zenon
<1>5. S \cap T = {}
  OBVIOUS
<1> HIDE DEF S, T
<1>6. IsFiniteSet(T) /\ Cardinality(T) = Cardinality(S)
  BY <1>1, <1>4, FS_Bijection
<1>7. Cardinality(S \cup T) = Cardinality(S) + Cardinality(T) - Cardinality(S \cap T)
  BY <1>1, <1>6, FS_Union
<1>8. Cardinality(S \cap T) = 0
  BY <1>5, FS_EmptySet
<1>9. 2 ^ n \in Nat
  BY PowerType
<1>10. 2 ^ (n + 1) = 2 ^ n + 2 ^ n - 0
  BY <1>1, <1>2, <1>4, <1>6, <1>7, <1>8
<1> QED BY <1>9, <1>10

\* Induction over the natural numbers, for a set of them.
LEMMA NumbersByInduction ==
  ASSUME NEW S, 0 \in S, \A n \in Nat : n \in S => n + 1 \in S
  PROVE  \A n \in Nat : n \in S
<1> SUFFICES ASSUME NEW n \in Nat, n \notin S PROVE FALSE
  OBVIOUS
<1> DEFINE Missing == {x \in Nat : x \notin S}
<1>1. n \in Missing
  OBVIOUS
<1>2. PICK x \in Missing : \A y \in Missing : x =< y
  BY <1>1, LeastNumber
<1>3. x # 0 /\ x \in Nat
  OBVIOUS
<1>4. x - 1 \in Nat /\ ~ (x =< x - 1) /\ x - 1 + 1 = x
  BY <1>3
<1>5. x - 1 \in S
  BY <1>2, <1>4
<1> QED BY <1>4, <1>5

LEMMA PowerAdds ==
  ASSUME NEW m \in Nat
  PROVE  \A b \in Nat : 2 ^ (m + b) = 2 ^ m * 2 ^ b
<1> DEFINE S == {b \in Nat : 2 ^ (m + b) = 2 ^ m * 2 ^ b}
<1>1. 0 \in S
  <2>1. 2 ^ 0 = 1 /\ m + 0 = m /\ 2 ^ m \in Nat
    BY PowerType
  <2> QED BY <2>1
<1>2. ASSUME NEW n \in Nat, n \in S PROVE n + 1 \in S
  <2>1. 2 ^ m \in Nat /\ 2 ^ n \in Nat /\ 2 ^ (n + 1) \in Nat
    BY PowerType
  <2>2. 2 ^ (m + (n + 1)) = 2 * 2 ^ (m + n)
    <3>1. m + (n + 1) = (m + n) + 1 /\ m + n \in Nat
      OBVIOUS
    <3> QED BY <3>1, PowerDoubles
  <2>3. 2 ^ (n + 1) = 2 * 2 ^ n
    BY PowerDoubles
  <2>4. 2 ^ (m + n) = 2 ^ m * 2 ^ n
    BY <1>2
  <2> DEFINE A == 2 ^ m
             B == 2 ^ n
  <2>5. 2 * (A * B) = A * (2 * B)
    <3>1. A \in Nat /\ B \in Nat
      BY <2>1
    <3> HIDE DEF A, B
    <3> QED BY <3>1
  <2>6. 2 ^ (m + (n + 1)) = A * 2 ^ (n + 1)
    BY <2>2, <2>3, <2>4, <2>5
  <2> QED BY <2>6
<1> HIDE DEF S
<1>3. \A n \in Nat : n \in S
  BY <1>1, <1>2, NumbersByInduction
<1> QED BY <1>3 DEF S

LEMMA Division ==
  ASSUME NEW x \in Int, NEW p \in Nat \ {0}
  PROVE  x \div p \in Int /\ x % p \in 0 .. p - 1 /\ x = (x \div p) * p + (x % p)
<1>1. x \div p \in Int
  OBVIOUS
<1>2. x % p \in Int /\ 0 =< x % p /\ x % p < p
  OBVIOUS
<1>3. x % p = x - p * (x \div p)
  OBVIOUS
<1> DEFINE q == x \div p
           y == x % p
<1>4. q \in Int /\ y \in 0 .. p - 1 /\ y = x - p * q
  BY <1>1, <1>2, <1>3
<1> HIDE DEF q, y
<1>5. p * q = q * p /\ p * q \in Int
  BY <1>4
<1>6. x = q * p + y
  BY <1>4, <1>5
<1> QED BY <1>4, <1>6 DEF q, y

LEMMA MulAtLeast ==
  ASSUME NEW d \in Int, d >= 1, NEW p \in Nat
  PROVE  d * p >= p
OBVIOUS

LEMMA DivisionUnique ==
  ASSUME NEW p \in Nat \ {0}, NEW q \in Int, NEW m \in 0 .. p - 1
  PROVE  (q * p + m) \div p = q /\ (q * p + m) % p = m
<1> DEFINE x == q * p + m
           d == x \div p
           e == x % p
<1>1. x \in Int
  OBVIOUS
<1>2. d \in Int /\ e \in 0 .. p - 1 /\ x = d * p + e
  <2> HIDE DEF x
  <2> QED BY <1>1, Division
<1> HIDE DEF d, e
<1>3. q * p \in Int /\ d * p \in Int /\ q * p + m = d * p + e
  BY <1>2
<1>4. (q - d) * p = q * p - d * p /\ (d - q) * p = d * p - q * p
  BY <1>2
<1>5. ~ (q - d >= 1)
  BY <1>2, <1>3, <1>4, MulAtLeast
<1>6. ~ (d - q >= 1)
  BY <1>2, <1>3, <1>4, MulAtLeast
<1>7. q = d
  BY <1>2, <1>5, <1>6
<1> QED BY <1>2, <1>3, <1>7 DEF d, e

\* The powers that the widths of the formats need.
LEMMA Powers ==
  /\ 2 ^ 0 = 1 /\ 2 ^ 3 = 8 /\ 2 ^ 4 = 16 /\ 2 ^ 6 = 64 /\ 2 ^ 10 = 1024
  /\ 2 ^ 13 = 8192 /\ 2 ^ 18 = 262144 /\ 2 ^ 20 = 1048576
<1> DEFINE p(n) == 2 ^ n
<1>1. p(0) = 1 /\ \A n \in Nat : p(n) \in Nat /\ p(n + 1) = 2 * p(n)
  BY PowerDoubles, PowerType
<1> HIDE DEF p
<1>2. p(1) = 2 /\ p(2) = 4 /\ p(3) = 8 /\ p(4) = 16
  <2>1. p(0 + 1) = 2 * p(0) /\ p(1 + 1) = 2 * p(1)
        /\ p(2 + 1) = 2 * p(2) /\ p(3 + 1) = 2 * p(3)
    BY <1>1, SMT
  <2> QED BY <1>1, <2>1, SMT
<1>3. p(6) = 64 /\ p(8) = 256
  <2>1. p(4 + 1) = 2 * p(4) /\ p(5 + 1) = 2 * p(5)
        /\ p(6 + 1) = 2 * p(6) /\ p(7 + 1) = 2 * p(7)
    BY <1>1, SMT
  <2> QED BY <1>2, <2>1, SMT
<1>4. p(10) = 1024 /\ p(12) = 4096
  <2>1. p(8 + 1) = 2 * p(8) /\ p(9 + 1) = 2 * p(9)
        /\ p(10 + 1) = 2 * p(10) /\ p(11 + 1) = 2 * p(11)
    BY <1>1, SMT
  <2> QED BY <1>3, <2>1, SMT
<1>5. p(13) = 8192 /\ p(16) = 65536
  <2>1. p(12 + 1) = 2 * p(12) /\ p(13 + 1) = 2 * p(13)
        /\ p(14 + 1) = 2 * p(14) /\ p(15 + 1) = 2 * p(15)
    BY <1>1, SMT
  <2> QED BY <1>4, <2>1, SMT
<1>6. p(18) = 262144 /\ p(20) = 1048576
  <2>1. p(16 + 1) = 2 * p(16) /\ p(17 + 1) = 2 * p(17)
        /\ p(18 + 1) = 2 * p(18) /\ p(19 + 1) = 2 * p(19)
    BY <1>1, SMT
  <2> QED BY <1>5, <2>1, SMT
<1> QED BY <1>1, <1>2, <1>3, <1>4, <1>5, <1>6, SMT DEF p

LEMMA PowerGrows ==
  ASSUME NEW m \in Nat, NEW n \in Nat, m =< n
  PROVE  2 ^ m =< 2 ^ n
<1>1. n - m \in Nat /\ m + (n - m) = n
  OBVIOUS
<1>2. 2 ^ n = 2 ^ m * 2 ^ (n - m)
  BY <1>1, PowerAdds
<1> DEFINE p == 2 ^ m
           q == 2 ^ (n - m)
<1>3. p \in Nat \ {0} /\ q \in Nat \ {0}
  BY <1>1, PowerType
<1> HIDE DEF p, q
<1>4. q * p >= p /\ q * p = p * q
  BY <1>3, MulAtLeast
<1> QED BY <1>2, <1>4 DEF p, q

\* The sum in Value, term by term.
Term(bits, b) == IF b \in bits THEN 2 ^ b ELSE 0
Sums(bits) ==
  CHOOSE g : g = [b \in 0 .. 20 |->
                    IF b = 0 THEN 0
                    ELSE g[b - 1] + (IF b - 1 \in bits THEN 2 ^ (b - 1) ELSE 0)]

LEMMA ValueIs == \A bits : Value(bits) = Sums(bits)[20]
BY Zenon DEF Value, Sums

LEMMA SumsAre ==
  ASSUME NEW bits
  PROVE  /\ Sums(bits)[0] = 0
         /\ \A b \in 0 .. 19 : Sums(bits)[b + 1] = Sums(bits)[b] + Term(bits, b)
<1> DEFINE Is(g) ==
             g = [b \in 0 .. 20 |->
                    IF b = 0 THEN 0
                    ELSE g[b - 1] + (IF b - 1 \in bits THEN 2 ^ (b - 1) ELSE 0)]
           Upto(g, m) ==
             /\ g[0] = 0
             /\ \A b \in 0 .. 19 : b < m => g[b + 1] = g[b] + Term(bits, b)
           S == {m \in Nat : \E g : Upto(g, m)}
<1>1. 0 \in S
  <2> DEFINE g == [b \in 0 .. 20 |-> 0]
  <2>1. Upto(g, 0)
    OBVIOUS
  <2> HIDE DEF Upto, g
  <2> QED BY <2>1
<1>2. ASSUME NEW m \in Nat, m \in S PROVE m + 1 \in S
  <2>1. PICK g : Upto(g, m)
    BY <1>2
  <2> DEFINE e == [b \in 0 .. m + 1 |-> IF b = m + 1 THEN g[m] + Term(bits, m) ELSE g[b]]
  <2>2. \A b \in 0 .. m : e[b] = g[b]
    OBVIOUS
  <2>3. e[m + 1] = g[m] + Term(bits, m)
    OBVIOUS
  <2> HIDE DEF e
  <2>4. Upto(e, m + 1)
    BY <2>1, <2>2, <2>3
  <2> HIDE DEF Upto
  <2> QED BY <2>4
<1>3. \E g : Is(g)
  <2> HIDE DEF S
  <2>1. 20 \in S
    BY <1>1, <1>2, NumbersByInduction
  <2>2. PICK g : Upto(g, 20)
    BY <2>1 DEF S
  <2> DEFINE e == [b \in 0 .. 20 |-> g[b]]
  <2>3. \A b \in 0 .. 20 : e[b] = g[b]
    OBVIOUS
  <2>4. e = [b \in 0 .. 20 |-> e[b]]
    OBVIOUS
  <2> HIDE DEF e
  <2>5. ASSUME NEW b \in 0 .. 20
        PROVE  e[b] = IF b = 0 THEN 0
                      ELSE e[b - 1] + (IF b - 1 \in bits THEN 2 ^ (b - 1) ELSE 0)
    <3>1. CASE b = 0
      BY <2>2, <2>3, <3>1
    <3>2. CASE b # 0
      <4>1. b - 1 \in 0 .. 19 /\ b - 1 < 20 /\ (b - 1) + 1 = b /\ b - 1 \in 0 .. 20
        BY <3>2
      <4>2. g[b] = g[b - 1] + Term(bits, b - 1)
        BY <2>2, <4>1
      <4> QED BY <2>3, <3>2, <4>1, <4>2 DEF Term
    <3> QED BY <3>1, <3>2
  <2>6. Is(e)
    BY <2>4, <2>5, Zenon
  <2> HIDE DEF Is
  <2> QED BY <2>6
<1>4. Sums(bits) = CHOOSE g : Is(g)
  BY Zenon DEF Sums
<1>5. Is(Sums(bits))
  <2> HIDE DEF Is
  <2> QED BY <1>3, <1>4, Zenon
<1>6. \A b \in 0 .. 20 :
        Sums(bits)[b] = IF b = 0 THEN 0
                        ELSE Sums(bits)[b - 1] + (IF b - 1 \in bits THEN 2 ^ (b - 1) ELSE 0)
  BY <1>5, Zenon
<1>7. Sums(bits)[0] = 0
  BY <1>6
<1>8. ASSUME NEW b \in 0 .. 19 PROVE Sums(bits)[b + 1] = Sums(bits)[b] + Term(bits, b)
  <2>1. b + 1 \in 0 .. 20 /\ b + 1 # 0 /\ (b + 1) - 1 = b
    OBVIOUS
  <2> QED BY <1>6, <2>1 DEF Term
<1> QED BY <1>7, <1>8

LEMMA SumsRange ==
  ASSUME NEW bits
  PROVE  \A b \in 0 .. 20 : Sums(bits)[b] \in 0 .. 2 ^ b - 1
<1> DEFINE P(b) == Sums(bits)[b] \in 0 .. 2 ^ b - 1
           S == {b \in Nat : b =< 20 => P(b)}
<1>1. 0 \in S
  BY SumsAre, Powers
<1>2. ASSUME NEW b \in Nat, b \in S PROVE b + 1 \in S
  <2> SUFFICES ASSUME b + 1 =< 20 PROVE P(b + 1)
    OBVIOUS
  <2>1. b \in 0 .. 19 /\ P(b)
    BY <1>2
  <2>2. Sums(bits)[b + 1] = Sums(bits)[b] + Term(bits, b)
    BY <2>1, SumsAre
  <2>3. Term(bits, b) \in {0, 2 ^ b} /\ 2 ^ b \in Nat /\ 2 ^ (b + 1) = 2 * 2 ^ b
    BY PowerType, PowerDoubles DEF Term
  <2> QED BY <2>1, <2>2, <2>3
<1> HIDE DEF S
<1>3. \A b \in Nat : b \in S
  BY <1>1, <1>2, NumbersByInduction
<1> QED BY <1>3 DEF S

\* Terms from number b on do not change what is modulo 2^b.
LEMMA SumsAbove ==
  ASSUME NEW bits, NEW b \in 0 .. 20
  PROVE  \E m \in Nat : Value(bits) = Sums(bits)[b] + m * 2 ^ b
<1> DEFINE s(d) == Sums(bits)[d]
           p == 2 ^ b
           S == {d \in Nat : b + d =< 20 => \E m \in Nat : s(b + d) = s(b) + m * p}
<1>1. p \in Nat /\ \A d \in 0 .. 20 : s(d) \in Int
  <2>1. \A d \in 0 .. 20 : 2 ^ d \in Nat
    BY PowerType
  <2> QED BY <2>1, SumsRange, PowerType
<1>2. 0 \in S
  <2>1. s(b + 0) = s(b) + 0 * p
    <3> HIDE DEF p, s
    <3>1. b + 0 = b /\ s(b) \in Int /\ 0 * p = 0
      BY <1>1
    <3> QED BY <3>1
  <2> HIDE DEF p, s
  <2> QED BY <2>1
<1>3. ASSUME NEW d \in Nat, d \in S PROVE d + 1 \in S
  <2> SUFFICES ASSUME b + (d + 1) =< 20
               PROVE  \E m \in Nat : s(b + (d + 1)) = s(b) + m * p
    OBVIOUS
  <2>1. b + d =< 20 /\ b + d \in 0 .. 19 /\ b + (d + 1) = (b + d) + 1 /\ b \in 0 .. 20
    OBVIOUS
  <2>2. PICK m \in Nat : s(b + d) = s(b) + m * p
    BY <1>3, <2>1
  <2>3. s(b + (d + 1)) = s(b + d) + Term(bits, b + d)
    BY <2>1, SumsAre
  <2>4. \E n \in Nat : Term(bits, b + d) = n * p
    <3>1. CASE b + d \in bits
      <4>1. Term(bits, b + d) = 2 ^ b * 2 ^ d /\ 2 ^ d \in Nat
        BY <3>1, PowerAdds, PowerType DEF Term
      <4> DEFINE q == 2 ^ d
      <4>2. Term(bits, b + d) = p * q /\ q \in Nat
        BY <4>1
      <4> HIDE DEF p, q
      <4>3. p * q = q * p
        BY <1>1, <4>2
      <4> QED BY <4>2, <4>3
    <3>2. CASE b + d \notin bits
      <4>1. Term(bits, b + d) = 0
        BY <3>2 DEF Term
      <4> HIDE DEF p
      <4>2. 0 * p = 0
        BY <1>1
      <4> QED BY <4>1, <4>2
    <3> QED BY <3>1, <3>2
  <2>5. PICK n \in Nat : Term(bits, b + d) = n * p
    BY <2>4
  <2> HIDE DEF p, s
  <2>6. s(b + (d + 1)) = s(b) + (m + n) * p
    <3>1. (m + n) * p = m * p + n * p /\ m * p \in Int /\ n * p \in Int /\ s(b) \in Int
      BY <1>1, <2>1
    <3> QED BY <2>2, <2>3, <2>5, <3>1
  <2>7. m + n \in Nat
    OBVIOUS
  <2> QED BY <2>6, <2>7
<1>4. 20 - b \in S /\ 20 - b \in Nat /\ b + (20 - b) = 20
  <2> HIDE DEF S
  <2>1. \A d \in Nat : d \in S
    BY <1>2, <1>3, NumbersByInduction
  <2> QED BY <2>1
<1>5. Value(bits) = s(20)
  BY ValueIs
<1> QED BY <1>4, <1>5

LEMMA ValueRange ==
  ASSUME NEW w \in 0 .. 20, NEW bits \in SUBSET (0 .. w - 1)
  PROVE  Value(bits) \in 0 .. 2 ^ w - 1
<1> DEFINE s(d) == Sums(bits)[d]
           S == {d \in Nat : w + d =< 20 => s(w + d) = s(w)}
<1>1. \A d \in 0 .. 20 : s(d) \in Int
  <2>1. \A d \in 0 .. 20 : 2 ^ d \in Nat
    BY PowerType
  <2> QED BY <2>1, SumsRange
<1>2. 0 \in S
  <2>1. w + 0 = w
    OBVIOUS
  <2> QED BY <2>1
<1>3. ASSUME NEW d \in Nat, d \in S PROVE d + 1 \in S
  <2> SUFFICES ASSUME w + (d + 1) =< 20 PROVE s(w + (d + 1)) = s(w)
    OBVIOUS
  <2>1. w + d \in 0 .. 19 /\ w + (d + 1) = (w + d) + 1 /\ w + d \notin bits /\ w \in 0 .. 20
    OBVIOUS
  <2>2. s(w + (d + 1)) = s(w + d) + 0
    BY <2>1, SumsAre DEF Term
  <2>3. s(w + d) = s(w)
    BY <1>3, <2>1
  <2> HIDE DEF s
  <2> QED BY <1>1, <2>1, <2>2, <2>3
<1>4. 20 - w \in S /\ 20 - w \in Nat /\ w + (20 - w) = 20
  <2> HIDE DEF S
  <2>1. \A d \in Nat : d \in S
    BY <1>2, <1>3, NumbersByInduction
  <2> QED BY <2>1
<1>5. Value(bits) = s(w)
  BY <1>4, ValueIs
<1> QED BY <1>5, SumsRange

\* Writing a number down and reading it, in either order.
LEMMA BitsValue ==
  ASSUME NEW bits \in SUBSET (0 .. 19)
  PROVE  Bits(Value(bits)) = bits
<1> SUFFICES ASSUME NEW b \in 0 .. 19
             PROVE  ((Value(bits) \div 2 ^ b) % 2 = 1) <=> b \in bits
  BY DEF Bits
<1> DEFINE p == 2 ^ b
           low == Sums(bits)[b]
<1>1. PICK m \in Nat : Value(bits) = Sums(bits)[b + 1] + m * 2 ^ (b + 1)
  <2>1. b + 1 \in 0 .. 20
    OBVIOUS
  <2> QED BY <2>1, SumsAbove
<1>2. p \in Nat \ {0} /\ 2 ^ (b + 1) = 2 * p /\ low \in 0 .. p - 1
  BY PowerType, PowerDoubles, SumsRange
<1>3. Sums(bits)[b + 1] = low + Term(bits, b)
  BY SumsAre
<1>4. PICK e \in {0, 1} : Term(bits, b) = e * p /\ (e = 1 <=> b \in bits)
  <2>1. Term(bits, b) = IF b \in bits THEN p ELSE 0
    BY DEF Term
  <2> HIDE DEF p
  <2>2. 1 * p = p /\ 0 * p = 0
    BY <1>2
  <2> QED BY <2>1, <2>2
<1> HIDE DEF p, low
<1>5. Value(bits) = (2 * m + e) * p + low
  <2>1. m * (2 * p) = 2 * m * p /\ (2 * m + e) * p = 2 * m * p + e * p
    BY <1>2
  <2>2. 2 * m * p \in Int /\ e * p \in Int
    BY <1>2
  <2> QED BY <1>1, <1>2, <1>3, <1>4, <2>1, <2>2
<1>6. Value(bits) \div p = 2 * m + e
  <2>1. 2 * m + e \in Int
    OBVIOUS
  <2> QED BY <1>2, <1>5, <2>1, DivisionUnique
<1>7. (2 * m + e) % 2 = e
  OBVIOUS
<1> QED BY <1>4, <1>6, <1>7 DEF p

LEMMA SumsOfNumber ==
  ASSUME NEW n \in Nat
  PROVE  \A b \in 0 .. 20 : Sums(Bits(n))[b] = n % 2 ^ b
<1> DEFINE s(b) == Sums(Bits(n))[b]
           S == {b \in Nat : b =< 20 => s(b) = n % 2 ^ b}
<1>1. 0 \in S
  <2>1. n % 1 = 0
    OBVIOUS
  <2> QED BY <2>1, SumsAre, Powers
<1>2. ASSUME NEW b \in Nat, b \in S PROVE b + 1 \in S
  <2> SUFFICES ASSUME b + 1 =< 20 PROVE s(b + 1) = n % 2 ^ (b + 1)
    OBVIOUS
  <2>1. b \in 0 .. 19 /\ s(b) = n % 2 ^ b
    BY <1>2
  <2> DEFINE p == 2 ^ b
             q == n \div p
             low == n % p
             e == q % 2
             h1 == q \div 2
  <2>2. p \in Nat \ {0} /\ 2 ^ (b + 1) = 2 * p
    BY PowerType, PowerDoubles
  <2>3. q \in Int /\ low \in 0 .. p - 1 /\ n = q * p + low
    <3> HIDE DEF p
    <3> QED BY <2>2, Division
  <2>4. s(b + 1) = low + (IF e = 1 THEN p ELSE 0)
    <3>1. b \in Bits(n) <=> e = 1
      BY <2>1 DEF Bits
    <3>2. Term(Bits(n), b) = IF e = 1 THEN p ELSE 0
      <4> HIDE DEF e
      <4> QED BY <3>1, Zenon DEF Term
    <3>3. s(b + 1) = s(b) + Term(Bits(n), b)
      BY <2>1, SumsAre
    <3> HIDE DEF e, p
    <3> QED BY <2>1, <3>2, <3>3 DEF p
  <2> HIDE DEF p, q, low, s
  <2>5. e \in {0, 1} /\ h1 \in Int /\ q = 2 * h1 + e
    BY <2>3
  <2> HIDE DEF e, h1
  <2> DEFINE t == e * p + low
  <2>6. t \in 0 .. 2 * p - 1 /\ t = s(b + 1)
    BY <2>2, <2>3, <2>4, <2>5
  <2>7. n = h1 * (2 * p) + t
    <3>1. (2 * h1 + e) * p = h1 * (2 * p) + e * p /\ h1 * (2 * p) \in Int /\ e * p \in Int
      BY <2>2, <2>5
    <3> QED BY <2>3, <2>5, <3>1
  <2> HIDE DEF t
  <2>8. 2 * p \in Nat \ {0}
    BY <2>2
  <2>9. n % (2 * p) = t
    BY <2>5, <2>6, <2>7, <2>8, DivisionUnique
  <2> QED BY <2>2, <2>6, <2>9
<1> HIDE DEF S
<1>3. \A b \in Nat : b \in S
  BY <1>1, <1>2, NumbersByInduction
<1> QED BY <1>3 DEF S

LEMMA ValueBits ==
  ASSUME NEW n \in 0 .. 2 ^ 20 - 1
  PROVE  Value(Bits(n)) = n
<1>1. n \in Nat
  <2>1. 2 ^ 20 \in Nat
    BY PowerType
  <2> QED BY <2>1
<1>2. Sums(Bits(n))[20] = n % 2 ^ 20
  <2>1. 20 \in 0 .. 20
    OBVIOUS
  <2> QED BY <1>1, <2>1, SumsOfNumber
<1>3. n % 2 ^ 20 = n
  BY Powers, SMT
<1> QED BY <1>2, <1>3, ValueIs, SMT

LEMMA BitsRange ==
  ASSUME NEW w \in 0 .. 20, NEW n \in 0 .. 2 ^ w - 1
  PROVE  Bits(n) \in SUBSET (0 .. w - 1)
<1> SUFFICES ASSUME NEW b \in Bits(n), b >= w PROVE FALSE
  <2>1. Bits(n) \subseteq 0 .. 19
    BY Zenon DEF Bits
  <2> QED BY <2>1
<1>0. b \in 0 .. 19 /\ (n \div 2 ^ b) % 2 = 1
  BY Zenon DEF Bits
<1> DEFINE p == 2 ^ b
<1>1. p \in Nat \ {0} /\ 2 ^ w \in Nat /\ 2 ^ w =< p
  BY <1>0, PowerType, PowerGrows
<1>4. (n \div p) % 2 = 1
  BY <1>0
<1> HIDE DEF p
<1>2. n \in 0 .. p - 1 /\ 0 * p + n = n
  BY <1>1
<1>3. n \div p = 0
  BY <1>1, <1>2, DivisionUnique
<1> QED BY <1>3, <1>4

-----------------------------------------------------------------------------
(* The tables.  Byte b of a group holds bits 8 b .. 8 b + 7 of the group,  *)
(* coefficient c its bits bits * c .. bits * c + bits - 1, and a row lists *)
(* every part that overlaps what it is for, shifted into its place.        *)

Parts(base, size, width) ==
  {<<c, base - size * c>> : c \in base \div size .. (base + width - 1) \div size}

Regular(fm) ==
  /\ fm.bits \in 1 .. 20 /\ Coefficients(fm) \in Nat \ {0} /\ Bytes(fm) \in Nat \ {0}
  /\ fm.bits * Coefficients(fm) = 8 * Bytes(fm)
  /\ \A b \in 0 .. Bytes(fm) - 1 : fm.pack[b + 1] = Parts(8 * b, fm.bits, 8)

\* Only what lies in no further byte need not be masked.
ReadsBack(fm) ==
  \A c \in 0 .. Coefficients(fm) - 1 :
    /\ fm.unpack[c + 1] = Parts(fm.bits * c, 8, fm.bits)
    /\ \/ fm.mask[c + 1] = fm.bits
       \/ c + 1 = Coefficients(fm) /\ fm.mask[c + 1] \in fm.bits .. 32

\* Coefficients in range have codes, codes are of coefficients in range.
Coded(fm) ==
  /\ fm.low \in Int /\ fm.high \in Int /\ fm.least \in Int /\ fm.least =< fm.low
  /\ fm.low =< fm.high
  /\ \A x \in fm.low .. fm.high : Encode(fm, x) \in 0 .. 2 ^ fm.bits - 1
  /\ \A x \in Int : Decode(fm, Encode(fm, x)) = x /\ Encode(fm, Decode(fm, x)) = x
  /\ \A x \in Int : Decode(fm, x) \in Int
  /\ fm.unpack # <<>> =>
       /\ \A n \in 0 .. 2 ^ fm.bits - 1 : Decode(fm, n) \in fm.least .. fm.high
       /\ \A x \in fm.least .. fm.high : Encode(fm, x) \in 0 .. 2 ^ fm.bits - 1

Negated(fm) ==
  /\ fm.bits \in Nat /\ fm.negate = TRUE /\ fm.offset \in Int
  /\ fm.low \in Int /\ fm.low =< fm.high /\ fm.high = fm.offset
  /\ fm.offset - fm.low < 2 ^ fm.bits /\ fm.least = fm.offset - (2 ^ fm.bits - 1)

LEMMA NegatedCodes ==
  ASSUME NEW fm, Negated(fm)
  PROVE  Coded(fm)
<1> USE DEF Negated
<1> DEFINE p == 2 ^ fm.bits
<1>0. p \in Nat
  BY PowerType
<1>1. \A x \in Int : Encode(fm, x) = fm.offset - x /\ Decode(fm, x) = fm.offset - x
  BY DEF Encode, Decode
<1> HIDE DEF p
<1>2. ASSUME NEW x \in fm.low .. fm.high PROVE Encode(fm, x) \in 0 .. p - 1
  <2>1. x \in Int /\ Encode(fm, x) = fm.offset - x
    BY <1>1
  <2> QED BY <1>0, <2>1 DEF p
<1>3. ASSUME NEW x \in Int PROVE Decode(fm, Encode(fm, x)) = x /\ Encode(fm, Decode(fm, x)) = x
  <2>1. fm.offset - x \in Int /\ fm.offset - (fm.offset - x) = x
    OBVIOUS
  <2> QED BY <1>1, <2>1
<1>4. ASSUME NEW n \in 0 .. p - 1 PROVE Decode(fm, n) \in fm.least .. fm.high
  <2>1. n \in Int /\ Decode(fm, n) = fm.offset - n
    BY <1>0, <1>1
  <2> QED BY <1>0, <2>1 DEF p
<1>5. \A x \in Int : Decode(fm, x) \in Int
  BY <1>1
<1>6. fm.high \in Int /\ fm.least \in Int /\ fm.least =< fm.low
  BY <1>0 DEF p
<1>7. ASSUME NEW x \in fm.least .. fm.high PROVE Encode(fm, x) \in 0 .. p - 1
  <2>1. x \in Int /\ Encode(fm, x) = fm.offset - x
    BY <1>1, <1>6
  <2> QED BY <1>0, <1>6, <2>1 DEF p
<1> QED BY <1>2, <1>3, <1>4, <1>5, <1>6, <1>7 DEF Coded, p

LEMMA T1Format == Regular(T1) /\ Coded(T1) /\ ReadsBack(T1)
<1>1. Coefficients(T1) = 4 /\ Bytes(T1) = 5 /\ T1.bits = 10
  BY SMT DEF T1, Coefficients, Bytes
<1>2. \A b \in 0 .. 4 : T1.pack[b + 1] = Parts(8 * b, 10, 8)
  BY SMT DEF T1, Parts
<1>3. Coded(T1)
  BY Powers, SMT DEF T1, Coded, Encode, Decode
<1>4. ReadsBack(T1)
  <2>1. \A c \in 0 .. 3 : T1.unpack[c + 1] = Parts(10 * c, 8, 10)
    BY SMT DEF T1, Parts
  <2>2. \A c \in 0 .. 3 : T1.mask[c + 1] = 10
    BY SMT DEF T1
  <2> QED BY <1>1, <2>1, <2>2, SMT DEF ReadsBack
<1> QED BY <1>1, <1>2, <1>3, <1>4, SMT DEF Regular

LEMMA T0Format == Regular(T0) /\ Coded(T0) /\ ReadsBack(T0)
<1>1. Coefficients(T0) = 8 /\ Bytes(T0) = 13 /\ T0.bits = 13
  BY SMT DEF T0, Coefficients, Bytes
<1>2. \A b \in 0 .. 12 : T0.pack[b + 1] = Parts(8 * b, 13, 8)
  BY SMT DEF T0, Parts
<1>3. Coded(T0)
  <2>1. /\ T0.bits = 13 /\ T0.low = -4095 /\ T0.high = 4096 /\ T0.least = -4095
        /\ T0.negate = TRUE /\ T0.offset = 4096
    BY SMT DEF T0
  <2>2. 2 ^ T0.bits = 8192
    BY <2>1, Powers, SMT
  <2>3. Negated(T0)
    BY <2>1, <2>2, SMT DEF Negated
  <2> QED BY <2>3, NegatedCodes, Zenon
<1>4. ReadsBack(T0)
  <2>1. \A c \in 0 .. 7 : T0.unpack[c + 1] = Parts(13 * c, 8, 13)
    BY SMT DEF T0, Parts
  <2>2. \A c \in 0 .. 7 : T0.mask[c + 1] = 13
    BY SMT DEF T0
  <2> QED BY <1>1, <2>1, <2>2, SMT DEF ReadsBack
<1> QED BY <1>1, <1>2, <1>3, <1>4, SMT DEF Regular

LEMMA Eta2Format == Regular(Eta2) /\ Coded(Eta2) /\ ReadsBack(Eta2)
<1>1. Coefficients(Eta2) = 8 /\ Bytes(Eta2) = 3 /\ Eta2.bits = 3
  BY SMT DEF Eta2, Coefficients, Bytes
<1>2. \A b \in 0 .. 2 : Eta2.pack[b + 1] = Parts(8 * b, 3, 8)
  BY SMT DEF Eta2, Parts
<1>3. Coded(Eta2)
  <2>1. /\ Eta2.bits = 3 /\ Eta2.low = -2 /\ Eta2.high = 2 /\ Eta2.least = -5
        /\ Eta2.negate = TRUE /\ Eta2.offset = 2
    BY SMT DEF Eta2
  <2>2. 2 ^ Eta2.bits = 8
    BY <2>1, Powers, SMT
  <2>3. Negated(Eta2)
    BY <2>1, <2>2, SMT DEF Negated
  <2> QED BY <2>3, NegatedCodes, Zenon
<1>4. ReadsBack(Eta2)
  <2>1. \A c \in 0 .. 7 : Eta2.unpack[c + 1] = Parts(3 * c, 8, 3)
    BY SMT DEF Eta2, Parts
  <2>2. \A c \in 0 .. 7 : Eta2.mask[c + 1] = 3
    BY SMT DEF Eta2
  <2> QED BY <1>1, <2>1, <2>2, SMT DEF ReadsBack
<1> QED BY <1>1, <1>2, <1>3, <1>4, SMT DEF Regular

LEMMA Eta4Format == Regular(Eta4) /\ Coded(Eta4) /\ ReadsBack(Eta4)
<1>1. Coefficients(Eta4) = 2 /\ Bytes(Eta4) = 1 /\ Eta4.bits = 4
  BY SMT DEF Eta4, Coefficients, Bytes
<1>2. \A b \in 0 .. 0 : Eta4.pack[b + 1] = Parts(8 * b, 4, 8)
  BY SMT DEF Eta4, Parts
<1>3. Coded(Eta4)
  <2>1. /\ Eta4.bits = 4 /\ Eta4.low = -4 /\ Eta4.high = 4 /\ Eta4.least = -11
        /\ Eta4.negate = TRUE /\ Eta4.offset = 4
    BY SMT DEF Eta4
  <2>2. 2 ^ Eta4.bits = 16
    BY <2>1, Powers, SMT
  <2>3. Negated(Eta4)
    BY <2>1, <2>2, SMT DEF Negated
  <2> QED BY <2>3, NegatedCodes, Zenon
<1>4. ReadsBack(Eta4)
  <2>1. \A c \in 0 .. 1 : Eta4.unpack[c + 1] = Parts(4 * c, 8, 4)
    BY SMT DEF Eta4, Parts
  <2>2. Eta4.mask[1] = 4 /\ Eta4.mask[2] \in 4 .. 32
    BY SMT DEF Eta4
  <2> QED BY <1>1, <2>1, <2>2, SMT DEF ReadsBack
<1> QED BY <1>1, <1>2, <1>3, <1>4, SMT DEF Regular

LEMMA Z17Format == Regular(Z17) /\ Coded(Z17) /\ ReadsBack(Z17)
<1>1. Coefficients(Z17) = 4 /\ Bytes(Z17) = 9 /\ Z17.bits = 18
  BY SMT DEF Z17, Coefficients, Bytes
<1>2. \A b \in 0 .. 8 : Z17.pack[b + 1] = Parts(8 * b, 18, 8)
  BY SMT DEF Z17, Parts
<1>3. Coded(Z17)
  <2>1. /\ Z17.bits = 18 /\ Z17.low = -131071 /\ Z17.high = 131072 /\ Z17.least = -131071
        /\ Z17.negate = TRUE /\ Z17.offset = 131072
    BY SMT DEF Z17
  <2>2. 2 ^ Z17.bits = 262144
    BY <2>1, Powers, SMT
  <2>3. Negated(Z17)
    BY <2>1, <2>2, SMT DEF Negated
  <2> QED BY <2>3, NegatedCodes, Zenon
<1>4. ReadsBack(Z17)
  <2>1. \A c \in 0 .. 3 : Z17.unpack[c + 1] = Parts(18 * c, 8, 18)
    BY SMT DEF Z17, Parts
  <2>2. \A c \in 0 .. 3 : Z17.mask[c + 1] = 18
    BY SMT DEF Z17
  <2> QED BY <1>1, <2>1, <2>2, SMT DEF ReadsBack
<1> QED BY <1>1, <1>2, <1>3, <1>4, SMT DEF Regular

LEMMA Z19Format == Regular(Z19) /\ Coded(Z19) /\ ReadsBack(Z19)
<1>1. Coefficients(Z19) = 2 /\ Bytes(Z19) = 5 /\ Z19.bits = 20
  BY SMT DEF Z19, Coefficients, Bytes
<1>2. \A b \in 0 .. 4 : Z19.pack[b + 1] = Parts(8 * b, 20, 8)
  BY SMT DEF Z19, Parts
<1>3. Coded(Z19)
  <2>1. /\ Z19.bits = 20 /\ Z19.low = -524287 /\ Z19.high = 524288 /\ Z19.least = -524287
        /\ Z19.negate = TRUE /\ Z19.offset = 524288
    BY SMT DEF Z19
  <2>2. 2 ^ Z19.bits = 1048576
    BY <2>1, Powers, SMT
  <2>3. Negated(Z19)
    BY <2>1, <2>2, SMT DEF Negated
  <2> QED BY <2>3, NegatedCodes, Zenon
<1>4. ReadsBack(Z19)
  <2>1. \A c \in 0 .. 1 : Z19.unpack[c + 1] = Parts(20 * c, 8, 20)
    BY SMT DEF Z19, Parts
  <2>2. Z19.mask[1] = 20 /\ Z19.mask[2] \in 20 .. 32
    BY SMT DEF Z19
  <2> QED BY <1>1, <2>1, <2>2, SMT DEF ReadsBack
<1> QED BY <1>1, <1>2, <1>3, <1>4, SMT DEF Regular

LEMMA W1Of44Format == Regular(W1Of44) /\ Coded(W1Of44) /\ W1Of44.unpack = <<>>
<1>1. Coefficients(W1Of44) = 4 /\ Bytes(W1Of44) = 3 /\ W1Of44.bits = 6
  BY SMT DEF W1Of44, W1Pack44, Coefficients, Bytes
<1>2. \A b \in 0 .. 2 : W1Of44.pack[b + 1] = Parts(8 * b, 6, 8)
  BY SMT DEF W1Of44, W1Pack44, Parts
<1>3. Coded(W1Of44)
  BY Powers, SMT DEF W1Of44, W1Pack44, Coded, Encode, Decode
<1>4. W1Of44.unpack = <<>>
  BY SMT DEF W1Of44, W1Pack44
<1> QED BY <1>1, <1>2, <1>3, <1>4, SMT DEF Regular

LEMMA W1Of16Format == Regular(W1Of16) /\ Coded(W1Of16) /\ W1Of16.unpack = <<>>
<1>1. Coefficients(W1Of16) = 2 /\ Bytes(W1Of16) = 1 /\ W1Of16.bits = 4
  BY SMT DEF W1Of16, Coefficients, Bytes
<1>2. \A b \in 0 .. 0 : W1Of16.pack[b + 1] = Parts(8 * b, 4, 8)
  BY SMT DEF W1Of16, Parts
<1>3. Coded(W1Of16)
  BY Powers, SMT DEF W1Of16, Coded, Encode, Decode
<1>4. W1Of16.unpack = <<>>
  BY SMT DEF W1Of16
<1> QED BY <1>1, <1>2, <1>3, <1>4, SMT DEF Regular

LEMMA FormatIs ==
  ASSUME NEW name \in DOMAIN Format
  PROVE  LET fm == Format[name]
         IN  Regular(fm) /\ Coded(fm) /\ (fm.unpack # <<>> => ReadsBack(fm))
<1>1. Format[name] \in {T1, T0, Eta2, Eta4, Z17, Z19, W1Of44, W1Of16}
  BY DEF Format
<1> DEFINE P(fm) == Regular(fm) /\ Coded(fm) /\ (fm.unpack # <<>> => ReadsBack(fm))
<1>2. \A fm \in {T1, T0, Eta2, Eta4, Z17, Z19, W1Of44, W1Of16} : P(fm)
  BY T1Format, T0Format, Eta2Format, Eta4Format, Z17Format, Z19Format, W1Of44Format,
     W1Of16Format, Zenon
<1> HIDE DEF P
<1>3. P(Format[name])
  BY <1>1, <1>2, Zenon
<1> QED BY <1>3 DEF P

-----------------------------------------------------------------------------
(* One group.                                                              *)

LEMMA DivMonotone ==
  ASSUME NEW m \in Int, NEW n \in Int, m =< n, NEW p \in Nat \ {0}
  PROVE  m \div p =< n \div p
<1> DEFINE d == m \div p
           e == n \div p
<1>1. d \in Int /\ e \in Int /\ m % p \in 0 .. p - 1 /\ n % p \in 0 .. p - 1
      /\ m = d * p + (m % p) /\ n = e * p + (n % p)
  BY Division
<1> HIDE DEF d, e
<1>2. (d - e) * p = d * p - e * p /\ d * p \in Int /\ e * p \in Int
  BY <1>1
<1>3. ~ (d - e >= 1)
  BY <1>1, <1>2, MulAtLeast
<1>4. d =< e
  BY <1>1, <1>3
<1> QED BY <1>4 DEF d, e

\* A row gathers the bits from base on: bit v of the result is the one that
\* many after base, counted through all parts of size bits.
LEMMA Gathered ==
  ASSUME NEW base \in Nat, NEW size \in Nat \ {0}, NEW width \in Nat \ {0}, NEW x,
         \A c \in base \div size .. (base + width - 1) \div size : x[c] \subseteq 0 .. size - 1
  PROVE  \A u : u \in Gather(Parts(base, size, width), x) <=>
                /\ u \in Nat
                /\ (base + u) \div size =< (base + width - 1) \div size
                /\ (base + u) % size \in x[(base + u) \div size]
<1> DEFINE first == base \div size
           last == (base + width - 1) \div size
<1>1. \A u : u \in Gather(Parts(base, size, width), x) <=>
        \E c \in first .. last : \E l \in x[c] : l >= base - size * c /\ u = l - (base - size * c)
  <2> SUFFICES ASSUME NEW u
               PROVE  u \in Gather(Parts(base, size, width), x) <=>
                      \E c \in first .. last : \E l \in x[c] :
                        l >= base - size * c /\ u = l - (base - size * c)
    OBVIOUS
  <2>1. u \in Gather(Parts(base, size, width), x) <=>
          \E t \in Parts(base, size, width) : u \in Shift(x[t[1]], t[2])
    BY DEF Gather
  <2>2. \A t : t \in Parts(base, size, width) <=>
                 \E c \in first .. last : t = <<c, base - size * c>>
    BY DEF Parts
  <2>3. \A c, l : u \in Shift(x[c], l) <=> \E b \in x[c] : b >= l /\ u = b - l
    BY DEF Shift
  <2> HIDE DEF first, last
  <2>4. ASSUME NEW t \in Parts(base, size, width), u \in Shift(x[t[1]], t[2])
        PROVE  \E c \in first .. last : \E l \in x[c] :
                 l >= base - size * c /\ u = l - (base - size * c)
    <3>1. PICK c \in first .. last : t = <<c, base - size * c>>
      BY <2>2, <2>4
    <3>2. t[1] = c /\ t[2] = base - size * c
      BY <3>1
    <3> QED BY <2>3, <2>4, <3>2
  <2>5. ASSUME NEW c \in first .. last, NEW l \in x[c],
               l >= base - size * c, u = l - (base - size * c)
        PROVE  \E t \in Parts(base, size, width) : u \in Shift(x[t[1]], t[2])
    <3> DEFINE t == <<c, base - size * c>>
    <3>1. t \in Parts(base, size, width) /\ t[1] = c /\ t[2] = base - size * c
      BY <2>2
    <3>2. u \in Shift(x[c], base - size * c)
      BY <2>3, <2>5
    <3> QED BY <3>1, <3>2
  <2> QED BY <2>1, <2>4, <2>5
<1> SUFFICES ASSUME NEW u
             PROVE  u \in Gather(Parts(base, size, width), x) <=>
                    /\ u \in Nat /\ (base + u) \div size =< last
                    /\ (base + u) % size \in x[(base + u) \div size]
  OBVIOUS
<1>2. first \in Int /\ last \in Int
  BY Division
<1>3. \A c \in first .. last : x[c] \subseteq 0 .. size - 1
  OBVIOUS
<1>4. ASSUME NEW c \in first .. last, NEW l \in x[c],
             l >= base - size * c, u = l - (base - size * c)
      PROVE  /\ u \in Nat /\ (base + u) \div size =< last
             /\ (base + u) % size \in x[(base + u) \div size]
  <2> HIDE DEF first, last
  <2>1. c \in Int /\ l \in 0 .. size - 1
    BY <1>2, <1>3
  <2>2. size * c \in Int /\ size * c = c * size
    BY <2>1
  <2>3. u \in Nat /\ base + u = c * size + l
    BY <1>4, <2>1, <2>2
  <2>4. (base + u) \div size = c /\ (base + u) % size = l
    BY <2>1, <2>3, DivisionUnique
  <2> QED BY <1>2, <2>3, <2>4
<1>5. ASSUME u \in Nat, (base + u) \div size =< last,
             (base + u) % size \in x[(base + u) \div size]
      PROVE  \E c \in first .. last : \E l \in x[c] :
               l >= base - size * c /\ u = l - (base - size * c)
  <2> DEFINE c == (base + u) \div size
             l == (base + u) % size
  <2>1. first =< c
    BY <1>5, DivMonotone
  <2>2. c \in Int /\ l \in 0 .. size - 1 /\ base + u = c * size + l
    <3> DEFINE y == base + u
    <3>1. y \in Int
      BY <1>5
    <3> HIDE DEF y
    <3>2. y \div size \in Int /\ y % size \in 0 .. size - 1 /\ y = (y \div size) * size + (y % size)
      BY <3>1, Division
    <3> QED BY <3>2 DEF y
  <2>3. c \in first .. last /\ l \in x[c]
    BY <1>2, <1>5, <2>1, <2>2
  <2> HIDE DEF c, l, first, last
  <2>4. size * c \in Int /\ size * c = c * size
    BY <2>2
  <2>5. l >= base - size * c /\ u = l - (base - size * c)
    BY <1>5, <2>2, <2>4
  <2> QED BY <2>3, <2>5
<1> QED BY <1>1, <1>4, <1>5

\* Where coefficient c of group g and its bit v are among all coefficients
\* and all bytes.
LEMMA Places ==
  ASSUME NEW fm, Regular(fm), NEW g \in 0 .. Groups - 1,
         NEW c \in 0 .. Coefficients(fm) - 1, NEW v \in 0 .. fm.bits - 1
  PROVE  LET at == fm.bits * (Coefficients(fm) * g + c) + v
             here == fm.bits * c + v
         IN  /\ here \in Nat /\ here \div 8 \in 0 .. Bytes(fm) - 1 /\ here % 8 \in 0 .. 7
             /\ at \div 8 = Bytes(fm) * g + here \div 8 /\ at % 8 = here % 8
<1> DEFINE w == fm.bits
           C == Coefficients(fm)
           B == Bytes(fm)
           here == w * c + v
           q == here \div 8
           m == here % 8
<1>1. w \in 1 .. 20 /\ C \in Nat \ {0} /\ B \in Nat \ {0} /\ w * C = 8 * B
  BY DEF Regular
<1>2. c \in 0 .. C - 1 /\ v \in 0 .. w - 1 /\ g \in Nat
  BY PackingAssumption
<1> HIDE DEF w, C, B
<1>3. here \in Nat /\ here =< 8 * B - 1
  <2>1. w * c \in Nat
    BY <1>1, <1>2
  <2>2. w * c + w =< w * C
    <3>1. C - c \in Int /\ C - c >= 1 /\ (C - c) * w >= w
      BY <1>1, <1>2, MulAtLeast
    <3>2. (C - c) * w = w * C - w * c /\ w * C \in Int /\ w * c \in Int
      BY <1>1, <1>2
    <3> QED BY <1>1, <3>1, <3>2
  <2> QED BY <1>1, <1>2, <2>1, <2>2
<1> HIDE DEF here
<1>4. q \in Int /\ m \in 0 .. 7 /\ here = q * 8 + m
  BY <1>3, Division
<1>5. q \in 0 .. B - 1
  BY <1>1, <1>3, <1>4
<1> HIDE DEF q, m
<1>6. w * (C * g + c) + v = (B * g + q) * 8 + m
  <2>1. w * (C * g + c) = (w * C) * g + w * c /\ (w * C) * g = 8 * (B * g)
    <3>1. w * (C * g + c) = w * (C * g) + w * c /\ w * (C * g) = (w * C) * g
      BY <1>1, <1>2
    <3>2. (8 * B) * g = 8 * (B * g)
      BY <1>1, <1>2
    <3> QED BY <1>1, <3>1, <3>2
  <2>2. B * g \in Int /\ w * c \in Int
    BY <1>1, <1>2
  <2> QED BY <1>2, <1>4, <2>1, <2>2 DEF here
<1>7. B * g + q \in Int
  BY <1>1, <1>2, <1>4
<1>8. (w * (C * g + c) + v) \div 8 = B * g + q /\ (w * (C * g + c) + v) % 8 = m
  <2> DEFINE e == B * g + q
  <2>1. e \in Int
    BY <1>7
  <2> HIDE DEF e
  <2>2. (e * 8 + m) \div 8 = e /\ (e * 8 + m) % 8 = m
    <3>1. 8 \in Nat \ {0} /\ m \in 0 .. 8 - 1
      BY <1>4
    <3> QED BY <2>1, <3>1, DivisionUnique
  <2> QED BY <1>6, <2>2 DEF e
<1> QED BY <1>3, <1>4, <1>5, <1>8 DEF w, C, B, here, q, m

LEMMA GroupIn ==
  ASSUME NEW fm, Regular(fm), NEW g \in 0 .. Groups - 1
  PROVE  /\ \A c \in 0 .. Coefficients(fm) - 1 : Coefficients(fm) * g + c \in CoefficientIndex(fm)
         /\ \A b \in 0 .. Bytes(fm) - 1 : Bytes(fm) * g + b \in ByteIndex(fm)
         /\ Coefficients(fm) * g \in Nat /\ Bytes(fm) * g \in Nat
         /\ Coefficients(fm) * (g + 1) = Coefficients(fm) * g + Coefficients(fm)
         /\ Coefficients(fm) * Groups = Groups * Coefficients(fm)
         /\ Coefficients(fm) * 0 = 0
<1> DEFINE C == Coefficients(fm)
           B == Bytes(fm)
           G == Groups
<1>1. C \in Nat \ {0} /\ B \in Nat \ {0} /\ g \in 0 .. G - 1 /\ G \in Nat
  BY PackingAssumption DEF Regular
<1> HIDE DEF C, B, G
<1>2. \A m \in Nat \ {0} : m * g + m =< G * m /\ m * g \in Nat
  <2> SUFFICES ASSUME NEW m \in Nat \ {0} PROVE m * g + m =< G * m /\ m * g \in Nat
    OBVIOUS
  <2>1. (G - g) * m >= m
    <3>1. G - g \in Int /\ G - g >= 1
      BY <1>1
    <3> QED BY <3>1, MulAtLeast
  <2>2. (G - g) * m = G * m - g * m /\ g * m = m * g /\ m * g \in Nat /\ G * m \in Nat
    BY <1>1
  <2> QED BY <2>1, <2>2
<1>3. /\ C * g + C =< G * C /\ C * g \in Nat /\ G * C \in Nat
      /\ B * g + B =< G * B /\ B * g \in Nat /\ G * B \in Nat
  BY <1>1, <1>2
<1>4. C * (g + 1) = C * g + C /\ C * G = G * C /\ C * 0 = 0
  BY <1>1
<1>5. /\ \A c \in 0 .. C - 1 : C * g + c \in 0 .. G * C - 1
      /\ \A b \in 0 .. B - 1 : B * g + b \in 0 .. G * B - 1
  BY <1>1, <1>3
<1> QED BY <1>3, <1>4, <1>5 DEF C, B, G, CoefficientIndex, ByteIndex

\* Coefficient n of x has its bits in the bytes q.
Held(fm, x, q, n) ==
  \A v \in 0 .. fm.bits - 1 :
    v \in Bits(Encode(fm, x[n])) <=>
      (fm.bits * n + v) % 8 \in q[(fm.bits * n + v) \div 8]

\* What a round of the loops writes.
Codes(fm, x, g) ==
  [c \in 0 .. Coefficients(fm) - 1 |-> Bits(Encode(fm, x[Coefficients(fm) * g + c]))]
PackedAs(fm, x, q, g) ==
  [b \in ByteIndex(fm) |->
     IF b \in Bytes(fm) * g .. Bytes(fm) * g + Bytes(fm) - 1
       THEN Mask(Gather(fm.pack[b - Bytes(fm) * g + 1], Codes(fm, x, g)), 8)
       ELSE q[b]]
Window(fm, q, g) == [b \in 0 .. Bytes(fm) - 1 |-> q[Bytes(fm) * g + b]]
Code(fm, q, g, c) == Mask(Gather(fm.unpack[c + 1], Window(fm, q, g)), fm.mask[c + 1])
UnpackedAs(fm, x, q, g) ==
  [n \in CoefficientIndex(fm) |->
     IF n \in Coefficients(fm) * g .. Coefficients(fm) * g + Coefficients(fm) - 1
       THEN Decode(fm, Value(Code(fm, q, g, n - Coefficients(fm) * g)))
       ELSE x[n]]

LEMMA PackedGroup ==
  ASSUME NEW fm, Regular(fm), NEW g \in 0 .. Groups - 1, NEW x, NEW q,
         \A n \in CoefficientIndex(fm) : Encode(fm, x[n]) \in 0 .. 2 ^ fm.bits - 1
  PROVE  \A c \in 0 .. Coefficients(fm) - 1 :
           Held(fm, x, PackedAs(fm, x, q, g), Coefficients(fm) * g + c)
<1> SUFFICES ASSUME NEW c \in 0 .. Coefficients(fm) - 1, NEW v \in 0 .. fm.bits - 1
             PROVE  LET at == fm.bits * (Coefficients(fm) * g + c) + v
                    IN  v \in Bits(Encode(fm, x[Coefficients(fm) * g + c])) <=>
                          at % 8 \in PackedAs(fm, x, q, g)[at \div 8]
  BY DEF Held
<1> DEFINE w == fm.bits
           C == Coefficients(fm)
           B == Bytes(fm)
           here == w * c + v
           byte == here \div 8
           bit == here % 8
           at == w * (C * g + c) + v
           xs == Codes(fm, x, g)
<1>1. /\ here \in Nat /\ byte \in 0 .. B - 1 /\ bit \in 0 .. 7
      /\ at \div 8 = B * g + byte /\ at % 8 = bit
  BY Places
<1>2. w \in 1 .. 20 /\ C \in Nat \ {0} /\ w * C = 8 * B /\ B \in Nat \ {0}
  BY DEF Regular
<1>3. fm.pack[byte + 1] = Parts(8 * byte, w, 8)
  BY <1>1 DEF Regular
<1>4. B * g + byte \in ByteIndex(fm) /\ B * g \in Nat
  BY <1>1, GroupIn
<1>5. PackedAs(fm, x, q, g)[at \div 8] = Mask(Gather(Parts(8 * byte, w, 8), xs), 8)
  <2>1. /\ B * g + byte \in B * g .. B * g + B - 1
        /\ (B * g + byte) - B * g = byte
    <3> DEFINE y == B * g
    <3>1. y \in Int /\ byte \in 0 .. B - 1 /\ B \in Int
      BY <1>1, <1>2, <1>4
    <3> HIDE DEF y, byte, B
    <3>2. y + byte \in y .. y + B - 1 /\ (y + byte) - y = byte
      BY <3>1
    <3> QED BY <3>2 DEF y
  <2>2. PackedAs(fm, x, q, g)[B * g + byte] = Mask(Gather(fm.pack[byte + 1], xs), 8)
    BY <1>4, <2>1 DEF PackedAs
  <2> QED BY <1>1, <1>3, <2>2
<1>6. \A l \in 0 .. C - 1 : xs[l] = Bits(Encode(fm, x[C * g + l])) /\ xs[l] \subseteq 0 .. w - 1
  <2> SUFFICES ASSUME NEW l \in 0 .. C - 1
               PROVE  xs[l] = Bits(Encode(fm, x[C * g + l])) /\ xs[l] \subseteq 0 .. w - 1
    OBVIOUS
  <2>1. xs[l] = Bits(Encode(fm, x[C * g + l]))
    BY DEF Codes
  <2>2. C * g + l \in CoefficientIndex(fm)
    BY GroupIn
  <2>3. Bits(Encode(fm, x[C * g + l])) \in SUBSET (0 .. w - 1)
    <3>1. w \in 0 .. 20 /\ Encode(fm, x[C * g + l]) \in 0 .. 2 ^ w - 1
      BY <1>2, <2>2
    <3> HIDE DEF w
    <3> QED BY <3>1, BitsRange
  <2> QED BY <2>1, <2>3
<1> HIDE DEF w, C, B, byte, bit, at, xs
<1>7. here = 8 * byte + bit
  <2>1. here = byte * 8 + bit
    <3>1. here \in Int /\ 8 \in Nat \ {0}
      BY <1>1
    <3> HIDE DEF here
    <3> QED BY <3>1, Division DEF byte, bit
  <2> QED BY <1>1, <2>1
<1>8. here \div w = c /\ here % w = v
  <2>1. c \in Int /\ v \in 0 .. w - 1 /\ w * c = c * w /\ w \in Nat \ {0}
    BY <1>2 DEF w
  <2> QED BY <2>1, DivisionUnique
<1>9. /\ 8 * byte \in Nat /\ w \in Nat \ {0} /\ 8 \in Nat \ {0}
      /\ (8 * byte + 8 - 1) \div w =< C - 1 /\ (8 * byte) \div w >= 0
  <2>1. 8 * byte \in Nat /\ 8 * byte + 8 - 1 =< 8 * B - 1 /\ 8 * byte + 8 - 1 \in Int
    BY <1>1, <1>2
  <2>2. 8 * B - 1 = (C - 1) * w + (w - 1)
    <3>1. (C - 1) * w = w * C - w /\ w * C \in Int
      BY <1>2
    <3> QED BY <1>2, <3>1
  <2>3. (8 * B - 1) \div w = C - 1
    <3> DEFINE e == C - 1
               d == w - 1
    <3>1. e \in Int /\ d \in 0 .. w - 1 /\ w \in Nat \ {0}
      BY <1>2
    <3> HIDE DEF e, d
    <3>2. (e * w + d) \div w = e
      BY <3>1, DivisionUnique
    <3> QED BY <2>2, <3>2 DEF e, d
  <2>4. (8 * byte + 8 - 1) \div w =< (8 * B - 1) \div w
    BY <1>2, <2>1, DivMonotone
  <2>5. 0 \div w = 0 /\ 0 \div w =< (8 * byte) \div w
    <3>1. 0 * w + 0 = 0 /\ 0 \in 0 .. w - 1 /\ w \in Nat \ {0}
      BY <1>2
    <3>2. 0 \div w = 0
      BY <3>1, DivisionUnique
    <3> QED BY <2>1, <3>1, <3>2, DivMonotone
  <2> QED BY <1>2, <2>1, <2>3, <2>4, <2>5
<1>10. \A l \in (8 * byte) \div w .. (8 * byte + 8 - 1) \div w : xs[l] \subseteq 0 .. w - 1
  <2> SUFFICES ASSUME NEW l \in (8 * byte) \div w .. (8 * byte + 8 - 1) \div w
               PROVE  l \in 0 .. C - 1
    BY <1>6
  <2>1. (8 * byte) \div w \in Int /\ (8 * byte + 8 - 1) \div w \in Int
    <3>1. 8 * byte \in Int /\ 8 * byte + 8 - 1 \in Int
      BY <1>9
    <3> QED BY <1>9, <3>1, Division
  <2> QED BY <1>2, <1>9, <2>1
<1>11. bit \in Gather(Parts(8 * byte, w, 8), xs) <=>
         /\ bit \in Nat
         /\ (8 * byte + bit) \div w =< (8 * byte + 8 - 1) \div w
         /\ (8 * byte + bit) % w \in xs[(8 * byte + bit) \div w]
  BY <1>9, <1>10, Gathered
<1>12. bit \in Gather(Parts(8 * byte, w, 8), xs) <=> v \in xs[c]
  <2>1. here \div w =< (8 * byte + 8 - 1) \div w
    <3>1. 8 * byte + bit =< 8 * byte + 8 - 1 /\ 8 * byte + bit \in Int /\ 8 * byte + 8 - 1 \in Int
      BY <1>1, <1>9
    <3> QED BY <1>7, <1>9, <3>1, DivMonotone
  <2>2. bit \in Nat
    BY <1>1
  <2> HIDE DEF here
  <2> QED BY <1>7, <1>8, <1>11, <2>1, <2>2
<1>13. bit \in Mask(Gather(Parts(8 * byte, w, 8), xs), 8) <=> v \in xs[c]
  BY <1>1, <1>12 DEF Mask
<1>14. c \in 0 .. C - 1
  BY DEF C
<1> QED BY <1>1, <1>5, <1>6, <1>13, <1>14 DEF at, w, C

\* Bits that were there before stay.
LEMMA PackedBefore ==
  ASSUME NEW fm, Regular(fm), NEW g \in 0 .. Groups - 1, NEW x, NEW y, NEW q,
         \A n \in 0 .. Coefficients(fm) * g - 1 : Held(fm, y, q, n)
  PROVE  \A n \in 0 .. Coefficients(fm) * g - 1 : Held(fm, y, PackedAs(fm, x, q, g), n)
<1> DEFINE w == fm.bits
           C == Coefficients(fm)
           B == Bytes(fm)
           G == Groups
<1> SUFFICES ASSUME NEW n \in 0 .. C * g - 1, NEW v \in 0 .. w - 1
             PROVE  PackedAs(fm, x, q, g)[(w * n + v) \div 8] = q[(w * n + v) \div 8]
  BY DEF Held
<1> DEFINE at == w * n + v
           byte == at \div 8
<1>1. /\ w \in 1 .. 20 /\ C \in Nat \ {0} /\ B \in Nat \ {0} /\ w * C = 8 * B
      /\ g \in 0 .. G - 1 /\ G \in Nat \ {0}
  BY PackingAssumption DEF Regular
<1>2. C * g \in Nat /\ B * g \in Nat
  BY GroupIn
<1> HIDE DEF w, C, B, G
<1>3. n \in Nat /\ n + 1 =< C * g /\ v \in 0 .. w - 1
  BY <1>2
<1>4. w * n + w =< w * (C * g)
  <2> DEFINE m == C * g
  <2>1. m - n >= 1 /\ m - n \in Int /\ m \in Nat
    BY <1>2, <1>3
  <2> HIDE DEF m
  <2>2. (m - n) * w >= w
    BY <1>1, <2>1, MulAtLeast
  <2>3. (m - n) * w = w * m - w * n /\ w * m \in Int /\ w * n \in Int
    BY <1>1, <1>3, <2>1
  <2> QED BY <1>1, <2>2, <2>3 DEF m
<1>5. w * (C * g) = 8 * (B * g)
  <2>1. w * (C * g) = (w * C) * g /\ (8 * B) * g = 8 * (B * g)
    BY <1>1
  <2> QED BY <1>1, <2>1
<1>6. at \in Nat /\ at =< 8 * (B * g) - 1
  <2>1. w * n \in Nat
    BY <1>1, <1>3
  <2> QED BY <1>1, <1>2, <1>3, <1>4, <1>5, <2>1
<1> HIDE DEF at
<1>7. byte \in 0 .. B * g - 1
  <2> DEFINE m == B * g
  <2>1. byte \in Int /\ at % 8 \in 0 .. 7 /\ at = byte * 8 + (at % 8)
    BY <1>6, Division
  <2>2. m \in Nat /\ at =< 8 * m - 1
    BY <1>2, <1>6
  <2> HIDE DEF m, byte
  <2>3. byte \in 0 .. m - 1
    BY <1>6, <2>1, <2>2
  <2> QED BY <2>3 DEF m
<1>8. byte \in ByteIndex(fm) /\ ~ (byte \in B * g .. B * g + B - 1)
  <2> DEFINE m == B * g
  <2>1. B * g + 0 \in ByteIndex(fm)
    BY <1>1, GroupIn DEF B, G
  <2>2. m \in Nat /\ m + 0 \in 0 .. G * B - 1 /\ byte \in 0 .. m - 1 /\ G * B \in Int
    BY <1>1, <1>2, <1>7, <2>1 DEF ByteIndex, B, G
  <2> HIDE DEF m, byte
  <2>3. byte \in 0 .. G * B - 1 /\ ~ (byte \in m .. m + B - 1)
    BY <2>2
  <2> QED BY <2>3 DEF m, B, G, ByteIndex
<1> HIDE DEF byte
<1>9. PackedAs(fm, x, q, g)[byte] = q[byte]
  BY <1>8 DEF PackedAs, B
<1> QED BY <1>9 DEF byte, at

LEMMA PackedType ==
  ASSUME NEW fm, NEW g, NEW x, NEW q \in [ByteIndex(fm) -> SUBSET (0 .. 7)]
  PROVE  PackedAs(fm, x, q, g) \in [ByteIndex(fm) -> SUBSET (0 .. 7)]
<1>1. \A y : Mask(y, 8) \in SUBSET (0 .. 7)
  BY DEF Mask
<1> QED BY <1>1 DEF PackedAs

LEMMA CodeIs ==
  ASSUME NEW fm, Regular(fm), ReadsBack(fm), NEW g \in 0 .. Groups - 1,
         NEW q \in [ByteIndex(fm) -> SUBSET (0 .. 7)], NEW c \in 0 .. Coefficients(fm) - 1
  PROVE  /\ Code(fm, q, g, c) \in SUBSET (0 .. fm.bits - 1)
         /\ \A v \in 0 .. fm.bits - 1 :
              LET at == fm.bits * (Coefficients(fm) * g + c) + v
              IN  v \in Code(fm, q, g, c) <=> at % 8 \in q[at \div 8]
<1> DEFINE w == fm.bits
           C == Coefficients(fm)
           B == Bytes(fm)
           base == w * c
           y == Window(fm, q, g)
           last == (base + w - 1) \div 8
<1>1. w \in 1 .. 20 /\ C \in Nat \ {0} /\ w * C = 8 * B /\ B \in Nat \ {0} /\ c \in 0 .. C - 1
  BY DEF Regular
<1>2. /\ fm.unpack[c + 1] = Parts(base, 8, w)
      /\ fm.mask[c + 1] = w \/ (c + 1 = C /\ fm.mask[c + 1] \in w .. 32)
  BY Zenon DEF ReadsBack
<1>3. \A b \in 0 .. B - 1 : y[b] = q[B * g + b] /\ y[b] \subseteq 0 .. 7
  <2> SUFFICES ASSUME NEW b \in 0 .. B - 1
               PROVE  y[b] = q[B * g + b] /\ y[b] \subseteq 0 .. 7
    OBVIOUS
  <2>1. y[b] = q[B * g + b]
    BY DEF Window
  <2>2. B * g + b \in ByteIndex(fm)
    BY GroupIn
  <2>3. q[B * g + b] \subseteq 0 .. 7
    BY <2>2
  <2> QED BY <2>1, <2>3
<1> HIDE DEF w, C, B, y
<1>4. base \in Nat /\ base + w =< 8 * B /\ (c + 1 = C => base + w = 8 * B)
  <2>1. (C - c) * w >= w
    <3>1. C - c \in Int /\ C - c >= 1
      BY <1>1
    <3> QED BY <1>1, <3>1, MulAtLeast
  <2>2. (C - c) * w = w * C - w * c /\ w * C \in Int /\ w * c \in Nat
    BY <1>1
  <2>3. c + 1 = C => w * C = w * c + w
    BY <1>1
  <2> QED BY <1>1, <2>1, <2>2, <2>3
<1> HIDE DEF base
<1>5. last \in 0 .. B - 1 /\ base \div 8 \in 0 .. B - 1 /\ (c + 1 = C => last = B - 1)
  <2>1. /\ base \div 8 \in Int /\ base % 8 \in 0 .. 7 /\ base = (base \div 8) * 8 + (base % 8)
    BY <1>4, Division
  <2>2. last \in Int /\ (base + w - 1) % 8 \in 0 .. 7 /\ base + w - 1 = last * 8 + ((base + w - 1) % 8)
    <3> DEFINE x == base + w - 1
    <3>1. x \in Int
      BY <1>1, <1>4
    <3> HIDE DEF x
    <3>2. x \div 8 \in Int /\ x % 8 \in 0 .. 7 /\ x = (x \div 8) * 8 + (x % 8)
      BY <3>1, Division
    <3> QED BY <3>2 DEF x
  <2> HIDE DEF last
  <2> QED BY <1>1, <1>4, <2>1, <2>2
<1>6. \A b \in base \div 8 .. last : y[b] \subseteq 0 .. 8 - 1
  BY <1>1, <1>3, <1>5
<1>7. \A u : u \in Gather(Parts(base, 8, w), y) <=>
               /\ u \in Nat /\ (base + u) \div 8 =< last
               /\ (base + u) % 8 \in y[(base + u) \div 8]
  <2>1. w \in Nat \ {0} /\ 8 \in Nat \ {0}
    BY <1>1
  <2> QED BY <1>4, <1>6, <2>1, Gathered
<1> HIDE DEF last
<1>8. ASSUME NEW u \in Gather(Parts(base, 8, w), y), c + 1 = C PROVE u \in 0 .. w - 1
  <2>1. u \in Nat /\ (base + u) \div 8 =< B - 1
    BY <1>5, <1>7, <1>8
  <2>2. (base + u) \div 8 \in Int /\ (base + u) % 8 \in 0 .. 7
        /\ base + u = ((base + u) \div 8) * 8 + ((base + u) % 8)
    <3> DEFINE x == base + u
    <3>1. x \in Int /\ 8 \in Nat \ {0}
      BY <1>4, <2>1
    <3> HIDE DEF x
    <3>2. x \div 8 \in Int /\ x % 8 \in 0 .. 8 - 1 /\ x = (x \div 8) * 8 + (x % 8)
      BY <3>1, Division, Zenon
    <3> QED BY <3>2 DEF x
  <2> QED BY <1>1, <1>4, <1>8, <2>1, <2>2
<1>9. Code(fm, q, g, c) = Gather(Parts(base, 8, w), y) \cap 0 .. w - 1
  <2>1. Code(fm, q, g, c) = Gather(Parts(base, 8, w), y) \cap 0 .. fm.mask[c + 1] - 1
    BY <1>2 DEF Code, Mask, y
  <2>2. CASE fm.mask[c + 1] = w
    BY <2>1, <2>2
  <2>3. CASE c + 1 = C /\ fm.mask[c + 1] \in w .. 32
    <3>1. 0 .. w - 1 \subseteq 0 .. fm.mask[c + 1] - 1
      BY <1>1, <2>3
    <3> QED BY <1>8, <2>1, <2>3, <3>1
  <2> QED BY <1>2, <2>2, <2>3
<1>10. ASSUME NEW v \in 0 .. w - 1
       PROVE  LET at == w * (C * g + c) + v
              IN  v \in Code(fm, q, g, c) <=> at % 8 \in q[at \div 8]
  <2> DEFINE here == base + v
             at == w * (C * g + c) + v
             byte == here \div 8
  <2>1. /\ byte \in 0 .. B - 1
        /\ at \div 8 = B * g + byte /\ at % 8 = here % 8
    BY Places DEF w, C, B, base
  <2>2. byte =< last
    <3>1. here =< base + w - 1 /\ here \in Int /\ base + w - 1 \in Int
      BY <1>1, <1>4
    <3> HIDE DEF here
    <3> QED BY <3>1, DivMonotone DEF last
  <2>3. v \in Code(fm, q, g, c) <=> here % 8 \in y[byte]
    BY <1>1, <1>7, <1>9, <2>2
  <2>4. y[byte] = q[B * g + byte]
    BY <1>3, <2>1
  <2> HIDE DEF at, here, byte
  <2>5. v \in Code(fm, q, g, c) <=> at % 8 \in q[at \div 8]
    BY <2>1, <2>3, <2>4
  <2> QED BY <2>5 DEF at
<1> QED BY <1>9, <1>10 DEF w, C

LEMMA UnpackedGroup ==
  ASSUME NEW fm, Regular(fm), Coded(fm), ReadsBack(fm), fm.unpack # <<>>,
         NEW g \in 0 .. Groups - 1, NEW x,
         NEW q \in [ByteIndex(fm) -> SUBSET (0 .. 7)], NEW c \in 0 .. Coefficients(fm) - 1
  PROVE  /\ Held(fm, UnpackedAs(fm, x, q, g), q, Coefficients(fm) * g + c)
         /\ UnpackedAs(fm, x, q, g)[Coefficients(fm) * g + c] \in fm.least .. fm.high
<1> DEFINE w == fm.bits
           n == Coefficients(fm) * g + c
           code == Code(fm, q, g, c)
<1>1. w \in 1 .. 20 /\ code \in SUBSET (0 .. w - 1)
  BY CodeIs DEF Regular
<1>2. UnpackedAs(fm, x, q, g)[n] = Decode(fm, Value(code))
  <2> DEFINE m == Coefficients(fm) * g
             C == Coefficients(fm)
  <2>1. n \in CoefficientIndex(fm) /\ m \in Nat /\ C \in Nat /\ c \in 0 .. C - 1
    BY GroupIn DEF Regular
  <2>2. n \in m .. m + C - 1 /\ n - m = c
    <3> HIDE DEF m, C
    <3> QED BY <2>1 DEF m
  <2> HIDE DEF n
  <2> QED BY <2>1, <2>2 DEF UnpackedAs
<1>3. Value(code) \in 0 .. 2 ^ w - 1
  <2> HIDE DEF w, code
  <2>1. w \in 0 .. 20
    BY <1>1
  <2> QED BY <1>1, <2>1, ValueRange
<1>4. Value(code) \in Int
  <2>1. 2 ^ w \in Nat
    <3> HIDE DEF w
    <3>1. w \in Nat
      BY <1>1
    <3> QED BY <3>1, PowerType
  <2> QED BY <1>3, <2>1
<1>5. Encode(fm, UnpackedAs(fm, x, q, g)[n]) = Value(code)
  BY <1>2, <1>4 DEF Coded
<1>6. Bits(Value(code)) = code
  <2>1. code \in SUBSET (0 .. 19)
    <3> HIDE DEF w, code
    <3> QED BY <1>1
  <2> QED BY <2>1, BitsValue
<1>7. UnpackedAs(fm, x, q, g)[n] \in fm.least .. fm.high
  BY <1>2, <1>3 DEF Coded
<1> HIDE DEF code, n
<1>8. Held(fm, UnpackedAs(fm, x, q, g), q, n)
  BY <1>5, <1>6, CodeIs DEF Held, n, code
<1> QED BY <1>7, <1>8 DEF n

\* The first m coefficients.
Filled(fm, x, q, m) == \A n \in 0 .. m - 1 : Held(fm, x, q, n)
InRange(fm, x, m) == \A n \in 0 .. m - 1 : x[n] \in fm.least .. fm.high

LEMMA PackedMore ==
  ASSUME NEW fm, Regular(fm), NEW g \in 0 .. Groups - 1, NEW x, NEW q,
         \A n \in CoefficientIndex(fm) : Encode(fm, x[n]) \in 0 .. 2 ^ fm.bits - 1,
         Filled(fm, x, q, Coefficients(fm) * g)
  PROVE  Filled(fm, x, PackedAs(fm, x, q, g), Coefficients(fm) * (g + 1))
<1> DEFINE m == Coefficients(fm) * g
           C == Coefficients(fm)
           p == PackedAs(fm, x, q, g)
<1>1. m \in Nat /\ C \in Nat /\ C * (g + 1) = m + C
  BY GroupIn DEF Regular
<1>2. \A c \in 0 .. C - 1 : Held(fm, x, p, m + c)
  BY PackedGroup
<1>3. \A n \in 0 .. m - 1 : Held(fm, x, p, n)
  BY PackedBefore DEF Filled
<1> HIDE DEF m, C, p
<1>4. ASSUME NEW n \in 0 .. m + C - 1 PROVE Held(fm, x, p, n)
  <2>1. CASE n < m
    <3>1. n \in 0 .. m - 1
      BY <1>1, <2>1
    <3> QED BY <1>3, <3>1
  <2>2. CASE n >= m
    <3>1. n - m \in 0 .. C - 1 /\ m + (n - m) = n
      BY <1>1, <2>2
    <3>2. Held(fm, x, p, m + (n - m))
      BY <1>2, <3>1
    <3> QED BY <3>1, <3>2
  <2>3. n < m \/ n >= m
    BY <1>1
  <2> QED BY <2>1, <2>2, <2>3
<1> QED BY <1>1, <1>4 DEF Filled, C, p

LEMMA UnpackedMore ==
  ASSUME NEW fm, Regular(fm), Coded(fm), ReadsBack(fm), fm.unpack # <<>>,
         NEW g \in 0 .. Groups - 1, NEW x, NEW q \in [ByteIndex(fm) -> SUBSET (0 .. 7)],
         Filled(fm, x, q, Coefficients(fm) * g), InRange(fm, x, Coefficients(fm) * g)
  PROVE  /\ Filled(fm, UnpackedAs(fm, x, q, g), q, Coefficients(fm) * (g + 1))
         /\ InRange(fm, UnpackedAs(fm, x, q, g), Coefficients(fm) * (g + 1))
<1> DEFINE m == Coefficients(fm) * g
           C == Coefficients(fm)
           y == UnpackedAs(fm, x, q, g)
           P(n) == Held(fm, y, q, n) /\ y[n] \in fm.least .. fm.high
<1>1. m \in Nat /\ C \in Nat \ {0} /\ C * (g + 1) = m + C
  BY GroupIn DEF Regular
<1>2. \A c \in 0 .. C - 1 : P(m + c)
  BY UnpackedGroup
<1>3. \A n \in 0 .. m - 1 : P(n)
  <2> SUFFICES ASSUME NEW n \in 0 .. m - 1 PROVE P(n)
    OBVIOUS
  <2>1. n \in CoefficientIndex(fm) /\ ~ (n \in m .. m + C - 1)
    <3>1. m + 0 \in CoefficientIndex(fm)
      BY <1>1, GroupIn
    <3> HIDE DEF m, C
    <3>2. n \in 0 .. m + 0 /\ ~ (n \in m .. m + C - 1)
      BY <1>1
    <3>3. \A l \in 0 .. m + 0 : m + 0 \in CoefficientIndex(fm) => l \in CoefficientIndex(fm)
      <4> DEFINE M == Groups * Coefficients(fm)
      <4>1. M \in Int
        BY PackingAssumption DEF Regular
      <4> HIDE DEF M
      <4>2. \A l \in 0 .. m + 0 : m + 0 \in 0 .. M - 1 => l \in 0 .. M - 1
        BY <1>1, <4>1
      <4> QED BY <4>2 DEF CoefficientIndex, M
    <3> QED BY <3>1, <3>2, <3>3
  <2>2. y[n] = x[n]
    BY <2>1 DEF UnpackedAs
  <2>3. Held(fm, x, q, n) /\ x[n] \in fm.least .. fm.high
    BY DEF Filled, InRange
  <2> QED BY <2>2, <2>3 DEF Held
<1> HIDE DEF m, C, P
<1>4. ASSUME NEW n \in 0 .. m + C - 1 PROVE P(n)
  <2>1. CASE n < m
    <3>1. n \in 0 .. m - 1
      BY <1>1, <2>1
    <3> QED BY <1>3, <3>1
  <2>2. CASE n >= m
    <3>1. n - m \in 0 .. C - 1 /\ m + (n - m) = n
      BY <1>1, <2>2
    <3>2. P(m + (n - m))
      BY <1>2, <3>1
    <3> QED BY <3>1, <3>2
  <2>3. n < m \/ n >= m
    BY <1>1
  <2> QED BY <2>1, <2>2, <2>3
<1> QED BY <1>1, <1>4 DEF Filled, InRange, C, P

LEMMA UnpackedType ==
  ASSUME NEW fm, Regular(fm), Coded(fm), ReadsBack(fm), fm.unpack # <<>>,
         NEW g \in 0 .. Groups - 1, NEW x \in [CoefficientIndex(fm) -> Int],
         NEW q \in [ByteIndex(fm) -> SUBSET (0 .. 7)]
  PROVE  UnpackedAs(fm, x, q, g) \in [CoefficientIndex(fm) -> Int]
<1> DEFINE y == UnpackedAs(fm, x, q, g)
           m == Coefficients(fm) * g
           C == Coefficients(fm)
<1> SUFFICES ASSUME NEW n \in CoefficientIndex(fm) PROVE y[n] \in Int
  BY DEF UnpackedAs
<1>1. m \in Nat /\ C \in Nat
  BY GroupIn DEF Regular
<1>2. CASE n \in m .. m + C - 1
  <2>1. n - m \in 0 .. C - 1 /\ m + (n - m) = n
    <3> HIDE DEF m, C
    <3> QED BY <1>1, <1>2
  <2>2. y[m + (n - m)] \in fm.least .. fm.high
    BY <2>1, UnpackedGroup
  <2>3. fm.least \in Int /\ fm.high \in Int
    BY DEF Coded
  <2> HIDE DEF y, m
  <2> QED BY <2>1, <2>2, <2>3
<1>3. CASE ~ (n \in m .. m + C - 1)
  BY <1>3 DEF UnpackedAs
<1> QED BY <1>2, <1>3

\* Bytes determine the coefficients, and coefficients the bytes.
LEMMA SamePoly ==
  ASSUME NEW fm, Regular(fm), Coded(fm), NEW q, NEW n,
         NEW x, NEW y, x[n] \in Int, y[n] \in Int,
         Encode(fm, x[n]) \in 0 .. 2 ^ fm.bits - 1, Encode(fm, y[n]) \in 0 .. 2 ^ fm.bits - 1,
         Held(fm, x, q, n), Held(fm, y, q, n)
  PROVE  x[n] = y[n]
<1> DEFINE w == fm.bits
           e == Encode(fm, x[n])
           d == Encode(fm, y[n])
<1>1. w \in 0 .. 20
  BY DEF Regular
<1>2. \A v \in 0 .. w - 1 : v \in Bits(e) <=> v \in Bits(d)
  BY DEF Held
<1>3. Decode(fm, e) = x[n] /\ Decode(fm, d) = y[n]
  BY DEF Coded
<1>4. e \in 0 .. 2 ^ w - 1 /\ d \in 0 .. 2 ^ w - 1
  OBVIOUS
<1> HIDE DEF w, e, d
<1>5. Bits(e) \in SUBSET (0 .. w - 1) /\ Bits(d) \in SUBSET (0 .. w - 1)
  BY <1>1, <1>4, BitsRange
<1>6. Bits(e) = Bits(d)
  BY <1>2, <1>5
<1>7. Value(Bits(e)) = e /\ Value(Bits(d)) = d
  <2>1. 2 ^ w =< 2 ^ 20 /\ 2 ^ w \in Nat /\ 2 ^ 20 \in Nat
    <3>1. w \in Nat /\ 20 \in Nat /\ w =< 20
      BY <1>1
    <3>2. 2 ^ w =< 2 ^ 20
      BY <3>1, PowerGrows
    <3>3. 2 ^ w \in Nat
      BY <3>1, PowerType
    <3>4. 2 ^ 20 \in Nat
      BY <3>1, PowerType
    <3> QED BY <3>2, <3>3, <3>4
  <2>2. e \in 0 .. 2 ^ 20 - 1 /\ d \in 0 .. 2 ^ 20 - 1
    BY <1>4, <2>1
  <2> QED BY <2>2, ValueBits
<1> QED BY <1>3, <1>6, <1>7

LEMMA SameBytes ==
  ASSUME NEW fm, Regular(fm), NEW x,
         NEW p \in [ByteIndex(fm) -> SUBSET (0 .. 7)],
         NEW q \in [ByteIndex(fm) -> SUBSET (0 .. 7)],
         \A n \in CoefficientIndex(fm) : Held(fm, x, p, n) /\ Held(fm, x, q, n)
  PROVE  p = q
<1> DEFINE w == fm.bits
           C == Coefficients(fm)
           B == Bytes(fm)
           G == Groups
<1>1. /\ w \in 1 .. 20 /\ C \in Nat \ {0} /\ B \in Nat \ {0} /\ w * C = 8 * B
      /\ G \in Nat \ {0}
  BY PackingAssumption DEF Regular
<1>2. ASSUME NEW b \in ByteIndex(fm), NEW u \in 0 .. 7 PROVE u \in p[b] <=> u \in q[b]
  <2> DEFINE at == 8 * b + u
             n == at \div w
             v == at % w
  <2>1. b \in 0 .. G * B - 1
    BY DEF ByteIndex
  <2> HIDE DEF w, C, B, G
  <2>2. G * B \in Nat /\ G * C \in Nat /\ 8 * (G * B) = (G * C) * w
    <3>1. G * (8 * B) = 8 * (G * B) /\ G * (w * C) = (G * C) * w
      BY <1>1
    <3>2. G * B \in Nat /\ G * C \in Nat
      BY <1>1
    <3> QED BY <1>1, <3>1, <3>2
  <2>3. at \in Nat /\ at =< 8 * (G * B) - 1
    BY <2>1, <2>2
  <2> HIDE DEF at
  <2>4. n \in Int /\ v \in 0 .. w - 1 /\ at = n * w + v
    BY <1>1, <2>3, Division
  <2> HIDE DEF n, v
  <2>5. n \in 0 .. G * C - 1
    <3> DEFINE m == G * C
    <3>1. m \in Nat /\ n * w + v =< m * w - 1 /\ n * w + v >= 0
      BY <2>2, <2>3, <2>4
    <3> HIDE DEF m
    <3>2. (n - m) * w = n * w - m * w /\ n * w \in Int /\ m * w \in Int
      BY <1>1, <2>4, <3>1
    <3>3. n < m
      <4> SUFFICES ASSUME n >= m PROVE FALSE
        BY <2>4, <3>1
      <4>1. (n - m) * w >= 0
        BY <1>1, <2>4, <3>1
      <4> QED BY <1>1, <2>4, <3>1, <3>2, <4>1
    <3>4. n >= 0
      <4> SUFFICES ASSUME n =< -1 PROVE FALSE
        BY <2>4
      <4>1. (-n) * w >= w /\ (-n) * w = -(n * w)
        <5>1. -n \in Int /\ -n >= 1
          BY <2>4
        <5> QED BY <1>1, <2>4, <5>1, MulAtLeast
      <4> QED BY <1>1, <2>4, <3>1, <3>2, <4>1
    <3>5. n \in 0 .. m - 1
      BY <2>4, <3>1, <3>3, <3>4
    <3> QED BY <3>5 DEF m
  <2>6. w * n + v = at
    <3>1. w * n = n * w
      BY <1>1, <2>4
    <3> QED BY <2>4, <3>1
  <2>7. at \div 8 = b /\ at % 8 = u
    <3>1. at = b * 8 + u /\ b \in Int /\ u \in 0 .. 8 - 1 /\ 8 \in Nat \ {0}
      BY <2>1, <2>2 DEF at
    <3> QED BY <3>1, DivisionUnique
  <2>8. Held(fm, x, p, n) /\ Held(fm, x, q, n)
    BY <2>5 DEF CoefficientIndex, G, C
  <2> QED BY <2>4, <2>6, <2>7, <2>8 DEF Held, w
<1>3. ASSUME NEW b \in ByteIndex(fm) PROVE p[b] = q[b]
  <2>1. p[b] \in SUBSET (0 .. 7) /\ q[b] \in SUBSET (0 .. 7)
    OBVIOUS
  <2> QED BY <1>2, <2>1
<1> QED BY <1>3

-----------------------------------------------------------------------------
(* The invariant of packing and unpacking.  The function that runs is at   *)
(* its group g: what it has written before that agrees with its input.     *)

Whole(fm, x, q) == Filled(fm, x, q, Groups * Coefficients(fm))
Ranged(fm, x) == InRange(fm, x, Groups * Coefficients(fm))
InRangePolys(fm) == [CoefficientIndex(fm) -> fm.low .. fm.high]
ByteStrings(fm) == [ByteIndex(fm) -> SUBSET (0 .. 7)]

PackedTo(fm, g, x, q) == Filled(fm, x, q, Coefficients(fm) * g)
ReadTo(fm, g, x, q) == PackedTo(fm, g, x, q) /\ InRange(fm, x, Coefficients(fm) * g)

\* A polynomial p is packed, and unpacked if the format has an unpacking.
PolyCoded(fm, t, g, x, q, p) ==
  \/ t = <<"pack", "unpack">> /\ fm.unpack # <<>> /\ x = p /\ PackedTo(fm, g, x, q)
  \/ t = <<"pack">> /\ fm.unpack = <<>> /\ x = p /\ PackedTo(fm, g, x, q)
  \/ t = <<"unpack">> /\ fm.unpack # <<>> /\ Whole(fm, p, q) /\ ReadTo(fm, g, x, q)
  \/ t = <<>> /\ Whole(fm, p, q) /\ fm.unpack = <<>> /\ x = p
  \/ t = <<>> /\ Whole(fm, p, q) /\ fm.unpack # <<>> /\ Whole(fm, x, q) /\ Ranged(fm, x)

\* Bytes s are unpacked, and packed if what they hold is in range.
BytesCoded(fm, t, g, x, q, s) ==
  /\ fm.unpack # <<>>
  /\ \/ t = <<"unpack", "pack">> /\ fm.least = fm.low /\ q = s /\ ReadTo(fm, g, x, q)
     \/ t = <<"unpack">> /\ q = s /\ ReadTo(fm, g, x, q)
     \/ t = <<"pack">> /\ fm.least = fm.low /\ Whole(fm, x, s) /\ Ranged(fm, x)
          /\ PackedTo(fm, g, x, q)
     \/ t = <<>> /\ Whole(fm, x, s) /\ Ranged(fm, x) /\ Whole(fm, x, q)

StepType(fm, g, x, q) ==
  g \in 0 .. Groups - 1 /\ x \in [CoefficientIndex(fm) -> Int] /\ q \in ByteStrings(fm)

PackingInv ==
  /\ format \in DOMAIN Format /\ StepType(fmt, group, a, r)
  /\ \/ \E p \in InRangePolys(fmt) : start = [poly |-> p] /\ PolyCoded(fmt, todo, group, a, r, p)
     \/ \E s \in ByteStrings(fmt) : start = [bytes |-> s] /\ BytesCoded(fmt, todo, group, a, r, s)

\* The two steps, and how the loops and functions follow each other.
Follows(t, g, t2, g2) ==
  IF g + 1 < Groups THEN g2 = g + 1 /\ t2 = t ELSE g2 = 0 /\ t2 = Tail(t)
LastRound(t, g) == g + 1 = Groups /\ Len(t) > 1
PackStep(fm, t, g, x, q, t2, g2, x2, q2) ==
  /\ t # <<>> /\ Head(t) = "pack" /\ q2 = PackedAs(fm, x, q, g)
  /\ x2 = IF LastRound(t, g) THEN StalePoly(fm) ELSE x
  /\ Follows(t, g, t2, g2)
UnpackStep(fm, t, g, x, q, t2, g2, x2, q2) ==
  /\ t # <<>> /\ Head(t) = "unpack" /\ x2 = UnpackedAs(fm, x, q, g)
  /\ q2 = IF LastRound(t, g) THEN StaleBytes(fm) ELSE q
  /\ Follows(t, g, t2, g2)

LEMMA Sequence ==
  /\ Head(<<"pack", "unpack">>) = "pack" /\ Tail(<<"pack", "unpack">>) = <<"unpack">>
  /\ Head(<<"unpack", "pack">>) = "unpack" /\ Tail(<<"unpack", "pack">>) = <<"pack">>
  /\ Head(<<"pack">>) = "pack" /\ Tail(<<"pack">>) = <<>>
  /\ Head(<<"unpack">>) = "unpack" /\ Tail(<<"unpack">>) = <<>>
  /\ Len(<<"pack", "unpack">>) > 1 /\ Len(<<"unpack", "pack">>) > 1
  /\ ~ (Len(<<"pack">>) > 1) /\ ~ (Len(<<"unpack">>) > 1)
  /\ "pack" # "unpack"
OBVIOUS

LEMMA StepState ==
  ASSUME NEW fm, Regular(fm), Coded(fm), fm.unpack # <<>> => ReadsBack(fm),
         NEW t, NEW g, NEW x, NEW q, StepType(fm, g, x, q),
         NEW t2, NEW g2, NEW x2, NEW q2,
         \/ PackStep(fm, t, g, x, q, t2, g2, x2, q2)
         \/ UnpackStep(fm, t, g, x, q, t2, g2, x2, q2) /\ fm.unpack # <<>>
  PROVE  StepType(fm, g2, x2, q2)
<1>1. g2 \in 0 .. Groups - 1
  BY PackingAssumption DEF PackStep, UnpackStep, Follows, StepType
<1>2. StalePoly(fm) \in [CoefficientIndex(fm) -> Int] /\ StaleBytes(fm) \in ByteStrings(fm)
  BY DEF StalePoly, StaleBytes, Coded, ByteStrings
<1>3. PackedAs(fm, x, q, g) \in ByteStrings(fm)
  BY PackedType DEF ByteStrings, StepType
<1>4. fm.unpack # <<>> => UnpackedAs(fm, x, q, g) \in [CoefficientIndex(fm) -> Int]
  BY UnpackedType DEF ByteStrings, StepType
<1> QED BY <1>1, <1>2, <1>3, <1>4 DEF PackStep, UnpackStep, StepType

\* What is done when the last group is, and when none is.
LEMMA Ends ==
  ASSUME NEW fm, Regular(fm), NEW x, NEW q
  PROVE  /\ PackedTo(fm, 0, x, q) /\ ReadTo(fm, 0, x, q)
         /\ \A g \in 0 .. Groups - 1 : ~ (g + 1 < Groups) =>
              /\ g + 1 = Groups
              /\ PackedTo(fm, g + 1, x, q) => Whole(fm, x, q)
              /\ ReadTo(fm, g + 1, x, q) => Whole(fm, x, q) /\ Ranged(fm, x)
<1>1. Coefficients(fm) * 0 = 0 /\ Coefficients(fm) * Groups = Groups * Coefficients(fm)
  BY GroupIn, PackingAssumption
<1>2. \A g \in 0 .. Groups - 1 : ~ (g + 1 < Groups) => g + 1 = Groups
  BY PackingAssumption
<1>3. PackedTo(fm, 0, x, q) /\ ReadTo(fm, 0, x, q)
  BY <1>1 DEF PackedTo, ReadTo, Filled, InRange
<1>4. /\ PackedTo(fm, Groups, x, q) => Whole(fm, x, q)
      /\ ReadTo(fm, Groups, x, q) => Whole(fm, x, q) /\ Ranged(fm, x)
  BY <1>1 DEF PackedTo, ReadTo, Whole, Ranged
<1> QED BY <1>2, <1>3, <1>4

LEMMA PackStepDone ==
  ASSUME NEW fm, Regular(fm), Coded(fm), NEW g \in 0 .. Groups - 1, NEW x, NEW q,
         \A n \in CoefficientIndex(fm) : x[n] \in fm.low .. fm.high,
         PackedTo(fm, g, x, q)
  PROVE  PackedTo(fm, g + 1, x, PackedAs(fm, x, q, g))
<1>1. \A n \in CoefficientIndex(fm) : Encode(fm, x[n]) \in 0 .. 2 ^ fm.bits - 1
  BY DEF Coded
<1> QED BY <1>1, PackedMore DEF PackedTo

LEMMA UnpackStepDone ==
  ASSUME NEW fm, Regular(fm), Coded(fm), ReadsBack(fm), fm.unpack # <<>>,
         NEW g \in 0 .. Groups - 1, NEW x, NEW q \in ByteStrings(fm), ReadTo(fm, g, x, q)
  PROVE  ReadTo(fm, g + 1, UnpackedAs(fm, x, q, g), q)
BY UnpackedMore DEF PackedTo, ReadTo, ByteStrings

LEMMA PolyPackStep ==
  ASSUME NEW fm, Regular(fm), Coded(fm), NEW p \in InRangePolys(fm),
         NEW t, NEW g, NEW x, NEW q, StepType(fm, g, x, q), PolyCoded(fm, t, g, x, q, p),
         NEW t2, NEW g2, NEW x2, NEW q2, PackStep(fm, t, g, x, q, t2, g2, x2, q2)
  PROVE  PolyCoded(fm, t2, g2, x2, q2, p)
<1>0. g \in 0 .. Groups - 1 /\ q2 = PackedAs(fm, x, q, g)
  BY DEF StepType, PackStep
<1>1. x = p /\ PackedTo(fm, g, x, q)
      /\ \/ t = <<"pack", "unpack">> /\ fm.unpack # <<>>
         \/ t = <<"pack">> /\ fm.unpack = <<>>
  BY Sequence DEF PolyCoded, PackStep
<1>2. PackedTo(fm, g + 1, x, q2)
  BY <1>0, <1>1, PackStepDone DEF InRangePolys
<1>3. CASE g + 1 < Groups
  <2>1. t2 = t /\ g2 = g + 1 /\ x2 = x
    BY <1>0, <1>3 DEF PackStep, Follows, LastRound
  <2> QED BY <1>1, <1>2, <2>1 DEF PolyCoded
<1>4. CASE ~ (g + 1 < Groups)
  <2>1. g2 = 0 /\ t2 = Tail(t) /\ g + 1 = Groups
    BY <1>0, <1>4, Ends DEF PackStep, Follows
  <2>2. Whole(fm, p, q2)
    BY <1>0, <1>1, <1>2, <1>4, Ends
  <2>3. CASE t = <<"pack", "unpack">>
    BY <1>1, <2>1, <2>2, <2>3, Ends, Sequence DEF PolyCoded
  <2>4. CASE t = <<"pack">>
    <3>1. x2 = x
      BY <2>4, Sequence DEF PackStep, LastRound
    <3> QED BY <1>1, <2>1, <2>2, <2>4, <3>1, Sequence DEF PolyCoded
  <2> QED BY <1>1, <2>3, <2>4
<1> QED BY <1>3, <1>4

LEMMA PolyUnpackStep ==
  ASSUME NEW fm, Regular(fm), Coded(fm), fm.unpack # <<>> => ReadsBack(fm), NEW p,
         NEW t, NEW g, NEW x, NEW q, StepType(fm, g, x, q), PolyCoded(fm, t, g, x, q, p),
         NEW t2, NEW g2, NEW x2, NEW q2, UnpackStep(fm, t, g, x, q, t2, g2, x2, q2)
  PROVE  fm.unpack # <<>> /\ PolyCoded(fm, t2, g2, x2, q2, p)
<1>0. g \in 0 .. Groups - 1 /\ q \in ByteStrings(fm) /\ x2 = UnpackedAs(fm, x, q, g)
  BY DEF StepType, UnpackStep
<1>1. t = <<"unpack">> /\ fm.unpack # <<>> /\ Whole(fm, p, q) /\ ReadTo(fm, g, x, q)
  BY Sequence DEF PolyCoded, UnpackStep
<1>2. ReadTo(fm, g + 1, x2, q)
  BY <1>0, <1>1, UnpackStepDone
<1>3. q2 = q
  BY <1>1, Sequence DEF UnpackStep, LastRound
<1>4. CASE g + 1 < Groups
  <2>1. t2 = t /\ g2 = g + 1
    BY <1>4 DEF UnpackStep, Follows
  <2> QED BY <1>1, <1>2, <1>3, <2>1 DEF PolyCoded
<1>5. CASE ~ (g + 1 < Groups)
  <2>1. t2 = <<>>
    BY <1>1, <1>5, Sequence DEF UnpackStep, Follows
  <2>2. Whole(fm, x2, q) /\ Ranged(fm, x2)
    BY <1>0, <1>2, <1>5, Ends
  <2> QED BY <1>1, <1>3, <2>1, <2>2 DEF PolyCoded
<1> QED BY <1>1, <1>4, <1>5

LEMMA BytesPackStep ==
  ASSUME NEW fm, Regular(fm), Coded(fm), NEW s,
         NEW t, NEW g, NEW x, NEW q, StepType(fm, g, x, q), BytesCoded(fm, t, g, x, q, s),
         NEW t2, NEW g2, NEW x2, NEW q2, PackStep(fm, t, g, x, q, t2, g2, x2, q2)
  PROVE  BytesCoded(fm, t2, g2, x2, q2, s)
<1>0. g \in 0 .. Groups - 1 /\ q2 = PackedAs(fm, x, q, g)
  BY DEF StepType, PackStep
<1>1. /\ fm.unpack # <<>> /\ t = <<"pack">> /\ fm.least = fm.low /\ Whole(fm, x, s)
      /\ Ranged(fm, x) /\ PackedTo(fm, g, x, q)
  BY Sequence DEF BytesCoded, PackStep
<1>2. PackedTo(fm, g + 1, x, q2)
  BY <1>0, <1>1, PackStepDone DEF Ranged, InRange, CoefficientIndex
<1>3. x2 = x
  BY <1>1, Sequence DEF PackStep, LastRound
<1>4. CASE g + 1 < Groups
  <2>1. t2 = t /\ g2 = g + 1
    BY <1>4 DEF PackStep, Follows
  <2> QED BY <1>1, <1>2, <1>3, <2>1 DEF BytesCoded
<1>5. CASE ~ (g + 1 < Groups)
  <2>1. t2 = <<>>
    BY <1>1, <1>5, Sequence DEF PackStep, Follows
  <2>2. Whole(fm, x, q2)
    BY <1>0, <1>2, <1>5, Ends
  <2> QED BY <1>1, <1>3, <2>1, <2>2 DEF BytesCoded
<1> QED BY <1>4, <1>5

LEMMA BytesUnpackStep ==
  ASSUME NEW fm, Regular(fm), Coded(fm), fm.unpack # <<>> => ReadsBack(fm), NEW s,
         NEW t, NEW g, NEW x, NEW q, StepType(fm, g, x, q), BytesCoded(fm, t, g, x, q, s),
         NEW t2, NEW g2, NEW x2, NEW q2, UnpackStep(fm, t, g, x, q, t2, g2, x2, q2)
  PROVE  fm.unpack # <<>> /\ BytesCoded(fm, t2, g2, x2, q2, s)
<1>0. g \in 0 .. Groups - 1 /\ q \in ByteStrings(fm) /\ x2 = UnpackedAs(fm, x, q, g)
  BY DEF StepType, UnpackStep
<1>1. /\ fm.unpack # <<>> /\ q = s /\ ReadTo(fm, g, x, q)
      /\ \/ t = <<"unpack", "pack">> /\ fm.least = fm.low
         \/ t = <<"unpack">>
  BY Sequence DEF BytesCoded, UnpackStep
<1>2. ReadTo(fm, g + 1, x2, q)
  BY <1>0, <1>1, UnpackStepDone
<1>3. CASE g + 1 < Groups
  <2>1. t2 = t /\ g2 = g + 1 /\ q2 = q
    BY <1>0, <1>3 DEF UnpackStep, Follows, LastRound
  <2> QED BY <1>1, <1>2, <2>1 DEF BytesCoded
<1>4. CASE ~ (g + 1 < Groups)
  <2>1. g2 = 0 /\ t2 = Tail(t) /\ g + 1 = Groups
    BY <1>0, <1>4, Ends DEF UnpackStep, Follows
  <2>2. Whole(fm, x2, s) /\ Ranged(fm, x2)
    BY <1>0, <1>1, <1>2, <1>4, Ends
  <2>3. CASE t = <<"unpack", "pack">>
    BY <1>1, <2>1, <2>2, <2>3, Ends, Sequence DEF BytesCoded
  <2>4. CASE t = <<"unpack">>
    <3>1. q2 = q
      BY <2>4, Sequence DEF UnpackStep, LastRound
    <3> QED BY <1>1, <2>1, <2>2, <2>4, <3>1, Sequence DEF BytesCoded
  <2> QED BY <1>1, <2>3, <2>4
<1> QED BY <1>1, <1>3, <1>4

LEMMA PackingInitInv == PackingInit => PackingInv
<1> SUFFICES ASSUME PackingInit PROVE PackingInv
  OBVIOUS
<1>1. format \in DOMAIN Format /\ format \in Formats /\ group = 0
  BY PackingAssumption DEF PackingInit
<1>2. Regular(fmt) /\ Coded(fmt)
  BY <1>1, FormatIs DEF fmt
<1>3. Polys[format] \subseteq InRangePolys(fmt) /\ Strings[format] \subseteq ByteStrings(fmt)
  BY <1>1, PackingAssumption DEF fmt, InRangePolys, ByteStrings
<1>4. InRangePolys(fmt) \subseteq [CoefficientIndex(fmt) -> Int]
  BY <1>2 DEF InRangePolys, Coded
<1>5. StalePoly(fmt) \in [CoefficientIndex(fmt) -> Int] /\ StaleBytes(fmt) \in ByteStrings(fmt)
  BY <1>2 DEF StalePoly, StaleBytes, Coded, ByteStrings
<1>6. 0 \in 0 .. Groups - 1
  BY PackingAssumption
<1>7. CASE InitPoly(fmt)
  <2>1. a \in InRangePolys(fmt) /\ start = [poly |-> a] /\ r \in ByteStrings(fmt)
    BY <1>3, <1>5, <1>7 DEF InitPoly
  <2>2. PolyCoded(fmt, todo, group, a, r, a)
    BY <1>1, <1>2, <1>7, Ends DEF InitPoly, PolyCoded
  <2> QED BY <1>1, <1>4, <1>6, <2>1, <2>2 DEF PackingInv, StepType
<1>8. CASE InitBytes(fmt)
  <2>1. r \in ByteStrings(fmt) /\ start = [bytes |-> r] /\ a \in [CoefficientIndex(fmt) -> Int]
    BY <1>3, <1>5, <1>8 DEF InitBytes
  <2>2. BytesCoded(fmt, todo, group, a, r, r)
    BY <1>1, <1>2, <1>8, Ends DEF InitBytes, BytesCoded
  <2> QED BY <1>1, <1>6, <2>1, <2>2 DEF PackingInv, StepType
<1> QED BY <1>7, <1>8 DEF PackingInit

LEMMA PackGroupIs ==
  ASSUME PackGroup
  PROVE  PackStep(fmt, todo, group, a, r, todo', group', a', r')
<1>1. r' = PackedAs(fmt, a, r, group)
  BY DEF PackGroup, PackedAs, Codes
<1>2. Follows(todo, group, todo', group')
  BY DEF PackGroup, Advance, Follows
<1> QED BY <1>1, <1>2 DEF PackGroup, PackStep, LastRound

LEMMA UnpackGroupIs ==
  ASSUME UnpackGroup
  PROVE  UnpackStep(fmt, todo, group, a, r, todo', group', a', r')
<1>1. a' = UnpackedAs(fmt, a, r, group)
  BY DEF UnpackGroup, UnpackedAs, Window, Code
<1>2. Follows(todo, group, todo', group')
  BY DEF UnpackGroup, Advance, Follows
<1> QED BY <1>1, <1>2 DEF UnpackGroup, UnpackStep, LastRound

LEMMA PackingNextInv ==
  ASSUME PackingInv, PackingNext
  PROVE  PackingInv'
<1>1. format' = format /\ start' = start /\ fmt' = fmt
  BY DEF PackingNext, PackGroup, UnpackGroup, fmt
<1>2. Regular(fmt) /\ Coded(fmt) /\ (fmt.unpack # <<>> => ReadsBack(fmt))
  BY FormatIs DEF PackingInv, fmt
<1>3. format \in DOMAIN Format /\ StepType(fmt, group, a, r)
  BY DEF PackingInv
<1>4. \/ PackStep(fmt, todo, group, a, r, todo', group', a', r')
      \/ UnpackStep(fmt, todo, group, a, r, todo', group', a', r')
  BY PackGroupIs, UnpackGroupIs DEF PackingNext
<1>5. ASSUME NEW p \in InRangePolys(fmt), start = [poly |-> p],
             PolyCoded(fmt, todo, group, a, r, p)
      PROVE  PackingInv'
  <2>1. /\ PolyCoded(fmt, todo', group', a', r', p)
        /\ UnpackStep(fmt, todo, group, a, r, todo', group', a', r') => fmt.unpack # <<>>
    BY <1>2, <1>3, <1>4, <1>5, PolyPackStep, PolyUnpackStep
  <2>2. StepType(fmt, group', a', r')
    BY <1>2, <1>3, <1>4, <2>1, StepState
  <2> QED BY <1>1, <1>3, <1>5, <2>1, <2>2 DEF PackingInv
<1>6. ASSUME NEW s \in ByteStrings(fmt), start = [bytes |-> s],
             BytesCoded(fmt, todo, group, a, r, s)
      PROVE  PackingInv'
  <2>1. /\ BytesCoded(fmt, todo', group', a', r', s)
        /\ UnpackStep(fmt, todo, group, a, r, todo', group', a', r') => fmt.unpack # <<>>
    BY <1>2, <1>3, <1>4, <1>6, BytesPackStep, BytesUnpackStep
  <2>2. StepType(fmt, group', a', r')
    BY <1>2, <1>3, <1>4, <2>1, StepState
  <2> QED BY <1>1, <1>3, <1>6, <2>1, <2>2 DEF PackingInv
<1> QED BY <1>5, <1>6 DEF PackingInv

LEMMA PackingStutterInv ==
  ASSUME PackingInv, UNCHANGED packingVars
  PROVE  PackingInv'
BY DEF PackingInv, packingVars, fmt

-----------------------------------------------------------------------------
(* What the invariant says of the result.                                  *)

LEMMA StartIs ==
  /\ \A p : start = [poly |-> p] => FromPoly /\ start.poly = p
  /\ \A s : start = [bytes |-> s] => ~ FromPoly /\ start.bytes = s
<1>1. ASSUME NEW p, start = [poly |-> p] PROVE FromPoly /\ start.poly = p
  BY <1>1 DEF FromPoly
<1>2. ASSUME NEW s, start = [bytes |-> s] PROVE ~ FromPoly /\ start.bytes = s
  <2>1. DOMAIN start = {"bytes"} /\ start.bytes = s
    BY <1>2
  <2>2. {"bytes"} # {"poly"}
    OBVIOUS
  <2> QED BY <2>1, <2>2 DEF FromPoly
<1> QED BY <1>1, <1>2

LEMMA NotAtEnd == <<"pack", "unpack">> # <<>> /\ <<"unpack", "pack">> # <<>>
                  /\ <<"pack">> # <<>> /\ <<"unpack">> # <<>>
OBVIOUS

\* At the end the bytes hold the coefficients, bit by bit.
LEMMA PackingInvStandardBits == PackingInv => StandardBits
<1> SUFFICES ASSUME PackingInv, todo = <<>> PROVE StandardBits
  BY DEF StandardBits
<1> DEFINE x == IF FromPoly THEN start.poly ELSE a
<1>1. Whole(fmt, x, r)
  <2>1. ASSUME NEW p, start = [poly |-> p], PolyCoded(fmt, todo, group, a, r, p)
        PROVE  Whole(fmt, x, r)
    BY <2>1, StartIs, NotAtEnd DEF PolyCoded
  <2>2. ASSUME NEW s, start = [bytes |-> s], BytesCoded(fmt, todo, group, a, r, s)
        PROVE  Whole(fmt, x, r)
    BY <2>2, StartIs, NotAtEnd DEF BytesCoded
  <2> QED BY <2>1, <2>2 DEF PackingInv
<1> HIDE DEF x
<1>2. \A n \in CoefficientIndex(fmt) : Held(fmt, x, r, n)
  BY <1>1 DEF Whole, Filled, CoefficientIndex
<1> DEFINE Bit(n, b) == b \in Bits(Encode(fmt, x[n]))
           Sent(n, b) == (fmt.bits * n + b) % 8 \in r[(fmt.bits * n + b) \div 8]
<1>3. \A n \in CoefficientIndex(fmt), b \in 0 .. fmt.bits - 1 : Bit(n, b) <=> Sent(n, b)
  BY <1>2 DEF Held
<1> HIDE DEF Bit, Sent
<1>4. ASSUME NEW n \in CoefficientIndex(fmt), NEW b \in 0 .. fmt.bits - 1
      PROVE  Bit(n, b) = Sent(n, b)
  <2>1. Bit(n, b) \in BOOLEAN /\ Sent(n, b) \in BOOLEAN
    BY DEF Bit, Sent
  <2> QED BY <1>3, <2>1
<1> QED BY <1>4 DEF StandardBits, Bit, Sent, x

\* Coefficients of an unpacking are those that were packed, and its bytes
\* those that packing them again writes.
LEMMA PackingInvReadBack == PackingInv => ReadBack
<1> SUFFICES ASSUME PackingInv, todo = <<>> PROVE ReadBack
  BY DEF ReadBack
<1>1. Regular(fmt) /\ Coded(fmt) /\ StepType(fmt, group, a, r)
  BY FormatIs DEF PackingInv, fmt
<1>2. ASSUME NEW p \in InRangePolys(fmt), start = [poly |-> p],
             PolyCoded(fmt, todo, group, a, r, p)
      PROVE  ReadBack
  <2>1. FromPoly /\ start.poly = p
    BY <1>2, StartIs
  <2>2. CASE fmt.unpack # <<>>
    <3>1. Whole(fmt, p, r) /\ Whole(fmt, a, r) /\ Ranged(fmt, a)
      BY <1>2, <2>2, NotAtEnd DEF PolyCoded
    <3>2. a \in [CoefficientIndex(fmt) -> Int] /\ p \in [CoefficientIndex(fmt) -> Int]
      <4>1. fmt.low .. fmt.high \subseteq Int
        OBVIOUS
      <4> QED BY <1>1, <1>2, <4>1 DEF StepType, InRangePolys
    <3>3. ASSUME NEW n \in CoefficientIndex(fmt) PROVE a[n] = p[n]
      <4>1. Held(fmt, p, r, n) /\ Held(fmt, a, r, n) /\ a[n] \in fmt.least .. fmt.high
        BY <3>1 DEF Whole, Ranged, Filled, InRange, CoefficientIndex
      <4>2. p[n] \in fmt.low .. fmt.high /\ p[n] \in Int /\ a[n] \in Int
        BY <1>2, <3>2 DEF InRangePolys
      <4>3. /\ Encode(fmt, a[n]) \in 0 .. 2 ^ fmt.bits - 1
            /\ Encode(fmt, p[n]) \in 0 .. 2 ^ fmt.bits - 1
        BY <1>1, <2>2, <4>1, <4>2 DEF Coded
      <4> QED BY <1>1, <4>1, <4>2, <4>3, SamePoly
    <3>4. a = p
      BY <3>2, <3>3
    <3> QED BY <2>1, <3>4 DEF ReadBack
  <2> QED BY <2>1, <2>2 DEF ReadBack
<1>3. ASSUME NEW s \in ByteStrings(fmt), start = [bytes |-> s],
             BytesCoded(fmt, todo, group, a, r, s)
      PROVE  ReadBack
  <2>1. ~ FromPoly /\ start.bytes = s
    BY <1>3, StartIs
  <2>2. Whole(fmt, a, s) /\ Whole(fmt, a, r)
    BY <1>3, NotAtEnd DEF BytesCoded
  <2>3. r = s
    BY <1>1, <1>3, <2>2, SameBytes DEF Whole, Filled, CoefficientIndex, StepType, ByteStrings
  <2> QED BY <2>1, <2>3 DEF ReadBack
<1> QED BY <1>2, <1>3 DEF PackingInv

LEMMA PackingInvInRange == PackingInv => UnpackedInRange
<1> SUFFICES ASSUME PackingInv, todo = <<>> \/ Head(todo) = "pack",
                    NEW n \in CoefficientIndex(fmt)
             PROVE  a[n] \in fmt.least .. fmt.high
  BY DEF UnpackedInRange
<1>1. Coded(fmt)
  BY FormatIs DEF PackingInv, fmt
<1>2. Ranged(fmt, a) => a[n] \in fmt.least .. fmt.high
  BY DEF Ranged, InRange, CoefficientIndex
<1>3. a \in InRangePolys(fmt) => a[n] \in fmt.least .. fmt.high
  <2>1. fmt.low .. fmt.high \subseteq fmt.least .. fmt.high
    <3>1. fmt.low \in Int /\ fmt.high \in Int /\ fmt.least \in Int /\ fmt.least =< fmt.low
      BY <1>1 DEF Coded
    <3> QED BY <3>1
  <2> QED BY <2>1 DEF InRangePolys
<1>4. Ranged(fmt, a) \/ a \in InRangePolys(fmt)
  <2>1. ASSUME NEW p \in InRangePolys(fmt), PolyCoded(fmt, todo, group, a, r, p)
        PROVE  Ranged(fmt, a) \/ a \in InRangePolys(fmt)
    BY <2>1, NotAtEnd, Sequence DEF PolyCoded
  <2>2. ASSUME NEW s, BytesCoded(fmt, todo, group, a, r, s)
        PROVE  Ranged(fmt, a)
    BY <2>2, NotAtEnd, Sequence DEF BytesCoded
  <2> QED BY <2>1, <2>2 DEF PackingInv
<1> QED BY <1>2, <1>3, <1>4

-----------------------------------------------------------------------------
(* The sections together: the one that is followed has its invariant, and  *)
(* the functions of the other have nothing to do.                          *)

EncodingInv ==
  \/ section = "hints" /\ HintsInv /\ todo = <<"none">>
  \/ section = "polynomial" /\ PackingInv /\ pc = "none"

LEMMA EncodingInitInv == EncodingInit => EncodingInv
<1>1. HintSection => EncodingInv
  BY HintsInitInv DEF HintSection, EncodingInv
<1>2. PolynomialSection => EncodingInv
  BY PackingInitInv DEF PolynomialSection, EncodingInv
<1> QED BY <1>1, <1>2 DEF EncodingInit

LEMMA HintsStep ==
  ASSUME section = "hints", HintsInv, todo = <<"none">>,
         [EncodingNext]_<<section, vars, packingVars>>
  PROVE  EncodingInv'
<1>1. ~ PackingNext
  <2>1. Head(todo) = "none"
    OBVIOUS
  <2> QED BY <2>1 DEF PackingNext, PackGroup, UnpackGroup
<1>2. UNCHANGED <<section, packingVars>> /\ (Next \/ UNCHANGED vars)
  BY <1>1 DEF EncodingNext
<1>3. HintsInv'
  BY <1>2, PackCoefficientInv, PackTallyInv, PackedInv, ReadTallyInv, ReadIndexInv,
     NextPolyInv, AllReadInv, CheckTailInv, StutterInv DEF Next
<1> QED BY <1>2, <1>3 DEF EncodingInv, packingVars

LEMMA PolynomialStep ==
  ASSUME section = "polynomial", PackingInv, pc = "none",
         [EncodingNext]_<<section, vars, packingVars>>
  PROVE  EncodingInv'
<1>1. ~ Next
  BY DEF Next, PackCoefficient, PackTally, WriteTally, Packed, ReadTally, TakeTally,
         ReadIndex, TakeIndex, NextPoly, AllRead, CheckTail
<1>2. UNCHANGED <<section, vars>> /\ (PackingNext \/ UNCHANGED packingVars)
  BY <1>1 DEF EncodingNext
<1>3. PackingInv'
  BY <1>2, PackingNextInv, PackingStutterInv
<1> QED BY <1>2, <1>3 DEF EncodingInv, vars

LEMMA EncodingNextInv ==
  EncodingInv /\ [EncodingNext]_<<section, vars, packingVars>> => EncodingInv'
BY HintsStep, PolynomialStep DEF EncodingInv

\* Unpacking accepts exactly the encodings, understands one as the vector it
\* encodes, and accepts no other bytes with the same meaning; what packing
\* wrote it reads back ("for strong unforgeability", packing.c:243, 254).
THEOREM EncodingUnique == EncodingSpec => []OneEncoding
<1>1. EncodingInv => OneEncoding
  BY HintsInvImplies DEF EncodingInv, OneEncoding
<1> QED BY EncodingInitInv, EncodingNextInv, <1>1, PTL DEF EncodingSpec

\* The packing functions leave bit b of coefficient j at bit bits * j + b of
\* the bytes, for every polynomial that their contracts allow; so do bytes
\* and the coefficients unpacked from them.
THEOREM BitsAsInStandard == EncodingSpec => []StandardBits
<1>1. EncodingInv => StandardBits
  <2>1. <<"none">> # <<>>
    OBVIOUS
  <2> QED BY <2>1, PackingInvStandardBits DEF EncodingInv, StandardBits
<1> QED BY EncodingInitInv, EncodingNextInv, <1>1, PTL DEF EncodingSpec

\* Every polynomial comes back from its bytes.  Every string of bytes is
\* unpacked to coefficients in the promised range; where that is the range
\* of packing too, as for z and t0, they pack to the same string.
THEOREM RoundTrip == EncodingSpec => []PolynomialRoundTrip
<1>1. EncodingInv => PolynomialRoundTrip
  <2>1. <<"none">> # <<>> /\ Head(<<"none">>) # "pack"
    OBVIOUS
  <2>2. todo = <<"none">> => PolynomialRoundTrip
    BY <2>1 DEF PolynomialRoundTrip, ReadBack, UnpackedInRange
  <2>3. PackingInv => PolynomialRoundTrip
    BY PackingInvReadBack, PackingInvInRange DEF PolynomialRoundTrip
  <2> QED BY <2>2, <2>3 DEF EncodingInv
<1> QED BY EncodingInitInv, EncodingNextInv, <1>1, PTL DEF EncodingSpec
=============================================================================
