----------------------------- MODULE NttProofs ------------------------------
(***************************************************************************)
(* What the transforms compute, whatever is computed, for any length of    *)
(* polynomials and vectors, any modulus and any table that the assumptions *)
(* of Ntt allow.                                                           *)
(*                                                                         *)
(* No coefficient leaves the integers an int32_t holds.  What each         *)
(* operation makes of the sizes of coefficients is arithmetic,             *)
(* Montgomery's reduction being exact.  What sign.c calls in which order   *)
(* is a fact about six program texts (Sound): between a transform and the  *)
(* next inverse there is always a product or a reduction.  The invariant   *)
(* Inv joins the two: SizeAt says of each polynomial, from the             *)
(* instructions before this one, how many times Q its coefficients may be, *)
(* and UpBounds and DownBounds how far a transform has come in its layer.  *)
(*                                                                         *)
(* Every result is the ring's.  After l layers a transform of A holds      *)
(* Val(A, l, j): A modulo X^Span(l) less a power of Root, block by block.  *)
(* A butterfly splits one such remainder into two (ValSplit), its inverse  *)
(* joins them, with a factor 2 that the last scaling takes away.  At the   *)
(* leaves are the values at the odd powers of Root, in the order of        *)
(* reversed bits (ValEnds), and there the ring's product is one product a  *)
(* coefficient (ValProduct).  The invariant Meant says of each polynomial  *)
(* which element of the ring it stands for, as coefficients or as values   *)
(* and with which factor (Means, one table for the six programs), and how  *)
(* far the one being transformed has come.                                 *)
(***************************************************************************)
EXTENDS Ntt, FiniteSetTheorems, SequenceTheorems, TLAPS

-----------------------------------------------------------------------------
(* Powers of two: 2^n counts the subsets of 1 .. n.                        *)

LEMMA SubsetsOfInterval ==
  ASSUME NEW n \in Nat
  PROVE  IsFiniteSet(SUBSET (1 .. n)) /\ Cardinality(SUBSET (1 .. n)) = 2 ^ n
<1>1. IsFiniteSet(1 .. n) /\ Cardinality(1 .. n) = IF 1 > n THEN 0 ELSE n - 1 + 1
  BY FS_Interval
<1>2. Cardinality(1 .. n) = n
  BY <1>1
<1>3. Cardinality(SUBSET (1 .. n)) = 2 ^ Cardinality(1 .. n)
  BY <1>1, FS_SUBSET
<1>4. IsFiniteSet(SUBSET (1 .. n))
  BY <1>1, FS_SUBSET
<1> QED BY <1>2, <1>3, <1>4

LEMMA PowerType ==
  ASSUME NEW n \in Nat
  PROVE  2 ^ n \in Nat \ {0}
<1> DEFINE S == SUBSET (1 .. n)
<1>1. IsFiniteSet(S) /\ Cardinality(S) = 2 ^ n
  BY SubsetsOfInterval
<1>2. S # {}
  OBVIOUS
<1> HIDE DEF S
<1>3. Cardinality(S) \in Nat
  BY <1>1, FS_CardinalityType
<1>4. Cardinality(S) # 0
  BY <1>1, <1>2, FS_EmptySet
<1> QED BY <1>1, <1>3, <1>4

\* Half of the subsets of a set with one more element have it.
LEMMA SubsetsWith ==
  ASSUME NEW A, NEW e, e \notin A
  PROVE  /\ SUBSET (A \cup {e}) = (SUBSET A) \cup ((SUBSET (A \cup {e})) \ (SUBSET A))
         /\ ExistsBijection(SUBSET A, (SUBSET (A \cup {e})) \ (SUBSET A))
<1> DEFINE S == SUBSET A
           T == (SUBSET (A \cup {e})) \ (SUBSET A)
           Plus(x) == x \cup {e}
           g == [x \in S |-> Plus(x)]
<1>1. SUBSET (A \cup {e}) = S \cup T
  OBVIOUS
<1>2. \A x \in S : Plus(x) \in T
  OBVIOUS
<1>3. \A x \in S, y \in S : Plus(x) = Plus(y) => x = y
  OBVIOUS
<1>4. \A y \in T : \E x \in S : Plus(x) = y
  <2> SUFFICES ASSUME NEW y \in T PROVE \E x \in S : Plus(x) = y
    OBVIOUS
  <2>1. e \in y
    OBVIOUS
  <2>2. y \ {e} \in S /\ Plus(y \ {e}) = y
    BY <2>1
  <2> QED BY <2>2
<1>5. g \in [S -> T]
  BY <1>2
<1>6. \A x \in S : g[x] = Plus(x)
  OBVIOUS
<1> HIDE DEF g, Plus, S, T
<1>7. g \in Injection(S, T)
  BY <1>3, <1>5, <1>6 DEF Injection, IsInjective
<1>8. g \in Surjection(S, T)
  BY <1>4, <1>5, <1>6 DEF Surjection
<1>9. ExistsBijection(S, T)
  BY <1>7, <1>8 DEF ExistsBijection, Bijection
<1> QED BY <1>1, <1>9 DEF S, T

LEMMA PowerDoubles ==
  ASSUME NEW n \in Nat
  PROVE  2 ^ (n + 1) = 2 * 2 ^ n
<1> DEFINE S == SUBSET (1 .. n)
           T == (SUBSET (1 .. n + 1)) \ (SUBSET (1 .. n))
<1>1. IsFiniteSet(S) /\ Cardinality(S) = 2 ^ n
  BY SubsetsOfInterval
<1>2. IsFiniteSet(SUBSET (1 .. n + 1)) /\ Cardinality(SUBSET (1 .. n + 1)) = 2 ^ (n + 1)
  BY SubsetsOfInterval
<1>3. 1 .. n + 1 = (1 .. n) \cup {n + 1} /\ n + 1 \notin 1 .. n
  OBVIOUS
<1>4. SUBSET (1 .. n + 1) = S \cup T /\ ExistsBijection(S, T)
  BY <1>3, SubsetsWith, Zenon
<1>5. S \cap T = {}
  OBVIOUS
<1> HIDE DEF S, T
<1>6. IsFiniteSet(T) /\ Cardinality(T) = Cardinality(S)
  BY <1>1, <1>4, FS_Bijection
<1>7. Cardinality(S \cup T) = Cardinality(S) + Cardinality(T) - Cardinality(S \cap T)
  BY <1>1, <1>6, FS_Union
<1>8. Cardinality(S \cap T) = 0
  BY <1>5, FS_EmptySet
<1>9. 2 ^ n \in Nat
  BY PowerType
<1>10. 2 ^ (n + 1) = 2 ^ n + 2 ^ n - 0
  BY <1>1, <1>2, <1>4, <1>6, <1>7, <1>8
<1> QED BY <1>9, <1>10

LEMMA LeastNumber ==
  ASSUME NEW S \in SUBSET Nat, S # {}
  PROVE  \E x \in S : \A y \in S : x =< y
<1> DEFINE Less == OpToRel(<, Nat)
<1>1. Less = {ss \in Nat \X Nat : ss[1] < ss[2]}
  BY DEF OpToRel
<1>2. IsWellFoundedOn(Less, Nat)
  BY NatLessThanWellFounded
<1> HIDE DEF Less
<1>3. PICK x \in S : \A y \in S : ~ (<<y, x>> \in Less)
  BY <1>2, WFMin
<1>4. \A y \in S : ~ (y < x)
  BY <1>1, <1>3
<1> QED BY <1>4

\* Induction over the natural numbers, for a set of them.
LEMMA NumbersByInduction ==
  ASSUME NEW S, 0 \in S, \A n \in Nat : n \in S => n + 1 \in S
  PROVE  \A n \in Nat : n \in S
<1> SUFFICES ASSUME NEW n \in Nat, n \notin S PROVE FALSE
  OBVIOUS
<1> DEFINE Missing == {x \in Nat : x \notin S}
<1>1. n \in Missing
  OBVIOUS
<1>2. PICK x \in Missing : \A y \in Missing : x =< y
  BY <1>1, LeastNumber
<1>3. x # 0 /\ x \in Nat
  OBVIOUS
<1>4. x - 1 \in Nat /\ ~ (x =< x - 1) /\ x - 1 + 1 = x
  BY <1>3
<1>5. x - 1 \in S
  BY <1>2, <1>4
<1> QED BY <1>4, <1>5

LEMMA MulAssoc ==
  ASSUME NEW a \in Int, NEW b \in Int, NEW c \in Int
  PROVE  (a * b) * c = a * (b * c) /\ a * b = b * a
OBVIOUS

LEMMA PowerAdds ==
  ASSUME NEW a \in Nat
  PROVE  \A b \in Nat : 2 ^ (a + b) = 2 ^ a * 2 ^ b
<1> DEFINE S == {b \in Nat : 2 ^ (a + b) = 2 ^ a * 2 ^ b}
<1>1. 0 \in S
  <2>1. 2 ^ 0 = 1 /\ a + 0 = a /\ 2 ^ a \in Nat
    BY PowerType
  <2> QED BY <2>1
<1>2. ASSUME NEW n \in Nat, n \in S PROVE n + 1 \in S
  <2>1. 2 ^ a \in Nat /\ 2 ^ n \in Nat /\ 2 ^ (n + 1) \in Nat
    BY PowerType
  <2>2. 2 ^ (a + (n + 1)) = 2 * 2 ^ (a + n)
    <3>1. a + (n + 1) = (a + n) + 1 /\ a + n \in Nat
      OBVIOUS
    <3> QED BY <3>1, PowerDoubles
  <2>3. 2 ^ (n + 1) = 2 * 2 ^ n
    BY PowerDoubles
  <2>4. 2 ^ (a + n) = 2 ^ a * 2 ^ n
    BY <1>2
  <2> DEFINE A == 2 ^ a
             B == 2 ^ n
  <2>5. 2 * (A * B) = A * (2 * B)
    <3>1. A \in Nat /\ B \in Nat
      BY <2>1
    <3> HIDE DEF A, B
    <3> QED BY <3>1
  <2>6. 2 ^ (a + (n + 1)) = A * 2 ^ (n + 1)
    BY <2>2, <2>3, <2>4, <2>5
  <2> QED BY <2>6
<1> HIDE DEF S
<1>3. \A n \in Nat : n \in S
  BY <1>1, <1>2, NumbersByInduction
<1> QED BY <1>3 DEF S

-----------------------------------------------------------------------------
(* The spans of the layers.                                                *)

LEMMA DivExact ==
  ASSUME NEW a \in Nat \ {0}, NEW b \in Nat
  PROVE  (a * b) \div a = b
<1>1. a * b = a * b + 0 /\ 0 =< 0 /\ 0 < a
  OBVIOUS
<1> QED OBVIOUS

LEMMA SpanPower ==
  ASSUME NEW l \in 0 .. Layers
  PROVE  Span(l) = 2 ^ (Layers - l)
<1>1. l \in Nat /\ Layers - l \in Nat /\ l + (Layers - l) = Layers
  BY NttAssumption
<1>2. 2 ^ Layers = 2 ^ l * 2 ^ (Layers - l)
  BY <1>1, PowerAdds
<1>3. 2 ^ l \in Nat \ {0} /\ 2 ^ (Layers - l) \in Nat
  BY <1>1, PowerType
<1>4. Span(l) = (2 ^ l * 2 ^ (Layers - l)) \div (2 ^ l)
  BY <1>2, NttAssumption DEF Span
<1> QED BY <1>3, <1>4, DivExact

LEMMA SpanFacts ==
  ASSUME NEW l \in 1 .. Layers
  PROVE  /\ Span(l) \in Nat \ {0} /\ Span(l - 1) = 2 * Span(l)
         /\ FirstUp(l) \in Nat \ {0} /\ N = 2 * (Span(l) * FirstUp(l))
         /\ FirstDown(l - 1) = FirstUp(l) - 1 /\ FirstDown(l) = 2 * FirstUp(l) - 1
<1>1. l \in Nat /\ l - 1 \in Nat /\ Layers - l \in Nat /\ l \in 0 .. Layers
      /\ l - 1 \in 0 .. Layers /\ Layers - (l - 1) = (Layers - l) + 1 /\ l = (l - 1) + 1
  BY NttAssumption
<1>2. Span(l) = 2 ^ (Layers - l) /\ Span(l - 1) = 2 ^ ((Layers - l) + 1)
  BY <1>1, SpanPower
<1>3. 2 ^ (Layers - l) \in Nat \ {0} /\ 2 ^ (l - 1) \in Nat \ {0}
  BY <1>1, PowerType
<1>4. 2 ^ l = 2 * 2 ^ (l - 1)
  BY <1>1, PowerDoubles
<1>5. Span(l - 1) = 2 * Span(l)
  BY <1>1, <1>2, PowerDoubles
<1>6. N = 2 ^ l * 2 ^ (Layers - l)
  <2>1. l + (Layers - l) = Layers
    BY NttAssumption
  <2> QED BY <2>1, <1>1, PowerAdds, NttAssumption
<1>7. N = 2 * (Span(l) * FirstUp(l))
  <2> DEFINE s == 2 ^ (Layers - l)
             p == 2 ^ (l - 1)
  <2>1. N = (2 * p) * s
    BY <1>4, <1>6
  <2>2. (2 * p) * s = 2 * (s * p)
    <3>1. s \in Nat /\ p \in Nat
      BY <1>3
    <3> HIDE DEF s, p
    <3> QED BY <3>1
  <2> QED BY <1>2, <2>1, <2>2 DEF FirstUp
<1>8. FirstUp(l) = 2 ^ (l - 1) /\ FirstDown(l - 1) = 2 ^ (l - 1) - 1 /\ FirstDown(l) = 2 ^ l - 1
  BY DEF FirstUp, FirstDown
<1> QED BY <1>2, <1>3, <1>4, <1>5, <1>7, <1>8

LEMMA SpanEnds == Span(Layers) = 1 /\ Span(0) = N /\ N \in Nat \ {0}
<1>1. Layers \in 0 .. Layers /\ 0 \in 0 .. Layers /\ Layers - Layers = 0 /\ Layers - 0 = Layers
  BY NttAssumption
<1>2. Span(Layers) = 2 ^ 0 /\ Span(0) = 2 ^ Layers
  BY <1>1, SpanPower
<1>3. 2 ^ 0 = 1
  OBVIOUS
<1> QED BY <1>2, <1>3, NttAssumption, PowerType

-----------------------------------------------------------------------------
(* Sizes of what the arithmetic on one coefficient returns.                *)

\* R is even.
LEMMA Halves ==
  /\ R \div 2 \in Nat \ {0} /\ R = 2 * (R \div 2) /\ R \in Nat \ {0}
  /\ Q \in Nat \ {0} /\ Half \in Nat /\ 2 * Half =< Q + 1
  /\ (Layers + 1) * Q =< R \div 2 /\ N * Q =< R \div 2 /\ 2 * Q =< R \div 2
<1>1. R \in Nat /\ R % 2 = 0 /\ Q \in Nat /\ (QINV * Q) % R = 1 /\ QINV \in Nat
  BY NttAssumption
<1>2. Q \in Nat \ {0}
  <2>1. 2 ^ QBits \in Nat
    BY PowerType, NttAssumption
  <2>2. 5 * 2 ^ QBits < 6 * Q
    BY RangeAssumption
  <2> QED BY <1>1, <2>1, <2>2
<1>3. N \in Nat \ {0} /\ Layers \in Nat \ {0}
  BY SpanEnds, NttAssumption
<1>4. 2 * (N * Q) =< R
  BY <1>1, <1>3, RangeAssumption
<1>5. 2 * ((Layers + 1) * ((Layers + 1) * Q)) =< R
  BY <1>1, <1>3, RangeAssumption
<1>6. N * Q \in Nat /\ Q =< N * Q
  BY <1>2, <1>3
<1>7. (Layers + 1) * Q \in Nat /\ 2 * Q =< (Layers + 1) * Q
  BY <1>2, <1>3
<1>8. (Layers + 1) * Q =< (Layers + 1) * ((Layers + 1) * Q)
  <2> DEFINE y == (Layers + 1) * Q
  <2>1. y \in Nat /\ Layers + 1 \in Nat \ {0}
    BY <1>3, <1>7
  <2> HIDE DEF y
  <2>2. y =< (Layers + 1) * y
    BY <2>1
  <2> QED BY <2>2 DEF y
<1>9. R \in Nat \ {0} /\ R \div 2 \in Nat \ {0} /\ R = 2 * (R \div 2)
  BY <1>1, <1>2, <1>4, <1>6
<1>10. Half \in Nat /\ 2 * Half =< Q + 1
  BY <1>1 DEF Half
<1>11. (Layers + 1) * ((Layers + 1) * Q) \in Nat
  BY <1>7, <1>3
<1> QED BY <1>2, <1>4, <1>5, <1>6, <1>7, <1>8, <1>9, <1>10, <1>11

LEMMA Division ==
  ASSUME NEW x \in Int, NEW r \in Nat \ {0}
  PROVE  x \div r \in Int /\ x % r \in 0 .. r - 1 /\ x = (x \div r) * r + (x % r)
<1>1. x \div r \in Int
  OBVIOUS
<1>2. x % r \in Int /\ 0 =< x % r /\ x % r < r
  OBVIOUS
<1>3. x % r = x - r * (x \div r)
  OBVIOUS
<1> DEFINE q == x \div r
           y == x % r
<1>4. q \in Int /\ y \in 0 .. r - 1 /\ y = x - r * q
  BY <1>1, <1>2, <1>3
<1> HIDE DEF q, y
<1>5. r * q = q * r /\ r * q \in Int
  BY <1>4
<1>6. x = q * r + y
  BY <1>4, <1>5
<1> QED BY <1>4, <1>6 DEF q, y

LEMMA SignedFacts ==
  ASSUME NEW x \in Int
  PROVE  \E u \in Int : /\ Signed(x) = x - u * R
                        /\ -(R \div 2) =< Signed(x) /\ Signed(x) < R \div 2
<1> DEFINE y == x % R
           q == x \div R
<1>1. R \in Nat \ {0} /\ R = 2 * (R \div 2) /\ R \div 2 \in Nat
  BY Halves
<1>2. q \in Int /\ y \in 0 .. R - 1 /\ x = q * R + y
  BY <1>1, Division
<1>3. Signed(x) = IF y < R \div 2 THEN y ELSE y - R
  BY DEF Signed
<1> HIDE DEF y, q
<1> DEFINE h == R \div 2
<1>4. CASE y < h
  <2>1. Signed(x) = x - q * R
    BY <1>1, <1>2, <1>3, <1>4
  <2> QED BY <1>1, <1>2, <1>3, <1>4, <2>1
<1>5. CASE ~ (y < h)
  <2>1. y - R = x - (q + 1) * R
    BY <1>1, <1>2
  <2>2. Signed(x) = y - R /\ q + 1 \in Int
    BY <1>2, <1>3, <1>5
  <2>3. -h =< y - R /\ y - R < h
    BY <1>1, <1>2, <1>5
  <2> QED BY <2>1, <2>2, <2>3
<1> QED BY <1>4, <1>5

\* R divides what mld_montgomery_reduce divides by it.
LEMMA MontgomeryExact ==
  ASSUME NEW a \in Int
  PROVE  \E t \in Int : /\ MontgomeryReduce(a) \in Int
                        /\ MontgomeryReduce(a) * R = a - t * Q
                        /\ -(R \div 2) =< t /\ t < R \div 2
<1> DEFINE a0 == a % R
           p == a \div R
           t == Signed(a0 * QINV)
           v == (QINV * Q) \div R
<1>1. R \in Nat \ {0} /\ Q \in Nat /\ QINV \in Nat
  BY Halves, NttAssumption
<1>2. a0 \in Int /\ p \in Int /\ a = p * R + a0
  <2>1. a0 \in 0 .. R - 1 /\ p \in Int /\ a = p * R + a0
    BY <1>1, Division
  <2> HIDE DEF a0, p
  <2> QED BY <1>1, <2>1
<1>3. v \in Int /\ QINV * Q = v * R + 1
  <2> DEFINE c == QINV * Q
  <2>1. c \in Int /\ c % R = 1
    BY <1>1, NttAssumption
  <2> HIDE DEF c
  <2>2. c = (c \div R) * R + (c % R) /\ c \div R \in Int
    BY <1>1, <2>1, Division
  <2>3. c = (c \div R) * R + 1
    BY <1>1, <2>1, <2>2
  <2> QED BY <2>2, <2>3 DEF c
<1>4. a0 * QINV \in Int
  BY <1>1, <1>2
<1>5. PICK u \in Int : t = a0 * QINV - u * R /\ -(R \div 2) =< t /\ t < R \div 2
  BY <1>4, SignedFacts
<1>6. MontgomeryReduce(a) = (a - t * Q) \div R
  BY DEF MontgomeryReduce
<1>7. t \in Int
  BY <1>1, <1>4, <1>5
<1> HIDE DEF a0, p, t, v
<1>8. t * Q = (a0 * (v * R + 1)) - (u * Q) * R
  <2>1. t * Q = a0 * (QINV * Q) - (u * Q) * R
    BY <1>1, <1>2, <1>5
  <2> QED BY <1>3, <2>1
<1> DEFINE m == p - a0 * v + u * Q
<1>9. m \in Int
  BY <1>1, <1>2, <1>3
<1>10. a - t * Q = R * m
  BY <1>1, <1>2, <1>3, <1>8
<1> HIDE DEF m
<1>11. (R * m) \div R = m
  BY <1>1, <1>9
<1>12. MontgomeryReduce(a) = m /\ m * R = a - t * Q
  BY <1>1, <1>6, <1>9, <1>10, <1>11
<1> QED BY <1>5, <1>7, <1>9, <1>12

LEMMA MontgomerySize ==
  ASSUME NEW a \in Int, Abs(a) < Q * (R \div 2)
  PROVE  MontgomeryReduce(a) \in Int /\ Abs(MontgomeryReduce(a)) < Q
<1> DEFINE h == R \div 2
           m == MontgomeryReduce(a)
<1>1. PICK t \in Int : m \in Int /\ m * R = a - t * Q /\ -h =< t /\ t < h
  BY MontgomeryExact
<1>2. h \in Nat \ {0} /\ R = 2 * h /\ Q \in Nat \ {0}
  BY Halves
<1> HIDE DEF h, m
<1>3. a < Q * h /\ -(Q * h) < a
  <2>1. Q * h \in Int
    BY <1>2
  <2> QED BY <2>1 DEF Abs, h
<1>4. -(Q * h) =< t * Q /\ t * Q =< Q * h
  BY <1>1, <1>2
<1>5. m * (2 * h) < Q * (2 * h) /\ -(Q * (2 * h)) < m * (2 * h)
  BY <1>1, <1>2, <1>3, <1>4
<1>6. m < Q
  BY <1>1, <1>2, <1>5
<1>7. -Q < m
  <2>1. CASE m =< -Q
    <3>1. m * (2 * h) =< -Q * (2 * h)
      BY <1>1, <1>2, <2>1
    <3> QED BY <1>1, <1>2, <1>5, <3>1
  <2> QED BY <1>1, <1>2, <2>1
<1> QED BY <1>1, <1>2, <1>6, <1>7 DEF Abs, m

LEMMA AbsType ==
  ASSUME NEW a \in Int
  PROVE  /\ Abs(a) \in Nat
         /\ \A x \in Int : Abs(a) =< x <=> -x =< a /\ a =< x
         /\ \A x \in Int : Abs(a) < x <=> -x < a /\ a < x
BY DEF Abs

LEMMA AbsProduct ==
  ASSUME NEW a \in Int, NEW b \in Int, NEW x \in Nat, NEW y \in Nat,
         Abs(a) =< x, Abs(b) =< y
  PROVE  a * b \in Int /\ Abs(a * b) =< x * y
<1>1. -x =< a /\ a =< x /\ -y =< b /\ b =< y
  BY AbsType
<1>2. a * b =< x * y
  <2>1. CASE a >= 0 /\ b >= 0
    BY <1>1, <2>1
  <2>2. CASE a < 0 /\ b < 0
    <3>1. a * b = (-a) * (-b) /\ -a =< x /\ -b =< y /\ -a \in Nat /\ -b \in Nat
      BY <1>1, <2>2
    <3>2. (-a) * (-b) =< x * y
      BY <3>1
    <3> QED BY <3>1, <3>2
  <2>3. CASE (a < 0 /\ b >= 0) \/ (a >= 0 /\ b < 0)
    <3>1. a * b =< 0 /\ x * y >= 0
      BY <2>3
    <3> QED BY <3>1
  <2> QED BY <2>1, <2>2, <2>3
<1>3. -(x * y) =< a * b
  <2>1. CASE a >= 0 /\ b < 0
    <3>1. a * b = -(a * (-b)) /\ -b =< y /\ -b \in Nat
      BY <1>1, <2>1
    <3>2. a * (-b) =< x * y
      BY <1>1, <2>1, <3>1
    <3> QED BY <3>1, <3>2
  <2>2. CASE a < 0 /\ b >= 0
    <3>1. a * b = -((-a) * b) /\ -a =< x /\ -a \in Nat
      BY <1>1, <2>2
    <3>2. (-a) * b =< x * y
      BY <1>1, <2>2, <3>1
    <3> QED BY <3>1, <3>2
  <2>3. CASE (a >= 0 /\ b >= 0) \/ (a < 0 /\ b < 0)
    <3>1. a * b >= 0 /\ x * y >= 0
      BY <2>3
    <3> QED BY <3>1
  <2> QED BY <2>1, <2>2, <2>3
<1>4. a * b \in Int /\ x * y \in Int
  OBVIOUS
<1> QED BY <1>2, <1>3, <1>4, AbsType

\* One factor is a coefficient of any size, the other reduced.
LEMMA FqMulSize ==
  ASSUME NEW a \in Int, NEW b \in Int, Abs(a) =< R \div 2, Abs(b) < Q
  PROVE  FqMul(a, b) \in Int /\ Abs(FqMul(a, b)) < Q
<1> DEFINE h == R \div 2
<1>1. h \in Nat \ {0} /\ Q \in Nat \ {0}
  BY Halves
<1>2. Abs(b) =< Q - 1 /\ Q - 1 \in Nat
  BY <1>1, AbsType
<1>3. a * b \in Int /\ Abs(a * b) =< h * (Q - 1)
  BY <1>1, <1>2, AbsProduct
<1>4. Abs(a * b) \in Nat
  BY <1>3, AbsType
<1>5. h * (Q - 1) < Q * h
  <2> HIDE DEF h
  <2>1. h * (Q - 1) = Q * h - h /\ Q * h \in Int
    BY <1>1
  <2> QED BY <1>1, <2>1
<1>6. h * (Q - 1) \in Int /\ Q * h \in Int
  BY <1>1, <1>2
<1>7. Abs(a * b) < Q * (R \div 2)
  BY <1>3, <1>4, <1>5, <1>6
<1> QED BY <1>3, <1>7, MontgomerySize DEF FqMul

\* Both are coefficients of transforms.
LEMMA PointwiseSize ==
  ASSUME NEW a \in Int, NEW b \in Int,
         Abs(a) < (Layers + 1) * Q, Abs(b) < (Layers + 1) * Q
  PROVE  FqMul(a, b) \in Int /\ Abs(FqMul(a, b)) < Q
<1> DEFINE h == R \div 2
           m == Layers + 1
           x == m * Q
<1>1. h \in Nat \ {0} /\ Q \in Nat \ {0} /\ m \in Nat \ {0} /\ R = 2 * h
  BY Halves, NttAssumption
<1>2. 2 * m * m * Q =< R
  BY RangeAssumption
<1> HIDE DEF h, m
<1>3. x \in Nat \ {0}
  BY <1>1
<1>4. m * x =< h /\ m * x \in Int
  BY <1>1, <1>2
<1>5. x - 1 \in Nat /\ Abs(a) =< x - 1 /\ Abs(b) =< x
  BY <1>3, AbsType DEF m
<1>6. a * b \in Int /\ Abs(a * b) =< (x - 1) * x
  BY <1>3, <1>5, AbsProduct
<1>7. (x - 1) * x < x * x
  <2> HIDE DEF x
  <2>1. (x - 1) * x = x * x - x /\ x * x \in Int
    BY <1>3
  <2> QED BY <1>3, <2>1
<1>8. x * x = Q * (m * x)
  <2>1. x * x = (m * Q) * x
    OBVIOUS
  <2> HIDE DEF x
  <2>2. (m * Q) * x = Q * (m * x)
    BY <1>1, <1>3
  <2> QED BY <2>1, <2>2
<1> HIDE DEF x
<1>9. Q * (m * x) =< Q * h
  BY <1>1, <1>4
<1>10. Abs(a * b) \in Nat /\ (x - 1) * x \in Int /\ x * x \in Int /\ Q * h \in Int
  BY <1>1, <1>3, <1>6, AbsType
<1>11. Abs(a * b) < Q * h
  BY <1>6, <1>7, <1>8, <1>9, <1>10
<1> QED BY <1>6, <1>11, MontgomerySize DEF FqMul, h

LEMMA ReduceSize ==
  ASSUME NEW a \in Int, Abs(a) < 2 * Q
  PROVE  Reduce32(a) \in Int /\ Abs(Reduce32(a)) < Q
<1> DEFINE B == 2 ^ QBits
           b == 2 ^ (QBits - 1)
           q == (a + b) \div B
           y == (a + b) % B
<1>1. QBits - 1 \in Nat /\ (QBits - 1) + 1 = QBits /\ Q \in Nat \ {0}
  BY NttAssumption, Halves
<1>2. b \in Nat \ {0} /\ B = 2 * b
  BY <1>1, PowerType, PowerDoubles
<1>3. Q < B /\ 5 * B < 6 * Q
  BY RangeAssumption
<1>4. a + b \in Int /\ B \in Nat \ {0}
  BY <1>2
<1>5. q \in Int /\ y \in 0 .. B - 1 /\ a + b = q * B + y
  BY <1>4, Division
<1>6. Reduce32(a) = a - q * Q
  BY DEF Reduce32
<1>7. -(2 * Q) < a /\ a < 2 * Q
  BY <1>1, AbsType
<1> HIDE DEF B, b, q, y
<1>8. q =< 2
  <2>1. q * B < 3 * B
    BY <1>1, <1>2, <1>3, <1>5, <1>7
  <2>2. CASE q >= 3
    <3>1. q * B >= 3 * B
      BY <1>4, <1>5, <2>2
    <3> QED BY <1>4, <1>5, <2>1, <3>1
  <2> QED BY <1>5, <2>2
<1>9. -2 =< q
  <2>1. q * B > -(3 * B)
    BY <1>1, <1>2, <1>3, <1>5, <1>7
  <2>2. CASE q =< -3
    <3>1. q * B =< -(3 * B)
      BY <1>4, <1>5, <2>2
    <3> QED BY <1>4, <1>5, <2>1, <3>1
  <2> QED BY <1>5, <2>2
<1>10. q \in {-2, -1, 0, 1, 2}
  BY <1>5, <1>8, <1>9
<1>11. Reduce32(a) \in Int /\ -Q < Reduce32(a) /\ Reduce32(a) < Q
  BY <1>1, <1>2, <1>3, <1>4, <1>5, <1>6, <1>7, <1>10
<1> QED BY <1>1, <1>11, AbsType

LEMMA CAddSize ==
  ASSUME NEW a \in Int, Abs(a) < Q
  PROVE  CAddQ(a) \in Int /\ Abs(CAddQ(a)) < Q
BY Halves DEF CAddQ, Abs

Terms(terms, n, bound) ==
  \A i \in 1 .. n : terms[i] \in Int /\ Abs(terms[i]) =< bound

LEMMA SumSize ==
  ASSUME NEW n \in Nat, NEW terms, NEW bound \in Nat, Terms(terms, n, bound)
  PROVE  Sum(terms, n) \in Int /\ Abs(Sum(terms, n)) =< n * bound
<1> DEFINE Is(g, m) ==
             g = [i \in 0 .. m |-> IF i = 0 THEN 0 ELSE g[i - 1] + terms[i]]
           sum == CHOOSE g : Is(g, n)
<1>1. Sum(terms, n) = sum[n]
  BY DEF Sum
<1>2. \E g : Is(g, n)
  <2> DEFINE S == {m \in Nat : \E g : Is(g, m)}
  <2>1. 0 \in S
    <3> DEFINE g == [i \in 0 .. 0 |-> 0]
    <3>1. \A i \in 0 .. 0 : i = 0
      OBVIOUS
    <3>2. Is(g, 0)
      BY <3>1
    <3> QED BY <3>2
  <2>2. ASSUME NEW m \in Nat, m \in S PROVE m + 1 \in S
    <3>1. PICK g : Is(g, m)
      BY <2>2
    <3> DEFINE e == [i \in 0 .. m + 1 |-> IF i = m + 1 THEN g[m] + terms[m + 1] ELSE g[i]]
    <3>2. ASSUME NEW i \in 0 .. m + 1
          PROVE  e[i] = IF i = 0 THEN 0 ELSE e[i - 1] + terms[i]
      <4>1. CASE i = m + 1
        <5>1. e[i] = g[m] + terms[m + 1] /\ m \in 0 .. m + 1 /\ m # m + 1 /\ i # 0
          BY <4>1
        <5>2. e[m] = g[m] /\ i - 1 = m
          BY <4>1, <5>1
        <5> QED BY <4>1, <5>1, <5>2
      <4>2. CASE i # m + 1
        <5>1. i \in 0 .. m /\ e[i] = g[i]
          BY <4>2
        <5>2. g[i] = IF i = 0 THEN 0 ELSE g[i - 1] + terms[i]
          BY <3>1, <5>1
        <5>3. i # 0 => i - 1 \in 0 .. m + 1 /\ i - 1 # m + 1
          BY <5>1
        <5>4. i # 0 => e[i - 1] = g[i - 1]
          BY <5>3
        <5> QED BY <5>1, <5>2, <5>4
      <4> QED BY <4>1, <4>2
    <3>3. Is(e, m + 1)
      <4>1. e = [i \in 0 .. m + 1 |-> e[i]]
        OBVIOUS
      <4> HIDE DEF e
      <4> QED BY <3>2, <4>1
    <3> HIDE DEF e, Is
    <3> QED BY <3>3
  <2> HIDE DEF S
  <2>3. n \in S
    BY <2>1, <2>2, NumbersByInduction
  <2> QED BY <2>3 DEF S
<1>3. Is(sum, n)
  BY <1>2, Zenon
<1> HIDE DEF sum
<1> DEFINE T == {m \in Nat : m =< n => sum[m] \in Int /\ Abs(sum[m]) =< m * bound}
<1>4. 0 \in T
  <2>1. sum[0] = 0
    BY <1>3
  <2> QED BY <2>1 DEF Abs
<1>5. ASSUME NEW m \in Nat, m \in T PROVE m + 1 \in T
  <2> SUFFICES ASSUME m + 1 =< n
               PROVE  sum[m + 1] \in Int /\ Abs(sum[m + 1]) =< (m + 1) * bound
    OBVIOUS
  <2>1. sum[m] \in Int /\ Abs(sum[m]) =< m * bound
    BY <1>5
  <2>2. m + 1 \in 0 .. n /\ m + 1 # 0 /\ m + 1 - 1 = m
    OBVIOUS
  <2>3. sum[m + 1] = sum[m] + terms[m + 1]
    BY <1>3, <2>2
  <2>4. terms[m + 1] \in Int /\ Abs(terms[m + 1]) =< bound
    BY DEF Terms
  <2> DEFINE x == m * bound
  <2>5. (m + 1) * bound = x + bound /\ x \in Nat
    OBVIOUS
  <2> HIDE DEF x
  <2>6. Abs(sum[m] + terms[m + 1]) =< x + bound
    <3> DEFINE u == sum[m]
               v == terms[m + 1]
    <3>1. u \in Int /\ v \in Int /\ Abs(u) =< x /\ Abs(v) =< bound
      BY <2>1, <2>4 DEF x
    <3> HIDE DEF u, v
    <3>2. Abs(u + v) =< x + bound
      BY <2>5, <3>1 DEF Abs
    <3> QED BY <3>2 DEF u, v
  <2> QED BY <2>1, <2>3, <2>4, <2>5, <2>6
<1> HIDE DEF T, Is
<1>6. n \in T
  BY <1>4, <1>5, NumbersByInduction
<1> QED BY <1>1, <1>6 DEF T

\* mld_polyvecl_pointwise_acc_montgomery, a row of the matrix and transforms
LEMMA AccumulateSize ==
  ASSUME NEW j \in Index, NEW mat \in [1 .. L -> [Index -> 0 .. Q - 1]],
         NEW vec \in [1 .. L -> [Index -> Int]],
         \A i \in 1 .. L : Below(vec[i], Index, (Layers + 1) * Q)
  PROVE  /\ PointwiseAcc(mat, vec)[j] \in Int
         /\ Abs(PointwiseAcc(mat, vec)[j]) < Q
<1> DEFINE h == R \div 2
           x == (Layers + 1) * Q
           y == (Q - 1) * x
           terms == [i \in 1 .. L |-> mat[i][j] * vec[i][j]]
<1>1. /\ h \in Nat \ {0} /\ Q \in Nat \ {0} /\ R = 2 * h /\ L \in Nat \ {0}
      /\ Layers + 1 \in Nat \ {0}
  BY Halves, NttAssumption
<1>2. x \in Nat \ {0} /\ y \in Nat
  <2>1. x \in Nat \ {0}
    BY <1>1
  <2> HIDE DEF x
  <2> QED BY <1>1, <2>1
<1>3. L * x =< h
  <2>1. 2 * L * (Layers + 1) * Q = 2 * (L * ((Layers + 1) * Q))
    BY <1>1
  <2>2. L * ((Layers + 1) * Q) \in Int
    BY <1>1
  <2> QED BY <1>1, <2>1, <2>2, RangeAssumption
<1> HIDE DEF h
<1>4. Terms(terms, L, y)
  <2> SUFFICES ASSUME NEW i \in 1 .. L
               PROVE  terms[i] \in Int /\ Abs(terms[i]) =< y
    BY DEF Terms
  <2> DEFINE a == mat[i][j]
             b == vec[i][j]
  <2>1. a \in 0 .. Q - 1 /\ b \in Int /\ Abs(b) < x
    BY DEF Below
  <2>2. terms[i] = a * b
    OBVIOUS
  <2> HIDE DEF a, b, x, terms
  <2>3. a \in Int /\ Abs(a) =< Q - 1 /\ Q - 1 \in Nat
    BY <1>1, <2>1, AbsType
  <2>4. Abs(b) =< x
    BY <1>2, <2>1, AbsType
  <2>5. a * b \in Int /\ Abs(a * b) =< (Q - 1) * x
    BY <1>2, <2>1, <2>3, <2>4, AbsProduct
  <2> QED BY <2>2, <2>5
<1>5. PointwiseAcc(mat, vec)[j] = MontgomeryReduce(Sum(terms, L))
  BY DEF PointwiseAcc
<1> DEFINE s == Sum(terms, L)
<1> HIDE DEF terms
<1>6. s \in Int /\ Abs(s) =< L * y
  BY <1>1, <1>2, <1>4, SumSize
<1>7. L * y < Q * h
  <2>1. L * y = (Q - 1) * (L * x)
    <3> HIDE DEF x
    <3> QED BY <1>1, <1>2
  <2> DEFINE z == L * x
  <2>2. z \in Nat \ {0} /\ z =< h
    <3> HIDE DEF x
    <3> QED BY <1>1, <1>2, <1>3
  <2> HIDE DEF z
  <2>3. (Q - 1) * z = Q * z - z /\ Q * z \in Int
    BY <1>1, <2>2
  <2>4. Q * z =< Q * h
    BY <1>1, <2>2
  <2>5. Q * h \in Int
    BY <1>1
  <2>6. (Q - 1) * z < Q * h
    BY <2>2, <2>3, <2>4, <2>5
  <2> QED BY <2>1, <2>6 DEF z
<1>8. L * y \in Int /\ Q * h \in Int /\ Abs(s) \in Nat
  <2> HIDE DEF y
  <2>1. Abs(s) \in Nat
    BY <1>6, AbsType
  <2> QED BY <1>1, <1>2, <2>1
<1>9. Abs(s) < Q * h
  <2> HIDE DEF y, s
  <2> QED BY <1>6, <1>7, <1>8
<1>10. MontgomeryReduce(s) \in Int /\ Abs(MontgomeryReduce(s)) < Q
  BY <1>6, <1>9, MontgomerySize DEF h
<1> QED BY <1>5, <1>10

-----------------------------------------------------------------------------
(* The order of the instructions.                                          *)

Operations ==
  {"ntt", "invntt", "pointwise", "acc", "add", "sub", "shiftl", "reduce", "caddq"}
Variables == {"c", "t", "e", "h", "w", "v"}
Instructions == [do : Operations, on : Variables, with : Variables]

LEMMA InstructionType ==
  \A a \in Operations, b \in Variables, c \in Variables :
    I(a, b) \in Instructions /\ I2(a, b, c) \in Instructions
BY DEF I, I2, Instructions

Joins(u, s, t) ==
  /\ Len(u) = Len(s) + Len(t)
  /\ \A i \in 1 .. Len(s) : u[i] = s[i]
  /\ \A i \in 1 .. Len(t) : u[Len(s) + i] = t[i]

LEMMA Joined ==
  ASSUME NEW S, NEW s \in Seq(S), NEW t \in Seq(S), NEW u \in Seq(S), Joins(u, s, t)
  PROVE  s \o t = u
<1>1. s \o t \in Seq(S) /\ Len(s \o t) = Len(u)
  BY ConcatProperties DEF Joins
<1>2. \A i \in 1 .. Len(u) : (s \o t)[i] = u[i]
  <2> SUFFICES ASSUME NEW i \in 1 .. Len(u) PROVE (s \o t)[i] = u[i]
    OBVIOUS
  <2> DEFINE m == i - Len(s)
  <2>1. /\ Len(s) \in Nat /\ Len(t) \in Nat /\ Len(u) = Len(s) + Len(t)
        /\ i \in Int /\ i >= 1 /\ i =< Len(u)
    BY LenProperties DEF Joins
  <2>2. CASE i =< Len(s)
    BY <2>1, <2>2, ConcatProperties DEF Joins
  <2>3. CASE ~ (i =< Len(s))
    <3>1. m \in 1 .. Len(t) /\ m = i - Len(s)
      BY <2>1, <2>3
    <3> HIDE DEF m
    <3>2. (s \o t)[i] = t[m]
      BY <2>1, <2>3, <3>1, ConcatProperties DEF Joins
    <3>3. u[Len(s) + m] = t[m] /\ Len(s) + m = i
      BY <2>1, <3>1 DEF Joins
    <3> QED BY <3>2, <3>3
  <2> QED BY <2>2, <2>3
<1> QED BY <1>1, <1>2, SeqEqual

MatrixCode == <<I("ntt", "v"), I("acc", "w")>>
ProductCode(on) == <<I("ntt", "c"), I("ntt", "t"), I2("pointwise", on, "t")>>

LEMMA KeygenText ==
  KeygenT = <<I("ntt", "v"), I("acc", "w"), I("invntt", "w"), I2("add", "w", "e"),
              I("reduce", "w"), I("caddq", "w")>>
<1> DEFINE s == MatrixCode
           t == <<I("invntt", "w"), I2("add", "w", "e"), I("reduce", "w"),
                  I("caddq", "w")>>
           u == <<I("ntt", "v"), I("acc", "w"), I("invntt", "w"),
                  I2("add", "w", "e"), I("reduce", "w"), I("caddq", "w")>>
<1>1. s \in Seq(Instructions) /\ t \in Seq(Instructions) /\ u \in Seq(Instructions)
  BY InstructionType DEF Operations, Variables, MatrixCode
<1>2. Joins(u, s, t)
  BY DEF Joins, MatrixCode
<1>3. KeygenT = s \o t
  BY DEF KeygenT, MatrixTimes, MatrixCode
<1> HIDE DEF s, t, u
<1>4. s \o t = u
  BY <1>1, <1>2, Joined
<1> QED BY <1>3, <1>4 DEF u

LEMMA MaskText ==
  MaskW = <<I("ntt", "v"), I("acc", "w"), I("invntt", "w"), I("caddq", "w")>>
<1> DEFINE s == MatrixCode
           t == <<I("invntt", "w"), I("caddq", "w")>>
           u == <<I("ntt", "v"), I("acc", "w"), I("invntt", "w"), I("caddq", "w")>>
<1>1. s \in Seq(Instructions) /\ t \in Seq(Instructions) /\ u \in Seq(Instructions)
  BY InstructionType DEF Operations, Variables, MatrixCode
<1>2. Joins(u, s, t)
  BY DEF Joins, MatrixCode
<1>3. MaskW = s \o t
  BY DEF MaskW, MatrixTimes, MatrixCode
<1> HIDE DEF s, t, u
<1>4. s \o t = u
  BY <1>1, <1>2, Joined
<1> QED BY <1>3, <1>4 DEF u

LEMMA ResponseText ==
  ResponseZ = <<I("ntt", "c"), I("ntt", "t"), I2("pointwise", "w", "t"),
                I("invntt", "w"), I2("add", "w", "e"), I("reduce", "w")>>
<1> DEFINE s == ProductCode("w")
           t == <<I("invntt", "w"), I2("add", "w", "e"), I("reduce", "w")>>
           u == <<I("ntt", "c"), I("ntt", "t"), I2("pointwise", "w", "t"),
                  I("invntt", "w"), I2("add", "w", "e"), I("reduce", "w")>>
<1>1. s \in Seq(Instructions) /\ t \in Seq(Instructions) /\ u \in Seq(Instructions)
  BY InstructionType DEF Operations, Variables, ProductCode
<1>2. Joins(u, s, t)
  BY DEF Joins, ProductCode
<1>3. ResponseZ = s \o t
  BY DEF ResponseZ, Product, ProductCode
<1> HIDE DEF s, t, u
<1>4. s \o t = u
  BY <1>1, <1>2, Joined
<1> QED BY <1>3, <1>4 DEF u

LEMMA LowText ==
  SignLow = <<I("ntt", "c"), I("ntt", "t"), I2("pointwise", "h", "t"),
              I("invntt", "h"), I2("sub", "e", "h"), I("reduce", "e")>>
<1> DEFINE s == ProductCode("h")
           t == <<I("invntt", "h"), I2("sub", "e", "h"), I("reduce", "e")>>
           u == <<I("ntt", "c"), I("ntt", "t"), I2("pointwise", "h", "t"),
                  I("invntt", "h"), I2("sub", "e", "h"), I("reduce", "e")>>
<1>1. s \in Seq(Instructions) /\ t \in Seq(Instructions) /\ u \in Seq(Instructions)
  BY InstructionType DEF Operations, Variables, ProductCode
<1>2. Joins(u, s, t)
  BY DEF Joins, ProductCode
<1>3. SignLow = s \o t
  BY DEF SignLow, Product, ProductCode
<1> HIDE DEF s, t, u
<1>4. s \o t = u
  BY <1>1, <1>2, Joined
<1> QED BY <1>3, <1>4 DEF u

LEMMA HintText ==
  HintH = <<I("ntt", "c"), I("ntt", "t"), I2("pointwise", "h", "t"),
            I("invntt", "h"), I("reduce", "h")>>
<1> DEFINE s == ProductCode("h")
           t == <<I("invntt", "h"), I("reduce", "h")>>
           u == <<I("ntt", "c"), I("ntt", "t"), I2("pointwise", "h", "t"),
                  I("invntt", "h"), I("reduce", "h")>>
<1>1. s \in Seq(Instructions) /\ t \in Seq(Instructions) /\ u \in Seq(Instructions)
  BY InstructionType DEF Operations, Variables, ProductCode
<1>2. Joins(u, s, t)
  BY DEF Joins, ProductCode
<1>3. HintH = s \o t
  BY DEF HintH, Product, ProductCode
<1> HIDE DEF s, t, u
<1>4. s \o t = u
  BY <1>1, <1>2, Joined
<1> QED BY <1>3, <1>4 DEF u

LEMMA VerifyText ==
  VerifyW = <<I("ntt", "c"), I("shiftl", "t"), I("ntt", "t"),
              I2("pointwise", "h", "t"), I("ntt", "v"), I("acc", "w"),
              I2("sub", "w", "h"), I("reduce", "w"), I("invntt", "w"), I("caddq", "w")>>
<1> DEFINE s1 == <<I("ntt", "c"), I("shiftl", "t"), I("ntt", "t"),
                   I2("pointwise", "h", "t")>>
           s2 == MatrixCode
           s3 == <<I2("sub", "w", "h")>>
           s4 == <<I("reduce", "w"), I("invntt", "w"), I("caddq", "w")>>
           u2 == <<I("ntt", "c"), I("shiftl", "t"), I("ntt", "t"),
                   I2("pointwise", "h", "t"), I("ntt", "v"), I("acc", "w")>>
           u3 == <<I("ntt", "c"), I("shiftl", "t"), I("ntt", "t"),
                   I2("pointwise", "h", "t"), I("ntt", "v"), I("acc", "w"),
                   I2("sub", "w", "h")>>
           u4 == <<I("ntt", "c"), I("shiftl", "t"), I("ntt", "t"),
                   I2("pointwise", "h", "t"), I("ntt", "v"), I("acc", "w"),
                   I2("sub", "w", "h"), I("reduce", "w"), I("invntt", "w"),
                   I("caddq", "w")>>
<1>1. /\ s1 \in Seq(Instructions) /\ s2 \in Seq(Instructions)
      /\ s3 \in Seq(Instructions) /\ s4 \in Seq(Instructions)
  BY InstructionType DEF Operations, Variables, MatrixCode
<1>2. u2 \in Seq(Instructions) /\ u3 \in Seq(Instructions) /\ u4 \in Seq(Instructions)
  BY InstructionType DEF Operations, Variables
<1>3. Joins(u2, s1, s2)
  BY DEF Joins, MatrixCode
<1>4. Joins(u3, u2, s3)
  BY DEF Joins
<1>5. Joins(u4, u3, s4)
  BY DEF Joins
<1>6. VerifyW = ((s1 \o s2) \o s3) \o s4
  BY DEF VerifyW, Difference, MatrixTimes, MatrixCode
<1> HIDE DEF s1, s2, s3, s4, u2, u3, u4
<1>7. s1 \o s2 = u2
  BY <1>1, <1>2, <1>3, Joined
<1>8. u2 \o s3 = u3
  BY <1>1, <1>2, <1>4, Joined
<1>9. u3 \o s4 = u4
  BY <1>1, <1>2, <1>5, Joined
<1> QED BY <1>6, <1>7, <1>8, <1>9 DEF u4

Outputs == {"pointwise", "acc", "invntt", "add", "sub", "reduce", "caddq"}
Sums == {"add", "sub"}

\* An instruction before the n-th has left transforms of x.
Transformed(code, x, n) ==
  \E m \in 1 .. n - 1 : code[m].do = "ntt" /\ code[m].on = x

\* What the n-th instruction of a program rests on: nothing is transformed
\* twice, what is multiplied is transformed, sums are reduced at once.
InOrder(code, n) ==
  /\ code[n].do \in {"ntt", "shiftl"} \cup Outputs
  /\ code[n].do = "ntt" => /\ code[n].on \in {"c", "t", "v"}
                           /\ ~Transformed(code, code[n].on, n)
  /\ code[n].do = "shiftl" => code[n].on = "t"
  /\ code[n].do \in Outputs => code[n].on \in {"w", "h", "e"}
  /\ code[n].do = "pointwise" => /\ code[n].with = "t"
                                 /\ Transformed(code, "c", n)
                                 /\ Transformed(code, "t", n)
  /\ code[n].do = "acc" => Transformed(code, "v", n)
  /\ code[n].do \in Sums => code[n].with \in {"w", "h", "e"}
  /\ n > 1 /\ code[n - 1].do \in Sums =>
       code[n].do = "reduce" /\ code[n].on = code[n - 1].on

\* Only verification shifts, and what its caller passes.
ShiftsFirst(code, n) == n =< 2 /\ code[n].on # "v" /\ (n = 1 => code[n].on # "t")

\* A program is all in order.
Sound(c) ==
  /\ Len(Program[c]) \in Nat
  /\ \A n \in 1 .. Len(Program[c]) :
       /\ InOrder(Program[c], n)
       /\ Program[c][n].do = "shiftl" => c = "verify" /\ n = 2
       /\ c = "verify" /\ n =< 2 => ShiftsFirst(Program[c], n)
       /\ c = "verify" /\ n = 2 => Program[c][n].do = "shiftl"

LEMMA KeygenSound == Sound("keygen")
<1>1. Program["keygen"] = KeygenT
  BY DEF Program
<1> QED BY <1>1, KeygenText DEF Sound, InOrder, Transformed, Outputs, Sums, I, I2

LEMMA MaskSound == Sound("mask")
<1>1. Program["mask"] = MaskW
  BY DEF Program
<1> QED BY <1>1, MaskText DEF Sound, InOrder, Transformed, Outputs, Sums, I, I2

LEMMA ResponseSound == Sound("response")
<1>1. Program["response"] = ResponseZ
  BY DEF Program
<1> QED BY <1>1, ResponseText DEF Sound, InOrder, Transformed, Outputs, Sums, I, I2

LEMMA LowSound == Sound("low")
<1>1. Program["low"] = SignLow
  BY DEF Program
<1> QED BY <1>1, LowText DEF Sound, InOrder, Transformed, Outputs, Sums, I, I2

LEMMA HintSound == Sound("hint")
<1>1. Program["hint"] = HintH
  BY DEF Program
<1> QED BY <1>1, HintText DEF Sound, InOrder, Transformed, Outputs, Sums, I, I2

LEMMA VerifySound == Sound("verify")
<1>1. Program["verify"] = VerifyW
  BY DEF Program
<1> QED BY <1>1, VerifyText DEF Sound, InOrder, Transformed, Outputs, Sums, I, I2,
                              ShiftsFirst

LEMMA ProgramsSound == \A c \in DOMAIN Program : Sound(c)
<1>1. DOMAIN Program = {"keygen", "mask", "response", "low", "hint", "verify"}
  BY DEF Program
<1> QED BY <1>1, KeygenSound, MaskSound, ResponseSound, LowSound, HintSound, VerifySound

-----------------------------------------------------------------------------
(* The inductive invariant.                                                *)

\* How many times Q polynomial p stays below when instruction n of a program
\* has come to place i of its vector.
SizeAt(code, n, i, p) ==
  IF \/ Transformed(code, p[1], n)
     \/ n =< Len(code) /\ code[n].do = "ntt" /\ code[n].on = p[1] /\ p[2] < i
    THEN Layers + 1
    ELSE IF n > 1 /\ code[n - 1].do \in Sums /\ code[n - 1].on = p[1] THEN 2 ELSE 1

NttType ==
  /\ call \in DOMAIN Program /\ at \in 1 .. Len(Code) + 1
  /\ lane \in 1 .. L /\ ((Done \/ Code[at].on # "v") => lane = 1)
  /\ given \in Inputs /\ poly \in [Names -> [Index -> Int]]
  /\ layer \in 0 .. Layers /\ start \in Nat /\ k \in Int

InTransform == Now("ntt") \/ Now("invntt")

Sized ==
  \A p \in Names : (InTransform /\ p = On) \/ Below(poly[p], Index, SizeAt(Code, at, lane, p) * Q)

UpBounds ==
  /\ layer >= 1 /\ start < N
  /\ Below(poly[On], 0 .. start - 1, (layer + 1) * Q)
  /\ Below(poly[On], start .. N - 1, layer * Q)
  /\ 2 * (Span(layer) * k) = start + N

DownBounds ==
  IF layer = 0 THEN Below(poly[On], Index, N * Q)
  ELSE /\ start < N
       /\ Below(poly[On], 0 .. start - 1, Span(layer - 1) * Q)
       /\ Below(poly[On], start .. N - 1, Span(layer) * Q)
       /\ 2 * (Span(layer) * k) + start = 2 * N - 2 * Span(layer)

\* What is shifted has room for it.
Room(r) == \A j \in Index : Abs(r[j] * 2 ^ D) < Q

Inv ==
  /\ NttType /\ Sized
  /\ Now("ntt") => UpBounds
  /\ Now("invntt") => DownBounds
  /\ call = "verify" /\ at =< 2 => Room(poly[Single("t")])

LEMMA BelowMore ==
  ASSUME NEW r, NEW S, NEW a \in Int, NEW b \in Int, a =< b, Below(r, S, a),
         \A j \in S : r[j] \in Int
  PROVE  Below(r, S, b)
<1> SUFFICES ASSUME NEW j \in S PROVE Abs(r[j]) < b
  BY DEF Below
<1>1. Abs(r[j]) < a /\ Abs(r[j]) \in Int
  BY AbsType DEF Below
<1> QED BY <1>1

LEMMA InProgram ==
  ASSUME NttType, ~Done
  PROVE  /\ at \in 1 .. Len(Code) /\ Len(Code) \in Nat
         /\ InOrder(Code, at)
         /\ Code[at].do = "shiftl" => call = "verify" /\ at = 2
         /\ call = "verify" /\ at =< 2 => ShiftsFirst(Code, at)
         /\ call = "verify" /\ at = 2 => Code[at].do = "shiftl"
<1>1. Sound(call)
  BY ProgramsSound DEF NttType
<1>2. Len(Code) \in Nat /\ at \in 1 .. Len(Code)
  BY <1>1 DEF Sound, NttType, Done, Code
<1> QED BY <1>1, <1>2 DEF Sound, Code

LEMMA NamesAre ==
  /\ \A x \in {"c", "t", "e", "h", "w"} : Single(x) \in Names /\ Single(x) = <<x, 1>>
  /\ \A i \in 1 .. L : Vector(i) \in Names /\ Vector(i) = <<"v", i>>
  /\ \A p \in Names : \/ \E x \in {"c", "t", "e", "h", "w"} : p = <<x, 1>>
                      \/ \E i \in 1 .. L : p = <<"v", i>>
BY DEF Names, Single, Vector

LEMMA OnIsName ==
  ASSUME NttType, ~Done
  PROVE  On \in Names /\ On[1] = Code[at].on /\ On[2] = lane
<1>1. InOrder(Code, at)
  BY InProgram
<1>2. Code[at].on \in {"c", "t", "v", "w", "h", "e"}
  BY <1>1 DEF InOrder
<1>3. On = <<Code[at].on, lane>>
  BY DEF On
<1>4. lane \in 1 .. L /\ (Code[at].on # "v" => lane = 1)
  BY DEF NttType
<1> HIDE DEF On
<1>5. CASE Code[at].on = "v"
  BY <1>3, <1>4, <1>5, NamesAre
<1>6. CASE Code[at].on # "v"
  BY <1>2, <1>3, <1>4, <1>6, NamesAre
<1> QED BY <1>3, <1>5, <1>6

LEMMA SizeType ==
  ASSUME NEW code, NEW n, NEW i, NEW p
  PROVE  SizeAt(code, n, i, p) \in {1, 2, Layers + 1}
BY DEF SizeAt

LEMMA SizeFits ==
  ASSUME NEW s \in {1, 2, Layers + 1}
  PROVE  s \in Nat \ {0} /\ s * Q \in Nat /\ s * Q =< R \div 2
<1>1. Q \in Nat /\ Layers \in Nat /\ (Layers + 1) * Q =< R \div 2 /\ 2 * Q =< R \div 2
  BY Halves, NttAssumption
<1>2. R \div 2 \in Nat /\ 1 * Q = Q /\ (Layers + 1) * Q \in Nat
  BY <1>1, Halves
<1> QED BY <1>1, <1>2

\* Only c, t and the vector are transformed.
LEMMA TransformedIs ==
  ASSUME NttType, ~Done, NEW n \in 1 .. at, NEW x, Transformed(Code, x, n)
  PROVE  x \in {"c", "t", "v"}
<1>1. PICK m \in 1 .. n - 1 : Code[m].do = "ntt" /\ Code[m].on = x
  BY DEF Transformed
<1>2. at \in 1 .. Len(Code) /\ Len(Code) \in Nat
  BY InProgram
<1>3. m \in 1 .. Len(Code)
  BY <1>2
<1>4. InOrder(Code, m)
  BY <1>3, ProgramsSound DEF Sound, NttType, Code
<1> QED BY <1>1, <1>4 DEF InOrder

\* What is neither transformed nor a sum about to be reduced is below Q.
LEMMA ReducedBefore ==
  ASSUME NttType, ~Done, NEW p, p[2] \in Nat, ~ (p[2] < lane),
         ~Transformed(Code, p[1], at), ~ (Code[at].do = "reduce" /\ Code[at].on = p[1])
  PROVE  SizeAt(Code, at, lane, p) = 1
<1>1. InOrder(Code, at)
  BY InProgram
<1>2. ~ (at > 1 /\ Code[at - 1].do \in Sums /\ Code[at - 1].on = p[1])
  BY <1>1 DEF InOrder
<1> QED BY <1>2 DEF SizeAt

LEMMA OutputReduced ==
  ASSUME NttType, ~Done, Sized, NEW x \in {"w", "h", "e"}, ~InTransform,
         ~ (Code[at].do = "reduce" /\ Code[at].on = x), Code[at].do # "ntt"
  PROVE  Below(poly[Single(x)], Index, Q)
<1> DEFINE p == Single(x)
<1>1. p \in Names /\ p[1] = x /\ p[2] = 1
  BY NamesAre
<1>2. ~Transformed(Code, x, at)
  <2>1. at \in 1 .. at
    BY DEF NttType
  <2> QED BY <2>1, TransformedIs
<1>3. ~ (1 < lane)
  <2>1. InOrder(Code, at)
    BY InProgram
  <2>2. Code[at].on # "v"
    BY <2>1 DEF InOrder
  <2> QED BY <2>2 DEF NttType
<1> HIDE DEF p
<1>4. SizeAt(Code, at, lane, p) = 1
  BY <1>1, <1>2, <1>3, ReducedBefore
<1>5. Below(poly[p], Index, 1 * Q)
  BY <1>1, <1>4 DEF Sized
<1>6. 1 * Q = Q
  BY Halves
<1> QED BY <1>5, <1>6 DEF p

-----------------------------------------------------------------------------
(* Sizes of the results of one block.                                      *)

LEMMA ZetaSize ==
  ASSUME NEW i \in Index
  PROVE  /\ zetas[i] \in Int /\ -zetas[i] \in Int
         /\ Abs(zetas[i]) < Q /\ Abs(-zetas[i]) < Q
<1>1. Half \in Nat /\ 2 * Half =< Q + 1 /\ Q \in Nat \ {0}
  BY Halves
<1>2. zetas[i] \in 1 - Half .. Half - 1
  BY NttAssumption
<1> HIDE DEF Half
<1> QED BY <1>1, <1>2 DEF Abs

\* A block of len butterflies fits at start.
Fits(s, len) == s \in Nat /\ len \in Nat \ {0} /\ s + 2 * len =< N

LEMMA ForwardSize ==
  ASSUME NEW r \in [Index -> Int], NEW i \in Index, NEW s, NEW len, Fits(s, len),
         NEW l \in 1 .. Layers,
         Below(r, 0 .. s - 1, (l + 1) * Q), Below(r, s .. N - 1, l * Q)
  PROVE  /\ Forward(r, zetas[i], s, len) \in [Index -> Int]
         /\ Below(Forward(r, zetas[i], s, len), 0 .. s + 2 * len - 1, (l + 1) * Q)
         /\ Below(Forward(r, zetas[i], s, len), s + 2 * len .. N - 1, l * Q)
<1> DEFINE F == Forward(r, zetas[i], s, len)
           z == zetas[i]
           a == l * Q
           h == R \div 2
<1>1. s \in Nat /\ len \in Nat \ {0} /\ s + 2 * len =< N /\ N \in Nat
  BY SpanEnds DEF Fits
<1>2. z \in Int /\ Abs(z) < Q
  BY ZetaSize
<1>3. l \in Nat \ {0} /\ Q \in Nat \ {0} /\ a \in Nat \ {0} /\ (l + 1) * Q = a + Q
  BY Halves, NttAssumption
<1>4. a =< h /\ h \in Nat
  <2>1. (Layers + 1) * Q =< h /\ h \in Nat
    BY Halves
  <2>2. a =< (Layers + 1) * Q
    <3>1. Layers \in Nat /\ l =< Layers + 1
      BY NttAssumption
    <3> QED BY <1>3, <3>1
  <2>3. (Layers + 1) * Q \in Nat
    BY <1>3, NttAssumption
  <2> HIDE DEF h, a
  <2> QED BY <1>3, <2>1, <2>2, <2>3
<1> HIDE DEF a, z, h
<1>5. ASSUME NEW m \in s .. N - 1
      PROVE  r[m] \in Int /\ Abs(r[m]) < a
  BY <1>1, <1>5 DEF Below, Index, a
<1>6. ASSUME NEW m \in s .. N - 1
      PROVE  FqMul(r[m], z) \in Int /\ Abs(FqMul(r[m], z)) < Q
  <2>1. Abs(r[m]) =< h /\ r[m] \in Int
    BY <1>3, <1>4, <1>5, AbsType, SMTT(30)
  <2> QED BY <1>2, <2>1, FqMulSize DEF h
<1>7. ASSUME NEW j \in Index
      PROVE  /\ F[j] \in Int
             /\ j < s + 2 * len => Abs(F[j]) < a + Q
             /\ j >= s + 2 * len => Abs(F[j]) < a
  <2>1. F[j] = IF j < s \/ j >= s + 2 * len THEN r[j]
               ELSE IF j < s + len THEN r[j] + FqMul(r[j + len], z)
                                   ELSE r[j - len] - FqMul(r[j], z)
    BY DEF Forward, z
  <2> HIDE DEF F
  <2>2. j \in Nat /\ j < N /\ r[j] \in Int
    BY <1>1 DEF Index
  <2>3. CASE j < s
    <3>1. F[j] = r[j] /\ j \in 0 .. s - 1
      BY <2>1, <2>2, <2>3, <1>1
    <3>2. Abs(r[j]) < a + Q
      BY <1>3, <3>1 DEF Below
    <3> QED BY <1>1, <2>2, <2>3, <3>1, <3>2
  <2>4. CASE j >= s + 2 * len
    <3>1. F[j] = r[j] /\ j \in s .. N - 1
      BY <2>1, <2>2, <2>4, <1>1
    <3>2. Abs(r[j]) < a
      BY <1>5, <3>1
    <3> QED BY <1>1, <2>2, <2>4, <3>1, <3>2
  <2>5. CASE s =< j /\ j < s + len
    <3>1. F[j] = r[j] + FqMul(r[j + len], z)
      BY <2>1, <2>2, <2>5, <1>1
    <3>2. j \in s .. N - 1 /\ j + len \in s .. N - 1
      BY <2>2, <2>5, <1>1
    <3> DEFINE u == r[j]
               v == FqMul(r[j + len], z)
    <3>3. u \in Int /\ Abs(u) < a /\ v \in Int /\ Abs(v) < Q
      BY <1>5, <1>6, <3>2
    <3> HIDE DEF u, v
    <3>4. u + v \in Int /\ Abs(u + v) < a + Q
      BY <1>3, <3>3 DEF Abs
    <3> QED BY <1>1, <2>2, <2>5, <3>1, <3>4 DEF u, v
  <2>6. CASE s + len =< j /\ j < s + 2 * len
    <3>1. F[j] = r[j - len] - FqMul(r[j], z)
      BY <2>1, <2>2, <2>6, <1>1
    <3>2. j \in s .. N - 1 /\ j - len \in s .. N - 1
      BY <2>2, <2>6, <1>1
    <3> DEFINE u == r[j - len]
               v == FqMul(r[j], z)
    <3>3. u \in Int /\ Abs(u) < a /\ v \in Int /\ Abs(v) < Q
      BY <1>5, <1>6, <3>2
    <3> HIDE DEF u, v
    <3>4. u - v \in Int /\ Abs(u - v) < a + Q
      BY <1>3, <3>3 DEF Abs
    <3> QED BY <1>1, <2>2, <2>6, <3>1, <3>4 DEF u, v
  <2> QED BY <1>1, <2>2, <2>3, <2>4, <2>5, <2>6
<1>8. F \in [Index -> Int]
  <2>1. F = [j \in Index |-> F[j]]
    BY DEF Forward
  <2> HIDE DEF F
  <2> QED BY <1>7, <2>1
<1> HIDE DEF F
<1>9. Below(F, 0 .. s + 2 * len - 1, a + Q)
  BY <1>1, <1>7 DEF Below, Index
<1>10. Below(F, s + 2 * len .. N - 1, a)
  BY <1>1, <1>7 DEF Below, Index
<1> QED BY <1>3, <1>8, <1>9, <1>10 DEF F, a

LEMMA BackwardSize ==
  ASSUME NEW r \in [Index -> Int], NEW i \in Index, NEW s, NEW len, Fits(s, len),
         Below(r, 0 .. s - 1, 2 * len * Q), Below(r, s .. N - 1, len * Q)
  PROVE  /\ Backward(r, zetas[i], s, len) \in [Index -> Int]
         /\ Below(Backward(r, zetas[i], s, len), 0 .. s + 2 * len - 1, 2 * len * Q)
         /\ Below(Backward(r, zetas[i], s, len), s + 2 * len .. N - 1, len * Q)
<1> DEFINE F == Backward(r, zetas[i], s, len)
           z == -zetas[i]
           a == len * Q
           h == R \div 2
<1>1. s \in Nat /\ len \in Nat \ {0} /\ s + 2 * len =< N /\ N \in Nat
  BY SpanEnds DEF Fits
<1>2. z \in Int /\ Abs(z) < Q
  BY ZetaSize
<1>3. Q \in Nat \ {0} /\ a \in Nat \ {0} /\ 2 * len * Q = 2 * a /\ Q =< a
  BY <1>1, Halves
<1>4. 2 * a =< h /\ h \in Nat
  <2>1. N * Q =< h /\ h \in Nat
    BY Halves
  <2>2. 2 * len * Q =< N * Q
    <3>1. 2 * len \in Nat /\ 2 * len =< N
      BY <1>1
    <3> QED BY <1>1, <1>3, <3>1
  <2>3. N * Q \in Nat
    BY <1>1, <1>3
  <2> HIDE DEF h, a
  <2> QED BY <1>3, <2>1, <2>2, <2>3
<1> HIDE DEF a, z, h
<1>5. ASSUME NEW m \in s .. N - 1
      PROVE  r[m] \in Int /\ Abs(r[m]) < a
  BY <1>1, <1>5 DEF Below, Index, a
<1>6. ASSUME NEW m \in s .. N - 1, NEW n \in s .. N - 1
      PROVE  FqMul(r[m] - r[n], z) \in Int /\ Abs(FqMul(r[m] - r[n], z)) < Q
  <2> DEFINE u == r[m]
             v == r[n]
  <2>1. u \in Int /\ Abs(u) < a /\ v \in Int /\ Abs(v) < a
    BY <1>5
  <2> HIDE DEF u, v
  <2>2. u - v \in Int /\ Abs(u - v) =< h
    BY <1>3, <1>4, <2>1 DEF Abs
  <2>3. FqMul(u - v, z) \in Int /\ Abs(FqMul(u - v, z)) < Q
    BY <1>2, <2>2, FqMulSize DEF h
  <2> QED BY <2>3 DEF u, v
<1>7. ASSUME NEW j \in Index
      PROVE  /\ F[j] \in Int
             /\ j < s + 2 * len => Abs(F[j]) < 2 * a
             /\ j >= s + 2 * len => Abs(F[j]) < a
  <2>1. F[j] = IF j < s \/ j >= s + 2 * len THEN r[j]
               ELSE IF j < s + len THEN r[j] + r[j + len]
                                   ELSE FqMul(r[j - len] - r[j], z)
    BY DEF Backward, z
  <2> HIDE DEF F
  <2>2. j \in Nat /\ j < N /\ r[j] \in Int
    BY <1>1 DEF Index
  <2>3. CASE j < s
    <3>1. F[j] = r[j] /\ j \in 0 .. s - 1
      BY <2>1, <2>2, <2>3, <1>1
    <3>2. Abs(r[j]) < 2 * a
      BY <1>3, <3>1 DEF Below
    <3> QED BY <1>1, <2>2, <2>3, <3>1, <3>2
  <2>4. CASE j >= s + 2 * len
    <3>1. F[j] = r[j] /\ j \in s .. N - 1
      BY <2>1, <2>2, <2>4, <1>1
    <3>2. Abs(r[j]) < a
      BY <1>5, <3>1
    <3> QED BY <1>1, <2>2, <2>4, <3>1, <3>2
  <2>5. CASE s =< j /\ j < s + len
    <3>1. F[j] = r[j] + r[j + len]
      BY <2>1, <2>2, <2>5, <1>1
    <3>2. j \in s .. N - 1 /\ j + len \in s .. N - 1
      BY <2>2, <2>5, <1>1
    <3> DEFINE u == r[j]
               v == r[j + len]
    <3>3. u \in Int /\ Abs(u) < a /\ v \in Int /\ Abs(v) < a
      BY <1>5, <3>2
    <3> HIDE DEF u, v
    <3>4. u + v \in Int /\ Abs(u + v) < 2 * a
      BY <1>3, <3>3 DEF Abs
    <3> QED BY <1>1, <2>2, <2>5, <3>1, <3>4 DEF u, v
  <2>6. CASE s + len =< j /\ j < s + 2 * len
    <3>1. F[j] = FqMul(r[j - len] - r[j], z)
      BY <2>1, <2>2, <2>6, <1>1
    <3>2. j \in s .. N - 1 /\ j - len \in s .. N - 1
      BY <2>2, <2>6, <1>1
    <3> DEFINE u == FqMul(r[j - len] - r[j], z)
    <3>3. u \in Int /\ Abs(u) < Q
      BY <1>6, <3>2
    <3> HIDE DEF u
    <3>4. Abs(u) < 2 * a
      BY <1>3, <3>3, AbsType
    <3> QED BY <1>1, <2>2, <2>6, <3>1, <3>3, <3>4 DEF u
  <2> QED BY <1>1, <2>2, <2>3, <2>4, <2>5, <2>6
<1>8. F \in [Index -> Int]
  <2>1. F = [j \in Index |-> F[j]]
    BY DEF Backward
  <2> HIDE DEF F
  <2> QED BY <1>7, <2>1
<1> HIDE DEF F
<1>9. Below(F, 0 .. s + 2 * len - 1, 2 * a)
  BY <1>1, <1>7 DEF Below, Index
<1>10. Below(F, s + 2 * len .. N - 1, a)
  BY <1>1, <1>7 DEF Below, Index
<1> QED BY <1>3, <1>8, <1>9, <1>10 DEF F, a

\* Where the loop counters of a layer stand: blocks start at multiples of
\* their length, and the twiddle factor of each is in the table.
LEMMA UpPlace ==
  ASSUME NEW l \in 1 .. Layers, NEW s \in Nat, NEW z \in Int, s < N,
         2 * (Span(l) * z) = s + N
  PROVE  Fits(s, Span(l)) /\ z \in Index
<1> DEFINE S == Span(l)
           P == FirstUp(l)
           d == z - P
<1>1. S \in Nat \ {0} /\ P \in Nat \ {0} /\ N = 2 * (S * P)
  BY SpanFacts
<1> HIDE DEF S, P
<1>2. d \in Int /\ z = P + d
  BY <1>1
<1> HIDE DEF d
<1>3. s = 2 * (S * d)
  BY <1>1, <1>2 DEF S
<1>4. S * d < S * P /\ S * d >= 0
  BY <1>1, <1>2, <1>3
<1>5. d >= 0
  <2>1. CASE d < 0
    <3>1. S * d < 0
      BY <1>1, <1>2, <2>1
    <3> QED BY <1>1, <1>2, <1>4, <3>1
  <2> QED BY <1>2, <2>1
<1>6. d < P
  <2>1. CASE d >= P
    <3>1. S * d >= S * P
      BY <1>1, <1>2, <2>1
    <3> QED BY <1>1, <1>2, <1>4, <3>1
  <2> QED BY <1>1, <1>2, <2>1
<1>7. s + 2 * S =< N
  <2>1. S * (d + 1) =< S * P
    BY <1>1, <1>2, <1>6
  <2> QED BY <1>1, <1>2, <1>3, <2>1
<1>8. z \in 0 .. N - 1
  <2>1. S * P >= P
    BY <1>1
  <2>2. S * P \in Nat
    BY <1>1
  <2> QED BY <1>1, <1>2, <1>5, <1>6, <2>1, <2>2
<1> QED BY <1>1, <1>7, <1>8 DEF Fits, Index, S

LEMMA DownPlace ==
  ASSUME NEW l \in 1 .. Layers, NEW s \in Nat, NEW z \in Int, s < N,
         2 * (Span(l) * z) + s = 2 * N - 2 * Span(l)
  PROVE  Fits(s, Span(l)) /\ z \in Index
<1> DEFINE S == Span(l)
           P == FirstUp(l)
           e == 3 * P - 1 - z
<1>1. S \in Nat \ {0} /\ P \in Nat \ {0} /\ N = 2 * (S * P)
  BY SpanFacts
<1> HIDE DEF S, P
<1>2. e \in Int /\ z = 3 * P - 1 - e
  BY <1>1
<1> HIDE DEF e
<1>3. 2 * (S * e) = s + N
  <2>1. S * z = 3 * (S * P) - S - S * e
    BY <1>1, <1>2
  <2>2. S * e \in Int /\ S * P \in Int
    BY <1>1, <1>2
  <2>3. 2 * (S * z) + s = 2 * N - 2 * S
    BY DEF S
  <2>4. S * z \in Int
    BY <1>1
  <2> QED BY <1>1, <2>1, <2>2, <2>3, <2>4
<1>4. Fits(s, S) /\ e \in Index
  BY <1>2, <1>3, UpPlace DEF S
<1>5. P =< e /\ e < 2 * P
  <2>1. CASE e < P
    <3>1. S * e =< S * (P - 1)
      BY <1>1, <1>2, <2>1
    <3>2. S * (P - 1) = S * P - S /\ S * P \in Int /\ S * e \in Int
      BY <1>1, <1>2
    <3> QED BY <1>1, <1>3, <3>1, <3>2
  <2>2. CASE e >= 2 * P
    <3>1. S * e >= 2 * (S * P) /\ S * P \in Int /\ S * e \in Int
      BY <1>1, <1>2, <2>2
    <3> QED BY <1>1, <1>3, <3>1
  <2> QED BY <1>1, <1>2, <2>1, <2>2
<1>6. z \in 0 .. N - 1
  <2>1. S * P >= P /\ S * P \in Nat
    BY <1>1
  <2> QED BY <1>1, <1>2, <1>5, <2>1
<1> QED BY <1>4, <1>6 DEF Index, S

-----------------------------------------------------------------------------
(* Steps.                                                                  *)

\* How many times Q the result of an instruction stays below.
After(do) == IF do = "ntt" THEN Layers + 1 ELSE IF do \in Sums THEN 2 ELSE 1

LEMMA AfterType ==
  ASSUME NEW do
  PROVE  After(do) \in {1, 2, Layers + 1}
BY DEF After

LEMMA SizesOrdered ==
  ASSUME NEW s \in {1, 2, Layers + 1}, NEW u \in {1, 2, Layers + 1}, s =< u
  PROVE  s * Q \in Int /\ u * Q \in Int /\ s * Q =< u * Q
<1>1. s \in Nat /\ u \in Nat /\ Q \in Nat
  BY SizeFits, Halves
<1> QED BY <1>1

\* What a step leaves alone keeps its bound, and what is transformed,
\* multiplied or added has the one of its instruction.
LEMMA SizeKept ==
  ASSUME NttType, ~Done, NEW p \in Names, p # On, NEW n, NEW i,
         \/ n = at /\ i = lane + 1 /\ i =< L
         \/ n = at + 1 /\ i = 1 /\ (Code[at].on = "v" => lane = L)
  PROVE  SizeAt(Code, at, lane, p) =< SizeAt(Code, n, i, p)
<1>1. /\ at \in 1 .. Len(Code) /\ Len(Code) \in Nat /\ InOrder(Code, at)
      /\ lane \in 1 .. L /\ L \in Nat
      /\ Layers \in Nat \ {0}
  BY InProgram, NttAssumption DEF NttType
<1>2. p[2] \in 1 .. L /\ (p[1] # "v" => p[2] = 1)
      /\ p = <<p[1], p[2]>>
  <2>1. CASE \E x \in {"c", "t", "e", "h", "w"} : p = <<x, 1>>
    <3>1. PICK x \in {"c", "t", "e", "h", "w"} : p = <<x, 1>>
      BY <2>1
    <3>2. p[1] = x /\ p[2] = 1
      BY <3>1
    <3> QED BY <1>1, <3>1, <3>2, NttAssumption
  <2>2. CASE \E m \in 1 .. L : p = <<"v", m>>
    <3>1. PICK m \in 1 .. L : p = <<"v", m>>
      BY <2>2
    <3>2. p[1] = "v" /\ p[2] = m
      BY <3>1
    <3> QED BY <3>1, <3>2
  <2> QED BY <2>1, <2>2, NamesAre
<1>3. On = <<Code[at].on, lane>>
  BY DEF On
<1>4. Transformed(Code, p[1], at) => Transformed(Code, p[1], n)
  BY <1>1 DEF Transformed
<1>5. CASE SizeAt(Code, n, i, p) = Layers + 1
  <2>1. SizeAt(Code, at, lane, p) =< Layers + 1
    BY <1>1, SizeType
  <2> QED BY <1>5, <2>1
<1>6. CASE SizeAt(Code, n, i, p) # Layers + 1
  <2>1. ~Transformed(Code, p[1], n)
        /\ ~ (n =< Len(Code) /\ Code[n].do = "ntt" /\ Code[n].on = p[1] /\ p[2] < i)
    BY <1>6 DEF SizeAt
  <2>2. ~ (Code[at].do = "ntt" /\ Code[at].on = p[1] /\ p[2] < lane)
    <3>1. CASE n = at
      BY <1>1, <1>2, <2>1, <3>1
    <3>2. CASE n = at + 1
      <4>1. at \in 1 .. n - 1
        BY <1>1, <3>2
      <4> QED BY <2>1, <4>1 DEF Transformed
    <3> QED BY <3>1, <3>2
  <2>3. ~ (at > 1 /\ Code[at - 1].do \in Sums /\ Code[at - 1].on = p[1])
    <3> SUFFICES ASSUME at > 1, Code[at - 1].do \in Sums, Code[at - 1].on = p[1]
                 PROVE  FALSE
      OBVIOUS
    <3>1. Code[at].do = "reduce" /\ Code[at].on = p[1]
      BY <1>1 DEF InOrder
    <3>2. p[1] # "v"
      BY <1>1, <3>1 DEF InOrder, Outputs
    <3>3. p[2] = 1 /\ lane = 1
      BY <1>2, <3>1, <3>2 DEF NttType
    <3> QED BY <1>2, <1>3, <3>1, <3>3
  <2>4. SizeAt(Code, at, lane, p) = 1
    BY <1>4, <2>1, <2>2, <2>3 DEF SizeAt
  <2>5. 1 =< SizeAt(Code, n, i, p)
    BY <1>1, SizeType
  <2> QED BY <2>4, <2>5
<1> QED BY <1>5, <1>6

LEMMA SizeMade ==
  ASSUME NttType, ~Done, NEW n, NEW i,
         \/ n = at /\ i = lane + 1 /\ Code[at].on = "v"
         \/ n = at + 1 /\ i = 1
  PROVE  After(Code[at].do) =< SizeAt(Code, n, i, On)
<1>1. /\ at \in 1 .. Len(Code) /\ Len(Code) \in Nat /\ InOrder(Code, at)
      /\ lane \in 1 .. L /\ L \in Nat /\ Layers \in Nat \ {0}
  BY InProgram, NttAssumption DEF NttType
<1>2. On[1] = Code[at].on /\ On[2] = lane
  BY OnIsName
<1>3. CASE Code[at].do = "ntt"
  <2>1. SizeAt(Code, n, i, On) = Layers + 1
    <3>1. CASE n = at /\ i = lane + 1
      <4>1. n =< Len(Code) /\ Code[n].do = "ntt" /\ Code[n].on = On[1] /\ On[2] < i
        BY <1>1, <1>2, <1>3, <3>1
      <4> QED BY <4>1 DEF SizeAt
    <3>2. CASE n = at + 1
      <4>1. at \in 1 .. n - 1
        BY <1>1, <3>2
      <4>2. Transformed(Code, On[1], n)
        BY <1>2, <1>3, <4>1 DEF Transformed
      <4> QED BY <4>2 DEF SizeAt
    <3> QED BY <3>1, <3>2
  <2> QED BY <1>1, <1>3, <2>1 DEF After
<1>4. CASE Code[at].do \in Sums
  <2>1. Code[at].do # "ntt" /\ After(Code[at].do) = 2
    BY <1>4 DEF After, Sums
  <2>2. Code[at].on # "v"
    BY <1>1, <1>4 DEF InOrder, Outputs, Sums
  <2>3. n = at + 1 /\ n > 1 /\ n - 1 = at
    BY <1>1, <2>2
  <2>4. SizeAt(Code, n, i, On) \in {2, Layers + 1}
    BY <1>2, <1>4, <2>3 DEF SizeAt
  <2> QED BY <1>1, <2>1, <2>4
<1>5. CASE Code[at].do # "ntt" /\ Code[at].do \notin Sums
  <2>1. After(Code[at].do) = 1
    BY <1>5 DEF After
  <2> QED BY <1>1, <2>1, SizeType
<1> QED BY <1>3, <1>4, <1>5

\* The next polynomial to transform is reduced.
LEMMA NextReduced ==
  ASSUME NEW c \in DOMAIN Program, NEW n \in 1 .. Len(Program[c]), NEW i \in Nat, NEW p,
         p[1] = Program[c][n].on, p[2] = i,
         Program[c][n].do = "ntt" \/ Program[c][n].do = "invntt"
  PROVE  SizeAt(Program[c], n, i, p) = 1
<1> DEFINE code == Program[c]
<1>1. /\ Len(code) \in Nat /\ InOrder(code, n)
      /\ \A m \in 1 .. Len(code) : InOrder(code, m)
  BY ProgramsSound DEF Sound
<1>2. ~Transformed(code, p[1], n)
  <2>1. CASE code[n].do = "ntt"
    BY <1>1, <2>1 DEF InOrder
  <2>2. CASE code[n].do = "invntt"
    <3> SUFFICES ASSUME Transformed(code, p[1], n) PROVE FALSE
      OBVIOUS
    <3>1. PICK m \in 1 .. n - 1 : code[m].do = "ntt" /\ code[m].on = p[1]
      BY DEF Transformed
    <3>2. m \in 1 .. Len(code)
      BY <1>1
    <3>3. InOrder(code, m)
      BY <1>1, <3>2
    <3>4. p[1] \in {"c", "t", "v"}
      BY <3>1, <3>3 DEF InOrder
    <3>5. p[1] \in {"w", "h", "e"}
      BY <1>1, <2>2 DEF InOrder, Outputs
    <3> QED BY <3>4, <3>5
  <2> QED BY <2>1, <2>2
<1>3. ~ (n > 1 /\ code[n - 1].do \in Sums /\ code[n - 1].on = p[1])
  BY <1>1 DEF InOrder
<1>4. ~ (p[2] < i)
  OBVIOUS
<1> HIDE DEF code
<1>5. SizeAt(code, n, i, p) = 1
  BY <1>2, <1>3, <1>4 DEF SizeAt
<1> QED BY <1>5 DEF code

LEMMA NameOf ==
  ASSUME NEW c \in DOMAIN Program, NEW n \in 1 .. Len(Program[c]), NEW i \in 1 .. L,
         Program[c][n].on # "v" => i = 1
  PROVE  <<Program[c][n].on, i>> \in Names
<1> DEFINE x == Program[c][n].on
<1>1. InOrder(Program[c], n)
  BY ProgramsSound DEF Sound
<1>2. x \in {"c", "t", "v", "w", "h", "e"}
  BY <1>1 DEF InOrder
<1> HIDE DEF x
<1>3. <<x, i>> \in Names
  BY <1>2, NamesAre DEF x
<1> QED BY <1>3 DEF x

\* A transform begins with the first block of its first layer.
LEMMA Enters ==
  ASSUME NEW n \in Nat, NEW i, Enter(n, i), call' = call, Sound(call),
         Now("ntt")' => Below(poly[On]', Index, 1 * Q),
         Now("invntt")' => Below(poly[On]', Index, 1 * Q)
  PROVE  /\ Now("ntt")' => UpBounds'
         /\ Now("invntt")' => DownBounds'
         /\ layer' \in 0 .. Layers /\ start' \in Nat /\ k' \in Int
<1>1. Code' = Code /\ at' = n /\ start' = 0
  BY DEF Code, Enter
<1>2. /\ Layers \in Nat \ {0} /\ 1 \in 1 .. Layers /\ Layers \in 1 .. Layers
      /\ N \in Nat \ {0} /\ Q \in Nat
  BY NttAssumption, SpanEnds, Halves
<1>3. /\ FirstUp(1) \in Nat \ {0} /\ N = 2 * (Span(1) * FirstUp(1))
      /\ FirstUp(Layers) \in Nat \ {0} /\ N = 2 * (Span(Layers) * FirstUp(Layers))
      /\ FirstDown(Layers) = 2 * FirstUp(Layers) - 1
  BY <1>2, SpanFacts
<1>4. Span(Layers) = 1
  BY SpanEnds
<1>5. CASE n =< Len(Code) /\ Code[n].do = "invntt"
  <2>1. layer' = Layers /\ k' = FirstDown(Layers) /\ ~Now("ntt")'
    BY <1>1, <1>5 DEF Enter, Now
  <2>2. layer' \in 0 .. Layers /\ k' \in Int /\ start' \in Nat
    BY <1>1, <1>2, <1>3, <2>1
  <2>3. Now("invntt")' => DownBounds'
    <3> SUFFICES ASSUME Now("invntt")' PROVE DownBounds'
      OBVIOUS
    <3> DEFINE r == poly[On]'
    <3>1. Below(r, Index, 1 * Q)
      OBVIOUS
    <3> HIDE DEF r
    <3>2. Below(r, 0 .. 0 - 1, Span(Layers - 1) * Q)
      BY DEF Below
    <3>3. Below(r, 0 .. N - 1, Span(Layers) * Q)
      BY <1>4, <3>1 DEF Index
    <3>4. 2 * (1 * FirstDown(Layers)) + 0 = 2 * N - 2 * 1
      BY <1>2, <1>3, <1>4
    <3>5. layer' # 0 /\ start' < N
      BY <1>1, <1>2, <2>1
    <3> QED BY <1>1, <1>4, <2>1, <3>2, <3>3, <3>4, <3>5 DEF DownBounds, r
  <2> QED BY <2>1, <2>2, <2>3
<1>6. CASE ~ (n =< Len(Code) /\ Code[n].do = "invntt")
  <2>1. layer' = 1 /\ k' = FirstUp(1) /\ ~Now("invntt")'
    <3>1. layer' = 1 /\ k' = FirstUp(1)
      BY <1>6 DEF Enter
    <3>2. ~Now("invntt")'
      BY <1>1, <1>6 DEF Now, Done, Sound, Code
    <3> QED BY <3>1, <3>2
  <2>2. layer' \in 0 .. Layers /\ k' \in Int /\ start' \in Nat
    BY <1>1, <1>2, <1>3, <2>1
  <2>3. Now("ntt")' => UpBounds'
    <3> SUFFICES ASSUME Now("ntt")' PROVE UpBounds'
      OBVIOUS
    <3> DEFINE r == poly[On]'
    <3>1. Below(r, Index, 1 * Q)
      OBVIOUS
    <3> HIDE DEF r
    <3>2. Below(r, 0 .. 0 - 1, (1 + 1) * Q)
      BY DEF Below
    <3>3. Below(r, 0 .. N - 1, 1 * Q)
      BY <3>1 DEF Index
    <3>4. 2 * (Span(1) * FirstUp(1)) = 0 + N
      BY <1>2, <1>3
    <3>5. layer' >= 1 /\ start' < N
      BY <1>1, <1>2, <2>1
    <3> QED BY <1>1, <2>1, <3>2, <3>3, <3>4, <3>5 DEF UpBounds, r
  <2> QED BY <2>1, <2>2, <2>3
<1> QED BY <1>5, <1>6

\* The polynomials after an instruction that leaves r.
LEMMA Becoming ==
  ASSUME NttType, ~Done, NEW r \in [Index -> Int], Becomes(r)
  PROVE  /\ poly' \in [Names -> [Index -> Int]] /\ poly'[On] = r
         /\ \A p \in Names : p # On => poly'[p] = poly[p]
         /\ call' = call /\ given' = given /\ Code' = Code
<1>1. On \in Names
  BY OnIsName
<1>2. poly' = [poly EXCEPT ![On] = r] /\ call' = call /\ given' = given
  BY DEF Becomes
<1>3. poly \in [Names -> [Index -> Int]]
  BY DEF NttType
<1>4. Code' = Code
  BY <1>2 DEF Code
<1> HIDE DEF On
<1> QED BY <1>1, <1>2, <1>3, <1>4

LEMMA RoomKept ==
  ASSUME Inv, ~Done, NEW r \in [Index -> Int], Becomes(r), call = "verify",
         \/ at = 1
         \/ at = 2 /\ (Code[at].do = "ntt" \/ Code[at].do = "invntt")
  PROVE  Room(poly'[Single("t")])
<1>1. NttType
  BY DEF Inv
<1>2. Single("t") \in Names /\ Single("t") = <<"t", 1>> /\ On[1] = Code[at].on
  BY <1>1, NamesAre, OnIsName
<1>3. /\ at =< 2 => ShiftsFirst(Code, at)
      /\ at = 2 => Code[at].do = "shiftl"
  BY <1>1, InProgram
<1>4. at = 1
  BY <1>3
<1>5. Single("t")[1] = "t"
  BY <1>2
<1>6. Single("t") # On
  BY <1>2, <1>3, <1>4, <1>5 DEF ShiftsFirst
<1>7. poly'[Single("t")] = poly[Single("t")]
  BY <1>1, <1>2, <1>6, Becoming
<1> QED BY <1>4, <1>7 DEF Inv

\* An instruction with a result of its size, and nothing left to do for it,
\* keeps the invariant.
LEMMA Proceeds ==
  ASSUME Inv, ~Done, NEW r \in [Index -> Int], Becomes(r), Proceed,
         Below(r, Index, After(Code[at].do) * Q)
  PROVE  Inv'
<1>1. NttType /\ Sized
  BY DEF Inv
<1>2. /\ poly' \in [Names -> [Index -> Int]] /\ poly'[On] = r
      /\ \A p \in Names : p # On => poly'[p] = poly[p]
      /\ call' = call /\ given' = given /\ Code' = Code
  BY <1>1, Becoming
<1>3. /\ at \in 1 .. Len(Code) /\ Len(Code) \in Nat /\ InOrder(Code, at)
      /\ lane \in 1 .. L /\ L \in Nat \ {0} /\ Sound(call) /\ On \in Names
  BY <1>1, InProgram, OnIsName, ProgramsSound, NttAssumption DEF NttType
<1>4. \/ at' = at /\ lane' = lane + 1 /\ lane' =< L /\ Code[at].on = "v" /\ Enter(at, lane + 1)
      \/ at' = at + 1 /\ lane' = 1 /\ (Code[at].on = "v" => lane = L) /\ Enter(at + 1, 1)
  BY <1>3 DEF Proceed, Enter
<1>5. at' \in 1 .. Len(Code) + 1 /\ lane' \in 1 .. L
  BY <1>3, <1>4
<1>6. (Done' \/ Code[at'].on # "v") => lane' = 1
  <2>1. CASE at' = at /\ Code[at].on = "v"
    <3>1. ~Done'
      BY <1>2, <1>3, <2>1 DEF Done
    <3> QED BY <2>1, <3>1
  <2>2. CASE lane' = 1
    BY <2>2
  <2> QED BY <1>4, <2>1, <2>2
<1>7. ASSUME NEW p \in Names
      PROVE  Below(poly'[p], Index, SizeAt(Code, at', lane', p) * Q)
  <2> DEFINE s == SizeAt(Code, at, lane, p)
             u == SizeAt(Code, at', lane', p)
             v == After(Code[at].do)
  <2>1. s \in {1, 2, Layers + 1} /\ u \in {1, 2, Layers + 1} /\ v \in {1, 2, Layers + 1}
    BY SizeType, AfterType
  <2>2. CASE p = On
    <3>1. v =< u
      BY <1>1, <1>4, <2>2, SizeMade
    <3> HIDE DEF u, v
    <3>2. v * Q \in Int /\ u * Q \in Int /\ v * Q =< u * Q
      BY <2>1, <3>1, SizesOrdered
    <3>3. Below(r, Index, v * Q)
      BY DEF v
    <3>4. Below(r, Index, u * Q)
      BY <3>2, <3>3, BelowMore
    <3> QED BY <1>2, <2>2, <3>4 DEF u
  <2>3. CASE p # On
    <3>1. s =< u
      BY <1>1, <1>4, <2>3, SizeKept
    <3>2. Below(poly[p], Index, s * Q)
      BY <1>1, <2>3 DEF Sized
    <3> HIDE DEF s, u
    <3>3. s * Q \in Int /\ u * Q \in Int /\ s * Q =< u * Q
      BY <2>1, <3>1, SizesOrdered
    <3>4. \A j \in Index : poly[p][j] \in Int
      BY <1>1 DEF NttType
    <3>5. Below(poly[p], Index, u * Q)
      BY <3>2, <3>3, <3>4, BelowMore
    <3> QED BY <1>2, <2>3, <3>5 DEF u
  <2> QED BY <2>2, <2>3
<1>8. ASSUME at' =< Len(Code), Code[at'].do = "ntt" \/ Code[at'].do = "invntt"
      PROVE  Below(poly'[On'], Index, 1 * Q)
  <2>1. at' \in 1 .. Len(Code) /\ Code[at'].on # "v" => lane' = 1
    BY <1>6
  <2>2. at' \in 1 .. Len(Code)
    BY <1>5, <1>8, <1>3
  <2>3. On' = <<Code[at'].on, lane'>>
    BY <1>2 DEF On
  <2>4. On' \in Names
    BY <1>1, <1>5, <2>1, <2>2, <2>3, NameOf DEF NttType, Code
  <2> DEFINE p == <<Code[at'].on, lane'>>
  <2>5. p[1] = Code[at'].on /\ p[2] = lane' /\ lane' \in Nat
    BY <1>3, <1>5
  <2> HIDE DEF p
  <2>6. SizeAt(Code, at', lane', p) = 1
    BY <1>1, <1>8, <2>2, <2>5, NextReduced DEF NttType, Code
  <2> QED BY <1>7, <2>3, <2>4, <2>6 DEF p
<1>9. Now("ntt")' => Below(poly[On]', Index, 1 * Q)
  BY <1>2, <1>3, <1>5, <1>8 DEF Now, Done
<1>10. Now("invntt")' => Below(poly[On]', Index, 1 * Q)
  BY <1>2, <1>3, <1>5, <1>8 DEF Now, Done
<1>11. /\ Now("ntt")' => UpBounds'
       /\ Now("invntt")' => DownBounds'
       /\ layer' \in 0 .. Layers /\ start' \in Nat /\ k' \in Int
  <2>1. at \in Nat /\ at + 1 \in Nat
    BY <1>3
  <2>2. CASE Enter(at, lane + 1)
    BY <1>2, <1>3, <1>9, <1>10, <2>1, <2>2, Enters
  <2>3. CASE Enter(at + 1, 1)
    BY <1>2, <1>3, <1>9, <1>10, <2>1, <2>3, Enters
  <2> QED BY <1>4, <2>2, <2>3
<1>12. NttType'
  <2>1. (Done \/ Code[at].on # "v")' <=> (Done' \/ Code[at'].on # "v")
    BY <1>2
  <2>2. at' \in 1 .. Len(Code') + 1
    BY <1>2, <1>5
  <2> QED BY <1>1, <1>2, <1>5, <1>6, <1>11, <2>1, <2>2 DEF NttType
<1>13. Sized'
  BY <1>2, <1>7 DEF Sized
<1>14. call' = "verify" /\ at' =< 2 => Room(poly'[Single("t")])
  <2> SUFFICES ASSUME call = "verify", at' =< 2 PROVE Room(poly'[Single("t")])
    BY <1>2
  <2>1. at =< 2
    BY <1>3, <1>4
  <2>2. ShiftsFirst(Code, at)
    BY <1>1, <2>1, InProgram
  <2>3. Code[at].on # "v"
    BY <2>2 DEF ShiftsFirst
  <2>4. at = 1
    BY <1>3, <1>4, <2>3
  <2> QED BY <2>4, RoomKept
<1> QED BY <1>11, <1>12, <1>13, <1>14 DEF Inv

\* Within a transform, so does a block.
LEMMA Continues ==
  ASSUME Inv, InTransform, NEW r \in [Index -> Int], Becomes(r), UNCHANGED <<at, lane>>,
         layer' \in 0 .. Layers, start' \in Nat, k' \in Int,
         Now("ntt") => UpBounds', Now("invntt") => DownBounds'
  PROVE  Inv'
<1>1. NttType /\ Sized /\ ~Done
  BY DEF Inv, InTransform, Now
<1>2. /\ poly' \in [Names -> [Index -> Int]] /\ poly'[On] = r
      /\ \A p \in Names : p # On => poly'[p] = poly[p]
      /\ call' = call /\ given' = given /\ Code' = Code
  BY <1>1, Becoming
<1>3. /\ Done' = Done /\ On' = On /\ at' = at /\ lane' = lane
      /\ Now("ntt")' = Now("ntt") /\ Now("invntt")' = Now("invntt")
  BY <1>2 DEF Done, On, Now
<1>4. NttType'
  BY <1>1, <1>2, <1>3 DEF NttType
<1>5. Sized'
  <2> SUFFICES ASSUME NEW p \in Names, p # On
               PROVE  Below(poly'[p], Index, SizeAt(Code, at, lane, p) * Q)
    BY <1>2, <1>3 DEF Sized, InTransform
  <2> QED BY <1>1, <1>2 DEF Sized
<1>6. call' = "verify" /\ at' =< 2 => Room(poly'[Single("t")])
  <2> SUFFICES ASSUME call = "verify", at =< 2 PROVE Room(poly'[Single("t")])
    BY <1>2, <1>3
  <2>1. at = 1 \/ at = 2
    <3>1. at \in 1 .. Len(Code) /\ Len(Code) \in Nat
      BY <1>1, InProgram
    <3> QED BY <3>1
  <2>2. Code[at].do = "ntt" \/ Code[at].do = "invntt"
    BY DEF InTransform, Now
  <2> QED BY <1>1, <2>1, <2>2, RoomKept
<1> QED BY <1>3, <1>4, <1>5, <1>6 DEF Inv

-----------------------------------------------------------------------------
(* Every action keeps the invariant.                                       *)

LEMMA InitInv == NttInit => Inv
<1> SUFFICES ASSUME NttInit PROVE Inv
  OBVIOUS
<1>1. /\ call \in DOMAIN Program /\ at = 1 /\ lane = 1 /\ given \in Inputs
      /\ poly = given.poly /\ layer = 1 /\ start = 0 /\ k = FirstUp(1)
      /\ call = "verify" => Room(poly[Single("t")])
  BY DEF NttInit, Room
<1>2. /\ Layers \in Nat \ {0} /\ 1 \in 1 .. Layers /\ N \in Nat \ {0} /\ Q \in Nat
      /\ 1 \in 1 .. L /\ FirstUp(1) \in Nat \ {0} /\ N = 2 * (Span(1) * FirstUp(1))
  <2>1. Layers \in Nat \ {0} /\ 1 \in 1 .. Layers /\ 1 \in 1 .. L
    BY NttAssumption
  <2> QED BY <2>1, SpanEnds, SpanFacts, Halves
<1>3. Len(Code) \in Nat
  BY <1>1, ProgramsSound DEF Sound, Code
<1>4. /\ poly \in [Names -> [Index -> Int]]
      /\ \A p \in Names : Below(poly[p], Index, Q)
  <2>1. poly \in [Names -> [Index -> Word]] /\ \A p \in Names : Below(poly[p], Index, Q)
    BY <1>1, InputAssumption DEF Polynomial
  <2>2. Word \subseteq Int
    BY Halves DEF Word
  <2> HIDE DEF Word
  <2> QED BY <2>1, <2>2
<1>5. NttType
  BY <1>1, <1>2, <1>3, <1>4 DEF NttType
<1>6. Sized
  <2> SUFFICES ASSUME NEW p \in Names
               PROVE  Below(poly[p], Index, SizeAt(Code, at, lane, p) * Q)
    BY DEF Sized
  <2> DEFINE s == SizeAt(Code, at, lane, p)
  <2>1. s \in {1, 2, Layers + 1}
    BY SizeType
  <2> HIDE DEF s
  <2>2. s \in Nat \ {0} /\ s * Q \in Nat
    BY <2>1, SizeFits
  <2>3. Q =< s * Q
    BY <1>2, <2>2
  <2>4. Below(poly[p], Index, s * Q)
    BY <1>2, <1>4, <2>2, <2>3, BelowMore
  <2> QED BY <2>4 DEF s
<1>7. Now("ntt") => UpBounds
  <2> SUFFICES ASSUME Now("ntt") PROVE UpBounds
    OBVIOUS
  <2>1. On \in Names
    BY <1>5, OnIsName DEF Now
  <2> DEFINE r == poly[On]
  <2>2. Below(r, Index, Q)
    BY <1>4, <2>1
  <2> HIDE DEF r
  <2>3. Below(r, 0 .. 0 - 1, (1 + 1) * Q) /\ 1 * Q = Q
    BY <1>2 DEF Below
  <2>4. Below(r, 0 .. N - 1, 1 * Q)
    BY <2>2, <2>3 DEF Index
  <2>5. 2 * (Span(1) * FirstUp(1)) = 0 + N
    BY <1>2
  <2> QED BY <1>1, <1>2, <2>3, <2>4, <2>5 DEF UpBounds, r
<1>8. ~Now("invntt")
  <2>1. CASE ~Done
    <3>1. at \in 1 .. Len(Code) /\ InOrder(Code, at) /\ Sound(call)
      BY <1>5, <2>1, InProgram, ProgramsSound DEF NttType
    <3>2. Code[1].do # "invntt"
      BY <1>1, KeygenText, MaskText, ResponseText, LowText, HintText, VerifyText
         DEF Program, Code, I
    <3> QED BY <1>1, <3>2 DEF Now
  <2> QED BY <2>1 DEF Now
<1> QED BY <1>1, <1>5, <1>6, <1>7, <1>8 DEF Inv

LEMMA NttBlockInv == Inv /\ NttBlock => Inv'
<1> SUFFICES ASSUME Inv, NttBlock PROVE Inv'
  OBVIOUS
<1> DEFINE S == Span(layer)
           r == Forward(poly[On], zetas[k], start, S)
<1>1. Now("ntt") /\ ~Done /\ Code[at].do = "ntt" /\ NttType /\ UpBounds /\ InTransform
  BY DEF NttBlock, Now, Inv, InTransform
<1>2. /\ layer \in 1 .. Layers /\ start \in Nat /\ k \in Int /\ start < N
      /\ Layers \in Nat \ {0} /\ N \in Nat \ {0} /\ Q \in Nat \ {0}
      /\ 2 * (S * k) = start + N /\ On \in Names
  BY <1>1, NttAssumption, SpanEnds, Halves, OnIsName DEF NttType, UpBounds
<1>3. Fits(start, S) /\ k \in Index
  BY <1>2, UpPlace
<1>4. S \in Nat \ {0} /\ start + 2 * S =< N
  BY <1>3 DEF Fits
<1>5. poly[On] \in [Index -> Int]
  BY <1>1, <1>2 DEF NttType
<1>6. /\ r \in [Index -> Int]
      /\ Below(r, 0 .. start + 2 * S - 1, (layer + 1) * Q)
      /\ Below(r, start + 2 * S .. N - 1, layer * Q)
  BY <1>1, <1>2, <1>3, <1>5, ForwardSize DEF UpBounds
<1>7. Becomes(r) /\ ~Now("invntt")
  BY <1>1 DEF NttBlock, Now
<1>8. poly'[On] = r /\ Code' = Code
  BY <1>1, <1>6, <1>7, Becoming
<1> HIDE DEF r
<1>9. CASE start + 2 * S < N /\ start' = start + 2 * S /\ k' = k + 1
           /\ UNCHANGED <<layer, at, lane>>
  <2>1. On' = On
    BY <1>8, <1>9 DEF On
  <2> DEFINE e == start + 2 * S
  <2>5. e < N /\ start' = e /\ Below(r, 0 .. e - 1, (layer + 1) * Q)
        /\ Below(r, e .. N - 1, layer * Q)
    <3>1. e < N
      BY <1>9
    <3>2. start' = e
      BY <1>9
    <3>5. start + 2 * S - 1 = e - 1
      BY <1>2, <1>4
    <3>3. Below(r, 0 .. e - 1, (layer + 1) * Q)
      BY <1>6, <3>5
    <3>4. Below(r, e .. N - 1, layer * Q)
      BY <1>6
    <3> QED BY <3>1, <3>2, <3>3, <3>4
  <2>2. 2 * (S * (k + 1)) = (start + 2 * S) + N
    <3>1. S * (k + 1) = S * k + S /\ S * k \in Int
      BY <1>2, <1>4
    <3> QED BY <1>2, <1>4, <3>1
  <2>6. 2 * (Span(layer) * (k + 1)) = e + N
    BY <2>2
  <2> HIDE DEF e
  <2>3. UpBounds'
    BY <1>2, <1>8, <1>9, <2>1, <2>5, <2>6, SMTT(30) DEF UpBounds
  <2>4. layer' \in 0 .. Layers /\ start' \in Nat /\ k' \in Int
    BY <1>2, <1>4, <1>9
  <2> QED BY <1>1, <1>6, <1>7, <1>9, <2>3, <2>4, Continues
<1>10. ASSUME start + 2 * S >= N
       PROVE  Below(r, Index, (layer + 1) * Q)
  <2>1. start + 2 * S - 1 = N - 1
    BY <1>2, <1>4, <1>10
  <2> QED BY <1>6, <2>1 DEF Index
<1>11. CASE start + 2 * S >= N /\ layer < Layers /\ layer' = layer + 1 /\ start' = 0
            /\ k' = FirstUp(layer + 1) /\ UNCHANGED <<at, lane>>
  <2>1. On' = On
    BY <1>8, <1>11 DEF On
  <2>2. layer + 1 \in 1 .. Layers /\ layer' = layer + 1
    BY <1>2, <1>11
  <2>3. /\ FirstUp(layer + 1) \in Nat \ {0}
        /\ N = 2 * (Span(layer + 1) * FirstUp(layer + 1))
    BY <2>2, SpanFacts
  <2>4. Below(r, 0 .. N - 1, (layer + 1) * Q)
    BY <1>10, <1>11 DEF Index
  <2>5. Below(r, 0 .. 0 - 1, ((layer + 1) + 1) * Q)
    BY DEF Below
  <2>6. 2 * (Span(layer + 1) * FirstUp(layer + 1)) = 0 + N
    BY <1>2, <2>3
  <2>7. UpBounds'
    BY <1>2, <1>8, <1>11, <2>1, <2>2, <2>4, <2>5, <2>6 DEF UpBounds
  <2>8. layer' \in 0 .. Layers /\ start' \in Nat /\ k' \in Int
    BY <1>2, <1>11, <2>2, <2>3
  <2> QED BY <1>1, <1>6, <1>7, <1>11, <2>7, <2>8, Continues
<1>12. CASE start + 2 * S >= N /\ layer = Layers /\ Proceed
  <2>1. Below(r, Index, After(Code[at].do) * Q)
    BY <1>1, <1>10, <1>12 DEF After
  <2> QED BY <1>1, <1>6, <1>7, <1>12, <2>1, Proceeds
<1> QED BY <1>9, <1>11, <1>12 DEF NttBlock

LEMMA InvNttBlockInv == Inv /\ InvNttBlock => Inv'
<1> SUFFICES ASSUME Inv, InvNttBlock PROVE Inv'
  OBVIOUS
<1> DEFINE S == Span(layer)
           r == Backward(poly[On], zetas[k], start, S)
<1>1. /\ Now("invntt") /\ ~Done /\ Code[at].do = "invntt" /\ NttType /\ DownBounds
      /\ InTransform /\ layer >= 1
  BY DEF InvNttBlock, Now, Inv, InTransform
<1>2. /\ layer \in 1 .. Layers /\ start \in Nat /\ k \in Int /\ start < N
      /\ Layers \in Nat \ {0} /\ N \in Nat \ {0} /\ Q \in Nat \ {0}
      /\ 2 * (S * k) + start = 2 * N - 2 * S /\ On \in Names
      /\ Below(poly[On], 0 .. start - 1, Span(layer - 1) * Q)
      /\ Below(poly[On], start .. N - 1, S * Q)
  <2>1. layer \in 1 .. Layers /\ start \in Nat /\ k \in Int /\ layer # 0
    BY <1>1, NttAssumption DEF NttType
  <2>2. /\ Layers \in Nat \ {0} /\ N \in Nat \ {0} /\ Q \in Nat \ {0}
        /\ On \in Names
    BY <1>1, NttAssumption, SpanEnds, Halves, OnIsName
  <2>3. /\ start < N
        /\ Below(poly[On], 0 .. start - 1, Span(layer - 1) * Q)
        /\ Below(poly[On], start .. N - 1, S * Q)
        /\ 2 * (S * k) + start = 2 * N - 2 * S
    BY <1>1, <2>1 DEF DownBounds
  <2> QED BY <2>1, <2>2, <2>3
<1>3. Fits(start, S) /\ k \in Index
  BY <1>2, DownPlace
<1>4. S \in Nat \ {0} /\ start + 2 * S =< N
  BY <1>3 DEF Fits
<1>5. poly[On] \in [Index -> Int]
  BY <1>1, <1>2 DEF NttType
<1>6. Span(layer - 1) = 2 * S
  BY <1>2, SpanFacts
<1>7. /\ r \in [Index -> Int]
      /\ Below(r, 0 .. start + 2 * S - 1, 2 * S * Q)
      /\ Below(r, start + 2 * S .. N - 1, S * Q)
  BY <1>2, <1>3, <1>5, <1>6, BackwardSize
<1>8. Becomes(r) /\ ~Now("ntt") /\ UNCHANGED <<at, lane>>
  BY <1>1 DEF InvNttBlock, Now
<1>9. poly'[On] = r /\ Code' = Code
  BY <1>1, <1>7, <1>8, Becoming
<1>10. On' = On
  BY <1>8, <1>9 DEF On
<1> HIDE DEF r
<1>11. CASE start + 2 * S < N /\ start' = start + 2 * S /\ k' = k - 1 /\ UNCHANGED layer
  <2> DEFINE e == start + 2 * S
  <2>1. 2 * (S * (k - 1)) + e = 2 * N - 2 * S
    <3> HIDE DEF S
    <3>1. S * (k - 1) = S * k - S /\ S * k \in Int
      BY <1>2, <1>4
    <3> QED BY <1>2, <1>4, <3>1
  <2>4. /\ layer' = layer /\ k' = k - 1 /\ layer # 0 /\ e < N /\ start' = e
        /\ Below(r, 0 .. e - 1, Span(layer - 1) * Q)
        /\ Below(r, e .. N - 1, Span(layer) * Q)
    <3>1. e < N
      BY <1>11
    <3>2. start' = e /\ layer' = layer /\ k' = k - 1
      BY <1>11
    <3>6. start + 2 * S - 1 = e - 1
      BY <1>2, <1>4
    <3>3. Below(r, 0 .. e - 1, Span(layer - 1) * Q)
      BY <1>6, <1>7, <3>6
    <3>4. Below(r, e .. N - 1, Span(layer) * Q)
      BY <1>7
    <3>5. layer # 0
      BY <1>2
    <3> QED BY <3>1, <3>2, <3>3, <3>4, <3>5
  <2>5. 2 * (Span(layer) * (k - 1)) + e = 2 * N - 2 * Span(layer)
    BY <2>1
  <2> HIDE DEF e
  <2>2. DownBounds'
    BY <1>9, <1>10, <2>4, <2>5 DEF DownBounds
  <2>3. layer' \in 0 .. Layers /\ start' \in Nat /\ k' \in Int
    BY <1>2, <1>4, <1>11, SMTT(30)
  <2> QED BY <1>1, <1>7, <1>8, <2>2, <2>3, Continues
<1>12. CASE start + 2 * S >= N /\ layer' = layer - 1 /\ start' = 0
            /\ k' = FirstDown(layer - 1)
  <2>1. Below(r, 0 .. N - 1, Span(layer - 1) * Q)
    <3> HIDE DEF S
    <3>1. start + 2 * S >= N
      BY <1>12
    <3>2. start + 2 * S - 1 = N - 1
      BY <1>2, <1>4, <3>1
    <3>3. Below(r, 0 .. N - 1, 2 * S * Q)
      BY <1>7, <3>2
    <3> QED BY <1>6, <3>3
  <2>2. FirstUp(layer) \in Nat \ {0} /\ FirstDown(layer - 1) = FirstUp(layer) - 1
    BY <1>2, SpanFacts
  <2>3. layer' \in 0 .. Layers /\ start' \in Nat /\ k' \in Int
    BY <1>2, <1>12, <2>2
  <2>4. CASE layer = 1
    <3>1. Span(layer - 1) = N /\ layer' = 0
      BY <1>2, <1>12, <2>4, SpanEnds
    <3>2. DownBounds'
      BY <1>9, <1>10, <2>1, <3>1 DEF DownBounds, Index
    <3> QED BY <1>1, <1>7, <1>8, <2>3, <3>2, Continues
  <2>5. CASE layer # 1
    <3> DEFINE l == layer - 1
    <3>1. l \in 1 .. Layers /\ layer' = l
      BY <1>2, <1>12, <2>5
    <3> HIDE DEF l
    <3>2. /\ Span(l) \in Nat \ {0} /\ FirstUp(l) \in Nat \ {0}
          /\ N = 2 * (Span(l) * FirstUp(l)) /\ FirstDown(l) = 2 * FirstUp(l) - 1
      BY <3>1, SpanFacts
    <3>3. 2 * (Span(l) * FirstDown(l)) + 0 = 2 * N - 2 * Span(l)
      <4> DEFINE s == Span(l)
                 u == FirstUp(l)
      <4>1. s \in Nat /\ u \in Nat /\ N = 2 * (s * u) /\ FirstDown(l) = 2 * u - 1
        BY <3>2
      <4> HIDE DEF s, u
      <4>2. s * (2 * u - 1) = 2 * (s * u) - s /\ s * u \in Int
        BY <4>1
      <4>3. 2 * (s * (2 * u - 1)) + 0 = 2 * N - 2 * s
        BY <4>1, <4>2
      <4> QED BY <4>1, <4>3 DEF s
    <3>4. Below(r, 0 .. N - 1, Span(l) * Q)
      BY <2>1 DEF l
    <3>5. Below(r, 0 .. 0 - 1, Span(l - 1) * Q)
      BY DEF Below
    <3>6. layer' # 0 /\ 0 < N /\ start' = 0 /\ k' = FirstDown(l)
      BY <1>2, <1>12, <3>1 DEF l
    <3>7. DownBounds'
      BY <1>9, <1>10, <3>1, <3>3, <3>4, <3>5, <3>6 DEF DownBounds
    <3> QED BY <1>1, <1>7, <1>8, <2>3, <3>7, Continues
  <2> QED BY <2>4, <2>5
<1> QED BY <1>11, <1>12 DEF InvNttBlock

LEMMA ScaleInv == Inv /\ Scale => Inv'
<1> SUFFICES ASSUME Inv, Scale PROVE Inv'
  OBVIOUS
<1> DEFINE r == Map(FqScale, poly[On])
<1>1. /\ Now("invntt") /\ ~Done /\ Code[at].do = "invntt" /\ NttType
      /\ Below(poly[On], Index, N * Q) /\ Becomes(r) /\ Proceed
  BY DEF Scale, Now, Inv, DownBounds
<1>2. poly[On] \in [Index -> Int]
  BY <1>1, OnIsName DEF NttType
<1>3. N * Q =< R \div 2 /\ N * Q \in Nat /\ R \div 2 \in Nat
  <2>1. N \in Nat /\ Q \in Nat
    BY SpanEnds, Halves
  <2> QED BY <2>1, Halves
<1>4. f \in Int /\ Abs(f) < Q
  <2>1. f \in 1 - Half .. Half - 1
    BY NttAssumption
  <2> HIDE DEF Half
  <2> QED BY <2>1, Halves DEF Half, Abs
<1>5. ASSUME NEW j \in Index
      PROVE  FqScale(poly[On][j]) \in Int /\ Abs(FqScale(poly[On][j])) < Q
  <2> DEFINE a == poly[On][j]
  <2>1. a \in Int /\ Abs(a) < N * Q
    BY <1>1, <1>2 DEF Below
  <2> HIDE DEF a
  <2>2. Abs(a) =< R \div 2
    BY <1>3, <2>1, AbsType
  <2>3. FqMul(a, f) \in Int /\ Abs(FqMul(a, f)) < Q
    BY <1>4, <2>1, <2>2, FqMulSize
  <2> QED BY <2>3 DEF FqScale, a
<1>6. r \in [Index -> Int] /\ Below(r, Index, 1 * Q)
  BY <1>5, Halves DEF Map, Below
<1>7. After(Code[at].do) = 1
  BY <1>1 DEF After, Sums
<1> HIDE DEF r
<1> QED BY <1>1, <1>6, <1>7, Proceeds

LEMMA PointwiseInv == Inv /\ PointwiseMul => Inv'
<1> SUFFICES ASSUME Inv, PointwiseMul PROVE Inv'
  OBVIOUS
<1> DEFINE a == poly[Single("c")]
           b == poly[Single("t")]
           r == [j \in Index |-> FqMul(a[j], b[j])]
<1>1. /\ Now("pointwise") /\ ~Done /\ Code[at].do = "pointwise" /\ NttType /\ Sized
      /\ ~InTransform /\ Proceed
  BY DEF PointwiseMul, Zip, Now, Inv, InTransform
<1>2. InOrder(Code, at)
  BY <1>1, InProgram
<1>3. /\ Code[at].with = "t"
      /\ Transformed(Code, "c", at) /\ Transformed(Code, "t", at)
  BY <1>1, <1>2 DEF InOrder
<1>4. Becomes(r)
  BY <1>3 DEF PointwiseMul, Zip, With
<1>5. /\ Single("c") \in Names /\ Single("t") \in Names
      /\ Single("c")[1] = "c" /\ Single("t")[1] = "t"
  BY NamesAre
<1>6. SizeAt(Code, at, lane, Single("c")) = Layers + 1
      /\ SizeAt(Code, at, lane, Single("t")) = Layers + 1
  BY <1>3, <1>5 DEF SizeAt
<1>7. /\ Below(a, Index, (Layers + 1) * Q) /\ Below(b, Index, (Layers + 1) * Q)
      /\ a \in [Index -> Int] /\ b \in [Index -> Int]
  <2>1. Below(a, Index, (Layers + 1) * Q)
    BY <1>1, <1>5, <1>6 DEF Sized
  <2>2. Below(b, Index, (Layers + 1) * Q)
    BY <1>1, <1>5, <1>6 DEF Sized
  <2> QED BY <1>1, <1>5, <2>1, <2>2 DEF NttType
<1>8. ASSUME NEW j \in Index
      PROVE  FqMul(a[j], b[j]) \in Int /\ Abs(FqMul(a[j], b[j])) < Q
  BY <1>7, PointwiseSize DEF Below
<1> HIDE DEF a, b
<1>9. r \in [Index -> Int] /\ Below(r, Index, 1 * Q)
  BY <1>8, Halves DEF Below
<1>10. After(Code[at].do) = 1
  BY <1>1 DEF After, Sums
<1> HIDE DEF r
<1> QED BY <1>1, <1>4, <1>9, <1>10, Proceeds

LEMMA AccumulateInv == Inv /\ Accumulate => Inv'
<1> SUFFICES ASSUME Inv, Accumulate PROVE Inv'
  OBVIOUS
<1> DEFINE vec == [i \in 1 .. L |-> poly[Vector(i)]]
           mat == given.mat
           r == PointwiseAcc(mat, vec)
<1>1. /\ Now("acc") /\ ~Done /\ Code[at].do = "acc" /\ NttType /\ Sized
      /\ ~InTransform /\ Proceed /\ Becomes(r)
  BY DEF Accumulate, Now, Inv, InTransform
<1>2. Transformed(Code, "v", at)
  BY <1>1, InProgram DEF InOrder
<1>3. ASSUME NEW i \in 1 .. L
      PROVE  /\ vec[i] \in [Index -> Int]
             /\ Below(vec[i], Index, (Layers + 1) * Q)
  <2>1. Vector(i) \in Names /\ Vector(i)[1] = "v"
    BY NamesAre
  <2>2. SizeAt(Code, at, lane, Vector(i)) = Layers + 1
    BY <1>2, <2>1 DEF SizeAt
  <2>3. Below(poly[Vector(i)], Index, (Layers + 1) * Q)
    BY <1>1, <2>1, <2>2 DEF Sized
  <2> QED BY <1>1, <2>1, <2>3 DEF NttType
<1>4. mat \in [1 .. L -> [Index -> 0 .. Q - 1]]
  BY <1>1, InputAssumption DEF NttType
<1>5. vec \in [1 .. L -> [Index -> Int]]
  BY <1>3
<1> HIDE DEF vec, mat
<1>6. ASSUME NEW j \in Index
      PROVE  r[j] \in Int /\ Abs(r[j]) < Q
  BY <1>3, <1>4, <1>5, AccumulateSize
<1>7. r = [j \in Index |-> r[j]]
  BY DEF PointwiseAcc
<1> HIDE DEF r
<1>8. r \in [Index -> Int] /\ Below(r, Index, 1 * Q)
  BY <1>6, <1>7, Halves DEF Below
<1>9. After(Code[at].do) = 1
  BY <1>1 DEF After, Sums
<1> QED BY <1>1, <1>8, <1>9, Proceeds

\* What add and sub take.
LEMMA Summands ==
  ASSUME Inv, ~Done, Code[at].do \in Sums
  PROVE  /\ poly[On] \in [Index -> Int] /\ Below(poly[On], Index, Q)
         /\ With \in [Index -> Int] /\ Below(With, Index, Q)
<1>1. NttType /\ Sized
  BY DEF Inv
<1>2. ~InTransform /\ Code[at].do # "reduce" /\ Code[at].do # "ntt"
  BY DEF InTransform, Now, Sums
<1>3. Code[at].on \in {"w", "h", "e"} /\ Code[at].with \in {"w", "h", "e"}
  BY <1>1, InProgram DEF InOrder, Sums, Outputs
<1>4. On = Single(Code[at].on)
  BY <1>1, <1>3 DEF On, Single, NttType
<1>5. Below(poly[Single(Code[at].on)], Index, Q)
  BY <1>1, <1>2, <1>3, OutputReduced
<1>6. Below(poly[Single(Code[at].with)], Index, Q)
  BY <1>1, <1>2, <1>3, OutputReduced
<1>7. Single(Code[at].on) \in Names /\ Single(Code[at].with) \in Names
  BY <1>3, NamesAre
<1> QED BY <1>1, <1>4, <1>5, <1>6, <1>7 DEF With, NttType

LEMMA AddInv == Inv /\ Add => Inv'
<1> SUFFICES ASSUME Inv, Add PROVE Inv'
  OBVIOUS
<1> DEFINE a == poly[On]
           b == With
           r == [j \in Index |-> a[j] + b[j]]
<1>1. ~Done /\ Code[at].do = "add" /\ Proceed /\ Becomes(r) /\ Code[at].do \in Sums
  BY DEF Add, Now, Sums
<1>2. /\ a \in [Index -> Int] /\ b \in [Index -> Int]
      /\ Below(a, Index, Q) /\ Below(b, Index, Q)
  BY <1>1, Summands
<1> HIDE DEF a, b
<1>3. ASSUME NEW j \in Index
      PROVE  r[j] \in Int /\ Abs(r[j]) < 2 * Q
  BY <1>2, Halves DEF Below, Abs
<1>4. r \in [Index -> Int] /\ Below(r, Index, 2 * Q)
  BY <1>3 DEF Below
<1>5. After(Code[at].do) = 2
  BY <1>1 DEF After
<1> HIDE DEF r
<1> QED BY <1>1, <1>4, <1>5, Proceeds

LEMMA SubInv == Inv /\ Sub => Inv'
<1> SUFFICES ASSUME Inv, Sub PROVE Inv'
  OBVIOUS
<1> DEFINE a == poly[On]
           b == With
           r == [j \in Index |-> a[j] - b[j]]
<1>1. ~Done /\ Code[at].do = "sub" /\ Proceed /\ Becomes(r) /\ Code[at].do \in Sums
  BY DEF Sub, Now, Sums
<1>2. /\ a \in [Index -> Int] /\ b \in [Index -> Int]
      /\ Below(a, Index, Q) /\ Below(b, Index, Q)
  BY <1>1, Summands
<1> HIDE DEF a, b
<1>3. ASSUME NEW j \in Index
      PROVE  r[j] \in Int /\ Abs(r[j]) < 2 * Q
  BY <1>2, Halves DEF Below, Abs
<1>4. r \in [Index -> Int] /\ Below(r, Index, 2 * Q)
  BY <1>3 DEF Below
<1>5. After(Code[at].do) = 2
  BY <1>1 DEF After
<1> HIDE DEF r
<1> QED BY <1>1, <1>4, <1>5, Proceeds

LEMMA ShiftLInv == Inv /\ ShiftL => Inv'
<1> SUFFICES ASSUME Inv, ShiftL PROVE Inv'
  OBVIOUS
<1> DEFINE a == poly[On]
           r == [j \in Index |-> a[j] * 2 ^ D]
<1>1. ~Done /\ Code[at].do = "shiftl" /\ Proceed /\ Becomes(r) /\ NttType
  BY DEF ShiftL, Now, Inv
<1>2. call = "verify" /\ at = 2 /\ Code[at].on = "t"
  BY <1>1, InProgram DEF InOrder
<1>3. On = Single("t") /\ On \in Names
  BY <1>1, <1>2, NamesAre DEF On, Single, NttType
<1>4. Room(a) /\ a \in [Index -> Int]
  BY <1>1, <1>2, <1>3 DEF Inv, NttType
<1>5. 2 ^ D \in Nat
  BY PowerType, NttAssumption
<1> HIDE DEF a
<1>6. ASSUME NEW j \in Index
      PROVE  r[j] \in Int /\ Abs(r[j]) < Q
  BY <1>4, <1>5 DEF Room
<1>7. r \in [Index -> Int] /\ Below(r, Index, 1 * Q)
  BY <1>6, Halves DEF Below
<1>8. After(Code[at].do) = 1
  BY <1>1 DEF After, Sums
<1> HIDE DEF r
<1> QED BY <1>1, <1>7, <1>8, Proceeds

\* What is reduced is below 2 Q.
LEMMA ReduceReads ==
  ASSUME Inv, ~Done, Code[at].do = "reduce"
  PROVE  poly[On] \in [Index -> Int] /\ Below(poly[On], Index, 2 * Q)
<1> DEFINE a == poly[On]
           s == SizeAt(Code, at, lane, On)
<1>1. NttType /\ Sized /\ ~InTransform
  BY DEF Now, Inv, InTransform
<1>2. Code[at].on \in {"w", "h", "e"}
  BY <1>1, InProgram DEF InOrder, Outputs
<1>3. On \in Names /\ On[1] = Code[at].on
  BY <1>1, OnIsName
<1>4. ~Transformed(Code, On[1], at)
  <2>1. at \in 1 .. at
    BY <1>1 DEF NttType
  <2> QED BY <1>1, <1>2, <1>3, <2>1, TransformedIs
<1>5. s \in {1, 2}
  BY <1>1, <1>3, <1>4 DEF SizeAt
<1>6. a \in [Index -> Int] /\ Below(a, Index, s * Q)
  BY <1>1, <1>3 DEF Sized, NttType
<1> HIDE DEF a, s
<1>7. Below(a, Index, 2 * Q)
  <2>1. Q \in Nat /\ s * Q \in Int /\ 2 * Q \in Int /\ s * Q =< 2 * Q
    BY <1>5, Halves
  <2> QED BY <1>6, <2>1, BelowMore
<1> QED BY <1>6, <1>7 DEF a

\* That is in the domain of mld_reduce32.
LEMMA ReduceDomain ==
  ASSUME NEW a \in Int, Abs(a) < 2 * Q
  PROVE  a + 2 ^ (QBits - 1) \in Word
<1> DEFINE B == 2 ^ QBits
           b == 2 ^ (QBits - 1)
           H == R \div 2
<1>1. QBits - 1 \in Nat /\ (QBits - 1) + 1 = QBits /\ Q \in Nat \ {0}
  BY NttAssumption, Halves
<1>2. b \in Nat \ {0} /\ B = 2 * b
  BY <1>1, PowerType, PowerDoubles
<1>3. Q < B /\ 5 * B < 6 * Q
  BY RangeAssumption
<1>4. H \in Nat /\ R = 2 * H
  BY NttAssumption
<1>5. 4 * Q =< H
  <2>1. Layers + 1 \in Nat /\ Layers + 1 >= 2
    BY NttAssumption
  <2>2. PICK m \in Nat : m = (Layers + 1) * (Layers + 1) /\ m >= 4
    <3>1. (Layers + 1) * (Layers + 1) >= 2 * (Layers + 1)
      BY <2>1
    <3> QED BY <2>1, <3>1
  <2>3. 2 * (Layers + 1) * (Layers + 1) * Q = 2 * (m * Q)
    BY <1>1, <2>1, <2>2
  <2>4. 2 * (m * Q) =< R
    BY <2>3, RangeAssumption
  <2>5. m * Q >= 4 * Q /\ m * Q \in Nat
    BY <1>1, <2>2
  <2> QED BY <1>1, <1>4, <2>4, <2>5
<1>6. -(2 * Q) < a /\ a < 2 * Q
  BY <1>1, AbsType
<1> HIDE DEF B, b, H
<1>7. a + b \in Int /\ -H =< a + b /\ a + b =< H - 1
  BY <1>1, <1>2, <1>3, <1>4, <1>5, <1>6
<1> QED BY <1>4, <1>7 DEF Word, b, H

LEMMA ReduceInv == Inv /\ Reduce => Inv'
<1> SUFFICES ASSUME Inv, Reduce PROVE Inv'
  OBVIOUS
<1> DEFINE a == poly[On]
           r == Map(Reduce32, a)
<1>1. ~Done /\ Code[at].do = "reduce" /\ Proceed /\ Becomes(r)
  BY DEF Reduce, Now
<1>2. a \in [Index -> Int] /\ Below(a, Index, 2 * Q)
  BY <1>1, ReduceReads
<1> HIDE DEF a
<1>3. ASSUME NEW j \in Index
      PROVE  Reduce32(a[j]) \in Int /\ Abs(Reduce32(a[j])) < Q
  BY <1>2, ReduceSize DEF Below
<1>4. r \in [Index -> Int] /\ Below(r, Index, 1 * Q)
  BY <1>3, Halves DEF Map, Below
<1>5. After(Code[at].do) = 1
  BY <1>1 DEF After, Sums
<1> HIDE DEF r
<1> QED BY <1>1, <1>4, <1>5, Proceeds

LEMMA CAddReads ==
  ASSUME Inv, ~Done, Code[at].do = "caddq"
  PROVE  poly[On] \in [Index -> Int] /\ Below(poly[On], Index, Q)
<1>1. NttType /\ Sized /\ ~InTransform
  BY DEF Inv, InTransform, Now
<1>2. Code[at].on \in {"w", "h", "e"}
  BY <1>1, InProgram DEF InOrder, Outputs
<1>3. On = Single(Code[at].on) /\ On \in Names
  BY <1>1, <1>2, NamesAre DEF On, Single, NttType
<1>4. Below(poly[Single(Code[at].on)], Index, Q)
  BY <1>1, <1>2, OutputReduced
<1> QED BY <1>1, <1>3, <1>4 DEF NttType

LEMMA CAddInv == Inv /\ CAdd => Inv'
<1> SUFFICES ASSUME Inv, CAdd PROVE Inv'
  OBVIOUS
<1> DEFINE a == poly[On]
           r == Map(CAddQ, a)
<1>1. ~Done /\ Code[at].do = "caddq" /\ Proceed /\ Becomes(r)
  BY DEF CAdd, Now
<1>2. a \in [Index -> Int] /\ Below(a, Index, Q)
  BY <1>1, CAddReads
<1> HIDE DEF a
<1>3. ASSUME NEW j \in Index
      PROVE  CAddQ(a[j]) \in Int /\ Abs(CAddQ(a[j])) < Q
  BY <1>2, CAddSize DEF Below
<1>4. r \in [Index -> Int] /\ Below(r, Index, 1 * Q)
  BY <1>3, Halves DEF Map, Below
<1>5. After(Code[at].do) = 1
  BY <1>1 DEF After, Sums
<1> HIDE DEF r
<1> QED BY <1>1, <1>4, <1>5, Proceeds

LEMMA StutterInv == Inv /\ UNCHANGED nttVars => Inv'
BY Zenon DEF Inv, NttType, Sized, UpBounds, DownBounds, InTransform, Now, Done, On, Code,
             nttVars, Room, Below, SizeAt, Transformed

-----------------------------------------------------------------------------
(* What the invariant implies.                                             *)

LEMMA FitsWord ==
  ASSUME NEW r \in [Index -> Int], NEW a \in Int, a =< R \div 2, Below(r, Index, a)
  PROVE  r \in Polynomial
<1>1. R \div 2 \in Nat
  BY Halves
<1>2. ASSUME NEW j \in Index PROVE r[j] \in Word
  <2>1. -a < r[j] /\ r[j] < a
    BY AbsType DEF Below
  <2> QED BY <1>1, <2>1 DEF Word
<1> QED BY <1>2 DEF Polynomial

LEMMA InvFits ==
  ASSUME Inv, NEW p \in Names
  PROVE  poly[p] \in Polynomial
<1> DEFINE r == poly[p]
           h == R \div 2
<1>1. r \in [Index -> Int] /\ NttType
  BY DEF Inv, NttType
<1>2. /\ h \in Nat /\ Q \in Nat \ {0} /\ (Layers + 1) * Q =< h /\ N * Q =< h
      /\ Layers \in Nat \ {0} /\ N \in Nat \ {0}
  BY Halves, SpanEnds, NttAssumption
<1> HIDE DEF h, r
<1>3. CASE ~ (InTransform /\ p = On)
  <2> DEFINE s == SizeAt(Code, at, lane, p)
  <2>1. Below(r, Index, s * Q) /\ s \in {1, 2, Layers + 1}
    BY <1>3, SizeType DEF Inv, Sized, r
  <2> HIDE DEF s
  <2>2. s * Q \in Nat /\ s * Q =< h
    BY <2>1, SizeFits DEF h
  <2>3. r \in Polynomial
    BY <1>1, <2>1, <2>2, FitsWord DEF h
  <2> QED BY <2>3 DEF r
<1>4. CASE Now("ntt") /\ p = On
  <2>1. /\ layer \in 1 .. Layers /\ start \in Nat /\ start < N
        /\ Below(r, 0 .. start - 1, (layer + 1) * Q) /\ Below(r, start .. N - 1, layer * Q)
    BY <1>1, <1>2, <1>4 DEF Inv, UpBounds, NttType, r
  <2> DEFINE a == (layer + 1) * Q
             b == layer * Q
             c == (Layers + 1) * Q
  <2>2. a \in Nat /\ b \in Nat /\ c \in Nat /\ b =< a /\ a =< c
    BY <1>2, <2>1
  <2> HIDE DEF a, b, c
  <2>3. ASSUME NEW j \in Index PROVE Abs(r[j]) < c
    <3>1. r[j] \in Int /\ j \in Nat /\ j < N /\ Abs(r[j]) \in Nat
      BY <1>1, <1>2, AbsType DEF Index
    <3>2. CASE j < start
      <4>1. j \in 0 .. start - 1
        BY <2>1, <3>1, <3>2
      <4>2. Abs(r[j]) < a
        BY <2>1, <4>1 DEF Below, a
      <4> QED BY <2>2, <3>1, <4>2
    <3>3. CASE ~ (j < start)
      <4>1. j \in start .. N - 1
        BY <1>2, <2>1, <3>1, <3>3
      <4>2. Abs(r[j]) < b
        BY <2>1, <4>1 DEF Below, b
      <4> QED BY <2>2, <3>1, <4>2
    <3> QED BY <3>2, <3>3
  <2>4. Below(r, Index, c) /\ c =< R \div 2
    BY <1>2, <2>3 DEF Below, c, h
  <2>5. r \in Polynomial
    BY <1>1, <2>2, <2>4, FitsWord
  <2> QED BY <2>5 DEF r
<1>5. CASE Now("invntt") /\ p = On /\ layer = 0
  <2>1. Below(r, Index, N * Q)
    BY <1>5 DEF Inv, DownBounds, r
  <2>2. N * Q \in Int
    BY <1>2
  <2>3. r \in Polynomial
    BY <1>1, <1>2, <2>1, <2>2, FitsWord DEF h
  <2> QED BY <2>3 DEF r
<1>6. CASE Now("invntt") /\ p = On /\ layer # 0
  <2>1. /\ layer \in 1 .. Layers /\ start \in Nat /\ start < N /\ k \in Int
        /\ Below(r, 0 .. start - 1, Span(layer - 1) * Q)
        /\ Below(r, start .. N - 1, Span(layer) * Q)
        /\ 2 * (Span(layer) * k) + start = 2 * N - 2 * Span(layer)
    <3>1. DownBounds /\ NttType
      BY <1>6 DEF Inv
    <3>2. layer \in 1 .. Layers /\ start \in Nat /\ k \in Int
      BY <1>2, <1>6, <3>1 DEF NttType
    <3> QED BY <1>6, <3>1, <3>2 DEF DownBounds, r
  <2> DEFINE S == Span(layer)
  <2>2. Span(layer - 1) = 2 * S /\ S \in Nat \ {0}
    BY <2>1, SpanFacts
  <2>3. start + 2 * S =< N
    BY <2>1, DownPlace DEF Fits
  <2> DEFINE a == Span(layer - 1) * Q
             b == Span(layer) * Q
             c == N * Q
  <2>4. a \in Nat /\ b \in Nat /\ c \in Nat /\ b =< a /\ a =< c
    <3> HIDE DEF S
    <3>1. 2 * S \in Nat /\ 2 * S =< N /\ S =< 2 * S
      BY <1>2, <2>1, <2>2, <2>3
    <3>2. S * Q \in Nat /\ (2 * S) * Q \in Nat /\ N * Q \in Nat
      BY <1>2, <2>2, <3>1
    <3>3. S * Q =< (2 * S) * Q
      BY <1>2, <2>2
    <3>4. (2 * S) * Q =< N * Q
      BY <1>2, <3>1
    <3> QED BY <2>2, <3>2, <3>3, <3>4 DEF S
  <2> HIDE DEF a, b, c
  <2>5. ASSUME NEW j \in Index PROVE Abs(r[j]) < c
    <3>1. r[j] \in Int /\ j \in Nat /\ j < N /\ Abs(r[j]) \in Nat
      BY <1>1, <1>2, AbsType DEF Index
    <3>2. CASE j < start
      <4>1. j \in 0 .. start - 1
        BY <2>1, <3>1, <3>2
      <4>2. Abs(r[j]) < a
        BY <2>1, <4>1 DEF Below, a
      <4> QED BY <2>4, <3>1, <4>2
    <3>3. CASE ~ (j < start)
      <4>1. j \in start .. N - 1
        BY <1>2, <2>1, <3>1, <3>3
      <4>2. Abs(r[j]) < b
        BY <2>1, <4>1 DEF Below, b
      <4> QED BY <2>4, <3>1, <4>2
    <3> QED BY <3>2, <3>3
  <2>6. Below(r, Index, c) /\ c =< R \div 2
    BY <1>2, <2>5 DEF Below, c, h
  <2>7. r \in Polynomial
    BY <1>1, <2>4, <2>6, FitsWord
  <2> QED BY <2>7 DEF r
<1> QED BY <1>3, <1>4, <1>5, <1>6 DEF InTransform

LEMMA InvImplies == Inv => WithinBounds
<1> SUFFICES ASSUME Inv PROVE WithinBounds
  OBVIOUS
<1>1. NttType /\ Sized
  BY DEF Inv
<1>2. \A p \in Names : poly[p] \in Polynomial
  BY InvFits
<1>3. Now("ntt") =>
       /\ Below(poly[On], 0 .. start - 1, (layer + 1) * Q)
       /\ Below(poly[On], start .. N - 1, layer * Q)
       /\ 2 * Span(layer) * k = start + N
  <2> SUFFICES ASSUME Now("ntt") PROVE
       /\ Below(poly[On], 0 .. start - 1, (layer + 1) * Q)
       /\ Below(poly[On], start .. N - 1, layer * Q)
       /\ 2 * Span(layer) * k = start + N
    OBVIOUS
  <2>1. UpBounds
    BY DEF Inv
  <2>2. layer \in 1 .. Layers /\ k \in Int
    BY <1>1, <2>1, NttAssumption DEF UpBounds, NttType
  <2>3. Span(layer) \in Nat
    BY <2>2, SpanFacts
  <2>4. 2 * Span(layer) * k = 2 * (Span(layer) * k)
    BY <2>2, <2>3
  <2> QED BY <2>1, <2>4 DEF UpBounds
<1>4. Now("invntt") /\ layer >= 1 =>
       /\ Below(poly[On], 0 .. start - 1, Span(layer - 1) * Q)
       /\ Below(poly[On], start .. N - 1, Span(layer) * Q)
       /\ 2 * Span(layer) * k + start = 2 * N - 2 * Span(layer)
  <2> SUFFICES ASSUME Now("invntt"), layer >= 1 PROVE
       /\ Below(poly[On], 0 .. start - 1, Span(layer - 1) * Q)
       /\ Below(poly[On], start .. N - 1, Span(layer) * Q)
       /\ 2 * Span(layer) * k + start = 2 * N - 2 * Span(layer)
    OBVIOUS
  <2>1. DownBounds
    BY DEF Inv
  <2>2. layer \in 1 .. Layers /\ k \in Int /\ layer # 0
    BY <1>1, NttAssumption DEF NttType
  <2>3. Span(layer) \in Nat
    BY <2>2, SpanFacts
  <2>4. 2 * Span(layer) * k = 2 * (Span(layer) * k)
    BY <2>2, <2>3
  <2> QED BY <2>1, <2>2, <2>4 DEF DownBounds
<1>5. Now("invntt") /\ layer = 0 => Below(poly[On], Index, N * Q)
  BY DEF Inv, DownBounds
<1>6. Now("pointwise") => /\ Below(poly[Single("c")], Index, (Layers + 1) * Q)
                          /\ Below(With, Index, (Layers + 1) * Q)
  <2> SUFFICES ASSUME Now("pointwise")
               PROVE  /\ Below(poly[Single("c")], Index, (Layers + 1) * Q)
                      /\ Below(With, Index, (Layers + 1) * Q)
    OBVIOUS
  <2>1. ~Done /\ Code[at].do = "pointwise" /\ ~InTransform
    BY DEF Now, InTransform
  <2>2. /\ Code[at].with = "t"
        /\ Transformed(Code, "c", at) /\ Transformed(Code, "t", at)
    BY <1>1, <2>1, InProgram DEF InOrder
  <2>3. /\ Single("c") \in Names /\ Single("t") \in Names
        /\ Single("c")[1] = "c" /\ Single("t")[1] = "t"
    BY NamesAre
  <2>4. /\ SizeAt(Code, at, lane, Single("c")) = Layers + 1
        /\ SizeAt(Code, at, lane, Single("t")) = Layers + 1
    BY <2>2, <2>3 DEF SizeAt
  <2>5. Below(poly[Single("c")], Index, (Layers + 1) * Q)
    BY <1>1, <2>1, <2>3, <2>4 DEF Sized
  <2>6. Below(poly[Single("t")], Index, (Layers + 1) * Q)
    BY <1>1, <2>1, <2>3, <2>4 DEF Sized
  <2> QED BY <2>2, <2>5, <2>6 DEF With
<1>7. Now("acc") => \A i \in 1 .. L : Below(poly[Vector(i)], Index, (Layers + 1) * Q)
  <2> SUFFICES ASSUME Now("acc"), NEW i \in 1 .. L
               PROVE  Below(poly[Vector(i)], Index, (Layers + 1) * Q)
    OBVIOUS
  <2>1. ~Done /\ Code[at].do = "acc" /\ ~InTransform
    BY DEF Now, InTransform
  <2>2. Transformed(Code, "v", at)
    BY <1>1, <2>1, InProgram DEF InOrder
  <2>3. Vector(i) \in Names /\ Vector(i)[1] = "v"
    BY NamesAre
  <2>4. SizeAt(Code, at, lane, Vector(i)) = Layers + 1
    BY <2>2, <2>3 DEF SizeAt
  <2> QED BY <1>1, <2>1, <2>3, <2>4 DEF Sized
<1>8. Now("sub") => Below(poly[On], Index, Q) /\ Below(With, Index, Q)
  BY Summands DEF Now, Sums
<1>9. Now("caddq") => Below(poly[On], Index, Q)
  BY CAddReads DEF Now
<1>10. Now("reduce") => \A j \in Index : poly[On][j] + 2 ^ (QBits - 1) \in Word
  BY ReduceReads, ReduceDomain DEF Now, Below
<1> QED BY <1>2, <1>3, <1>4, <1>5, <1>6, <1>7, <1>8, <1>9, <1>10 DEF WithinBounds

LEMMA NttInvariance == NttSpec => []Inv
<1>1. NttInit => Inv
  BY InitInv
<1>2. Inv /\ [NttNext]_nttVars => Inv'
  <2> SUFFICES ASSUME Inv, [NttNext]_nttVars PROVE Inv'
    OBVIOUS
  <2>1. CASE NttBlock \/ InvNttBlock \/ Scale
    BY <2>1, NttBlockInv, InvNttBlockInv, ScaleInv
  <2>2. CASE PointwiseMul \/ Accumulate \/ Add \/ Sub \/ ShiftL
    BY <2>2, PointwiseInv, AccumulateInv, AddInv, SubInv, ShiftLInv
  <2>3. CASE Reduce \/ CAdd
    BY <2>3, ReduceInv, CAddInv
  <2>4. CASE UNCHANGED nttVars
    BY <2>4, StutterInv
  <2> QED BY <2>1, <2>2, <2>3, <2>4 DEF NttNext
<1> QED BY <1>1, <1>2, PTL DEF NttSpec

\* No coefficient leaves the integers an int32_t holds, and what the contracts
\* of reduce.h, poly.h and polyvec.h require of the sizes of coefficients holds
\* wherever sign.c calls them, for every number of layers, modulus and length
\* of a vector that RangeAssumption allows: MLDSA_N, MLDSA_Q and MLDSA_L among
\* them.
THEOREM BoundsKept == NttSpec => []WithinBounds
BY NttInvariance, InvImplies, PTL

-----------------------------------------------------------------------------
(* Congruence modulo Q.                                                    *)

Same(a, b) == \E m \in Int : a - b = m * Q

LEMMA QNatural == Q \in Nat \ {0} /\ R \in Nat \ {0} /\ N \in Nat \ {0}
BY Halves, SpanEnds

LEMMA SameRefl ==
  ASSUME NEW a \in Int
  PROVE  Same(a, a)
<1>1. a - a = 0 * Q /\ 0 \in Int
  BY QNatural
<1> QED BY <1>1 DEF Same

LEMMA SameEqual ==
  ASSUME NEW a, NEW b, a = b, a \in Int
  PROVE  Same(a, b)
BY SameRefl

LEMMA SameSym ==
  ASSUME NEW a \in Int, NEW b \in Int, Same(a, b)
  PROVE  Same(b, a)
<1>1. PICK m \in Int : a - b = m * Q
  BY DEF Same
<1>2. b - a = (-m) * Q /\ -m \in Int
  BY <1>1, QNatural
<1> QED BY <1>2 DEF Same

LEMMA SameTrans ==
  ASSUME NEW a \in Int, NEW b \in Int, NEW c \in Int, Same(a, b), Same(b, c)
  PROVE  Same(a, c)
<1>1. PICK m \in Int : a - b = m * Q
  BY DEF Same
<1>2. PICK n \in Int : b - c = n * Q
  BY DEF Same
<1>3. a - c = (m + n) * Q /\ m + n \in Int
  BY <1>1, <1>2, QNatural
<1> QED BY <1>3 DEF Same

LEMMA SameAdd ==
  ASSUME NEW a \in Int, NEW b \in Int, NEW c \in Int, NEW d \in Int,
         Same(a, b), Same(c, d)
  PROVE  Same(a + c, b + d) /\ Same(a - c, b - d)
<1>1. PICK m \in Int : a - b = m * Q
  BY DEF Same
<1>2. PICK n \in Int : c - d = n * Q
  BY DEF Same
<1>3. /\ (a + c) - (b + d) = (m + n) * Q /\ m + n \in Int
      /\ (a - c) - (b - d) = (m - n) * Q /\ m - n \in Int
  BY <1>1, <1>2, QNatural
<1> QED BY <1>3 DEF Same

LEMMA SameLeft ==
  ASSUME NEW a \in Int, NEW b \in Int, NEW c \in Int, Same(a, b)
  PROVE  Same(c * a, c * b)
<1>1. PICK m \in Int : a - b = m * Q
  BY DEF Same
<1>2. c * a - c * b = (c * m) * Q /\ c * m \in Int
  BY <1>1, QNatural
<1> QED BY <1>2 DEF Same

LEMMA SameRight ==
  ASSUME NEW a \in Int, NEW b \in Int, NEW c \in Int, Same(a, b)
  PROVE  Same(a * c, b * c)
<1>1. Same(c * a, c * b) /\ c * a = a * c /\ c * b = b * c
  BY SameLeft
<1> QED BY <1>1

LEMMA SameMinus ==
  ASSUME NEW a \in Int, NEW b \in Int, Same(a, b)
  PROVE  Same(-a, -b)
<1>1. PICK m \in Int : a - b = m * Q
  BY DEF Same
<1>2. -a - (-b) = (-m) * Q /\ -m \in Int
  BY <1>1, QNatural
<1> QED BY <1>2 DEF Same

LEMMA SameMul ==
  ASSUME NEW a \in Int, NEW b \in Int, NEW c \in Int, NEW d \in Int,
         Same(a, b), Same(c, d)
  PROVE  Same(a * c, b * d)
<1>1. Same(a * c, b * c)
  BY SameRight, Zenon
<1>2. Same(b * c, b * d)
  BY SameLeft, Zenon
<1>3. a * c \in Int /\ b * c \in Int /\ b * d \in Int
  OBVIOUS
<1> QED BY <1>1, <1>2, <1>3, SameTrans

LEMMA SameMod ==
  ASSUME NEW a \in Int
  PROVE  a % Q \in 0 .. Q - 1 /\ Same(a % Q, a)
<1>1. a \div Q \in Int /\ a % Q \in 0 .. Q - 1 /\ a = (a \div Q) * Q + (a % Q)
  BY QNatural, Division
<1> DEFINE q == a \div Q
           y == a % Q
<1>2. q \in Int /\ y \in 0 .. Q - 1 /\ a = q * Q + y
  BY <1>1
<1> HIDE DEF q, y
<1>3. y - a = (-q) * Q /\ -q \in Int
  BY <1>2, QNatural
<1>4. Same(y, a)
  BY <1>3 DEF Same
<1> QED BY <1>2, <1>4 DEF y

LEMMA SameIsMod ==
  ASSUME NEW a \in Int, NEW b \in Int
  PROVE  Same(a, b) <=> (a - b) % Q = 0
<1> DEFINE d == a - b
           q == d \div Q
           y == d % Q
<1>1. d \in Int /\ q \in Int /\ y \in 0 .. Q - 1 /\ d = q * Q + y
  <2>1. d \in Int /\ Q \in Nat \ {0}
    BY QNatural
  <2> HIDE DEF d
  <2> QED BY <2>1, Division, Zenon
<1>2. ASSUME y = 0 PROVE Same(a, b)
  <2>1. a - b = q * Q
    <3> HIDE DEF q, y
    <3>1. d = q * Q
      BY <1>1, <1>2, QNatural
    <3> QED BY <3>1
  <2> QED BY <1>1, <2>1 DEF Same
<1>3. ASSUME Same(a, b) PROVE y = 0
  <2>1. PICK m \in Int : d = m * Q
    BY <1>3 DEF Same
  <2> HIDE DEF d, q, y
  <2> DEFINE e == m - q
  <2>2. e \in Int /\ e * Q = y
    BY <1>1, <2>1, QNatural
  <2> HIDE DEF e
  <2>3. e = 0
    <3>1. e >= 1 => e * Q >= Q
      BY <2>2, QNatural
    <3>2. e =< -1 => e * Q =< -Q
      BY <2>2, QNatural
    <3> QED BY <1>1, <2>2, <3>1, <3>2, QNatural
  <2> QED BY <2>2, <2>3, QNatural
<1> QED BY <1>2, <1>3

-----------------------------------------------------------------------------
(* R has an inverse, which Montgomery's reduction multiplies with.         *)

RInv == CHOOSE x \in Int : Same(R * x, 1)

LEMMA RInvIs == RInv \in Int /\ Same(R * RInv, 1)
<1> DEFINE c == QINV * Q
           v == c \div R
<1>1. QINV \in Nat /\ c \in Int /\ c % R = 1
  BY QNatural, NttAssumption
<1>2. v \in Int /\ c = v * R + 1
  <2> HIDE DEF c
  <2>1. c = (c \div R) * R + (c % R) /\ c \div R \in Int
    BY <1>1, QNatural, Division
  <2> QED BY <1>1, <2>1
<1> HIDE DEF v
<1>3. R * (-v) - 1 = (-QINV) * Q /\ -QINV \in Int /\ -v \in Int
  BY <1>1, <1>2, QNatural
<1>4. Same(R * (-v), 1)
  BY <1>3 DEF Same
<1>5. \E x \in Int : Same(R * x, 1)
  BY <1>3, <1>4
<1> QED BY <1>5, Zenon DEF RInv

LEMMA MontgomerySame ==
  ASSUME NEW a \in Int
  PROVE  MontgomeryReduce(a) \in Int /\ Same(MontgomeryReduce(a), a * RInv)
<1> DEFINE m == MontgomeryReduce(a)
<1>1. PICK t \in Int : m \in Int /\ m * R = a - t * Q
  BY MontgomeryExact
<1> HIDE DEF m
<1>2. RInv \in Int /\ Same(R * RInv, 1) /\ R \in Int /\ Q \in Int
  BY RInvIs, QNatural
<1>3. Same(m * R, a)
  <2>1. m * R - a = (-t) * Q /\ -t \in Int
    BY <1>1, <1>2
  <2> QED BY <2>1 DEF Same
<1>4. m * R \in Int /\ a * RInv \in Int /\ (m * R) * RInv \in Int /\ R * RInv \in Int
  BY <1>1, <1>2
<1>5. Same((m * R) * RInv, a * RInv)
  BY <1>2, <1>3, <1>4, SameRight, Zenon
<1>6. (m * R) * RInv = m * (R * RInv) /\ m * 1 = m /\ m * (R * RInv) \in Int
  BY <1>1, <1>2, MulAssoc
<1>7. Same(m * (R * RInv), m * 1)
  <2>1. 1 \in Int
    OBVIOUS
  <2> QED BY <1>1, <1>2, <1>4, <2>1, SameLeft, Zenon
<1>8. Same(m, m * (R * RInv))
  BY <1>1, <1>6, <1>7, SameSym
<1>9. Same(m, a * RInv)
  BY <1>1, <1>4, <1>5, <1>6, <1>8, SameTrans
<1> QED BY <1>1, <1>9 DEF m

\* What is brought to another scale and back.
LEMMA RCancels ==
  ASSUME NEW a \in Int
  PROVE  Same((a * R) * RInv, a) /\ Same(R * (a * RInv), a)
<1>1. RInv \in Int /\ Same(R * RInv, 1) /\ R \in Int /\ R * RInv \in Int
  BY RInvIs, QNatural
<1>2. Same(a * (R * RInv), a * 1)
  <2>1. 1 \in Int
    OBVIOUS
  <2> QED BY <1>1, <2>1, SameLeft, Zenon
<1>3. (a * R) * RInv = a * (R * RInv) /\ R * (a * RInv) = a * (R * RInv) /\ a * 1 = a
  BY <1>1
<1> QED BY <1>2, <1>3

\* f undoes the N of the inverse transform and brings in R.
LEMMA ScaleSame ==
  ASSUME NEW a \in Int, NEW b \in Int, Same(a, b * N)
  PROVE  FqScale(a) \in Int /\ Same(FqScale(a), b * R)
<1>1. f \in Int /\ N \in Int /\ R \in Int /\ RInv \in Int
  <2>1. f \in 1 - Half .. Half - 1 /\ Half \in Nat
    BY NttAssumption, Halves
  <2> QED BY <2>1, RInvIs, QNatural
<1>2. FqScale(a) \in Int /\ Same(FqScale(a), (a * f) * RInv)
  BY <1>1, MontgomerySame DEF FqScale, FqMul
<1>3. Same(f * N, R * R)
  <2>1. (f * N - R * R) % Q = 0 /\ f * N \in Int /\ R * R \in Int
    BY <1>1, NttAssumption
  <2> QED BY <2>1, SameIsMod
<1>4. Same(a * f, b * (f * N))
  <2>1. b * N \in Int
    BY <1>1
  <2>3. Same(a * f, (b * N) * f)
    BY <1>1, <2>1, SameRight, Zenon
  <2>2. (b * N) * f = b * (f * N)
    BY <1>1
  <2> QED BY <2>2, <2>3
<1>5. Same(b * (f * N), b * (R * R))
  <2>1. f * N \in Int /\ R * R \in Int
    BY <1>1
  <2> QED BY <1>1, <1>3, <2>1, SameLeft, Zenon
<1>6. /\ a * f \in Int /\ b * (f * N) \in Int /\ b * (R * R) \in Int /\ b * R \in Int
      /\ (a * f) * RInv \in Int /\ (b * (R * R)) * RInv \in Int
      /\ b * (R * R) = (b * R) * R
  BY <1>1
<1>7. Same(a * f, b * (R * R))
  BY <1>4, <1>5, <1>6, SameTrans
<1>8. Same((a * f) * RInv, (b * (R * R)) * RInv)
  BY <1>1, <1>6, <1>7, SameRight, Zenon
<1>9. Same((b * (R * R)) * RInv, b * R)
  BY <1>6, RCancels
<1>10. Same((a * f) * RInv, b * R)
  BY <1>6, <1>8, <1>9, SameTrans
<1> QED BY <1>2, <1>6, <1>10, SameTrans

LEMMA ReduceSame ==
  ASSUME NEW a \in Int
  PROVE  Reduce32(a) \in Int /\ Same(Reduce32(a), a)
<1> DEFINE u == (a + 2 ^ (QBits - 1)) \div (2 ^ QBits)
<1>1. u \in Int
  <2>1. QBits \in Nat /\ QBits - 1 \in Nat
    BY NttAssumption
  <2>2. 2 ^ QBits \in Nat \ {0} /\ 2 ^ (QBits - 1) \in Nat
    BY <2>1, PowerType
  <2>3. a + 2 ^ (QBits - 1) \in Int
    BY <2>2
  <2> QED BY <2>2, <2>3, Division
<1>2. Reduce32(a) = a - u * Q
  BY DEF Reduce32
<1> HIDE DEF u
<1>3. a - u * Q \in Int /\ (a - u * Q) - a = (-u) * Q /\ -u \in Int
  BY <1>1, QNatural
<1> QED BY <1>2, <1>3 DEF Same

LEMMA CAddSame ==
  ASSUME NEW a \in Int
  PROVE  CAddQ(a) \in Int /\ Same(CAddQ(a), a)
<1>1. (a + Q) - a = 1 * Q /\ a + Q \in Int
  BY QNatural
<1> QED BY <1>1, SameRefl DEF CAddQ, Same

-----------------------------------------------------------------------------
(* Sums.                                                                   *)

Ints(terms, n) == \A i \in 1 .. n : terms[i] \in Int

\* The recursive function behind Sum.
SumUpTo(g, terms, n) ==
  g = [i \in 0 .. n |-> IF i = 0 THEN 0 ELSE g[i - 1] + terms[i]]

LEMMA SumRule ==
  ASSUME NEW n \in Nat, NEW terms
  PROVE  \E g : SumUpTo(g, terms, n) /\ Sum(terms, n) = g[n]
<1> DEFINE Is(g, m) ==
             g = [i \in 0 .. m |-> IF i = 0 THEN 0 ELSE g[i - 1] + terms[i]]
           sum == CHOOSE g : Is(g, n)
<1>1. Sum(terms, n) = sum[n]
  BY DEF Sum
<1>2. \E g : Is(g, n)
  <2> DEFINE S == {m \in Nat : \E g : Is(g, m)}
  <2>1. 0 \in S
    <3> DEFINE g == [i \in 0 .. 0 |-> 0]
    <3>1. \A i \in 0 .. 0 : i = 0
      OBVIOUS
    <3>2. Is(g, 0)
      BY <3>1
    <3> QED BY <3>2
  <2>2. ASSUME NEW m \in Nat, m \in S PROVE m + 1 \in S
    <3>1. PICK g : Is(g, m)
      BY <2>2
    <3> DEFINE e == [i \in 0 .. m + 1 |-> IF i = m + 1 THEN g[m] + terms[m + 1] ELSE g[i]]
    <3>2. ASSUME NEW i \in 0 .. m + 1
          PROVE  e[i] = IF i = 0 THEN 0 ELSE e[i - 1] + terms[i]
      <4>1. CASE i = m + 1
        <5>1. e[i] = g[m] + terms[m + 1] /\ m \in 0 .. m + 1 /\ m # m + 1 /\ i # 0
          BY <4>1
        <5>2. e[m] = g[m] /\ i - 1 = m
          BY <4>1, <5>1
        <5> QED BY <4>1, <5>1, <5>2
      <4>2. CASE i # m + 1
        <5>1. i \in 0 .. m /\ e[i] = g[i]
          BY <4>2
        <5>2. g[i] = IF i = 0 THEN 0 ELSE g[i - 1] + terms[i]
          BY <3>1, <5>1
        <5>3. i # 0 => i - 1 \in 0 .. m + 1 /\ i - 1 # m + 1
          BY <5>1
        <5>4. i # 0 => e[i - 1] = g[i - 1]
          BY <5>3
        <5> QED BY <5>1, <5>2, <5>4
      <4> QED BY <4>1, <4>2
    <3>3. Is(e, m + 1)
      <4>1. e = [i \in 0 .. m + 1 |-> e[i]]
        OBVIOUS
      <4> HIDE DEF e
      <4> QED BY <3>2, <4>1
    <3> HIDE DEF e, Is
    <3> QED BY <3>3
  <2> HIDE DEF S
  <2>3. n \in S
    BY <2>1, <2>2, NumbersByInduction
  <2> QED BY <2>3 DEF S
<1>3. Is(sum, n)
  BY <1>2, Zenon
<1> HIDE DEF sum
<1> QED BY <1>1, <1>3 DEF SumUpTo

LEMMA SumZero ==
  ASSUME NEW terms
  PROVE  Sum(terms, 0) = 0
<1>1. PICK g : SumUpTo(g, terms, 0) /\ Sum(terms, 0) = g[0]
  <2>1. 0 \in Nat
    OBVIOUS
  <2> QED BY <2>1, SumRule, Zenon
<1> QED BY <1>1 DEF SumUpTo

LEMMA SumNext ==
  ASSUME NEW n \in Nat, NEW terms
  PROVE  Sum(terms, n + 1) = Sum(terms, n) + terms[n + 1]
<1>1. PICK g : SumUpTo(g, terms, n + 1) /\ Sum(terms, n + 1) = g[n + 1]
  <2>1. n + 1 \in Nat
    OBVIOUS
  <2> QED BY <2>1, SumRule, Zenon
<1>2. PICK e : SumUpTo(e, terms, n) /\ Sum(terms, n) = e[n]
  BY SumRule, Zenon
<1> DEFINE T == {m \in Nat : m =< n => g[m] = e[m]}
<1>3. 0 \in T
  <2>1. 0 \in 0 .. n /\ 0 \in 0 .. n + 1
    OBVIOUS
  <2>2. g[0] = 0 /\ e[0] = 0
    BY <1>1, <1>2, <2>1 DEF SumUpTo
  <2> QED BY <2>2
<1>4. ASSUME NEW m \in Nat, m \in T PROVE m + 1 \in T
  <2> SUFFICES ASSUME m + 1 =< n PROVE g[m + 1] = e[m + 1]
    OBVIOUS
  <2>1. m + 1 \in 0 .. n /\ m + 1 \in 0 .. n + 1 /\ m + 1 # 0 /\ m + 1 - 1 = m
    OBVIOUS
  <2>2. g[m + 1] = g[m] + terms[m + 1]
    BY <1>1, <2>1 DEF SumUpTo
  <2>3. e[m + 1] = e[m] + terms[m + 1]
    BY <1>2, <2>1 DEF SumUpTo
  <2>4. g[m] = e[m]
    BY <1>4
  <2> QED BY <2>2, <2>3, <2>4
<1> HIDE DEF T
<1>5. n \in T
  BY <1>3, <1>4, NumbersByInduction
<1>6. n + 1 \in 0 .. n + 1 /\ n + 1 # 0 /\ n + 1 - 1 = n
  OBVIOUS
<1>7. g[n + 1] = g[n] + terms[n + 1]
  BY <1>1, <1>6 DEF SumUpTo
<1> QED BY <1>1, <1>2, <1>5, <1>7 DEF T

LEMMA SumType ==
  ASSUME NEW n \in Nat, NEW terms, Ints(terms, n)
  PROVE  Sum(terms, n) \in Int
<1> DEFINE T == {m \in Nat : m =< n => Sum(terms, m) \in Int}
<1>1. 0 \in T
  BY SumZero
<1>2. ASSUME NEW m \in Nat, m \in T PROVE m + 1 \in T
  <2> SUFFICES ASSUME m + 1 =< n PROVE Sum(terms, m + 1) \in Int
    OBVIOUS
  <2>1. Sum(terms, m) \in Int /\ terms[m + 1] \in Int
    BY <1>2 DEF Ints
  <2> QED BY <2>1, SumNext
<1> HIDE DEF T
<1>3. n \in T
  BY <1>1, <1>2, NumbersByInduction
<1> QED BY <1>3 DEF T

LEMMA SumLinear ==
  ASSUME NEW n \in Nat, NEW s, NEW t, NEW u, NEW c \in Int, Ints(s, n), Ints(t, n),
         \A i \in 1 .. n : u[i] = s[i] + c * t[i]
  PROVE  Sum(u, n) = Sum(s, n) + c * Sum(t, n)
<1> DEFINE T == {m \in Nat : m =< n => Sum(u, m) = Sum(s, m) + c * Sum(t, m)}
<1>1. 0 \in T
  <2>1. Sum(u, 0) = 0 /\ Sum(s, 0) = 0 /\ Sum(t, 0) = 0
    BY SumZero
  <2> QED BY <2>1
<1>2. ASSUME NEW m \in Nat, m \in T PROVE m + 1 \in T
  <2> SUFFICES ASSUME m + 1 =< n
               PROVE  Sum(u, m + 1) = Sum(s, m + 1) + c * Sum(t, m + 1)
    OBVIOUS
  <2>1. /\ Sum(u, m + 1) = Sum(u, m) + u[m + 1]
        /\ Sum(s, m + 1) = Sum(s, m) + s[m + 1]
        /\ Sum(t, m + 1) = Sum(t, m) + t[m + 1]
    BY SumNext
  <2>2. Ints(s, m) /\ Ints(t, m)
    BY DEF Ints
  <2>3. Sum(s, m) \in Int /\ Sum(t, m) \in Int
    BY <2>2, SumType
  <2>4. m + 1 \in 1 .. n
    OBVIOUS
  <2>5. u[m + 1] = s[m + 1] + c * t[m + 1] /\ s[m + 1] \in Int /\ t[m + 1] \in Int
    BY <2>4 DEF Ints
  <2>6. Sum(u, m) = Sum(s, m) + c * Sum(t, m)
    BY <1>2
  <2> QED BY <2>1, <2>3, <2>5, <2>6
<1> HIDE DEF T
<1>3. n \in T
  BY <1>1, <1>2, NumbersByInduction
<1> QED BY <1>3 DEF T

LEMMA SumAdds ==
  ASSUME NEW n \in Nat, NEW s, NEW t, NEW u, Ints(s, n), Ints(t, n),
         \A i \in 1 .. n : u[i] = s[i] + t[i]
  PROVE  Sum(u, n) = Sum(s, n) + Sum(t, n)
<1> DEFINE c == 1
<1>1. c \in Int /\ \A i \in 1 .. n : u[i] = s[i] + c * t[i]
  BY DEF Ints
<1> HIDE DEF c
<1>2. Sum(u, n) = Sum(s, n) + c * Sum(t, n)
  BY <1>1, SumLinear
<1>3. Sum(t, n) \in Int
  BY SumType
<1> QED BY <1>2, <1>3 DEF c

LEMMA SumAlike ==
  ASSUME NEW n \in Nat, NEW s, NEW t, \A i \in 1 .. n : s[i] = t[i]
  PROVE  Sum(s, n) = Sum(t, n)
<1> DEFINE T == {m \in Nat : m =< n => Sum(s, m) = Sum(t, m)}
<1>1. 0 \in T
  BY SumZero
<1>2. ASSUME NEW m \in Nat, m \in T PROVE m + 1 \in T
  <2> SUFFICES ASSUME m + 1 =< n PROVE Sum(s, m + 1) = Sum(t, m + 1)
    OBVIOUS
  <2>1. Sum(s, m + 1) = Sum(s, m) + s[m + 1] /\ Sum(t, m + 1) = Sum(t, m) + t[m + 1]
    BY SumNext
  <2>2. s[m + 1] = t[m + 1] /\ Sum(s, m) = Sum(t, m)
    BY <1>2
  <2> QED BY <2>1, <2>2
<1> HIDE DEF T
<1>3. n \in T
  BY <1>1, <1>2, NumbersByInduction
<1> QED BY <1>3 DEF T

LEMMA SumSame ==
  ASSUME NEW n \in Nat, NEW s, NEW t, Ints(s, n), Ints(t, n),
         \A i \in 1 .. n : Same(s[i], t[i])
  PROVE  Same(Sum(s, n), Sum(t, n))
<1> DEFINE T == {m \in Nat : m =< n => Same(Sum(s, m), Sum(t, m))}
<1>1. 0 \in T
  <2>1. Sum(s, 0) = 0 /\ Sum(t, 0) = 0 /\ Same(0, 0)
    BY SumZero, SameRefl
  <2> QED BY <2>1
<1>2. ASSUME NEW m \in Nat, m \in T PROVE m + 1 \in T
  <2> SUFFICES ASSUME m + 1 =< n PROVE Same(Sum(s, m + 1), Sum(t, m + 1))
    OBVIOUS
  <2>1. Sum(s, m + 1) = Sum(s, m) + s[m + 1] /\ Sum(t, m + 1) = Sum(t, m) + t[m + 1]
    BY SumNext
  <2>2. Ints(s, m) /\ Ints(t, m)
    BY DEF Ints
  <2>3. Sum(s, m) \in Int /\ Sum(t, m) \in Int
    BY <2>2, SumType
  <2>4. /\ s[m + 1] \in Int /\ t[m + 1] \in Int /\ Same(s[m + 1], t[m + 1])
        /\ Same(Sum(s, m), Sum(t, m))
    BY <1>2 DEF Ints
  <2>5. Same(Sum(s, m) + s[m + 1], Sum(t, m) + t[m + 1])
    BY <2>3, <2>4, SameAdd
  <2> QED BY <2>1, <2>5
<1> HIDE DEF T
<1>3. n \in T
  BY <1>1, <1>2, NumbersByInduction
<1> QED BY <1>3 DEF T

\* The first term apart.
LEMMA SumFront ==
  ASSUME NEW n \in Nat, NEW t, NEW u, Ints(t, n + 1), \A i \in 1 .. n : u[i] = t[i + 1]
  PROVE  Sum(t, n + 1) = t[1] + Sum(u, n)
<1> DEFINE T == {m \in Nat : m =< n => Sum(t, m + 1) = t[1] + Sum(u, m)}
<1>0. Ints(u, n)
  BY DEF Ints
<1>1. 0 \in T
  <2>1. Sum(u, 0) = 0 /\ Sum(t, 0) = 0 /\ Sum(t, 0 + 1) = Sum(t, 0) + t[0 + 1]
    BY SumZero, SumNext
  <2>2. t[1] \in Int
    BY DEF Ints
  <2> QED BY <2>1, <2>2
<1>2. ASSUME NEW m \in Nat, m \in T PROVE m + 1 \in T
  <2> SUFFICES ASSUME m + 1 =< n
               PROVE  Sum(t, (m + 1) + 1) = t[1] + Sum(u, m + 1)
    OBVIOUS
  <2>1. /\ Sum(t, (m + 1) + 1) = Sum(t, m + 1) + t[(m + 1) + 1]
        /\ Sum(u, m + 1) = Sum(u, m) + u[m + 1]
    BY SumNext
  <2>2. Ints(u, m)
    BY <1>0 DEF Ints
  <2>3. Sum(u, m) \in Int /\ t[1] \in Int /\ t[(m + 1) + 1] \in Int
    BY <2>2, SumType DEF Ints
  <2>4. u[m + 1] = t[(m + 1) + 1] /\ Sum(t, m + 1) = t[1] + Sum(u, m)
    BY <1>2
  <2> QED BY <2>1, <2>3, <2>4
<1> HIDE DEF T
<1>3. n \in T
  BY <1>1, <1>2, NumbersByInduction
<1> QED BY <1>3 DEF T

\* Terms two by two.
LEMMA SumPairs ==
  ASSUME NEW n \in Nat, NEW t, NEW u, Ints(t, 2 * n),
         \A i \in 1 .. n : u[i] = t[2 * i - 1] + t[2 * i]
  PROVE  Sum(t, 2 * n) = Sum(u, n)
<1> DEFINE T == {m \in Nat : m =< n => Sum(t, 2 * m) = Sum(u, m)}
<1>1. 0 \in T
  BY SumZero
<1>2. ASSUME NEW m \in Nat, m \in T PROVE m + 1 \in T
  <2> SUFFICES ASSUME m + 1 =< n PROVE Sum(t, 2 * (m + 1)) = Sum(u, m + 1)
    OBVIOUS
  <2>1. 2 * m \in Nat /\ 2 * m + 1 \in Nat
    OBVIOUS
  <2>2. Sum(t, 2 * m + 1) = Sum(t, 2 * m) + t[2 * m + 1]
    BY <2>1, SumNext
  <2>3. Sum(t, (2 * m + 1) + 1) = Sum(t, 2 * m + 1) + t[(2 * m + 1) + 1]
    BY <2>1, SumNext
  <2>4. Sum(u, m + 1) = Sum(u, m) + u[m + 1]
    BY SumNext
  <2>5. m + 1 \in 1 .. n /\ 2 * (m + 1) - 1 = 2 * m + 1 /\ 2 * (m + 1) = (2 * m + 1) + 1
        /\ 2 * m + 1 \in 1 .. 2 * n /\ (2 * m + 1) + 1 \in 1 .. 2 * n
    OBVIOUS
  <2>6. u[m + 1] = t[2 * m + 1] + t[(2 * m + 1) + 1]
    BY <2>5
  <2>7. t[2 * m + 1] \in Int /\ t[(2 * m + 1) + 1] \in Int
    BY <2>5 DEF Ints
  <2>8. Ints(t, 2 * m)
    BY DEF Ints
  <2>9. Sum(t, 2 * m) \in Int /\ Sum(t, 2 * m) = Sum(u, m)
    BY <1>2, <2>1, <2>8, SumType
  <2>10. Sum(t, 2 * (m + 1)) = Sum(t, (2 * m + 1) + 1)
    BY <2>5
  <2> QED BY <2>2, <2>3, <2>4, <2>6, <2>7, <2>9, <2>10
<1> HIDE DEF T
<1>3. n \in T
  BY <1>1, <1>2, NumbersByInduction
<1> QED BY <1>3 DEF T

RowSums(a, n, m, r) == \A i \in 1 .. n : Ints(a[i], m) /\ r[i] = Sum(a[i], m)
ColumnSums(a, b, n, m, c) ==
  \A j \in 1 .. m : c[j] = Sum(b[j], n) /\ \A i \in 1 .. n : b[j][i] = a[i][j]

\* A table is summed by its rows or by its columns.
LEMMA SumSwap ==
  ASSUME NEW n \in Nat, NEW m \in Nat, NEW a, NEW b, NEW r, NEW c,
         RowSums(a, n, m, r), ColumnSums(a, b, n, m, c)
  PROVE  Sum(r, n) = Sum(c, m)
<1> USE DEF RowSums, ColumnSums
<1> DEFINE C(h) == [j \in 1 .. m |-> Sum(b[j], h)]
           T == {h \in Nat : h =< n => Sum(r, h) = Sum(C(h), m)}
<1>1. 0 \in T
  <2>1. Sum(r, 0) = 0
    BY SumZero
  <2> DEFINE z == C(0)
  <2>2. \A j \in 1 .. m : z[j] = 0
    BY SumZero
  <2> HIDE DEF z
  <2>3. Ints(z, m) /\ \A j \in 1 .. m : z[j] = z[j] + z[j]
    BY <2>2 DEF Ints
  <2>4. Sum(z, m) = Sum(z, m) + Sum(z, m)
    BY <2>3, SumAdds
  <2>5. Sum(z, m) \in Int
    BY <2>3, SumType
  <2>6. Sum(z, m) = 0
    <3> DEFINE x == Sum(z, m)
    <3>1. x \in Int /\ x = x + x
      BY <2>4, <2>5
    <3> HIDE DEF x
    <3>2. x = 0
      BY <3>1, SMT
    <3> QED BY <3>2 DEF x
  <2> QED BY <2>1, <2>6 DEF z
<1>2. ASSUME NEW h \in Nat, h \in T PROVE h + 1 \in T
  <2> SUFFICES ASSUME h + 1 =< n PROVE Sum(r, h + 1) = Sum(C(h + 1), m)
    OBVIOUS
  <2>1. Sum(r, h + 1) = Sum(r, h) + r[h + 1]
    BY SumNext
  <2>2. h + 1 \in 1 .. n
    OBVIOUS
  <2>3. Ints(a[h + 1], m) /\ r[h + 1] = Sum(a[h + 1], m)
    BY <2>2
  <2> DEFINE u == C(h + 1)
             s == C(h)
             t == a[h + 1]
  <2>4. ASSUME NEW j \in 1 .. m PROVE s[j] \in Int /\ u[j] = s[j] + t[j]
    <3>1. u[j] = Sum(b[j], h + 1) /\ s[j] = Sum(b[j], h)
      OBVIOUS
    <3>2. Sum(b[j], h + 1) = Sum(b[j], h) + b[j][h + 1]
      BY SumNext
    <3>3. Ints(b[j], h)
      <4> SUFFICES ASSUME NEW i \in 1 .. h PROVE b[j][i] \in Int
        BY DEF Ints
      <4>1. i \in 1 .. n
        OBVIOUS
      <4> QED BY <4>1 DEF Ints
    <3>4. Sum(b[j], h) \in Int
      BY <3>3, SumType
    <3>5. b[j][h + 1] = t[j] /\ t[j] \in Int
      BY <2>2, <2>3 DEF Ints
    <3> QED BY <3>1, <3>2, <3>4, <3>5
  <2> HIDE DEF u, s
  <2>5. Ints(s, m) /\ Ints(t, m)
    BY <2>3, <2>4 DEF Ints
  <2>9. \A j \in 1 .. m : u[j] = s[j] + t[j]
    BY <2>4
  <2> HIDE DEF t
  <2>6. Sum(u, m) = Sum(s, m) + Sum(t, m)
    BY <2>5, <2>9, SumAdds
  <2>7. Sum(s, m) \in Int /\ Sum(t, m) \in Int
    BY <2>5, SumType
  <2>8. Sum(r, h) = Sum(s, m)
    BY <1>2 DEF s
  <2> QED BY <2>1, <2>3, <2>6, <2>7, <2>8 DEF u, t
<1> HIDE DEF T
<1>3. n \in T
  BY <1>1, <1>2, NumbersByInduction
<1>4. Sum(r, n) = Sum(C(n), m)
  BY <1>3 DEF T
<1>5. Sum(C(n), m) = Sum(c, m)
  <2> DEFINE u == C(n)
  <2>1. \A j \in 1 .. m : u[j] = c[j]
    OBVIOUS
  <2> HIDE DEF u
  <2>2. Sum(u, m) = Sum(c, m)
    BY <2>1, SumAlike
  <2> QED BY <2>2 DEF u
<1> QED BY <1>4, <1>5

\* Terms may be taken from any one on, cyclically.
Rotated(u, s, n, d) ==
  \A i \in 1 .. n : u[i] = IF i > d THEN s[i - d] ELSE s[i - d + n]

LEMMA SumRotated ==
  ASSUME NEW n \in Nat, NEW s, Ints(s, n), NEW d \in 0 .. n, NEW u, Rotated(u, s, n, d)
  PROVE  Sum(u, n) = Sum(s, n)
<1> DEFINE V(e) == [i \in 1 .. n |-> IF i > e THEN s[i - e] ELSE s[i - e + n]]
           T == {e \in Nat : e =< n => Sum(V(e), n) = Sum(s, n)}
<1>1. 0 \in T
  <2> DEFINE v == V(0)
  <2>1. \A i \in 1 .. n : v[i] = s[i]
    OBVIOUS
  <2> HIDE DEF v
  <2>2. Sum(v, n) = Sum(s, n)
    BY <2>1, SumAlike
  <2> QED BY <2>2 DEF v
<1>2. ASSUME NEW e \in Nat, e \in T PROVE e + 1 \in T
  <2> SUFFICES ASSUME e + 1 =< n PROVE Sum(V(e + 1), n) = Sum(s, n)
    OBVIOUS
  <2> DEFINE w == V(e + 1)
             v == V(e)
             h == n - 1
  <2>1. h \in Nat /\ n = h + 1 /\ n \in 1 .. n /\ 1 \in 1 .. n
    OBVIOUS
  <2>2. \A i \in 1 .. n : w[i] \in Int /\ v[i] \in Int
    <3> SUFFICES ASSUME NEW i \in 1 .. n PROVE w[i] \in Int /\ v[i] \in Int
      OBVIOUS
    <3>1. i > e + 1 => i - (e + 1) \in 1 .. n
      OBVIOUS
    <3>2. ~ (i > e + 1) => i - (e + 1) + n \in 1 .. n
      OBVIOUS
    <3>3. i > e => i - e \in 1 .. n
      OBVIOUS
    <3>4. ~ (i > e) => i - e + n \in 1 .. n
      OBVIOUS
    <3>5. w[i] \in Int
      BY <3>1, <3>2 DEF Ints
    <3>6. v[i] \in Int
      BY <3>3, <3>4 DEF Ints
    <3> QED BY <3>5, <3>6
  <2>3. w[1] = v[n]
    <3>1. w[1] = s[1 - (e + 1) + n]
      BY <2>1
    <3>2. v[n] = s[n - e]
      BY <2>1
    <3>3. 1 - (e + 1) + n = n - e
      OBVIOUS
    <3> QED BY <3>1, <3>2, <3>3
  <2>4. ASSUME NEW i \in 1 .. h PROVE v[i] = w[i + 1]
    <3>1. i \in 1 .. n /\ i + 1 \in 1 .. n
      BY <2>1
    <3>2. i + 1 > e + 1 <=> i > e
      OBVIOUS
    <3>3. (i + 1) - (e + 1) = i - e
      OBVIOUS
    <3>4. v[i] = IF i > e THEN s[i - e] ELSE s[i - e + n]
      BY <3>1
    <3>5. w[i + 1] = IF i + 1 > e + 1 THEN s[(i + 1) - (e + 1)] ELSE s[(i + 1) - (e + 1) + n]
      BY <3>1
    <3> QED BY <3>2, <3>3, <3>4, <3>5
  <2> HIDE DEF w, v, h
  <2>5. Ints(w, h + 1) /\ Ints(v, h)
    BY <2>1, <2>2 DEF Ints
  <2>6. Sum(w, h + 1) = w[1] + Sum(v, h)
    BY <2>1, <2>4, <2>5, SumFront
  <2>7. Sum(v, h + 1) = Sum(v, h) + v[h + 1]
    BY <2>1, SumNext
  <2>8. Sum(v, h) \in Int /\ v[n] \in Int
    BY <2>1, <2>2, <2>5, SumType
  <2>9. Sum(w, n) = Sum(v, n)
    BY <2>1, <2>3, <2>6, <2>7, <2>8
  <2>10. Sum(v, n) = Sum(s, n)
    BY <1>2 DEF v
  <2> QED BY <2>9, <2>10 DEF w
<1> HIDE DEF T
<1>3. d \in T
  BY <1>1, <1>2, NumbersByInduction
<1>4. Sum(V(d), n) = Sum(s, n)
  BY <1>3 DEF T
<1>5. Sum(u, n) = Sum(V(d), n)
  <2> DEFINE v == V(d)
  <2>1. \A i \in 1 .. n : u[i] = v[i]
    BY DEF Rotated
  <2> HIDE DEF v
  <2>2. Sum(u, n) = Sum(v, n)
    BY <2>1, SumAlike
  <2> QED BY <2>2 DEF v
<1> QED BY <1>4, <1>5

-----------------------------------------------------------------------------
(* Powers of the root of unity.                                            *)

PowerUpTo(g, b, e) ==
  g = [i \in 0 .. e |-> IF i = 0 THEN 1 ELSE (g[i - 1] * b) % Q]

LEMMA PowerFunction ==
  ASSUME NEW n \in Nat, NEW b
  PROVE  \E g : PowerUpTo(g, b, n) /\ Power(b, n) = g[n]
<1> DEFINE Is(g, m) ==
             g = [i \in 0 .. m |-> IF i = 0 THEN 1 ELSE (g[i - 1] * b) % Q]
           pow == CHOOSE g : Is(g, n)
<1>1. Power(b, n) = pow[n]
  BY DEF Power
<1>2. \E g : Is(g, n)
  <2> DEFINE S == {m \in Nat : \E g : Is(g, m)}
  <2>1. 0 \in S
    <3> DEFINE g == [i \in 0 .. 0 |-> 1]
    <3>1. \A i \in 0 .. 0 : i = 0
      OBVIOUS
    <3>2. Is(g, 0)
      BY <3>1
    <3> QED BY <3>2
  <2>2. ASSUME NEW m \in Nat, m \in S PROVE m + 1 \in S
    <3>1. PICK g : Is(g, m)
      BY <2>2
    <3> DEFINE e == [i \in 0 .. m + 1 |-> IF i = m + 1 THEN (g[m] * b) % Q ELSE g[i]]
    <3>2. ASSUME NEW i \in 0 .. m + 1
          PROVE  e[i] = IF i = 0 THEN 1 ELSE (e[i - 1] * b) % Q
      <4>1. CASE i = m + 1
        <5>1. e[i] = (g[m] * b) % Q /\ m \in 0 .. m + 1 /\ m # m + 1 /\ i # 0
          BY <4>1
        <5>2. e[m] = g[m] /\ i - 1 = m
          BY <4>1, <5>1
        <5> QED BY <4>1, <5>1, <5>2
      <4>2. CASE i # m + 1
        <5>1. i \in 0 .. m /\ e[i] = g[i]
          BY <4>2
        <5>2. g[i] = IF i = 0 THEN 1 ELSE (g[i - 1] * b) % Q
          BY <3>1, <5>1
        <5>3. i # 0 => i - 1 \in 0 .. m + 1 /\ i - 1 # m + 1
          BY <5>1
        <5>4. i # 0 => e[i - 1] = g[i - 1]
          BY <5>3
        <5> QED BY <5>1, <5>2, <5>4
      <4> QED BY <4>1, <4>2
    <3>3. Is(e, m + 1)
      <4>1. e = [i \in 0 .. m + 1 |-> e[i]]
        OBVIOUS
      <4> HIDE DEF e
      <4> QED BY <3>2, <4>1
    <3> HIDE DEF e, Is
    <3> QED BY <3>3
  <2> HIDE DEF S
  <2>3. n \in S
    BY <2>1, <2>2, NumbersByInduction
  <2> QED BY <2>3 DEF S
<1>3. Is(pow, n)
  BY <1>2, Zenon
<1> HIDE DEF pow
<1> QED BY <1>1, <1>3 DEF PowerUpTo

LEMMA PowerZero ==
  ASSUME NEW b
  PROVE  Power(b, 0) = 1
<1>1. PICK g : PowerUpTo(g, b, 0) /\ Power(b, 0) = g[0]
  <2>1. 0 \in Nat
    OBVIOUS
  <2> QED BY <2>1, PowerFunction, Zenon
<1> QED BY <1>1 DEF PowerUpTo

LEMMA PowerNext ==
  ASSUME NEW n \in Nat, NEW b
  PROVE  Power(b, n + 1) = (Power(b, n) * b) % Q
<1>1. PICK g : PowerUpTo(g, b, n + 1) /\ Power(b, n + 1) = g[n + 1]
  <2>1. n + 1 \in Nat
    OBVIOUS
  <2> QED BY <2>1, PowerFunction, Zenon
<1>2. PICK e : PowerUpTo(e, b, n) /\ Power(b, n) = e[n]
  BY PowerFunction, Zenon
<1> DEFINE T == {m \in Nat : m =< n => g[m] = e[m]}
<1>3. 0 \in T
  <2>1. 0 \in 0 .. n /\ 0 \in 0 .. n + 1
    OBVIOUS
  <2>2. g[0] = 1 /\ e[0] = 1
    BY <1>1, <1>2, <2>1 DEF PowerUpTo
  <2> QED BY <2>2
<1>4. ASSUME NEW m \in Nat, m \in T PROVE m + 1 \in T
  <2> SUFFICES ASSUME m + 1 =< n PROVE g[m + 1] = e[m + 1]
    OBVIOUS
  <2>1. m + 1 \in 0 .. n /\ m + 1 \in 0 .. n + 1 /\ m + 1 # 0 /\ m + 1 - 1 = m
    OBVIOUS
  <2>2. g[m + 1] = (g[m] * b) % Q
    BY <1>1, <2>1 DEF PowerUpTo
  <2>3. e[m + 1] = (e[m] * b) % Q
    BY <1>2, <2>1 DEF PowerUpTo
  <2>4. g[m] = e[m]
    BY <1>4
  <2> QED BY <2>2, <2>3, <2>4
<1> HIDE DEF T
<1>5. n \in T
  BY <1>3, <1>4, NumbersByInduction
<1>6. n + 1 \in 0 .. n + 1 /\ n + 1 # 0 /\ n + 1 - 1 = n
  OBVIOUS
<1>7. g[n + 1] = (g[n] * b) % Q
  BY <1>1, <1>6 DEF PowerUpTo
<1> QED BY <1>1, <1>2, <1>5, <1>7 DEF T

W(e) == Power(Root, e)

LEMMA WNext ==
  /\ W(0) = 1
  /\ \A e \in Nat : W(e) \in Int /\ Same(W(e + 1), W(e) * Root)
<1>1. W(0) = 1 /\ Root \in Int
  BY PowerZero, TableAssumption DEF W
<1> DEFINE T == {e \in Nat : W(e) \in Int}
<1>2. ASSUME NEW e \in Nat, W(e) \in Int
      PROVE  W(e + 1) \in Int /\ Same(W(e + 1), W(e) * Root)
  <2>1. W(e + 1) = (W(e) * Root) % Q
    BY PowerNext DEF W
  <2>2. W(e) * Root \in Int
    BY <1>1, <1>2
  <2> QED BY <2>1, <2>2, SameMod
<1>3. 0 \in T
  BY <1>1
<1>4. ASSUME NEW e \in Nat, e \in T PROVE e + 1 \in T
  BY <1>2, <1>4
<1> HIDE DEF T
<1>5. \A e \in Nat : e \in T
  BY <1>3, <1>4, NumbersByInduction
<1> QED BY <1>1, <1>2, <1>5 DEF T

LEMMA WAdds ==
  ASSUME NEW a \in Nat
  PROVE  \A b \in Nat : Same(W(a + b), W(a) * W(b))
<1> DEFINE T == {b \in Nat : Same(W(a + b), W(a) * W(b))}
<1>1. 0 \in T
  <2>1. W(0) = 1 /\ W(a) \in Int /\ a + 0 = a
    BY WNext
  <2>2. W(a) = W(a) * W(0)
    BY <2>1
  <2>3. Same(W(a), W(a) * W(0))
    BY <2>1, <2>2, SameRefl
  <2> QED BY <2>1, <2>3
<1>2. ASSUME NEW b \in Nat, b \in T PROVE b + 1 \in T
  <2>1. /\ W(a) \in Int /\ W(b) \in Int /\ W(a + b) \in Int /\ a + b \in Nat
        /\ W(b + 1) \in Int /\ a + (b + 1) = (a + b) + 1 /\ W((a + b) + 1) \in Int
        /\ Root \in Int
    BY WNext, TableAssumption
  <2>2. Same(W((a + b) + 1), W(a + b) * Root) /\ Same(W(b + 1), W(b) * Root)
    BY <2>1, WNext
  <2>3. Same(W(a + b), W(a) * W(b))
    BY <1>2
  <2> DEFINE x == W(a)
             y == W(b)
             z == W(a + b)
             y1 == W(b + 1)
             z1 == W((a + b) + 1)
  <2>4. x \in Int /\ y \in Int /\ z \in Int /\ y1 \in Int /\ z1 \in Int /\ Root \in Int
    BY <2>1
  <2>5. Same(z1, z * Root) /\ Same(y1, y * Root) /\ Same(z, x * y)
    BY <2>2, <2>3
  <2> HIDE DEF x, y, z, y1, z1
  <2>6. x * y \in Int /\ z * Root \in Int /\ (x * y) * Root \in Int /\ y * Root \in Int
        /\ x * y1 \in Int /\ x * (y * Root) = (x * y) * Root
    BY <2>4
  <2>7. Same(z * Root, (x * y) * Root)
    BY <2>4, <2>5, <2>6, SameRight, Zenon
  <2>8. Same(x * y1, x * (y * Root))
    BY <2>4, <2>5, <2>6, SameLeft, Zenon
  <2>9. Same((x * y) * Root, x * y1)
    BY <2>6, <2>8, SameSym
  <2>10. Same(z1, (x * y) * Root)
    BY <2>4, <2>5, <2>6, <2>7, SameTrans, Zenon
  <2>11. Same(z1, x * y1)
    BY <2>4, <2>6, <2>9, <2>10, SameTrans, Zenon
  <2> QED BY <2>1, <2>11 DEF x, y1, z1
<1> HIDE DEF T
<1>3. \A b \in Nat : b \in T
  BY <1>1, <1>2, NumbersByInduction
<1> QED BY <1>3 DEF T

LEMMA WHalf ==
  ASSUME NEW a \in Nat
  PROVE  W(a) \in Int /\ Same(W(a + N), -W(a)) /\ Same(W(N), -1)
<1>1. N \in Nat /\ W(a) \in Int /\ W(N) \in Int /\ W(a + N) \in Int
  BY WNext, QNatural
<1>2. Same(W(N), -1)
  <2>1. (W(N) + 1) % Q = 0 /\ W(N) + 1 = W(N) - (-1)
    BY <1>1, TableAssumption DEF W
  <2> DEFINE a1 == W(N)
             b1 == -1
  <2>2. a1 \in Int /\ b1 \in Int /\ (a1 - b1) % Q = 0
    BY <1>1, <2>1
  <2> HIDE DEF a1, b1
  <2>3. Same(a1, b1)
    BY <2>2, SameIsMod
  <2> QED BY <2>3 DEF a1, b1
<1>3. Same(W(a + N), W(a) * W(N))
  BY <1>1, WAdds
<1>4. Same(W(a) * W(N), W(a) * (-1))
  <2>1. -1 \in Int
    OBVIOUS
  <2> QED BY <1>1, <1>2, <2>1, SameLeft, Zenon
<1>5. W(a) * (-1) = -W(a) /\ W(a) * W(N) \in Int /\ -W(a) \in Int
  BY <1>1
<1>6. Same(W(a) * W(N), -W(a))
  BY <1>4, <1>5
<1> QED BY <1>1, <1>2, <1>3, <1>5, <1>6, SameTrans

LEMMA WTurns ==
  ASSUME NEW a \in Nat
  PROVE  \A m \in Nat : Same(W(a + 2 * (N * m)), W(a))
<1> DEFINE T == {m \in Nat : Same(W(a + 2 * (N * m)), W(a))}
<1>0. N \in Nat /\ W(a) \in Int
  BY WNext, QNatural
<1>1. 0 \in T
  <2>1. a + 2 * (N * 0) = a
    BY <1>0
  <2> QED BY <1>0, <2>1, SameRefl
<1>2. ASSUME NEW m \in Nat, m \in T PROVE m + 1 \in T
  <2> DEFINE b == a + 2 * (N * m)
  <2>1. b \in Nat /\ a + 2 * (N * (m + 1)) = (b + N) + N /\ b + N \in Nat
    <3> DEFINE x == N * m
    <3>1. x \in Nat /\ N * (m + 1) = x + N
      BY <1>0
    <3> HIDE DEF x
    <3> QED BY <1>0, <3>1 DEF x
  <2>2. Same(W(b), W(a))
    BY <1>2
  <2> HIDE DEF b
  <2>3. /\ W(b) \in Int /\ W(b + N) \in Int /\ W((b + N) + N) \in Int
        /\ Same(W(b + N), -W(b)) /\ Same(W((b + N) + N), -W(b + N))
    BY <1>0, <2>1, WHalf, WNext
  <2>4. Same(-W(b + N), -(-W(b))) /\ -(-W(b)) = W(b) /\ -W(b + N) \in Int
    BY <2>3, SameMinus
  <2>5. Same(W((b + N) + N), W(b))
    BY <2>3, <2>4, SameTrans
  <2>6. Same(W((b + N) + N), W(a))
    BY <1>0, <2>2, <2>3, <2>5, SameTrans
  <2> QED BY <2>1, <2>6
<1> HIDE DEF T
<1>3. \A m \in Nat : m \in T
  BY <1>1, <1>2, NumbersByInduction
<1> QED BY <1>3 DEF T

-----------------------------------------------------------------------------
(* Reversed bits, as the transforms meet them: node z of the tree of       *)
(* blocks has the children 2 z and 2 z + 1.                                *)

LEMMA DivIs ==
  ASSUME NEW d \in Nat \ {0}, NEW q \in Int, NEW r \in 0 .. d - 1
  PROVE  (q * d + r) \div d = q /\ (q * d + r) % d = r
<1> DEFINE x == q * d + r
           p == x \div d
           y == x % d
<1>1. x \in Int
  OBVIOUS
<1>2. p \in Int /\ y \in 0 .. d - 1 /\ x = p * d + y
  <2> HIDE DEF x
  <2> QED BY <1>1, Division, Zenon
<1> HIDE DEF p, y
<1> DEFINE e == p - q
<1>3. e \in Int /\ e * d = r - y
  BY <1>2
<1> HIDE DEF e
<1>4. e >= 1 => e * d >= d
  BY <1>3
<1>5. e =< -1 => e * d =< -d
  BY <1>3
<1>6. e = 0
  BY <1>2, <1>3, <1>4, <1>5
<1>7. p = q /\ y = r
  <2>1. p = q
    BY <1>2, <1>6 DEF e
  <2>2. 0 * d = 0
    OBVIOUS
  <2> QED BY <1>2, <1>3, <1>6, <2>1, <2>2
<1> QED BY <1>7 DEF p, y

Bit(i, b) == (i \div 2 ^ b) % 2
BitTerms(i) == [b \in 1 .. Layers |-> Bit(i, b - 1) * 2 ^ (Layers - b)]
HalfN == 2 ^ (Layers - 1)

LEMMA HalfNIs == HalfN \in Nat \ {0} /\ N = 2 * HalfN /\ FirstUp(Layers) = HalfN
<1>1. Layers \in 1 .. Layers
  BY NttAssumption
<1>2. Span(Layers) = 1 /\ FirstUp(Layers) \in Nat \ {0} /\ N = 2 * (Span(Layers) * FirstUp(Layers))
  BY <1>1, SpanFacts, SpanEnds
<1> QED BY <1>2 DEF FirstUp, HalfN

LEMMA BitRevIs ==
  ASSUME NEW i \in Nat
  PROVE  /\ BitRev(i) = Sum(BitTerms(i), Layers)
         /\ Ints(BitTerms(i), Layers) /\ BitRev(i) \in Int
         /\ \A b \in Nat : Bit(i, b) \in {0, 1}
<1>1. BitRev(i) = Sum(BitTerms(i), Layers)
  BY DEF BitRev, BitTerms, Bit
<1>2. \A b \in Nat : Bit(i, b) \in {0, 1}
  <2> SUFFICES ASSUME NEW b \in Nat PROVE Bit(i, b) \in {0, 1}
    OBVIOUS
  <2>1. 2 ^ b \in Nat \ {0}
    BY PowerType
  <2> DEFINE x == i \div 2 ^ b
  <2>2. x \in Int
    BY <2>1
  <2> HIDE DEF x
  <2>3. x % 2 \in {0, 1}
    BY <2>2
  <2> QED BY <2>3 DEF Bit, x
<1>3. Ints(BitTerms(i), Layers)
  <2> SUFFICES ASSUME NEW b \in 1 .. Layers PROVE Bit(i, b - 1) * 2 ^ (Layers - b) \in Int
    BY DEF Ints, BitTerms
  <2>1. b - 1 \in Nat /\ Layers - b \in Nat
    BY NttAssumption
  <2>2. 2 ^ (Layers - b) \in Nat /\ Bit(i, b - 1) \in {0, 1}
    BY <1>2, <2>1, PowerType
  <2> QED BY <2>2
<1>4. BitRev(i) \in Int
  BY <1>1, <1>3, SumType, NttAssumption
<1> QED BY <1>1, <1>2, <1>3, <1>4

LEMMA BitBelow ==
  ASSUME NEW i \in Nat, NEW c \in {0, 1}, NEW b \in Nat \ {0}
  PROVE  Bit(2 * i + c, b) = Bit(i, b - 1)
<1> DEFINE d == 2 ^ (b - 1)
<1>1. d \in Nat \ {0} /\ 2 ^ b = 2 * d
  <2>1. b - 1 \in Nat /\ (b - 1) + 1 = b
    OBVIOUS
  <2> QED BY <2>1, PowerType, PowerDoubles
<1> HIDE DEF d
<1> DEFINE q == i \div d
           r == i % d
<1>2. q \in Int /\ r \in 0 .. d - 1 /\ i = q * d + r
  BY <1>1, Division
<1> HIDE DEF q, r
<1>3. 2 * d \in Nat \ {0} /\ 2 * r + c \in 0 .. 2 * d - 1 /\ 2 * i + c = q * (2 * d) + (2 * r + c)
  BY <1>1, <1>2
<1>4. (2 * i + c) \div (2 * d) = q
  BY <1>2, <1>3, DivIs, Zenon
<1> QED BY <1>1, <1>4 DEF Bit, q, d

LEMMA BitFirst ==
  ASSUME NEW i \in Nat, NEW c \in {0, 1}
  PROVE  Bit(2 * i + c, 0) = c
<1>1. 2 ^ 0 = 1 /\ (2 * i + c) \div 1 = 2 * i + c
  OBVIOUS
<1>2. (2 * i + c) % 2 = c
  OBVIOUS
<1> QED BY <1>1, <1>2 DEF Bit

\* The bits of what is below half of N, and the half added to it.
LEMMA BitTop ==
  ASSUME NEW i \in 0 .. HalfN - 1
  PROVE  /\ Bit(i, Layers - 1) = 0 /\ Bit(i + HalfN, Layers - 1) = 1
         /\ \A b \in 0 .. Layers - 2 : Bit(i + HalfN, b) = Bit(i, b)
<1>1. HalfN \in Nat \ {0} /\ HalfN = 2 ^ (Layers - 1) /\ i \in Nat /\ Layers \in Nat \ {0}
  BY HalfNIs, NttAssumption DEF HalfN
<1>2. Bit(i, Layers - 1) = 0
  <2>1. i = 0 * HalfN + i /\ 0 \in Int
    BY <1>1
  <2>2. (0 * HalfN + i) \div HalfN = 0
    BY <1>1, <2>1, DivIs, Zenon
  <2> QED BY <1>1, <2>1, <2>2 DEF Bit
<1>3. Bit(i + HalfN, Layers - 1) = 1
  <2>1. i + HalfN = 1 * HalfN + i /\ 1 \in Int
    BY <1>1
  <2>2. (1 * HalfN + i) \div HalfN = 1
    BY <1>1, <2>1, DivIs, Zenon
  <2> QED BY <1>1, <2>1, <2>2 DEF Bit
<1>4. ASSUME NEW b \in 0 .. Layers - 2 PROVE Bit(i + HalfN, b) = Bit(i, b)
  <2> DEFINE d == 2 ^ b
             m == 2 ^ (Layers - 2 - b)
  <2>1. b \in Nat /\ Layers - 2 - b \in Nat /\ (Layers - 2 - b) + 1 \in Nat
        /\ b + ((Layers - 2 - b) + 1) = Layers - 1
    BY <1>1
  <2>2. d \in Nat \ {0} /\ m \in Nat
    BY <2>1, PowerType
  <2>3. HalfN = d * (2 * m)
    <3>1. 2 ^ ((Layers - 2 - b) + 1) = 2 * m
      BY <2>1, PowerDoubles
    <3>2. 2 ^ (b + ((Layers - 2 - b) + 1)) = 2 ^ b * 2 ^ ((Layers - 2 - b) + 1)
      BY <2>1, PowerAdds, Zenon
    <3> QED BY <1>1, <2>1, <3>1, <3>2
  <2> HIDE DEF d, m
  <2> DEFINE q == i \div d
             r == i % d
  <2>4. q \in Int /\ r \in 0 .. d - 1 /\ i = q * d + r
    BY <1>1, <2>2, Division
  <2> HIDE DEF q, r
  <2>5. i + HalfN = (q + 2 * m) * d + r /\ q + 2 * m \in Int
    BY <2>2, <2>3, <2>4
  <2>6. (i + HalfN) \div d = q + 2 * m
    <3>1. ((q + 2 * m) * d + r) \div d = q + 2 * m
      BY <2>2, <2>4, <2>5, DivIs, Zenon
    <3> QED BY <2>5, <3>1
  <2>7. (q + 2 * m) % 2 = q % 2
    BY <2>2, <2>4
  <2> QED BY <2>6, <2>7 DEF Bit, q, d
<1> QED BY <1>2, <1>3, <1>4

LEMMA BitRevDoubles ==
  ASSUME NEW i \in 0 .. HalfN - 1
  PROVE  /\ 2 * BitRev(2 * i) = BitRev(i) /\ BitRev(2 * i + 1) = BitRev(2 * i) + HalfN
         /\ BitRev(i) \in Int /\ BitRev(2 * i) \in Int
<1> DEFINE h == Layers - 1
           u == [b \in 1 .. h |-> Bit(i, b - 1) * 2 ^ (h - b)]
<1>1. h \in Nat /\ Layers = h + 1 /\ i \in Nat /\ HalfN \in Nat /\ HalfN = 2 ^ h
  BY HalfNIs, NttAssumption DEF HalfN
<1>2. ASSUME NEW b \in 1 .. h PROVE u[b] \in Int /\ u[b] = Bit(i, b - 1) * 2 ^ (h - b)
  <2>1. h - b \in Nat /\ b - 1 \in Nat
    BY <1>1
  <2>2. 2 ^ (h - b) \in Nat /\ Bit(i, b - 1) \in {0, 1}
    BY <1>1, <2>1, PowerType, BitRevIs
  <2> QED BY <2>2
<1> HIDE DEF u, h
<1>3. Ints(u, h)
  BY <1>2 DEF Ints
<1>4. ASSUME NEW c \in {0, 1}
      PROVE  BitRev(2 * i + c) = c * HalfN + Sum(u, h)
  <2> DEFINE n == 2 * i + c
             t == BitTerms(n)
  <2>1. n \in Nat
    BY <1>1
  <2>2. BitRev(n) = Sum(t, h + 1) /\ Ints(t, h + 1)
    BY <1>1, <2>1, BitRevIs
  <2>3. t[1] = c * HalfN
    <3>1. t[1] = Bit(n, 1 - 1) * 2 ^ (Layers - 1)
      BY <1>1 DEF BitTerms
    <3>2. Bit(n, 0) = c
      BY <1>1, BitFirst
    <3>3. 1 - 1 = 0
      OBVIOUS
    <3> QED BY <3>1, <3>2, <3>3 DEF HalfN
  <2>4. ASSUME NEW b \in 1 .. h PROVE u[b] = t[b + 1]
    <3>1. b + 1 \in 1 .. Layers /\ (b + 1) - 1 = b /\ Layers - (b + 1) = h - b /\ b \in Nat \ {0}
      BY <1>1
    <3>2. t[b + 1] = Bit(n, b) * 2 ^ (h - b)
      BY <3>1 DEF BitTerms
    <3>3. Bit(n, b) = Bit(i, b - 1)
      BY <1>1, <3>1, BitBelow
    <3> QED BY <1>2, <3>2, <3>3
  <2> HIDE DEF t, n
  <2>5. Sum(t, h + 1) = t[1] + Sum(u, h)
    BY <1>1, <2>2, <2>4, SumFront
  <2> QED BY <2>2, <2>3, <2>5 DEF n
<1>5. BitRev(i) = 2 * Sum(u, h)
  <2> DEFINE t == BitTerms(i)
  <2>1. BitRev(i) = Sum(t, h + 1) /\ Ints(t, h + 1)
    BY <1>1, BitRevIs
  <2>2. t[h + 1] = 0
    <3>1. h + 1 \in 1 .. Layers /\ (h + 1) - 1 = Layers - 1 /\ Layers - (h + 1) = 0 /\ 2 ^ 0 = 1
      BY <1>1
    <3>2. t[h + 1] = Bit(i, Layers - 1) * 1
      BY <3>1 DEF BitTerms
    <3>3. Bit(i, Layers - 1) = 0
      BY BitTop
    <3> QED BY <3>2, <3>3
  <2>3. ASSUME NEW b \in 1 .. h PROVE t[b] = u[b] + u[b]
    <3>1. b \in 1 .. Layers /\ Layers - b = (h - b) + 1 /\ h - b \in Nat /\ b - 1 \in Nat
      BY <1>1
    <3>2. t[b] = Bit(i, b - 1) * 2 ^ (Layers - b)
      BY <3>1 DEF BitTerms
    <3>3. 2 ^ (Layers - b) = 2 * 2 ^ (h - b) /\ 2 ^ (h - b) \in Nat
      BY <3>1, PowerDoubles, PowerType
    <3>4. Bit(i, b - 1) \in {0, 1}
      BY <1>1, <3>1, BitRevIs
    <3>5. u[b] = Bit(i, b - 1) * 2 ^ (h - b)
      BY <1>2
    <3> QED BY <3>2, <3>3, <3>4, <3>5
  <2> HIDE DEF t
  <2>4. Sum(t, h) = Sum(u, h) + Sum(u, h)
    BY <1>1, <1>3, <2>3, SumAdds
  <2>5. Sum(t, h + 1) = Sum(t, h) + t[h + 1]
    BY <1>1, SumNext
  <2>6. Sum(u, h) \in Int
    BY <1>1, <1>3, SumType
  <2> QED BY <2>1, <2>2, <2>4, <2>5, <2>6
<1>6. Sum(u, h) \in Int
  BY <1>1, <1>3, SumType
<1>7. BitRev(2 * i) = Sum(u, h)
  <2>1. BitRev(2 * i + 0) = 0 * HalfN + Sum(u, h) /\ 2 * i + 0 = 2 * i
    BY <1>1, <1>4
  <2> QED BY <1>1, <1>6, <2>1
<1>8. BitRev(2 * i + 1) = 1 * HalfN + Sum(u, h)
  BY <1>4
<1> QED BY <1>1, <1>5, <1>6, <1>7, <1>8

LEMMA BitRevHalf ==
  ASSUME NEW i \in 0 .. HalfN - 1
  PROVE  BitRev(i + HalfN) = BitRev(i) + 1
<1> DEFINE h == Layers - 1
           s == BitTerms(i)
           t == BitTerms(i + HalfN)
<1>1. h \in Nat /\ Layers = h + 1 /\ i \in Nat /\ HalfN \in Nat /\ i + HalfN \in Nat
  BY HalfNIs, NttAssumption
<1>2. /\ BitRev(i) = Sum(s, h + 1) /\ Ints(s, h + 1)
      /\ BitRev(i + HalfN) = Sum(t, h + 1) /\ Ints(t, h + 1)
  BY <1>1, BitRevIs
<1>3. s[h + 1] = 0 /\ t[h + 1] = 1
  <2>1. h + 1 \in 1 .. Layers /\ (h + 1) - 1 = Layers - 1 /\ Layers - (h + 1) = 0 /\ 2 ^ 0 = 1
    BY <1>1
  <2>2. s[h + 1] = Bit(i, Layers - 1) * 1 /\ t[h + 1] = Bit(i + HalfN, Layers - 1) * 1
    BY <2>1 DEF BitTerms
  <2> QED BY <2>2, BitTop
<1>4. ASSUME NEW b \in 1 .. h PROVE s[b] = t[b]
  <2>1. b \in 1 .. Layers /\ b - 1 \in 0 .. Layers - 2
    BY <1>1
  <2>2. Bit(i + HalfN, b - 1) = Bit(i, b - 1)
    BY <2>1, BitTop
  <2> QED BY <2>1, <2>2 DEF BitTerms
<1> HIDE DEF s, t, h
<1>5. Sum(s, h) = Sum(t, h)
  BY <1>1, <1>4, SumAlike
<1>6. Sum(s, h + 1) = Sum(s, h) + s[h + 1] /\ Sum(t, h + 1) = Sum(t, h) + t[h + 1]
  BY <1>1, SumNext
<1>7. Sum(s, h) \in Int
  <2>1. Ints(s, h)
    BY <1>1, <1>2 DEF Ints
  <2> QED BY <1>1, <2>1, SumType
<1> QED BY <1>2, <1>3, <1>5, <1>6, <1>7

\* All of BitRev is in Nat.
LEMMA BitRevNat ==
  ASSUME NEW i \in Nat
  PROVE  BitRev(i) \in Nat
<1> DEFINE t == BitTerms(i)
           T == {m \in Nat : m =< Layers => Sum(t, m) \in Nat}
<1>1. BitRev(i) = Sum(t, Layers) /\ Layers \in Nat
  BY BitRevIs, NttAssumption
<1>2. ASSUME NEW b \in 1 .. Layers PROVE t[b] \in Nat
  <2>1. b - 1 \in Nat /\ Layers - b \in Nat
    BY <1>1
  <2>2. 2 ^ (Layers - b) \in Nat /\ Bit(i, b - 1) \in {0, 1}
    BY <2>1, PowerType, BitRevIs
  <2>3. t[b] = Bit(i, b - 1) * 2 ^ (Layers - b)
    BY DEF BitTerms
  <2> QED BY <2>2, <2>3
<1> HIDE DEF t
<1>3. 0 \in T
  BY SumZero
<1>4. ASSUME NEW m \in Nat, m \in T PROVE m + 1 \in T
  <2> SUFFICES ASSUME m + 1 =< Layers PROVE Sum(t, m + 1) \in Nat
    OBVIOUS
  <2>1. Sum(t, m + 1) = Sum(t, m) + t[m + 1]
    BY SumNext
  <2>2. m + 1 \in 1 .. Layers
    BY <1>1
  <2>3. t[m + 1] \in Nat /\ Sum(t, m) \in Nat
    BY <1>1, <1>2, <1>4, <2>2
  <2> QED BY <2>1, <2>3
<1> HIDE DEF T
<1>5. Layers \in T
  BY <1>1, <1>3, <1>4, NumbersByInduction
<1> QED BY <1>1, <1>5 DEF T

\* The blocks before a layer are nodes: block z has X^n less the power Exp(z)
\* of Root as its modulus, the leaves from N on single roots.
Exp(z) == IF z < N THEN 2 * BitRev(z) ELSE 2 * BitRev(z - N) + 1

LEMMA ExpChildren ==
  ASSUME NEW z \in 1 .. N - 1
  PROVE  /\ Exp(2 * z) = BitRev(z) /\ Exp(2 * z + 1) = BitRev(z) + N
         /\ Exp(z) = 2 * BitRev(z) /\ BitRev(z) \in Nat
<1>1. HalfN \in Nat \ {0} /\ N = 2 * HalfN /\ z \in Nat
  BY HalfNIs
<1>2. BitRev(z) \in Nat /\ Exp(z) = 2 * BitRev(z)
  BY <1>1, BitRevNat DEF Exp
<1>3. CASE z < HalfN
  <2>1. /\ 2 * BitRev(2 * z) = BitRev(z) /\ BitRev(2 * z + 1) = BitRev(2 * z) + HalfN
        /\ BitRev(2 * z) \in Int
    BY <1>1, <1>3, BitRevDoubles
  <2>2. 2 * z < N /\ 2 * z + 1 < N
    BY <1>1, <1>3
  <2> QED BY <1>1, <1>2, <2>1, <2>2 DEF Exp
<1>4. CASE ~ (z < HalfN)
  <2> DEFINE y == z - HalfN
  <2>1. y \in 0 .. HalfN - 1 /\ z = y + HalfN /\ 2 * z - N = 2 * y /\ (2 * z + 1) - N = 2 * y + 1
        /\ ~ (2 * z < N) /\ ~ (2 * z + 1 < N)
    BY <1>1, <1>4
  <2> HIDE DEF y
  <2>2. /\ 2 * BitRev(2 * y) = BitRev(y) /\ BitRev(2 * y + 1) = BitRev(2 * y) + HalfN
        /\ BitRev(y) \in Int /\ BitRev(2 * y) \in Int
    BY <2>1, BitRevDoubles
  <2>3. BitRev(z) = BitRev(y) + 1
    BY <2>1, BitRevHalf
  <2>4. Exp(2 * z) = 2 * BitRev(2 * y) + 1 /\ Exp(2 * z + 1) = 2 * BitRev(2 * y + 1) + 1
    BY <2>1 DEF Exp
  <2> QED BY <1>1, <1>2, <2>2, <2>3, <2>4
<1> QED BY <1>3, <1>4

\* The inverse transform takes the factors of a layer from its other end.
LEMMA Mirrored ==
  ASSUME NEW l \in 1 .. Layers, NEW z \in FirstUp(l) .. 2 * FirstUp(l) - 1
  PROVE  /\ 3 * FirstUp(l) - 1 - z \in 1 .. N - 1
         /\ BitRev(z) + BitRev(3 * FirstUp(l) - 1 - z) = N
<1> DEFINE Claim(h) == \A y \in FirstUp(h) .. 2 * FirstUp(h) - 1 :
                         BitRev(y) + BitRev(3 * FirstUp(h) - 1 - y) = N
           T == {m \in Nat : m < Layers => Claim(m + 1)}
<1>0. HalfN \in Nat \ {0} /\ N = 2 * HalfN /\ N \in Nat /\ Layers \in Nat \ {0}
  BY HalfNIs, NttAssumption
<1>1. ASSUME NEW h \in 1 .. Layers PROVE FirstUp(h) \in Nat \ {0} /\ FirstUp(h) =< HalfN
  <2>1. Span(h) \in Nat \ {0} /\ FirstUp(h) \in Nat \ {0} /\ N = 2 * (Span(h) * FirstUp(h))
    BY SpanFacts
  <2> DEFINE S == Span(h)
             F == FirstUp(h)
  <2>2. S \in Nat \ {0} /\ F \in Nat \ {0} /\ HalfN = S * F
    BY <1>0, <2>1
  <2> HIDE DEF S, F
  <2>3. S * F >= F
    BY <2>2
  <2> QED BY <2>2, <2>3 DEF F
<1>2. 0 \in T
  <2>1. FirstUp(0 + 1) = 1
    BY DEF FirstUp
  <2>2. BitRev(1) + BitRev(1) = N
    <3>1. 0 \in 0 .. HalfN - 1 /\ 2 * 0 = 0 /\ 2 * 0 + 1 = 1
      BY <1>0
    <3>2. 2 * BitRev(0) = BitRev(0) /\ BitRev(1) = BitRev(0) + HalfN /\ BitRev(0) \in Int
      BY <3>1, BitRevDoubles
    <3> DEFINE b == BitRev(0)
    <3>3. b = 0
      BY <3>2
    <3> QED BY <1>0, <3>2, <3>3
  <2>3. \A y \in 1 .. 2 * 1 - 1 : y = 1 /\ 3 * 1 - 1 - y = 1
    OBVIOUS
  <2>4. Claim(0 + 1)
    BY <2>1, <2>2, <2>3
  <2> QED BY <2>4
<1>3. ASSUME NEW m \in Nat, m \in T PROVE m + 1 \in T
  <2> SUFFICES ASSUME m + 1 < Layers,
                      NEW z2 \in FirstUp((m + 1) + 1) .. 2 * FirstUp((m + 1) + 1) - 1
               PROVE  BitRev(z2) + BitRev(3 * FirstUp((m + 1) + 1) - 1 - z2) = N
    OBVIOUS
  <2> DEFINE F == FirstUp(m + 1)
  <2>1. FirstUp((m + 1) + 1) = 2 * F
    <3>1. ((m + 1) + 1) - 1 = m + 1 /\ (m + 1) - 1 = m
      OBVIOUS
    <3> QED BY <3>1, PowerDoubles DEF FirstUp
  <2>2. F \in Nat \ {0} /\ 2 * F =< HalfN
    <3>1. m + 1 \in 1 .. Layers /\ (m + 1) + 1 \in 1 .. Layers
      BY <1>0
    <3> QED BY <1>1, <2>1, <3>1
  <2>3. Claim(m + 1)
    <3>1. m < Layers
      BY <1>0
    <3> QED BY <1>3, <3>1
  <2> HIDE DEF F
  <2> DEFINE y == z2 \div 2
             c == z2 % 2
  <2>4. z2 = 2 * y + c /\ c \in {0, 1} /\ y \in F .. 2 * F - 1
    BY <2>1, <2>2
  <2> HIDE DEF y, c
  <2> DEFINE x == 3 * F - 1 - y
  <2>5. x \in F .. 2 * F - 1 /\ x \in 0 .. HalfN - 1 /\ y \in 0 .. HalfN - 1
        /\ 3 * (2 * F) - 1 - z2 = 2 * x + (1 - c)
    BY <1>0, <2>2, <2>4
  <2>6. BitRev(y) + BitRev(x) = N
    BY <2>3, <2>4 DEF F
  <2> HIDE DEF x
  <2>7. /\ 2 * BitRev(2 * y) = BitRev(y) /\ BitRev(2 * y + 1) = BitRev(2 * y) + HalfN
        /\ 2 * BitRev(2 * x) = BitRev(x) /\ BitRev(2 * x + 1) = BitRev(2 * x) + HalfN
        /\ BitRev(y) \in Int /\ BitRev(x) \in Int /\ BitRev(2 * y) \in Int
        /\ BitRev(2 * x) \in Int
    BY <2>5, BitRevDoubles
  <2>8. CASE c = 0
    <3>1. z2 = 2 * y /\ 3 * (2 * F) - 1 - z2 = 2 * x + 1
      BY <1>0, <2>2, <2>4, <2>5, <2>8
    <3> QED BY <1>0, <2>1, <2>6, <2>7, <3>1
  <2>9. CASE c = 1
    <3>1. z2 = 2 * y + 1 /\ 3 * (2 * F) - 1 - z2 = 2 * x
      BY <1>0, <2>2, <2>4, <2>5, <2>9
    <3> QED BY <1>0, <2>1, <2>6, <2>7, <3>1
  <2> QED BY <2>4, <2>8, <2>9
<1> HIDE DEF T
<1>4. l - 1 \in T
  <2>1. l - 1 \in Nat
    OBVIOUS
  <2> QED BY <1>2, <1>3, <2>1, NumbersByInduction
<1>5. Claim(l)
  <2>1. l - 1 < Layers /\ (l - 1) + 1 = l
    BY <1>0
  <2> QED BY <1>4, <2>1 DEF T
<1>6. FirstUp(l) \in Nat \ {0} /\ FirstUp(l) =< HalfN
  BY <1>1
<1>7. 3 * FirstUp(l) - 1 - z \in 1 .. N - 1
  BY <1>0, <1>6
<1> QED BY <1>5, <1>7

-----------------------------------------------------------------------------
(* The polynomial A modulo X^s less a power of Root, one coefficient of it: *)
(* the transforms compute from the whole polynomial (s = N) to its values  *)
(* (s = 1) and back.                                                       *)

Parts(A, s, e, i, n) == [m \in 1 .. n |-> A[i + (m - 1) * s] * W(e * (m - 1))]
Branch(A, s, e, i, n) == Sum(Parts(A, s, e, i, n), n)

LEMMA Turned ==
  ASSUME NEW B \in Nat, NEW E \in {B, B + N}, NEW x \in Nat
  PROVE  /\ E \in Nat /\ E * (2 * x) \in Nat /\ E * (2 * x + 1) \in Nat /\ (2 * B) * x \in Nat
         /\ Same(W(E * (2 * x)), W((2 * B) * x))
         /\ Same(W(E * (2 * x + 1)), W((2 * B) * x) * W(E))
<1>1. N \in Nat /\ E \in Nat
  BY QNatural
<1>2. E * (2 * x) \in Nat /\ E * (2 * x + 1) \in Nat /\ (2 * B) * x \in Nat
      /\ E * (2 * x + 1) = E * (2 * x) + E
  BY <1>1
<1>3. Same(W(E * (2 * x)), W((2 * B) * x))
  <2>1. CASE E = B
    <3>1. E * (2 * x) = (2 * B) * x
      BY <2>1
    <3>2. W((2 * B) * x) \in Int
      BY <1>2, WNext
    <3> QED BY <3>1, <3>2, SameRefl
  <2>2. CASE E = B + N
    <3>1. E * (2 * x) = (2 * B) * x + 2 * (N * x)
      BY <1>1, <2>2
    <3>2. Same(W((2 * B) * x + 2 * (N * x)), W((2 * B) * x))
      BY <1>2, WTurns, Zenon
    <3> QED BY <3>1, <3>2
  <2> QED BY <2>1, <2>2
<1> DEFINE u == W(E * (2 * x))
           v == W((2 * B) * x)
           w == W(E)
           y == W(E * (2 * x + 1))
<1>4. u \in Int /\ v \in Int /\ w \in Int /\ y \in Int
  BY <1>1, <1>2, WNext
<1>5. Same(y, u * w)
  <2>1. Same(W(E * (2 * x) + E), u * w)
    BY <1>1, <1>2, WAdds, Zenon
  <2> QED BY <1>2, <2>1
<1>6. Same(u, v)
  BY <1>3
<1> HIDE DEF u, v, w, y
<1>7. Same(u * w, v * w) /\ u * w \in Int /\ v * w \in Int
  <2>1. Same(u * w, v * w)
    BY <1>4, <1>6, SameRight, Zenon
  <2> QED BY <1>4, <2>1
<1>8. Same(y, v * w)
  BY <1>4, <1>5, <1>7, SameTrans, Zenon
<1> QED BY <1>1, <1>2, <1>3, <1>8 DEF v, w, y

LEMMA Steps ==
  ASSUME NEW s \in Nat, NEW n \in Nat, s * n = N, NEW i \in 0 .. s - 1, NEW m \in 1 .. n
  PROVE  i + (m - 1) * s \in Index
<1> DEFINE x == (m - 1) * s
           y == (n - m) * s
<1>1. x \in Nat /\ y \in Nat
  <2>1. m - 1 \in Nat /\ n - m \in Nat
    OBVIOUS
  <2> QED BY <2>1
<1>2. s * n = x + s + y
  OBVIOUS
<1> HIDE DEF x, y
<1>3. i + x \in Index
  BY <1>1, <1>2 DEF Index
<1> QED BY <1>3 DEF x

LEMMA BranchType ==
  ASSUME NEW A \in [Index -> Int], NEW s \in Nat, NEW n \in Nat, s * n = N,
         NEW i \in 0 .. s - 1, NEW e \in Nat
  PROVE  Ints(Parts(A, s, e, i, n), n) /\ Branch(A, s, e, i, n) \in Int
<1>1. ASSUME NEW m \in 1 .. n
      PROVE  A[i + (m - 1) * s] * W(e * (m - 1)) \in Int
  <2>1. i + (m - 1) * s \in Index
    BY Steps
  <2>2. m - 1 \in Nat
    OBVIOUS
  <2>3. e * (m - 1) \in Nat
    BY <2>2
  <2>4. W(e * (m - 1)) \in Int /\ A[i + (m - 1) * s] \in Int
    BY <2>1, <2>3, WNext
  <2> QED BY <2>4
<1>2. Ints(Parts(A, s, e, i, n), n)
  BY <1>1 DEF Ints, Parts
<1> QED BY <1>2, SumType DEF Branch

\* A block of butterflies: X^2s - c^2 is (X^s - c) (X^s + c).
LEMMA BranchSplit ==
  ASSUME NEW A \in [Index -> Int], NEW S \in Nat, NEW F \in Nat, N = 2 * (S * F),
         NEW B \in Nat, NEW E \in {B, B + N}, NEW i \in 0 .. S - 1
  PROVE  Same(Branch(A, S, E, i, 2 * F),
              Branch(A, 2 * S, 2 * B, i, F) + W(E) * Branch(A, 2 * S, 2 * B, i + S, F))
<1>1. /\ S * (2 * F) = N /\ (2 * S) * F = N /\ 2 * F \in Nat /\ 2 * S \in Nat /\ 2 * B \in Nat
      /\ i \in 0 .. 2 * S - 1 /\ i + S \in 0 .. 2 * S - 1 /\ E \in Nat
  <2>1. S * (2 * F) = N /\ (2 * S) * F = N
    OBVIOUS
  <2>2. N \in Nat
    BY QNatural
  <2> QED BY <2>1, <2>2
<1> DEFINE t == Parts(A, S, E, i, 2 * F)
           a == Parts(A, 2 * S, 2 * B, i, F)
           b == Parts(A, 2 * S, 2 * B, i + S, F)
           w == W(E)
           u == [m \in 1 .. F |-> t[2 * m - 1] + t[2 * m]]
           v == [m \in 1 .. F |-> a[m] + w * b[m]]
<1>2. Ints(t, 2 * F) /\ Ints(a, F) /\ Ints(b, F) /\ w \in Int
  BY <1>1, BranchType, WNext
<1>3. ASSUME NEW m \in 1 .. F PROVE Same(t[2 * m - 1] + t[2 * m], a[m] + w * b[m])
  <2> DEFINE x == m - 1
             p == A[i + x * (2 * S)]
             q == A[(i + S) + x * (2 * S)]
             g == W((2 * B) * x)
             y == W(E * (2 * x))
             z == W(E * (2 * x + 1))
  <2>1. x \in Nat /\ 2 * m - 1 \in 1 .. 2 * F /\ 2 * m \in 1 .. 2 * F
        /\ (2 * m - 1) - 1 = 2 * x /\ 2 * m - 1 = 2 * x + 1
        /\ (2 * x) * S = x * (2 * S) /\ (2 * x + 1) * S = S + x * (2 * S)
    BY <1>1
  <2>2. i + x * (2 * S) \in Index /\ (i + S) + x * (2 * S) \in Index
    BY <1>1, Steps
  <2>3. a[m] = p * g /\ b[m] = q * g
    BY DEF Parts
  <2>4. t[2 * m - 1] = p * y
    BY <2>1 DEF Parts
  <2>5. t[2 * m] = q * z
    <3>1. i + (2 * x + 1) * S = (i + S) + x * (2 * S)
      <4> DEFINE k1 == x * (2 * S)
                 k2 == (2 * x + 1) * S
      <4>1. k1 \in Int /\ k2 = S + k1
        BY <1>1, <2>1
      <4> HIDE DEF k1, k2
      <4> QED BY <1>1, <4>1 DEF k1, k2
    <3>2. t[2 * m] = A[i + (2 * m - 1) * S] * W(E * (2 * m - 1))
      BY <2>1 DEF Parts
    <3> QED BY <2>1, <3>1, <3>2
  <2>6. Same(y, g) /\ Same(z, g * w) /\ g \in Int /\ y \in Int /\ z \in Int
    BY <1>1, <2>1, Turned, WNext
  <2>7. p \in Int /\ q \in Int
    BY <2>2
  <2> HIDE DEF p, q, g, y, z, x, t, a, b, w
  <2>8. p * y \in Int /\ p * g \in Int /\ q * z \in Int /\ g * w \in Int /\ q * (g * w) \in Int
        /\ q * (g * w) = w * (q * g)
    BY <1>2, <2>6, <2>7
  <2>9. Same(p * y, p * g) /\ Same(q * z, q * (g * w))
    BY <2>6, <2>7, <2>8, SameLeft
  <2>10. Same(p * y + q * z, p * g + q * (g * w))
    BY <2>8, <2>9, SameAdd, Zenon
  <2> QED BY <2>3, <2>4, <2>5, <2>8, <2>10
<1>4. Ints(u, F) /\ Ints(v, F)
  <2> HIDE DEF t, a, b, w
  <2>1. ASSUME NEW m \in 1 .. F
        PROVE  t[2 * m - 1] \in Int /\ t[2 * m] \in Int /\ a[m] \in Int /\ b[m] \in Int
    <3>1. 2 * m - 1 \in 1 .. 2 * F /\ 2 * m \in 1 .. 2 * F
      OBVIOUS
    <3> QED BY <1>2, <3>1 DEF Ints
  <2>2. ASSUME NEW m \in 1 .. F PROVE u[m] \in Int
    <3>0. t[2 * m - 1] \in Int /\ t[2 * m] \in Int
      BY <2>1, Zenon
    <3>1. t[2 * m - 1] + t[2 * m] \in Int
      BY <3>0
    <3> QED BY <3>1
  <2>3. ASSUME NEW m \in 1 .. F PROVE v[m] \in Int
    <3>1. w * b[m] \in Int
      BY <1>2, <2>1
    <3> QED BY <2>1, <3>1
  <2> HIDE DEF u, v
  <2> QED BY <2>2, <2>3 DEF Ints
<1>5. Sum(t, 2 * F) = Sum(u, F)
  <2>1. \A m \in 1 .. F : u[m] = t[2 * m - 1] + t[2 * m]
    OBVIOUS
  <2> HIDE DEF t, u
  <2> QED BY <1>2, <2>1, SumPairs
<1>6. Sum(v, F) = Sum(a, F) + w * Sum(b, F)
  <2>1. \A m \in 1 .. F : v[m] = a[m] + w * b[m]
    OBVIOUS
  <2> HIDE DEF a, b, v, w
  <2> QED BY <1>2, <2>1, SumLinear
<1>7. Same(Sum(u, F), Sum(v, F))
  <2>1. \A m \in 1 .. F : Same(u[m], v[m])
    BY <1>3
  <2> HIDE DEF u, v
  <2> QED BY <1>4, <2>1, SumSame
<1> QED BY <1>5, <1>6, <1>7 DEF Branch

\* Coefficient j of what the transform of A has become after l layers.
Val(A, l, j) == Branch(A, Span(l), Exp(2 ^ l + j \div Span(l)), j % Span(l), 2 ^ l)

LEMMA SpanIs ==
  ASSUME NEW l \in 0 .. Layers
  PROVE  Span(l) \in Nat \ {0} /\ 2 ^ l \in Nat \ {0} /\ Span(l) * 2 ^ l = N
<1>1. l \in Nat /\ Layers - l \in Nat /\ l + (Layers - l) = Layers
  BY NttAssumption
<1>2. 2 ^ (l + (Layers - l)) = 2 ^ l * 2 ^ (Layers - l)
  BY <1>1, PowerAdds, Zenon
<1>3. N = 2 ^ l * 2 ^ (Layers - l)
  BY <1>1, <1>2, NttAssumption
<1>4. 2 ^ l \in Nat \ {0} /\ 2 ^ (Layers - l) \in Nat \ {0}
  BY <1>1, PowerType
<1>5. Span(l) = 2 ^ (Layers - l)
  BY SpanPower
<1> DEFINE x == 2 ^ l
           y == 2 ^ (Layers - l)
<1>6. x \in Nat \ {0} /\ y \in Nat \ {0} /\ N = x * y
  BY <1>3, <1>4
<1> HIDE DEF x, y
<1>7. y * x = N
  BY <1>6
<1> QED BY <1>5, <1>6, <1>7 DEF x, y

LEMMA ValBlock ==
  ASSUME NEW A, NEW l \in 0 .. Layers, NEW q \in Int, NEW i \in 0 .. Span(l) - 1
  PROVE  Val(A, l, q * Span(l) + i) = Branch(A, Span(l), Exp(2 ^ l + q), i, 2 ^ l)
<1>1. Span(l) \in Nat \ {0}
  BY SpanIs, PowerType
<1>2. (q * Span(l) + i) \div Span(l) = q /\ (q * Span(l) + i) % Span(l) = i
  BY <1>1, DivIs, Zenon
<1> QED BY <1>2 DEF Val

LEMMA ExpNat ==
  ASSUME NEW z \in Nat
  PROVE  Exp(z) \in Nat
<1>1. CASE z < N
  <2>1. BitRev(z) \in Nat
    BY BitRevNat
  <2> QED BY <1>1, <2>1 DEF Exp
<1>2. CASE ~ (z < N)
  <2>1. z - N \in Nat
    BY <1>2, QNatural
  <2>2. BitRev(z - N) \in Nat
    BY <2>1, BitRevNat
  <2> QED BY <1>2, <2>2 DEF Exp
<1> QED BY <1>1, <1>2

LEMMA ValType ==
  ASSUME NEW A \in [Index -> Int], NEW l \in 0 .. Layers, NEW j \in Index
  PROVE  Val(A, l, j) \in Int
<1> DEFINE S == Span(l)
           F == 2 ^ l
           q == j \div S
           i == j % S
<1>1. S \in Nat \ {0} /\ F \in Nat \ {0} /\ S * F = N /\ j \in Nat
  BY SpanIs, PowerType DEF Index
<1> HIDE DEF S, F
<1>2. q \in Int /\ i \in 0 .. S - 1 /\ j = q * S + i
  BY <1>1, Division
<1>3. q >= 0
  <2> HIDE DEF q, i
  <2>1. q =< -1 => q * S =< -S
    BY <1>1, <1>2
  <2> QED BY <1>1, <1>2, <2>1
<1>4. F + q \in Nat
  BY <1>1, <1>2, <1>3
<1>5. Exp(F + q) \in Nat
  BY <1>4, ExpNat
<1> HIDE DEF q, i
<1>6. Branch(A, S, Exp(F + q), i, F) \in Int
  BY <1>1, <1>2, <1>5, BranchType, Zenon
<1> QED BY <1>6 DEF Val, S, F, q, i

LEMMA ValSplit ==
  ASSUME NEW A \in [Index -> Int], NEW l \in 1 .. Layers, NEW q \in 0 .. FirstUp(l) - 1,
         NEW j, NEW i \in 0 .. Span(l) - 1, j = q * (2 * Span(l)) + i
  PROVE  /\ j \in Index /\ j + Span(l) \in Index
         /\ W(BitRev(FirstUp(l) + q)) \in Int
         /\ Same(Val(A, l, j),
                 Val(A, l - 1, j) + W(BitRev(FirstUp(l) + q)) * Val(A, l - 1, j + Span(l)))
         /\ Same(Val(A, l, j + Span(l)),
                 Val(A, l - 1, j) - W(BitRev(FirstUp(l) + q)) * Val(A, l - 1, j + Span(l)))
<1> DEFINE S == Span(l)
           F == FirstUp(l)
           z == F + q
           B == BitRev(z)
<1>1. /\ S \in Nat \ {0} /\ F \in Nat \ {0} /\ N = 2 * (S * F) /\ Span(l - 1) = 2 * S
      /\ 2 ^ (l - 1) = F /\ 2 ^ l = 2 * F /\ N \in Nat
  <2>1. l - 1 \in Nat /\ (l - 1) + 1 = l
    OBVIOUS
  <2> QED BY <2>1, SpanFacts, PowerDoubles, QNatural DEF FirstUp
<1>2. q \in 0 .. F - 1 /\ i \in 0 .. S - 1 /\ j = q * (2 * S) + i
  OBVIOUS
<1> HIDE DEF S, F
<1>3. z \in 1 .. N - 1
  <2>1. S * F >= F
    BY <1>1
  <2> QED BY <1>1, <1>2, <2>1
<1>4. Exp(2 * z) = B /\ Exp(2 * z + 1) = B + N /\ Exp(z) = 2 * B /\ B \in Nat
  BY <1>3, ExpChildren
<1>5. j \in Index /\ j + S \in Index
  <2> DEFINE x == q * (2 * S)
             y == (F - 1 - q) * (2 * S)
  <2>1. x \in Nat /\ y \in Nat
    <3>1. F - 1 - q \in Nat /\ 2 * S \in Nat
      BY <1>1, <1>2
    <3> QED BY <1>2, <3>1
  <2>2. N = x + y + 2 * S
    BY <1>1, <1>2
  <2> HIDE DEF x, y
  <2>3. x + i \in 0 .. N - 1 /\ (x + i) + S \in 0 .. N - 1
    BY <1>1, <1>2, <2>1, <2>2
  <2> QED BY <1>2, <2>3 DEF Index, x
<1> DEFINE P == Branch(A, 2 * S, 2 * B, i, F)
           U == Branch(A, 2 * S, 2 * B, i + S, F)
           w == W(B)
<1>6. Val(A, l - 1, j) = P
  <2>1. l - 1 \in 0 .. Layers /\ q \in Int /\ i \in 0 .. Span(l - 1) - 1
    BY <1>1, <1>2, NttAssumption
  <2>2. Val(A, l - 1, q * Span(l - 1) + i)
          = Branch(A, Span(l - 1), Exp(2 ^ (l - 1) + q), i, 2 ^ (l - 1))
    BY <2>1, ValBlock, Zenon
  <2> QED BY <1>1, <1>2, <1>4, <2>2
<1>7. Val(A, l - 1, j + S) = U
  <2>1. l - 1 \in 0 .. Layers /\ q \in Int /\ i + S \in 0 .. Span(l - 1) - 1
    BY <1>1, <1>2, NttAssumption
  <2>2. Val(A, l - 1, q * Span(l - 1) + (i + S))
          = Branch(A, Span(l - 1), Exp(2 ^ (l - 1) + q), i + S, 2 ^ (l - 1))
    BY <2>1, ValBlock, Zenon
  <2>3. q * (2 * S) + (i + S) = j + S
    <3> DEFINE x == q * (2 * S)
    <3>1. x \in Int
      BY <1>1, <1>2
    <3>2. j = x + i
      BY <1>2
    <3> HIDE DEF x
    <3>3. x + (i + S) = j + S
      BY <1>1, <1>2, <3>1, <3>2
    <3> QED BY <3>3 DEF x
  <2> QED BY <1>1, <1>4, <2>2, <2>3
<1>8. Val(A, l, j) = Branch(A, S, B, i, 2 * F)
  <2>1. l \in 0 .. Layers /\ 2 * q \in Int
    BY <1>2
  <2>2. Val(A, l, (2 * q) * Span(l) + i) = Branch(A, Span(l), Exp(2 ^ l + 2 * q), i, 2 ^ l)
    BY <2>1, ValBlock, Zenon
  <2>3. (2 * q) * S + i = j /\ 2 * F + 2 * q = 2 * z
    BY <1>1, <1>2
  <2> QED BY <1>1, <1>4, <2>2, <2>3 DEF S
<1>9. Val(A, l, j + S) = Branch(A, S, B + N, i, 2 * F)
  <2>1. l \in 0 .. Layers /\ 2 * q + 1 \in Int
    BY <1>2
  <2>2. Val(A, l, (2 * q + 1) * Span(l) + i)
          = Branch(A, Span(l), Exp(2 ^ l + (2 * q + 1)), i, 2 ^ l)
    BY <2>1, ValBlock, Zenon
  <2>3. (2 * q + 1) * S + i = j + S /\ 2 * F + (2 * q + 1) = 2 * z + 1
    <3> DEFINE x == q * S
    <3>1. x \in Int /\ j = 2 * x + i /\ (2 * q + 1) * S = 2 * x + S
      BY <1>1, <1>2
    <3> HIDE DEF x
    <3> QED BY <1>1, <1>2, <3>1
  <2> QED BY <1>1, <1>4, <2>2, <2>3 DEF S
<1>10. P \in Int /\ U \in Int /\ w \in Int
  <2>1. (2 * S) * F = N /\ i \in 0 .. 2 * S - 1 /\ i + S \in 0 .. 2 * S - 1
        /\ 2 * S \in Nat /\ 2 * B \in Nat /\ F \in Nat
    BY <1>1, <1>2, <1>4
  <2> HIDE DEF B
  <2>2. P \in Int /\ U \in Int
    BY <2>1, BranchType, Zenon
  <2> QED BY <1>4, <2>2, WNext
<1>11. Same(Branch(A, S, B, i, 2 * F), P + w * U)
  <2> DEFINE E == B
  <2>1. E \in {B, B + N} /\ S \in Nat /\ F \in Nat /\ B \in Nat /\ N = 2 * (S * F)
        /\ i \in 0 .. S - 1
    BY <1>1, <1>2, <1>4
  <2> HIDE DEF B, E, S, F
  <2>2. Same(Branch(A, S, E, i, 2 * F), Branch(A, 2 * S, 2 * B, i, F)
                                          + W(E) * Branch(A, 2 * S, 2 * B, i + S, F))
    BY <2>1, BranchSplit, Zenon
  <2> QED BY <2>2 DEF E
<1>12. Same(Branch(A, S, B + N, i, 2 * F), P + W(B + N) * U)
  <2> DEFINE E == B + N
  <2>1. E \in {B, B + N} /\ S \in Nat /\ F \in Nat /\ B \in Nat /\ N = 2 * (S * F)
        /\ i \in 0 .. S - 1
    BY <1>1, <1>2, <1>4
  <2> HIDE DEF B, E, S, F
  <2>2. Same(Branch(A, S, E, i, 2 * F), Branch(A, 2 * S, 2 * B, i, F)
                                          + W(E) * Branch(A, 2 * S, 2 * B, i + S, F))
    BY <2>1, BranchSplit, Zenon
  <2> QED BY <2>2 DEF E
<1>13. Same(W(B + N), -w) /\ W(B + N) \in Int
  <2>1. B + N \in Nat
    BY <1>1, <1>4
  <2> QED BY <1>4, <2>1, WHalf, WNext
<1> DEFINE y == W(B + N)
           b1 == Branch(A, S, B + N, i, 2 * F)
<1>14. b1 \in Int
  <2>1. S * (2 * F) = N /\ 2 * F \in Nat /\ B + N \in Nat /\ S \in Nat
    BY <1>1, <1>4
  <2> HIDE DEF B
  <2> QED BY <1>2, <2>1, BranchType, Zenon
<1>15. Same(b1, P + y * U) /\ Same(y, -w) /\ y \in Int
  BY <1>12, <1>13
<1> HIDE DEF P, U, w, y, b1
<1>16. Same(b1, P - w * U)
  <2>1. -w \in Int /\ y * U \in Int /\ (-w) * U \in Int /\ P + (-w) * U = P - w * U
        /\ P + y * U \in Int /\ P - w * U \in Int
    BY <1>10, <1>15
  <2>2. Same(y * U, (-w) * U)
    BY <1>10, <1>15, <2>1, SameRight, Zenon
  <2>3. Same(P, P)
    BY <1>10, SameRefl
  <2>4. Same(P + y * U, P + (-w) * U)
    BY <1>10, <2>1, <2>2, <2>3, SameAdd, Zenon
  <2>5. Same(P + y * U, P - w * U)
    BY <2>1, <2>4
  <2> QED BY <1>14, <1>15, <2>1, <2>5, SameTrans, Zenon
<1>17. Same(Val(A, l, j), P + w * U)
  BY <1>8, <1>11
<1>18. Same(Val(A, l, j + S), P - w * U)
  BY <1>9, <1>16 DEF b1
<1> QED BY <1>5, <1>6, <1>7, <1>10, <1>17, <1>18 DEF S, F, w

\* No layer is done, and all are.
LEMMA ValEnds ==
  ASSUME NEW A \in [Index -> Int], NEW j \in Index
  PROVE  /\ Val(A, 0, j) = A[j] /\ Same(Val(A, Layers, j), Values(A)[j])
         /\ Values(A)[j] \in Int
<1>1. N \in Nat \ {0} /\ Span(0) = N /\ Span(Layers) = 1 /\ 2 ^ Layers = N /\ 2 ^ 0 = 1
      /\ Layers \in Nat /\ j \in 0 .. N - 1
  BY SpanEnds, NttAssumption DEF Index
<1>2. Val(A, 0, j) = A[j]
  <2>1. 0 \in 0 .. Layers /\ 0 \in Int /\ j \in 0 .. Span(0) - 1 /\ 0 * N + j = j /\ 1 + 0 = 1
    BY <1>1
  <2>2. Val(A, 0, 0 * Span(0) + j) = Branch(A, Span(0), Exp(2 ^ 0 + 0), j, 2 ^ 0)
    BY <2>1, ValBlock, Zenon
  <2> DEFINE t == Parts(A, N, Exp(1), j, 1)
  <2>3. Val(A, 0, j) = Sum(t, 1)
    BY <1>1, <2>1, <2>2 DEF Branch
  <2>4. t[1] = A[j + (1 - 1) * N] * W(Exp(1) * (1 - 1))
    BY DEF Parts
  <2>5. Exp(1) \in Int
    <3>1. 1 \in Nat
      OBVIOUS
    <3>2. Exp(1) \in Nat
      BY <3>1, ExpNat
    <3> QED BY <3>2
  <2>6. j + (1 - 1) * N = j /\ Exp(1) * (1 - 1) = 0
    BY <1>1, <2>5
  <2>7. t[1] = A[j] * 1 /\ A[j] \in Int
    BY <2>4, <2>6, WNext
  <2> HIDE DEF t
  <2>8. Sum(t, 0) = 0 /\ Sum(t, 0 + 1) = Sum(t, 0) + t[0 + 1]
    <3>1. 0 \in Nat
      OBVIOUS
    <3> QED BY <3>1, SumZero, SumNext, Zenon
  <2> QED BY <2>3, <2>7, <2>8
<1>3. Same(Val(A, Layers, j), Values(A)[j]) /\ Values(A)[j] \in Int
  <2> DEFINE e == 2 * BitRev(j) + 1
             t == Parts(A, 1, e, 0, N)
             u == [m \in 1 .. N |-> A[m - 1] * Power(Root, e * (m - 1))]
  <2>1. Layers \in 0 .. Layers /\ j \in Int /\ 0 \in 0 .. Span(Layers) - 1 /\ j * 1 + 0 = j
        /\ ~ (N + j < N) /\ (N + j) - N = j
    BY <1>1
  <2>2. Val(A, Layers, j * Span(Layers) + 0)
          = Branch(A, Span(Layers), Exp(2 ^ Layers + j), 0, 2 ^ Layers)
    BY <2>1, ValBlock, Zenon
  <2>3. Exp(N + j) = e
    BY <2>1 DEF Exp
  <2>4. Val(A, Layers, j) = Sum(t, N)
    BY <1>1, <2>1, <2>2, <2>3 DEF Branch
  <2>5. \A m \in 1 .. N : t[m] = u[m]
    <3> SUFFICES ASSUME NEW m \in 1 .. N PROVE t[m] = u[m]
      OBVIOUS
    <3>1. 0 + (m - 1) * 1 = m - 1
      BY <1>1
    <3> HIDE DEF e
    <3>2. t[m] = A[0 + (m - 1) * 1] * W(e * (m - 1))
      BY DEF Parts
    <3> QED BY <3>1, <3>2 DEF W
  <2>6. Sum(t, N) = Sum(u, N)
    <3> HIDE DEF t, u
    <3> QED BY <1>1, <2>5, SumAlike
  <2>7. Values(A)[j] = Sum(u, N) % Q
    BY DEF Values
  <2>8. Sum(t, N) \in Int
    <3>1. BitRev(j) \in Nat
      BY <1>1, BitRevNat
    <3>2. e \in Nat /\ 1 \in Nat /\ 1 * N = N /\ 0 \in 0 .. 1 - 1 /\ N \in Nat
      BY <1>1, <3>1
    <3>3. Branch(A, 1, e, 0, N) \in Int
      <4> HIDE DEF e
      <4> QED BY <3>2, BranchType, Zenon
    <3> QED BY <3>3 DEF Branch
  <2> HIDE DEF t, u
  <2>9. Same(Sum(t, N) % Q, Sum(t, N)) /\ Sum(t, N) % Q \in Int
    BY <2>8, SameMod
  <2>10. Same(Sum(t, N), Sum(t, N) % Q)
    BY <2>8, <2>9, SameSym
  <2> QED BY <2>4, <2>6, <2>7, <2>9, <2>10
<1> QED BY <1>2, <1>3

\* Montgomery multiplication with a factor that is brought to its scale.
LEMMA FqMulSame ==
  ASSUME NEW a \in Int, NEW b \in Int
  PROVE  /\ FqMul(a, b) \in Int /\ Same(FqMul(a, b), (a * b) * RInv)
         /\ \A w \in Int : Same(b, R * w) => Same(FqMul(a, b), a * w)
<1> DEFINE c == FqMul(a, b)
<1>1. a * b \in Int /\ RInv \in Int /\ (a * b) * RInv \in Int /\ R \in Int
  BY RInvIs, QNatural
<1>2. c \in Int /\ Same(c, (a * b) * RInv)
  BY <1>1, MontgomerySame DEF FqMul
<1> HIDE DEF c
<1>3. ASSUME NEW w \in Int, Same(b, R * w) PROVE Same(c, a * w)
  <2>1. /\ R * w \in Int /\ a * (R * w) \in Int /\ (a * (R * w)) * RInv \in Int
        /\ a * w \in Int /\ (a * w) * R \in Int /\ a * (R * w) = (a * w) * R
        /\ ((a * w) * R) * RInv \in Int
    BY <1>1
  <2>2. Same(a * b, a * (R * w))
    BY <1>3, <2>1, SameLeft, Zenon
  <2>3. Same((a * b) * RInv, (a * (R * w)) * RInv)
    BY <1>1, <2>1, <2>2, SameRight, Zenon
  <2>4. Same(((a * w) * R) * RInv, a * w)
    BY <2>1, RCancels, Zenon
  <2>5. Same((a * b) * RInv, ((a * w) * R) * RInv)
    BY <2>1, <2>3
  <2>6. Same(c, ((a * w) * R) * RInv)
    BY <1>1, <1>2, <2>1, <2>5, SameTrans, Zenon
  <2> QED BY <1>1, <1>2, <2>1, <2>4, <2>6, SameTrans, Zenon
<1> QED BY <1>2, <1>3 DEF c

LEMMA Twiddles ==
  ASSUME NEW a \in Int, NEW z \in 1 .. N - 1
  PROVE  /\ W(BitRev(z)) \in Int /\ zetas[z] \in Int
         /\ FqMul(a, zetas[z]) \in Int /\ Same(FqMul(a, zetas[z]), a * W(BitRev(z)))
         /\ FqMul(a, -zetas[z]) \in Int /\ Same(FqMul(a, -zetas[z]), a * (-W(BitRev(z))))
<1> DEFINE w == W(BitRev(z))
           y == zetas[z]
<1>1. w \in Int /\ y \in Int /\ R \in Int
  <2>1. z \in Nat /\ z \in Index
    BY DEF Index
  <2>2. BitRev(z) \in Nat
    BY <2>1, BitRevNat
  <2>3. zetas \in [Index -> 1 - Half .. Half - 1] /\ Half \in Nat
    BY NttAssumption, Halves
  <2> QED BY <2>1, <2>2, <2>3, WNext, QNatural
<1>2. (y - R * w) % Q = 0
  BY TableAssumption DEF W
<1> HIDE DEF w, y
<1>3. R * w \in Int /\ -y \in Int /\ -w \in Int /\ -(R * w) = R * (-w)
  BY <1>1
<1>4. Same(y, R * w)
  BY <1>1, <1>2, <1>3, SameIsMod
<1>5. Same(-y, R * (-w))
  <2>1. Same(-y, -(R * w))
    BY <1>1, <1>3, <1>4, SameMinus, Zenon
  <2> QED BY <1>3, <2>1
<1>6. FqMul(a, y) \in Int /\ Same(FqMul(a, y), a * w)
  BY <1>1, <1>4, FqMulSame, Zenon
<1>7. FqMul(a, -y) \in Int /\ Same(FqMul(a, -y), a * (-w))
  BY <1>3, <1>5, FqMulSame, Zenon
<1> QED BY <1>1, <1>6, <1>7 DEF w, y

\* One butterfly, and one of the inverse transform.
LEMMA Butterfly ==
  ASSUME NEW a \in Int, NEW b \in Int, NEW c \in Int, NEW g \in Int, NEW w \in Int,
         NEW x \in Int, NEW y \in Int, NEW p \in Int, NEW u \in Int,
         Same(a, g * x), Same(b, g * y), Same(c, b * w),
         Same(p, x + w * y), Same(u, x - w * y)
  PROVE  Same(a + c, g * p) /\ Same(a - c, g * u)
<1>1. /\ g * x \in Int /\ g * y \in Int /\ b * w \in Int /\ (g * y) * w \in Int /\ w * y \in Int
      /\ x + w * y \in Int /\ x - w * y \in Int /\ g * p \in Int /\ g * u \in Int
      /\ g * (x + w * y) \in Int /\ g * (x - w * y) \in Int
      /\ g * x + (g * y) * w = g * (x + w * y) /\ g * x - (g * y) * w = g * (x - w * y)
      /\ a + c \in Int /\ a - c \in Int
  OBVIOUS
<1>2. Same(b * w, (g * y) * w)
  BY <1>1, SameRight, Zenon
<1>3. Same(c, (g * y) * w)
  BY <1>1, <1>2, SameTrans, Zenon
<1>4. Same(a + c, g * x + (g * y) * w) /\ Same(a - c, g * x - (g * y) * w)
  BY <1>1, <1>3, SameAdd, Zenon
<1>5. Same(a + c, g * (x + w * y)) /\ Same(a - c, g * (x - w * y))
  BY <1>1, <1>4
<1>6. Same(g * p, g * (x + w * y)) /\ Same(g * u, g * (x - w * y))
  BY <1>1, SameLeft, Zenon
<1>7. Same(g * (x + w * y), g * p) /\ Same(g * (x - w * y), g * u)
  BY <1>1, <1>6, SameSym, Zenon
<1>8. Same(a + c, g * p)
  BY <1>1, <1>5, <1>7, SameTrans, Zenon
<1>9. Same(a - c, g * u)
  <2> DEFINE d == a - c
             e == g * (x - w * y)
             h == g * u
  <2>1. d \in Int /\ e \in Int /\ h \in Int /\ Same(d, e) /\ Same(e, h)
    BY <1>1, <1>5, <1>7
  <2> HIDE DEF d, e, h
  <2>2. Same(d, h)
    BY <2>1, SameTrans
  <2> QED BY <2>2 DEF d, h
<1> QED BY <1>8, <1>9

LEMMA Unbutterfly ==
  ASSUME NEW a \in Int, NEW b \in Int, NEW c \in Int, NEW g \in Int, NEW w \in Int,
         NEW v \in Int, NEW x \in Int, NEW y \in Int, NEW p \in Int, NEW u \in Int,
         Same(a, g * p), Same(b, g * u), Same(c, (a - b) * (-v)), Same(w * v, -1),
         Same(p, x + w * y), Same(u, x - w * y)
  PROVE  Same(a + b, g * (2 * x)) /\ Same(c, g * (2 * y))
<1>1. /\ g * p \in Int /\ g * u \in Int /\ w * y \in Int /\ a + b \in Int /\ a - b \in Int
      /\ x + w * y \in Int /\ x - w * y \in Int
      /\ g * (x + w * y) \in Int /\ g * (x - w * y) \in Int
  OBVIOUS
<1> DEFINE m == g * (x + w * y)
           n == g * (x - w * y)
           k1 == (2 * g) * y
<1>2. m \in Int /\ n \in Int /\ k1 \in Int /\ m + n = g * (2 * x) /\ m - n = k1 * w
      /\ k1 = g * (2 * y) /\ k1 * w \in Int
  OBVIOUS
<1>3. Same(g * p, m) /\ Same(g * u, n)
  BY <1>1, SameLeft, Zenon
<1> HIDE DEF m, n, k1
<1>4. Same(a, m) /\ Same(b, n)
  BY <1>1, <1>2, <1>3, SameTrans, Zenon
<1>5. Same(a + b, m + n) /\ Same(a - b, m - n)
  BY <1>2, <1>4, SameAdd, Zenon
<1>6. Same(a - b, k1 * w)
  BY <1>2, <1>5
<1> DEFINE d == a - b
           e1 == d * (-v)
           e2 == (k1 * w) * (-v)
           e3 == w * v
<1>7. /\ -v \in Int /\ d \in Int /\ e1 \in Int /\ e2 \in Int /\ e3 \in Int
      /\ k1 * e3 \in Int /\ -(k1 * e3) \in Int /\ k1 * (-1) \in Int /\ -(k1 * (-1)) = k1
      /\ -1 \in Int
  <2>1. d \in Int /\ -v \in Int /\ k1 * w \in Int /\ e3 \in Int
    BY <1>1, <1>2
  <2> HIDE DEF d
  <2>2. e1 \in Int /\ e2 \in Int
    BY <2>1
  <2> HIDE DEF e1, e2, e3
  <2>3. k1 * e3 \in Int /\ -(k1 * e3) \in Int /\ k1 * (-1) \in Int /\ -(k1 * (-1)) = k1
    BY <1>2, <2>1
  <2>4. -1 \in Int
    OBVIOUS
  <2> QED BY <2>1, <2>2, <2>3, <2>4, Zenon
<1>71. e2 = -(k1 * e3)
  BY <1>2
<1>8. Same(e1, e2)
  <2>1. Same(d, k1 * w)
    BY <1>6
  <2> HIDE DEF d
  <2> QED BY <1>2, <1>7, <2>1, SameRight, Zenon
<1>81. Same(e3, -1) /\ Same(c, e1)
  OBVIOUS
<1> HIDE DEF d, e1, e2, e3
<1>9. Same(k1 * e3, k1 * (-1))
  BY <1>2, <1>7, <1>81, SameLeft, Zenon
<1>10. Same(-(k1 * e3), -(k1 * (-1)))
  BY <1>7, <1>9, SameMinus, Zenon
<1>11. Same(e2, k1)
  BY <1>7, <1>71, <1>10
<1>12. Same(e1, k1)
  BY <1>2, <1>7, <1>8, <1>11, SameTrans, Zenon
<1>13. Same(c, k1)
  BY <1>2, <1>7, <1>81, <1>12, SameTrans, Zenon
<1> QED BY <1>2, <1>5, <1>13

\* Within a layer the blocks that are done are one layer further.
Rising(A, l, start1, j) == IF j < start1 THEN Val(A, l, j) ELSE Val(A, l - 1, j)
Falling(A, l, start1, j) == IF j < start1 THEN 2 * Val(A, l - 1, j) ELSE Val(A, l, j)

LEMMA BlockPlace ==
  ASSUME NEW l \in 1 .. Layers, NEW q \in 0 .. FirstUp(l) - 1
  PROVE  /\ FirstUp(l) + q \in 1 .. N - 1 /\ q * (2 * Span(l)) \in Nat /\ Span(l) \in Nat \ {0}
         /\ q * (2 * Span(l)) + 2 * Span(l) =< N /\ N \in Nat
<1> DEFINE S == Span(l)
           F == FirstUp(l)
           x == q * (2 * S)
           y == (F - 1 - q) * (2 * S)
<1>1. S \in Nat \ {0} /\ F \in Nat \ {0} /\ N = 2 * (S * F) /\ N \in Nat
  BY SpanFacts, QNatural
<1>2. q \in 0 .. F - 1
  OBVIOUS
<1> HIDE DEF S, F
<1>3. x \in Nat /\ y \in Nat
  <2>1. F - 1 - q \in Nat /\ 2 * S \in Nat /\ q \in Nat
    BY <1>1, <1>2
  <2> QED BY <2>1
<1>4. N = x + y + 2 * S
  BY <1>1, <1>2
<1>5. S * F >= F
  BY <1>1
<1>6. F + q \in 1 .. N - 1
  BY <1>1, <1>2, <1>5
<1> HIDE DEF x, y
<1>7. x + 2 * S =< N
  BY <1>1, <1>3, <1>4
<1> QED BY <1>1, <1>3, <1>6, <1>7 DEF S, F, x

\* j is in the block at b: in its lower or its upper half.
LEMMA BlockCases ==
  ASSUME NEW b \in Nat, NEW S \in Nat \ {0}, b + 2 * S =< N, NEW j \in Index
  PROVE  \/ (j < b \/ j >= b + 2 * S)
         \/ /\ ~ (j < b \/ j >= b + 2 * S) /\ j < b + S /\ j - b \in 0 .. S - 1 /\ j = b + (j - b)
            /\ ~ (j + S < b) /\ j < b + 2 * S /\ j + S < b + 2 * S /\ ~ (j < b)
         \/ /\ ~ (j < b \/ j >= b + 2 * S) /\ ~ (j < b + S) /\ j - S \in Index
            /\ (j - S) - b \in 0 .. S - 1 /\ j - S = b + ((j - S) - b) /\ (j - S) + S = j
            /\ ~ (j - S < b) /\ ~ (j < b) /\ j < b + 2 * S /\ j - S < b + 2 * S
<1>1. N \in Nat /\ j \in 0 .. N - 1
  BY QNatural DEF Index
<1>2. CASE j < b \/ j >= b + 2 * S
  BY <1>2
<1>3. CASE j >= b /\ j < b + S
  BY <1>1, <1>3
<1>4. CASE j >= b + S /\ j < b + 2 * S
  <2>1. j - S \in Index
    BY <1>1, <1>4 DEF Index
  <2> QED BY <1>1, <1>4, <2>1
<1> QED BY <1>1, <1>2, <1>3, <1>4

LEMMA ForwardSame ==
  ASSUME NEW A \in [Index -> Int], NEW r \in [Index -> Int], NEW g \in Int,
         NEW l \in 1 .. Layers, NEW q \in 0 .. FirstUp(l) - 1, NEW b, b = q * (2 * Span(l)),
         \A j \in Index : Same(r[j], g * Rising(A, l, b, j))
  PROVE  /\ Forward(r, zetas[FirstUp(l) + q], b, Span(l)) \in [Index -> Int]
         /\ \A j \in Index : Same(Forward(r, zetas[FirstUp(l) + q], b, Span(l))[j],
                                  g * Rising(A, l, b + 2 * Span(l), j))
<1> DEFINE S == Span(l)
           z == FirstUp(l) + q
           w == W(BitRev(z))
           s == Forward(r, zetas[z], b, S)
<1>1. /\ z \in 1 .. N - 1 /\ b \in Nat /\ S \in Nat \ {0} /\ b + 2 * S =< N
      /\ l \in 0 .. Layers /\ l - 1 \in 0 .. Layers
  BY BlockPlace, NttAssumption
<1>2. ASSUME NEW i \in 0 .. S - 1, NEW j, j = b + i
      PROVE  /\ j \in Index /\ j + S \in Index /\ w \in Int
             /\ Same(Val(A, l, j), Val(A, l - 1, j) + w * Val(A, l - 1, j + S))
             /\ Same(Val(A, l, j + S), Val(A, l - 1, j) - w * Val(A, l - 1, j + S))
  BY <1>2, ValSplit
<1>3. \A a \in Int : FqMul(a, zetas[z]) \in Int /\ Same(FqMul(a, zetas[z]), a * w)
  BY <1>1, Twiddles
<1>4. \A j \in Index : r[j] \in Int /\ Val(A, l, j) \in Int /\ Val(A, l - 1, j) \in Int
  BY <1>1, ValType
<1> HIDE DEF S, z, w
<1>5. ASSUME NEW i \in 0 .. S - 1, NEW j, j = b + i, ~ (j < b), ~ (j + S < b)
      PROVE  /\ FqMul(r[j + S], zetas[z]) \in Int
             /\ Same(r[j] + FqMul(r[j + S], zetas[z]), g * Val(A, l, j))
             /\ Same(r[j] - FqMul(r[j + S], zetas[z]), g * Val(A, l, j + S))
  <2> DEFINE c == FqMul(r[j + S], zetas[z])
             x == Val(A, l - 1, j)
             y == Val(A, l - 1, j + S)
             p == Val(A, l, j)
             u == Val(A, l, j + S)
  <2>1. j \in Index /\ j + S \in Index /\ w \in Int /\ Same(p, x + w * y) /\ Same(u, x - w * y)
    BY <1>2, <1>5
  <2>2. Same(r[j], g * x) /\ Same(r[j + S], g * y)
    BY <1>5, <2>1 DEF Rising
  <2>3. r[j] \in Int /\ r[j + S] \in Int /\ x \in Int /\ y \in Int /\ p \in Int /\ u \in Int
    BY <1>4, <2>1
  <2>4. c \in Int /\ Same(c, r[j + S] * w)
    BY <1>3, <2>3
  <2> DEFINE a == r[j]
             d == r[j + S]
  <2>5. /\ Same(a, g * x) /\ Same(d, g * y) /\ Same(c, d * w) /\ a \in Int /\ d \in Int
        /\ c \in Int /\ w \in Int
    BY <2>1, <2>2, <2>3, <2>4
  <2> HIDE DEF c, x, y, p, u, a, d
  <2>6. Same(a + c, g * p) /\ Same(a - c, g * u)
    BY <2>1, <2>3, <2>5, Butterfly, ZenonT(40)
  <2> QED BY <2>5, <2>6 DEF a, c, p, u
<1>6. ASSUME NEW j \in Index
      PROVE  s[j] \in Int /\ Same(s[j], g * Rising(A, l, b + 2 * S, j))
  <2>1. CASE j < b \/ j >= b + 2 * S
    <3>1. s[j] = r[j]
      BY <2>1 DEF Forward
    <3>2. (j < b) = (j < b + 2 * S)
      BY <1>1, <2>1 DEF Index
    <3>3. Rising(A, l, b + 2 * S, j) = Rising(A, l, b, j)
      BY <3>2 DEF Rising
    <3> QED BY <1>4, <3>1, <3>3
  <2>2. CASE /\ ~ (j < b \/ j >= b + 2 * S) /\ j < b + S /\ j - b \in 0 .. S - 1 /\ j = b + (j - b)
             /\ ~ (j + S < b) /\ j < b + 2 * S /\ j + S < b + 2 * S /\ ~ (j < b)
    <3>1. s[j] = r[j] + FqMul(r[j + S], zetas[z])
      BY <2>2 DEF Forward
    <3>2. /\ FqMul(r[j + S], zetas[z]) \in Int
          /\ Same(r[j] + FqMul(r[j + S], zetas[z]), g * Val(A, l, j))
      BY <1>5, <2>2, Zenon
    <3>3. Rising(A, l, b + 2 * S, j) = Val(A, l, j)
      BY <2>2 DEF Rising
    <3>4. r[j] \in Int
      BY <1>4
    <3> DEFINE c == FqMul(r[j + S], zetas[z])
    <3>5. r[j] + c \in Int
      <4>1. c \in Int
        BY <3>2
      <4> HIDE DEF c
      <4> QED BY <3>4, <4>1
    <3> QED BY <3>1, <3>2, <3>3, <3>5
  <2>3. CASE /\ ~ (j < b \/ j >= b + 2 * S) /\ ~ (j < b + S) /\ j - S \in Index
             /\ (j - S) - b \in 0 .. S - 1 /\ j - S = b + ((j - S) - b) /\ (j - S) + S = j
             /\ ~ (j - S < b) /\ ~ (j < b) /\ j < b + 2 * S /\ j - S < b + 2 * S
    <3> DEFINE h == j - S
    <3>1. s[j] = r[h] - FqMul(r[j], zetas[z])
      BY <2>3 DEF Forward
    <3>2. h + S = j /\ h - b \in 0 .. S - 1 /\ h = b + (h - b) /\ ~ (h < b) /\ ~ (h + S < b)
          /\ h \in Index
      BY <2>3
    <3> HIDE DEF h
    <3>3. /\ FqMul(r[h + S], zetas[z]) \in Int
          /\ Same(r[h] - FqMul(r[h + S], zetas[z]), g * Val(A, l, h + S))
      BY <1>5, <3>2, Zenon
    <3>4. /\ FqMul(r[j], zetas[z]) \in Int
          /\ Same(r[h] - FqMul(r[j], zetas[z]), g * Val(A, l, j))
      BY <3>2, <3>3
    <3>5. Rising(A, l, b + 2 * S, j) = Val(A, l, j)
      BY <2>3 DEF Rising
    <3>6. r[h] \in Int
      BY <1>4, <3>2
    <3> DEFINE c == FqMul(r[j], zetas[z])
    <3>7. r[h] - c \in Int
      <4>1. c \in Int
        BY <3>4
      <4> HIDE DEF c
      <4> QED BY <3>6, <4>1
    <3> QED BY <3>1, <3>4, <3>5, <3>7
  <2>4. \/ (j < b \/ j >= b + 2 * S)
        \/ /\ ~ (j < b \/ j >= b + 2 * S) /\ j < b + S /\ j - b \in 0 .. S - 1 /\ j = b + (j - b)
           /\ ~ (j + S < b) /\ j < b + 2 * S /\ j + S < b + 2 * S /\ ~ (j < b)
        \/ /\ ~ (j < b \/ j >= b + 2 * S) /\ ~ (j < b + S) /\ j - S \in Index
           /\ (j - S) - b \in 0 .. S - 1 /\ j - S = b + ((j - S) - b) /\ (j - S) + S = j
           /\ ~ (j - S < b) /\ ~ (j < b) /\ j < b + 2 * S /\ j - S < b + 2 * S
    BY <1>1, BlockCases, Zenon
  <2> HIDE DEF s
  <2> QED BY <2>1, <2>2, <2>3, <2>4, Zenon
<1>7. s \in [Index -> Int]
  <2>1. s = [j \in Index |-> s[j]]
    BY DEF Forward
  <2> HIDE DEF s
  <2> QED BY <1>6, <2>1
<1> QED BY <1>6, <1>7 DEF S, z

LEMMA BackwardSame ==
  ASSUME NEW A \in [Index -> Int], NEW r \in [Index -> Int], NEW g \in Int,
         NEW l \in 1 .. Layers, NEW q \in 0 .. FirstUp(l) - 1, NEW b, b = q * (2 * Span(l)),
         \A j \in Index : Same(r[j], g * Falling(A, l, b, j))
  PROVE  /\ Backward(r, zetas[2 * FirstUp(l) - 1 - q], b, Span(l)) \in [Index -> Int]
         /\ \A j \in Index : Same(Backward(r, zetas[2 * FirstUp(l) - 1 - q], b, Span(l))[j],
                                  g * Falling(A, l, b + 2 * Span(l), j))
<1> DEFINE S == Span(l)
           z == FirstUp(l) + q
           w == W(BitRev(z))
           z2 == 2 * FirstUp(l) - 1 - q
           v == W(BitRev(z2))
           s == Backward(r, zetas[z2], b, S)
<1>1. /\ z \in 1 .. N - 1 /\ b \in Nat /\ S \in Nat \ {0} /\ b + 2 * S =< N
      /\ l \in 0 .. Layers /\ l - 1 \in 0 .. Layers
  BY BlockPlace, NttAssumption
<1>2. ASSUME NEW i \in 0 .. S - 1, NEW j, j = b + i
      PROVE  /\ j \in Index /\ j + S \in Index /\ w \in Int
             /\ Same(Val(A, l, j), Val(A, l - 1, j) + w * Val(A, l - 1, j + S))
             /\ Same(Val(A, l, j + S), Val(A, l - 1, j) - w * Val(A, l - 1, j + S))
  BY <1>2, ValSplit
<1>3. z2 \in 1 .. N - 1 /\ Same(w * v, -1) /\ v \in Int /\ w \in Int
  <2>1. FirstUp(l) \in Nat \ {0} /\ z \in FirstUp(l) .. 2 * FirstUp(l) - 1
        /\ 3 * FirstUp(l) - 1 - z = z2
    BY SpanFacts
  <2>2. 3 * FirstUp(l) - 1 - z \in 1 .. N - 1 /\ BitRev(z) + BitRev(3 * FirstUp(l) - 1 - z) = N
    BY <2>1, Mirrored
  <2>3. z2 \in 1 .. N - 1 /\ BitRev(z) + BitRev(z2) = N
    BY <2>1, <2>2
  <2>4. z \in Nat /\ z2 \in Nat
    BY <1>1, <2>3
  <2> HIDE DEF z, z2
  <2>5. BitRev(z) \in Nat /\ BitRev(z2) \in Nat
    BY <2>4, BitRevNat
  <2>6. w \in Int /\ v \in Int /\ Same(W(BitRev(z) + BitRev(z2)), w * v)
    BY <2>5, WAdds, WNext
  <2>7. Same(W(N), -1) /\ W(N) \in Int /\ Same(W(N), w * v)
    <3>1. N \in Nat /\ 0 \in Nat
      BY QNatural
    <3> QED BY <2>3, <2>6, <3>1, WHalf, WNext
  <2> HIDE DEF w, v
  <2>8. w * v \in Int /\ -1 \in Int
    BY <2>6
  <2>9. Same(w * v, W(N))
    BY <2>7, <2>8, SameSym, Zenon
  <2>10. Same(w * v, -1)
    BY <2>7, <2>8, <2>9, SameTrans, Zenon
  <2> QED BY <2>3, <2>6, <2>10
<1>4. \A a \in Int : FqMul(a, -zetas[z2]) \in Int /\ Same(FqMul(a, -zetas[z2]), a * (-v))
  BY <1>3, Twiddles
<1>5. \A j \in Index : r[j] \in Int /\ Val(A, l, j) \in Int /\ Val(A, l - 1, j) \in Int
  BY <1>1, ValType
<1> HIDE DEF S, z, w, z2, v
<1>6. ASSUME NEW i \in 0 .. S - 1, NEW j, j = b + i, ~ (j < b), ~ (j + S < b)
      PROVE  /\ FqMul(r[j] - r[j + S], -zetas[z2]) \in Int
             /\ Same(r[j] + r[j + S], g * (2 * Val(A, l - 1, j)))
             /\ Same(FqMul(r[j] - r[j + S], -zetas[z2]), g * (2 * Val(A, l - 1, j + S)))
  <2> DEFINE c == FqMul(r[j] - r[j + S], -zetas[z2])
             x == Val(A, l - 1, j)
             y == Val(A, l - 1, j + S)
             p == Val(A, l, j)
             u == Val(A, l, j + S)
             d == r[j]
             e == r[j + S]
  <2>1. j \in Index /\ j + S \in Index /\ w \in Int /\ Same(p, x + w * y) /\ Same(u, x - w * y)
    BY <1>2, <1>6
  <2>2. Same(d, g * p) /\ Same(e, g * u)
    BY <1>6, <2>1 DEF Falling
  <2>3. d \in Int /\ e \in Int /\ x \in Int /\ y \in Int /\ p \in Int /\ u \in Int
    BY <1>5, <2>1
  <2>4. c \in Int /\ Same(c, (d - e) * (-v))
    <3>1. d - e \in Int
      <4> HIDE DEF d, e
      <4> QED BY <2>3
    <3> QED BY <1>4, <3>1
  <2> HIDE DEF c, x, y, p, u, d, e
  <2>5. w \in Int /\ v \in Int /\ Same(w * v, -1) /\ Same(p, x + w * y) /\ Same(u, x - w * y)
    BY <1>3, <2>1
  <2>6. Same(d + e, g * (2 * x)) /\ Same(c, g * (2 * y))
    BY <2>2, <2>3, <2>4, <2>5, Unbutterfly, ZenonT(40)
  <2> QED BY <2>4, <2>6 DEF c, x, y, d, e
<1>7. ASSUME NEW j \in Index
      PROVE  s[j] \in Int /\ Same(s[j], g * Falling(A, l, b + 2 * S, j))
  <2>1. CASE j < b \/ j >= b + 2 * S
    <3>1. s[j] = r[j]
      BY <2>1 DEF Backward
    <3>2. (j < b) = (j < b + 2 * S)
      BY <1>1, <2>1 DEF Index
    <3>3. Falling(A, l, b + 2 * S, j) = Falling(A, l, b, j)
      BY <3>2 DEF Falling
    <3> QED BY <1>5, <3>1, <3>3
  <2>2. CASE /\ ~ (j < b \/ j >= b + 2 * S) /\ j < b + S /\ j - b \in 0 .. S - 1 /\ j = b + (j - b)
             /\ ~ (j + S < b) /\ j < b + 2 * S /\ j + S < b + 2 * S /\ ~ (j < b)
    <3>1. s[j] = r[j] + r[j + S]
      BY <2>2 DEF Backward
    <3>2. Same(r[j] + r[j + S], g * (2 * Val(A, l - 1, j)))
      BY <1>6, <2>2, Zenon
    <3>3. Falling(A, l, b + 2 * S, j) = 2 * Val(A, l - 1, j)
      BY <2>2 DEF Falling
    <3>4. r[j] + r[j + S] \in Int
      <4>1. j + S \in Index
        BY <1>2, <2>2
      <4> DEFINE d == r[j]
                 e == r[j + S]
      <4>2. d \in Int /\ e \in Int
        BY <1>5, <4>1
      <4> HIDE DEF d, e
      <4>3. d + e \in Int
        BY <4>2
      <4> QED BY <4>3 DEF d, e
    <3> QED BY <3>1, <3>2, <3>3, <3>4
  <2>3. CASE /\ ~ (j < b \/ j >= b + 2 * S) /\ ~ (j < b + S) /\ j - S \in Index
             /\ (j - S) - b \in 0 .. S - 1 /\ j - S = b + ((j - S) - b) /\ (j - S) + S = j
             /\ ~ (j - S < b) /\ ~ (j < b) /\ j < b + 2 * S /\ j - S < b + 2 * S
    <3> DEFINE h == j - S
    <3>1. s[j] = FqMul(r[h] - r[j], -zetas[z2])
      BY <2>3 DEF Backward
    <3>2. h + S = j /\ h - b \in 0 .. S - 1 /\ h = b + (h - b) /\ ~ (h < b) /\ ~ (h + S < b)
          /\ h \in Index
      BY <2>3
    <3> HIDE DEF h
    <3>3. /\ FqMul(r[h] - r[h + S], -zetas[z2]) \in Int
          /\ Same(FqMul(r[h] - r[h + S], -zetas[z2]), g * (2 * Val(A, l - 1, h + S)))
      BY <1>6, <3>2, Zenon
    <3>4. /\ FqMul(r[h] - r[j], -zetas[z2]) \in Int
          /\ Same(FqMul(r[h] - r[j], -zetas[z2]), g * (2 * Val(A, l - 1, j)))
      BY <3>2, <3>3
    <3>5. Falling(A, l, b + 2 * S, j) = 2 * Val(A, l - 1, j)
      BY <2>3 DEF Falling
    <3> QED BY <3>1, <3>4, <3>5
  <2>4. \/ (j < b \/ j >= b + 2 * S)
        \/ /\ ~ (j < b \/ j >= b + 2 * S) /\ j < b + S /\ j - b \in 0 .. S - 1 /\ j = b + (j - b)
           /\ ~ (j + S < b) /\ j < b + 2 * S /\ j + S < b + 2 * S /\ ~ (j < b)
        \/ /\ ~ (j < b \/ j >= b + 2 * S) /\ ~ (j < b + S) /\ j - S \in Index
           /\ (j - S) - b \in 0 .. S - 1 /\ j - S = b + ((j - S) - b) /\ (j - S) + S = j
           /\ ~ (j - S < b) /\ ~ (j < b) /\ j < b + 2 * S /\ j - S < b + 2 * S
    BY <1>1, BlockCases, Zenon
  <2> HIDE DEF s
  <2> QED BY <2>1, <2>2, <2>3, <2>4, Zenon
<1>8. s \in [Index -> Int]
  <2>1. s = [j \in Index |-> s[j]]
    BY DEF Backward
  <2> HIDE DEF s
  <2> QED BY <1>7, <2>1
<1> QED BY <1>7, <1>8 DEF S, z2

-----------------------------------------------------------------------------
(* The values of a product are the products of the values: multiplication  *)
(* modulo X^N + 1 is coefficient by coefficient on transforms.             *)

LEMMA SumTimes ==
  ASSUME NEW n \in Nat, NEW s, NEW u, NEW c \in Int, Ints(s, n),
         \A i \in 1 .. n : u[i] = c * s[i]
  PROVE  Sum(u, n) = c * Sum(s, n)
<1> DEFINE d == c - 1
<1>1. d \in Int /\ c = d + 1
  OBVIOUS
<1> HIDE DEF d
<1>2. \A i \in 1 .. n : u[i] = s[i] + d * s[i]
  <2> SUFFICES ASSUME NEW i \in 1 .. n PROVE u[i] = s[i] + d * s[i]
    OBVIOUS
  <2> DEFINE y == s[i]
  <2>1. y \in Int /\ u[i] = c * y
    BY DEF Ints
  <2> HIDE DEF y
  <2>2. c * y = y + d * y
    BY <1>1, <2>1
  <2> QED BY <2>1, <2>2 DEF y
<1>3. Sum(u, n) = Sum(s, n) + d * Sum(s, n)
  BY <1>1, <1>2, SumLinear
<1> DEFINE x == Sum(s, n)
<1>4. x \in Int
  BY SumType
<1> HIDE DEF x
<1>5. x + d * x = c * x
  BY <1>1, <1>4
<1> QED BY <1>3, <1>5 DEF x

LEMMA OddTurn ==
  ASSUME NEW h \in Nat, NEW e, e = 2 * h + 1, NEW x \in Nat
  PROVE  x + e * N \in Nat /\ W(x) \in Int /\ W(x + e * N) \in Int /\ Same(W(x + e * N), -W(x))
<1>1. N \in Nat /\ x + N \in Nat /\ x + e * N = (x + N) + 2 * (N * h) /\ x + e * N \in Nat
  BY QNatural
<1>2. Same(W((x + N) + 2 * (N * h)), W(x + N))
  BY <1>1, WTurns, Zenon
<1>3. W(x) \in Int /\ Same(W(x + N), -W(x)) /\ W(x + N) \in Int /\ W(x + e * N) \in Int
  BY <1>1, WHalf, WNext
<1> DEFINE u == W(x + e * N)
           v == W(x + N)
           w == W(x)
<1>4. u \in Int /\ v \in Int /\ w \in Int /\ Same(u, v) /\ Same(v, -w)
  BY <1>1, <1>2, <1>3
<1> HIDE DEF u, v, w
<1>5. -w \in Int
  BY <1>4
<1>6. Same(u, -w)
  BY <1>4, <1>5, SameTrans, Zenon
<1> QED BY <1>1, <1>3, <1>6 DEF u, w

RingTerm(a, b, i, j) ==
  IF j - 1 =< i THEN a[j - 1] * b[i - j + 1] ELSE -a[j - 1] * b[i - j + 1 + N]

LEMMA RingIs ==
  ASSUME NEW a \in [Index -> Int], NEW b \in [Index -> Int]
  PROVE  /\ RingProduct(a, b) \in [Index -> Int]
         /\ \A i \in Index :
              /\ RingProduct(a, b)[i] = Sum([j \in 1 .. N |-> RingTerm(a, b, i, j)], N)
              /\ \A j \in 1 .. N : RingTerm(a, b, i, j) \in Int
<1>1. N \in Nat
  BY QNatural
<1>2. ASSUME NEW i \in Index, NEW j \in 1 .. N PROVE RingTerm(a, b, i, j) \in Int
  <2>1. j - 1 \in Index
    BY <1>1 DEF Index
  <2>2. CASE j - 1 =< i
    <3>1. i - j + 1 \in Index
      BY <1>1, <2>2 DEF Index
    <3> DEFINE x == a[j - 1]
               y == b[i - j + 1]
    <3>2. x \in Int /\ y \in Int
      BY <2>1, <3>1
    <3>3. RingTerm(a, b, i, j) = x * y
      BY <2>2 DEF RingTerm
    <3> HIDE DEF x, y
    <3> QED BY <3>2, <3>3
  <2>3. CASE ~ (j - 1 =< i)
    <3>1. i - j + 1 + N \in Index
      BY <1>1, <2>3 DEF Index
    <3> DEFINE x == a[j - 1]
               y == b[i - j + 1 + N]
    <3>2. x \in Int /\ y \in Int
      BY <2>1, <3>1
    <3>3. RingTerm(a, b, i, j) = -x * y
      BY <2>3 DEF RingTerm
    <3> HIDE DEF x, y
    <3> QED BY <3>2, <3>3
  <2> QED BY <2>2, <2>3
<1>3. ASSUME NEW i \in Index
      PROVE  /\ RingProduct(a, b)[i] = Sum([j \in 1 .. N |-> RingTerm(a, b, i, j)], N)
             /\ Sum([j \in 1 .. N |-> RingTerm(a, b, i, j)], N) \in Int
  <2>1. RingProduct(a, b)[i] = Sum([j \in 1 .. N |-> RingTerm(a, b, i, j)], N)
    BY DEF RingProduct, RingTerm
  <2> DEFINE t == [j \in 1 .. N |-> RingTerm(a, b, i, j)]
  <2>2. Ints(t, N)
    <3>1. \A j \in 1 .. N : t[j] \in Int
      BY <1>2
    <3> QED BY <3>1 DEF Ints
  <2> HIDE DEF t
  <2>3. Sum(t, N) \in Int
    BY <1>1, <2>2, SumType
  <2> QED BY <2>1, <2>3 DEF t
<1>4. RingProduct(a, b) \in [Index -> Int]
  <2>1. RingProduct(a, b) = [i \in Index |-> RingProduct(a, b)[i]]
    BY DEF RingProduct
  <2>2. \A i \in Index : RingProduct(a, b)[i] \in Int
    BY <1>3
  <2> DEFINE p == RingProduct(a, b)
  <2>3. p = [i \in Index |-> p[i]] /\ \A i \in Index : p[i] \in Int
    BY <2>1, <2>2
  <2> HIDE DEF p
  <2> QED BY <2>3 DEF p
<1> QED BY <1>2, <1>3, <1>4

\* A term of the product, at an odd power of Root.
LEMMA ProductTerm ==
  ASSUME NEW a \in [Index -> Int], NEW b \in [Index -> Int], NEW h \in Nat, NEW e, e = 2 * h + 1,
         NEW d \in Index, NEW i \in 1 .. N, NEW n \in 1 .. N,
         n = IF i > d THEN i - d ELSE i - d + N
  PROVE  /\ W(e * (i - 1)) \in Int /\ W(e * d) \in Int /\ W(e * (n - 1)) \in Int
         /\ n - 1 \in Index /\ b[n - 1] \in Int /\ a[d] \in Int
         /\ Same(RingTerm(a, b, i - 1, d + 1) * W(e * (i - 1)),
                 (a[d] * W(e * d)) * (b[n - 1] * W(e * (n - 1))))
<1>1. N \in Nat /\ e \in Nat /\ d \in Nat /\ n - 1 \in Nat /\ i - 1 \in Nat
      /\ n - 1 \in Index /\ i - 1 \in Index /\ d + 1 \in 1 .. N
  BY QNatural DEF Index
<1>2. e * (i - 1) \in Nat /\ e * d \in Nat /\ e * (n - 1) \in Nat
  <2>1. \A m \in Nat : e * m \in Nat
    BY <1>1
  <2> QED BY <1>1, <2>1
<1> DEFINE p == W(e * (i - 1))
           q == W(e * d)
           r == W(e * (n - 1))
           x == a[d]
           y == b[n - 1]
           t == RingTerm(a, b, i - 1, d + 1)
<1>3. p \in Int /\ q \in Int /\ r \in Int /\ x \in Int /\ y \in Int
  BY <1>1, <1>2, WNext
<1>4. Same(W(e * d + e * (n - 1)), q * r) /\ W(e * d + e * (n - 1)) \in Int
  <2> DEFINE u == e * d
             v == e * (n - 1)
  <2>1. u \in Nat /\ v \in Nat
    BY <1>2
  <2> HIDE DEF u, v
  <2>2. u + v \in Nat
    BY <2>1
  <2>3. Same(W(u + v), W(u) * W(v)) /\ W(u + v) \in Int
    BY <2>1, <2>2, WAdds, WNext, Zenon
  <2> QED BY <2>3 DEF u, v
<1>5. CASE i > d
  <2>1. n - 1 = (i - 1) - d /\ (d + 1) - 1 =< i - 1 /\ (d + 1) - 1 = d
        /\ (i - 1) - (d + 1) + 1 = n - 1
    BY <1>1, <1>5
  <2>2. t = x * y
    BY <2>1 DEF RingTerm
  <2>3. e * d + e * (n - 1) = e * (i - 1)
    BY <1>1, <2>1
  <2>4. Same(p, q * r)
    BY <1>4, <2>3
  <2> HIDE DEF p, q, r, x, y, t
  <2>5. q * r \in Int /\ x * y \in Int /\ (x * y) * p \in Int
        /\ (x * y) * (q * r) = (x * q) * (y * r)
    BY <1>3
  <2>6. Same((x * y) * p, (x * y) * (q * r))
    BY <1>3, <2>4, <2>5, SameLeft, Zenon
  <2>7. Same(t * p, (x * q) * (y * r))
    BY <2>2, <2>5, <2>6
  <2> QED BY <1>1, <1>3, <2>7 DEF p, q, r, x, y, t
<1>6. CASE ~ (i > d)
  <2>1. n - 1 = ((i - 1) - d) + N /\ ~ ((d + 1) - 1 =< i - 1) /\ (d + 1) - 1 = d
        /\ (i - 1) - (d + 1) + 1 + N = n - 1
    BY <1>1, <1>6
  <2>2. t = -x * y
    BY <2>1 DEF RingTerm
  <2>3. e * d + e * (n - 1) = e * (i - 1) + e * N
    BY <1>1, <2>1
  <2>4. Same(W(e * (i - 1) + e * N), -p) /\ W(e * (i - 1) + e * N) \in Int
    BY <1>2, OddTurn
  <2>5. Same(W(e * d + e * (n - 1)), -p)
    BY <2>3, <2>4
  <2> DEFINE z == W(e * d + e * (n - 1))
  <2>6. z \in Int /\ Same(z, -p) /\ Same(z, q * r)
    BY <1>4, <2>5
  <2> HIDE DEF p, q, r, x, y, t, z
  <2>7. -p \in Int /\ q * r \in Int /\ -(x * y) \in Int /\ (-x * y) * p = (x * y) * (-p)
        /\ x * y \in Int /\ (x * y) * (-p) \in Int /\ (x * y) * (q * r) = (x * q) * (y * r)
    BY <1>3
  <2>8. Same(-p, z)
    BY <2>6, <2>7, SameSym, Zenon
  <2>9. Same(-p, q * r)
    BY <2>6, <2>7, <2>8, SameTrans, Zenon
  <2>10. Same((x * y) * (-p), (x * y) * (q * r))
    BY <2>7, <2>9, SameLeft, Zenon
  <2>11. Same(t * p, (x * q) * (y * r))
    BY <2>2, <2>7, <2>10
  <2> QED BY <1>1, <1>3, <2>11 DEF p, q, r, x, y, t
<1> QED BY <1>5, <1>6

\* The polynomial at a power of Root
At(a, e) == Branch(a, 1, e, 0, N)

LEMMA AtType ==
  ASSUME NEW a \in [Index -> Int], NEW e \in Nat
  PROVE  /\ At(a, e) = Sum(Parts(a, 1, e, 0, N), N) /\ Ints(Parts(a, 1, e, 0, N), N)
         /\ At(a, e) \in Int
         /\ \A m \in 1 .. N : /\ Parts(a, 1, e, 0, N)[m] = a[m - 1] * W(e * (m - 1))
                              /\ a[m - 1] \in Int /\ W(e * (m - 1)) \in Int
<1>1. N \in Nat /\ 1 \in Nat /\ 1 * N = N /\ 0 \in 0 .. 1 - 1
  BY QNatural
<1>2. Ints(Parts(a, 1, e, 0, N), N) /\ Branch(a, 1, e, 0, N) \in Int
  BY <1>1, BranchType, Zenon
<1>3. ASSUME NEW m \in 1 .. N
      PROVE  /\ Parts(a, 1, e, 0, N)[m] = a[m - 1] * W(e * (m - 1))
             /\ a[m - 1] \in Int /\ W(e * (m - 1)) \in Int
  <2>1. 0 + (m - 1) * 1 = m - 1 /\ m - 1 \in Index /\ m - 1 \in Nat
    BY <1>1 DEF Index
  <2>2. Parts(a, 1, e, 0, N)[m] = a[0 + (m - 1) * 1] * W(e * (m - 1))
    BY DEF Parts
  <2>3. e * (m - 1) \in Nat
    BY <2>1
  <2> QED BY <2>1, <2>2, <2>3, WNext
<1> QED BY <1>2, <1>3 DEF At, Branch

LEMMA ProductAt ==
  ASSUME NEW a \in [Index -> Int], NEW b \in [Index -> Int], NEW h \in Nat, NEW e, e = 2 * h + 1
  PROVE  Same(At(RingProduct(a, b), e), At(a, e) * At(b, e))
<1> DEFINE p == RingProduct(a, b)
           v(m) == W(e * (m - 1))
           tp == Parts(p, 1, e, 0, N)
           ta == Parts(a, 1, e, 0, N)
           tb == Parts(b, 1, e, 0, N)
           row == [i \in 1 .. N |-> [j \in 1 .. N |-> RingTerm(a, b, i - 1, j) * v(i)]]
           col == [j \in 1 .. N |-> [i \in 1 .. N |-> RingTerm(a, b, i - 1, j) * v(i)]]
           sum == [j \in 1 .. N |-> Sum(col[j], N)]
           fin == [j \in 1 .. N |-> At(b, e) * ta[j]]
<1>1. N \in Nat /\ e \in Nat /\ p \in [Index -> Int]
  <2>1. p \in [Index -> Int]
    BY RingIs
  <2>2. N \in Nat
    BY QNatural
  <2>3. e \in Nat
    OBVIOUS
  <2> QED BY <2>1, <2>2, <2>3, Zenon
<1>2. /\ At(p, e) = Sum(tp, N) /\ Ints(tp, N) /\ At(a, e) = Sum(ta, N) /\ Ints(ta, N)
      /\ At(b, e) = Sum(tb, N) /\ Ints(tb, N) /\ At(a, e) \in Int /\ At(b, e) \in Int
      /\ At(p, e) \in Int
      /\ \A m \in 1 .. N : /\ v(m) \in Int /\ a[m - 1] \in Int /\ b[m - 1] \in Int
                           /\ tp[m] = p[m - 1] * v(m) /\ ta[m] = a[m - 1] * v(m)
                           /\ tb[m] = b[m - 1] * v(m)
  BY <1>1, AtType
<1>3. \A i, j \in 1 .. N :
        RingTerm(a, b, i - 1, j) \in Int /\ RingTerm(a, b, i - 1, j) * v(i) \in Int
  <2> SUFFICES ASSUME NEW i \in 1 .. N, NEW j \in 1 .. N
               PROVE  /\ RingTerm(a, b, i - 1, j) \in Int
                      /\ RingTerm(a, b, i - 1, j) * v(i) \in Int
    OBVIOUS
  <2>1. i - 1 \in Index
    BY <1>1 DEF Index
  <2> DEFINE x == RingTerm(a, b, i - 1, j)
             y == v(i)
  <2>2. x \in Int /\ y \in Int
    BY <1>2, <2>1, RingIs
  <2> HIDE DEF x, y
  <2>3. x * y \in Int
    BY <2>2
  <2> QED BY <2>2, <2>3 DEF x, y
<1>4. ASSUME NEW i \in 1 .. N PROVE Ints(row[i], N) /\ tp[i] = Sum(row[i], N)
  <2> DEFINE t == [j \in 1 .. N |-> RingTerm(a, b, i - 1, j)]
             y == v(i)
             u == row[i]
  <2>1. i - 1 \in Index
    BY <1>1 DEF Index
  <2>2. p[i - 1] = Sum(t, N)
    BY <2>1, RingIs
  <2>3. Ints(t, N) /\ Ints(u, N) /\ y \in Int
    BY <1>2, <1>3 DEF Ints
  <2>4. \A j \in 1 .. N : u[j] = y * t[j]
    <3> SUFFICES ASSUME NEW j \in 1 .. N PROVE u[j] = y * t[j]
      OBVIOUS
    <3> DEFINE x == RingTerm(a, b, i - 1, j)
    <3>1. u[j] = x * y /\ t[j] = x /\ x \in Int
      BY <1>3
    <3> HIDE DEF x, y, u, t
    <3> QED BY <2>3, <3>1
  <2>5. tp[i] = Sum(t, N) * y
    BY <1>2, <2>2
  <2> HIDE DEF t, u, y
  <2>6. Sum(u, N) = y * Sum(t, N)
    BY <1>1, <2>3, <2>4, SumTimes
  <2>7. Sum(t, N) \in Int
    BY <1>1, <2>3, SumType
  <2>8. Sum(t, N) * y = y * Sum(t, N)
    BY <2>3, <2>7
  <2> QED BY <2>3, <2>5, <2>6, <2>8 DEF u
<1>5. ASSUME NEW j \in 1 .. N
      PROVE  /\ sum[j] = Sum(col[j], N) /\ \A i \in 1 .. N : col[j][i] = row[i][j]
             /\ Ints(col[j], N) /\ Same(sum[j], fin[j]) /\ sum[j] \in Int /\ fin[j] \in Int
  <2> DEFINE d == j - 1
             c == a[d] * W(e * d)
             s == [i \in 1 .. N |-> c * tb[i]]
             u == [i \in 1 .. N |-> IF i > d THEN s[i - d] ELSE s[i - d + N]]
             t == col[j]
  <2>1. d \in Index /\ d + 1 = j /\ d \in 0 .. N
    BY <1>1 DEF Index
  <2>2. c \in Int /\ c = ta[j]
    <3> DEFINE x == a[d]
               y == W(e * d)
    <3>1. x \in Int /\ y \in Int /\ ta[j] = x * y
      BY <1>2
    <3> HIDE DEF x, y
    <3>2. x * y \in Int
      BY <3>1
    <3> QED BY <3>1, <3>2 DEF x, y
  <2>3. Ints(s, N) /\ \A i \in 1 .. N : s[i] = c * tb[i]
    <3> HIDE DEF c, tb
    <3>1. \A i \in 1 .. N : c * tb[i] \in Int
      <4> SUFFICES ASSUME NEW i \in 1 .. N PROVE c * tb[i] \in Int
        OBVIOUS
      <4>1. tb[i] \in Int
        BY <1>2 DEF Ints
      <4> QED BY <2>2, <4>1
    <3> QED BY <3>1 DEF Ints
  <2>4. \A i \in 1 .. N : i > d => i - d \in 1 .. N
    BY <1>1, <2>1
  <2>5. \A i \in 1 .. N : ~ (i > d) => i - d + N \in 1 .. N
    BY <1>1, <2>1
  <2>6. Rotated(u, s, N, d)
    <3> HIDE DEF s
    <3> QED BY DEF Rotated
  <2>7. Ints(u, N)
    <3> HIDE DEF s
    <3> QED BY <2>3, <2>4, <2>5 DEF Ints
  <2>8. Ints(t, N)
    BY <1>3 DEF Ints
  <2>9. \A i \in 1 .. N : Same(t[i], u[i])
    <3> SUFFICES ASSUME NEW i \in 1 .. N PROVE Same(t[i], u[i])
      OBVIOUS
    <3> DEFINE n == IF i > d THEN i - d ELSE i - d + N
    <3>1. n \in 1 .. N
      BY <2>4, <2>5
    <3>2. u[i] = s[n]
      <4> HIDE DEF s
      <4> QED OBVIOUS
    <3>3. s[n] = c * tb[n] /\ tb[n] = b[n - 1] * W(e * (n - 1))
      BY <1>2, <2>3, <3>1
    <3>4. t[i] = RingTerm(a, b, i - 1, d + 1) * W(e * (i - 1))
      BY <2>1
    <3>5. Same(RingTerm(a, b, i - 1, d + 1) * W(e * (i - 1)),
               (a[d] * W(e * d)) * (b[n - 1] * W(e * (n - 1))))
      BY <2>1, <3>1, ProductTerm
    <3> HIDE DEF t, u, s, n, tb
    <3> QED BY <3>2, <3>3, <3>4, <3>5
  <2> HIDE DEF s, u, t, c
  <2>10. Sum(u, N) = Sum(s, N)
    BY <1>1, <2>1, <2>3, <2>6, SumRotated
  <2>11. Sum(s, N) = c * Sum(tb, N)
    <3> HIDE DEF tb
    <3> QED BY <1>1, <1>2, <2>2, <2>3, SumTimes
  <2>12. Same(Sum(t, N), Sum(u, N)) /\ Sum(t, N) \in Int
    BY <1>1, <2>7, <2>8, <2>9, SumSame, SumType
  <2>13. sum[j] = Sum(t, N)
    BY DEF t
  <2>14. fin[j] = At(b, e) * c
    BY <2>2
  <2>15. At(b, e) * c = c * Sum(tb, N) /\ At(b, e) * c \in Int
    <3> DEFINE g == At(b, e)
    <3>1. g \in Int /\ Sum(tb, N) = g
      BY <1>2
    <3> HIDE DEF g
    <3>2. g * c = c * g /\ g * c \in Int
      BY <2>2, <3>1
    <3> QED BY <3>1, <3>2 DEF g
  <2>16. Same(sum[j], fin[j]) /\ sum[j] \in Int /\ fin[j] \in Int
    BY <2>10, <2>11, <2>12, <2>13, <2>14, <2>15
  <2> QED BY <2>8, <2>16 DEF t
<1>6. Sum(tp, N) = Sum(sum, N)
  <2>1. \A i \in 1 .. N : Ints(row[i], N) /\ tp[i] = Sum(row[i], N)
    BY <1>4
  <2>2. \A j \in 1 .. N : sum[j] = Sum(col[j], N) /\ \A i \in 1 .. N : col[j][i] = row[i][j]
    BY <1>5
  <2>3. N \in Nat
    BY <1>1
  <2> HIDE DEF tp, sum, row, col
  <2>4. RowSums(row, N, N, tp)
    BY <2>1 DEF RowSums
  <2>5. ColumnSums(row, col, N, N, sum)
    BY <2>2 DEF ColumnSums
  <2> QED BY <2>3, <2>4, <2>5, SumSwap
<1>7. Same(Sum(sum, N), Sum(fin, N)) /\ Sum(sum, N) \in Int /\ Sum(fin, N) \in Int
  <2>1. Ints(sum, N) /\ Ints(fin, N) /\ \A j \in 1 .. N : Same(sum[j], fin[j])
    BY <1>5 DEF Ints
  <2> HIDE DEF sum, fin
  <2> QED BY <1>1, <2>1, SumSame, SumType
<1>8. Sum(fin, N) = At(b, e) * Sum(ta, N)
  <2>1. \A j \in 1 .. N : fin[j] = At(b, e) * ta[j]
    OBVIOUS
  <2> HIDE DEF fin, ta
  <2> QED BY <1>1, <1>2, <2>1, SumTimes
<1>9. At(b, e) * Sum(ta, N) = At(a, e) * At(b, e)
  <2> DEFINE x == At(a, e)
             y == At(b, e)
  <2>1. x \in Int /\ y \in Int /\ Sum(ta, N) = x
    BY <1>2
  <2> HIDE DEF x, y
  <2>2. y * x = x * y
    BY <2>1
  <2> QED BY <2>1, <2>2 DEF x, y
<1> QED BY <1>2, <1>6, <1>7, <1>8, <1>9

LEMMA ValLeaf ==
  ASSUME NEW A \in [Index -> Int], NEW j \in Index
  PROVE  /\ BitRev(j) \in Nat /\ 2 * BitRev(j) + 1 \in Nat
         /\ Val(A, Layers, j) = At(A, 2 * BitRev(j) + 1)
<1>1. N \in Nat \ {0} /\ Span(Layers) = 1 /\ 2 ^ Layers = N /\ Layers \in Nat /\ j \in 0 .. N - 1
  BY SpanEnds, NttAssumption DEF Index
<1>2. BitRev(j) \in Nat
  BY <1>1, BitRevNat
<1>3. Layers \in 0 .. Layers /\ j \in Int /\ 0 \in 0 .. Span(Layers) - 1 /\ j * 1 + 0 = j
      /\ ~ (N + j < N) /\ (N + j) - N = j
  BY <1>1
<1>4. Val(A, Layers, j * Span(Layers) + 0)
        = Branch(A, Span(Layers), Exp(2 ^ Layers + j), 0, 2 ^ Layers)
  BY <1>3, ValBlock, Zenon
<1>5. Exp(N + j) = 2 * BitRev(j) + 1
  BY <1>3 DEF Exp
<1> QED BY <1>1, <1>2, <1>3, <1>4, <1>5 DEF At

LEMMA ValProduct ==
  ASSUME NEW a \in [Index -> Int], NEW b \in [Index -> Int], NEW j \in Index
  PROVE  /\ Val(RingProduct(a, b), Layers, j) \in Int
         /\ Val(a, Layers, j) \in Int /\ Val(b, Layers, j) \in Int
         /\ Same(Val(a, Layers, j) * Val(b, Layers, j), Val(RingProduct(a, b), Layers, j))
<1> DEFINE p == RingProduct(a, b)
           e == 2 * BitRev(j) + 1
           x == Val(a, Layers, j)
           y == Val(b, Layers, j)
           z == Val(p, Layers, j)
<1>1. p \in [Index -> Int]
  BY RingIs
<1>2. x \in Int /\ y \in Int /\ z \in Int
  <2>1. Layers \in 0 .. Layers
    BY NttAssumption
  <2> HIDE DEF p
  <2> QED BY <1>1, <2>1, ValType
<1>3. BitRev(j) \in Nat /\ x = At(a, e) /\ y = At(b, e) /\ z = At(p, e)
  <2> HIDE DEF p
  <2> QED BY <1>1, ValLeaf
<1>4. Same(At(p, e), At(a, e) * At(b, e))
  BY <1>3, ProductAt
<1> HIDE DEF x, y, z
<1>5. Same(z, x * y) /\ x * y \in Int
  BY <1>2, <1>3, <1>4
<1>6. Same(x * y, z)
  BY <1>2, <1>5, SameSym
<1> QED BY <1>2, <1>6 DEF x, y, z

LEMMA ValCombine ==
  ASSUME NEW a \in [Index -> Int], NEW b \in [Index -> Int], NEW s \in Int, NEW j \in Index
  PROVE  /\ Combine(a, s, b) \in [Index -> Int]
         /\ Val(Combine(a, s, b), Layers, j) = Val(a, Layers, j) + s * Val(b, Layers, j)
<1> DEFINE c == Combine(a, s, b)
           e == 2 * BitRev(j) + 1
           ta == Parts(a, 1, e, 0, N)
           tb == Parts(b, 1, e, 0, N)
           tc == Parts(c, 1, e, 0, N)
<1>1. \A i \in Index : a[i] \in Int /\ b[i] \in Int /\ a[i] + s * b[i] \in Int
                       /\ c[i] = a[i] + s * b[i]
  <2> SUFFICES ASSUME NEW i \in Index
               PROVE  /\ a[i] \in Int /\ b[i] \in Int /\ a[i] + s * b[i] \in Int
                      /\ c[i] = a[i] + s * b[i]
    OBVIOUS
  <2> DEFINE x == a[i]
             y == b[i]
  <2>1. x \in Int /\ y \in Int /\ c[i] = x + s * y
    BY DEF Combine
  <2> HIDE DEF x, y, c
  <2>2. x + s * y \in Int
    BY <2>1
  <2> QED BY <2>1, <2>2 DEF x, y
<1>2. c \in [Index -> Int]
  BY <1>1 DEF Combine
<1>3. N \in Nat
  BY QNatural
<1> HIDE DEF c
<1>4. /\ BitRev(j) \in Nat /\ e \in Nat /\ Val(a, Layers, j) = At(a, e)
      /\ Val(b, Layers, j) = At(b, e) /\ Val(c, Layers, j) = At(c, e)
  BY <1>2, ValLeaf
<1> HIDE DEF e
<1>5. /\ At(a, e) = Sum(ta, N) /\ Ints(ta, N) /\ At(b, e) = Sum(tb, N) /\ Ints(tb, N)
      /\ At(c, e) = Sum(tc, N)
  BY <1>2, <1>4, AtType
<1>6. ASSUME NEW m \in 1 .. N PROVE tc[m] = ta[m] + s * tb[m]
  <2> DEFINE x == a[m - 1]
             y == b[m - 1]
             w == W(e * (m - 1))
  <2>1. m - 1 \in Index
    BY <1>3 DEF Index
  <2>2. x \in Int /\ y \in Int /\ w \in Int /\ ta[m] = x * w /\ tb[m] = y * w
        /\ tc[m] = c[m - 1] * w
    BY <1>2, <1>4, AtType
  <2>3. c[m - 1] = x + s * y
    BY <1>1, <2>1
  <2> HIDE DEF x, y, w, ta, tb, tc
  <2>4. (x + s * y) * w = x * w + s * (y * w)
    BY <2>2
  <2> QED BY <2>2, <2>3, <2>4
<1> HIDE DEF ta, tb, tc
<1>7. Sum(tc, N) = Sum(ta, N) + s * Sum(tb, N)
  BY <1>3, <1>5, <1>6, SumLinear
<1> QED BY <1>2, <1>4, <1>5, <1>7 DEF c

\* The transform of a sum of n polynomials
LEMMA ValSum ==
  ASSUME NEW n \in Nat, NEW p, \A i \in 1 .. n : p[i] \in [Index -> Int], NEW j \in Index
  PROVE  /\ [m \in Index |-> Sum([i \in 1 .. n |-> p[i][m]], n)] \in [Index -> Int]
         /\ Val([m \in Index |-> Sum([i \in 1 .. n |-> p[i][m]], n)], Layers, j)
              = Sum([i \in 1 .. n |-> Val(p[i], Layers, j)], n)
<1> DEFINE at1(m) == [i \in 1 .. n |-> p[i][m]]
           s == [m \in Index |-> Sum(at1(m), n)]
           e == 2 * BitRev(j) + 1
           v(m) == W(e * (m - 1))
           vals == [i \in 1 .. n |-> Val(p[i], Layers, j)]
           row == [i \in 1 .. n |-> Parts(p[i], 1, e, 0, N)]
           col == [m \in 1 .. N |-> [i \in 1 .. n |-> p[i][m - 1] * v(m)]]
           ts == Parts(s, 1, e, 0, N)
<1>1. ASSUME NEW m \in Index PROVE Ints(at1(m), n) /\ Sum(at1(m), n) \in Int
  <2>1. \A i \in 1 .. n : p[i][m] \in Int
    OBVIOUS
  <2>2. Ints(at1(m), n)
    BY <2>1 DEF Ints
  <2> DEFINE t == at1(m)
  <2> HIDE DEF t
  <2>3. Sum(t, n) \in Int
    BY <2>2, SumType DEF t
  <2> QED BY <2>2, <2>3 DEF t
<1>2. s \in [Index -> Int]
  BY <1>1
<1>3. N \in Nat /\ BitRev(j) \in Nat /\ e \in Nat
  <2>1. j \in Nat
    BY QNatural DEF Index
  <2>2. BitRev(j) \in Nat
    BY <2>1, BitRevNat
  <2> QED BY <2>2, QNatural
<1>4. Val(s, Layers, j) = Sum(ts, N)
  <2> HIDE DEF s
  <2>1. Val(s, Layers, j) = At(s, e)
    BY <1>2, ValLeaf
  <2> HIDE DEF e
  <2>2. At(s, e) = Sum(ts, N)
    BY <1>2, <1>3, AtType
  <2> QED BY <2>1, <2>2
<1>5. ASSUME NEW i \in 1 .. n
      PROVE  Ints(row[i], N) /\ vals[i] = Sum(row[i], N)
             /\ \A m \in 1 .. N : row[i][m] = p[i][m - 1] * v(m) /\ v(m) \in Int
  <2>1. p[i] \in [Index -> Int]
    OBVIOUS
  <2> DEFINE q == p[i]
  <2>2. vals[i] = Val(q, Layers, j) /\ row[i] = Parts(q, 1, e, 0, N)
    OBVIOUS
  <2>3. q \in [Index -> Int]
    BY <2>1
  <2> HIDE DEF q
  <2>4. Val(q, Layers, j) = At(q, e)
    BY <2>3, ValLeaf
  <2> HIDE DEF e
  <2>5. /\ At(q, e) = Sum(Parts(q, 1, e, 0, N), N) /\ Ints(Parts(q, 1, e, 0, N), N)
        /\ \A m \in 1 .. N : /\ Parts(q, 1, e, 0, N)[m] = q[m - 1] * W(e * (m - 1))
                             /\ W(e * (m - 1)) \in Int
    BY <1>3, <2>3, AtType
  <2> QED BY <2>2, <2>4, <2>5 DEF q
<1>6. ASSUME NEW m \in 1 .. N
      PROVE  ts[m] = Sum(col[m], n) /\ \A i \in 1 .. n : col[m][i] = row[i][m]
  <2>1. m - 1 \in Index
    BY <1>3 DEF Index
  <2> DEFINE y == v(m)
             t == at1(m - 1)
             u == col[m]
  <2>2. ts[m] = s[m - 1] * y /\ y \in Int
    <3> HIDE DEF s
    <3> QED BY <1>2, <1>3, AtType
  <2>3. s[m - 1] = Sum(t, n)
    BY <2>1
  <2>4. Ints(t, n)
    BY <1>1, <2>1
  <2>5. ASSUME NEW i \in 1 .. n PROVE u[i] = y * t[i]
    <3> DEFINE x == p[i][m - 1]
    <3>1. x \in Int /\ u[i] = x * y /\ t[i] = x
      BY <2>1
    <3> HIDE DEF x, y, u, t
    <3>2. x * y = y * x
      BY <2>2, <3>1
    <3> QED BY <3>1, <3>2
  <2>6. \A i \in 1 .. n : col[m][i] = row[i][m]
    BY <1>5
  <2> HIDE DEF t, y, u, s
  <2>7. Sum(u, n) = y * Sum(t, n) /\ Sum(t, n) \in Int
    BY <2>2, <2>4, <2>5, SumTimes, SumType
  <2>8. Sum(t, n) * y = y * Sum(t, n)
    BY <2>2, <2>7
  <2> QED BY <2>2, <2>3, <2>6, <2>7, <2>8 DEF u
<1>7. Sum(vals, n) = Sum(ts, N)
  <2>1. RowSums(row, n, N, vals)
    BY <1>5 DEF RowSums
  <2>2. ColumnSums(row, col, n, N, ts)
    BY <1>6 DEF ColumnSums
  <2>3. N \in Nat
    BY <1>3
  <2> HIDE DEF vals, ts, row, col
  <2> QED BY <2>1, <2>2, <2>3, SumSwap
<1> QED BY <1>2, <1>4, <1>7

-----------------------------------------------------------------------------
(* What the polynomials stand for while a program runs.                    *)

Coefficients(a, g) == [form |-> "coefficients", of |-> a, by |-> g]
Transform(a, g) == [form |-> "values", of |-> a, by |-> g]

Shown(m, j) == IF m.form = "values" THEN Val(m.of, Layers, j) ELSE m.of[j]
Face(m, j) == m.by * Shown(m, j)
Represents(r, m) == \A j \in Index : Same(r[j], Face(m, j))

Was(x) == given.poly[Single(x)]
Shift == 2 ^ D

\* The variables before the n-th instruction
ChallengeMeans(c, n) ==
  IF c \in {"response", "low", "hint", "verify"} /\ n > 1
    THEN Transform(Was("c"), 1) ELSE Coefficients(Was("c"), 1)

FactorMeans(c, n) ==
  IF c = "verify"
    THEN IF n > 3 THEN Transform(Was("t"), Shift)
         ELSE IF n = 3 THEN Coefficients(Was("t"), Shift) ELSE Coefficients(Was("t"), 1)
    ELSE IF c \in {"response", "low", "hint"} /\ n > 2
      THEN Transform(Was("t"), 1) ELSE Coefficients(Was("t"), 1)

ErrorMeans(c, n) ==
  IF c = "low" /\ n > 5 THEN Coefficients(Expected["low"], 1) ELSE Coefficients(Was("e"), 1)

HighMeans(c, n) ==
  IF c \in {"low", "hint"} /\ n > 3
    THEN IF n = 4 THEN Transform(ChallengeTimes, RInv) ELSE Coefficients(ChallengeTimes, 1)
    ELSE IF c = "verify" /\ n > 4 THEN Transform(ChallengeTimes, Shift * RInv)
    ELSE Coefficients(Was("h"), 1)

ResultMeans(c, n) ==
  IF c \in {"keygen", "mask"} /\ n > 2
    THEN IF n = 3 THEN Transform(MatrixTimesVector, RInv)
         ELSE IF n = 4 THEN Coefficients(MatrixTimesVector, 1) ELSE Coefficients(Expected[c], 1)
    ELSE IF c = "response" /\ n > 3
      THEN IF n = 4 THEN Transform(ChallengeTimes, RInv)
           ELSE IF n = 5 THEN Coefficients(ChallengeTimes, 1) ELSE Coefficients(Expected[c], 1)
    ELSE IF c = "verify" /\ n > 6
      THEN IF n = 7 THEN Transform(MatrixTimesVector, RInv)
           ELSE IF n < 10 THEN Transform(Expected[c], RInv) ELSE Coefficients(Expected[c], 1)
    ELSE Coefficients(Was("w"), 1)

Means(c, n, x) ==
  IF x = "c" THEN ChallengeMeans(c, n)
  ELSE IF x = "t" THEN FactorMeans(c, n)
  ELSE IF x = "e" THEN ErrorMeans(c, n)
  ELSE IF x = "h" THEN HighMeans(c, n)
  ELSE ResultMeans(c, n)

\* Polynomial p when the n-th instruction has come to place i of its vector
Meaning(n, i, p) ==
  IF p[1] # "v" THEN Means(call, n, p[1])
  ELSE IF \/ Transformed(Code, "v", n)
          \/ n =< Len(Code) /\ Code[n].do = "ntt" /\ Code[n].on = "v" /\ p[2] < i
    THEN Transform(given.poly[p], 1)
    ELSE Coefficients(given.poly[p], 1)

Source == Meaning(at, lane, On)

Meant ==
  /\ \A p \in Names : (InTransform /\ p = On) \/ Represents(poly[p], Meaning(at, lane, p))
  /\ Now("ntt") =>
       \A j \in Index : Same(poly[On][j], Source.by * Rising(Source.of, layer, start, j))
  /\ Now("invntt") /\ layer >= 1 =>
       \A j \in Index : Same(poly[On][j],
                             (Source.by * Span(layer)) * Falling(Source.of, layer, start, j))
  /\ Now("invntt") /\ layer = 0 =>
       \A j \in Index : Same(poly[On][j], (Source.by * N) * Source.of[j])
  /\ Done /\ call \in {"keygen", "mask", "verify"} =>
       \A j \in Index : poly[Single("w")][j] >= 0

-----------------------------------------------------------------------------
(* Every instruction brings about what the next one finds.                 *)

Scalars == {"c", "t", "e", "h", "w"}

Moves(c, n) ==
  LET do == Program[c][n].do
      on == Program[c][n].on
      m == Means(c, n, on)
      m2 == Means(c, n + 1, on)
      t == Means(c, n, "t")
  IN
  /\ \A x \in Scalars : x # on => Means(c, n + 1, x) = Means(c, n, x)
  /\ do = "ntt" /\ on # "v" => m.form = "coefficients" /\ m2 = Transform(m.of, m.by)
  /\ do = "invntt" => m.form = "values" /\ m.by = RInv /\ m2 = Coefficients(m.of, 1)
  /\ do = "pointwise" => /\ Means(c, n, "c") = Transform(Was("c"), 1)
                         /\ t = Transform(Was("t"), t.by)
                         /\ m2 = Transform(ChallengeTimes, t.by * RInv)
  /\ do = "acc" => m2 = Transform(MatrixTimesVector, RInv)
  /\ do = "shiftl" => m = Coefficients(Was("t"), 1) /\ m2 = Coefficients(Was("t"), Shift)
  /\ do \in {"reduce", "caddq"} => m2 = m

Ends(c) ==
  LET n == Len(Program[c]) IN
  /\ n \in Nat \ {0} /\ Program[c][n].on = Result[c]
  /\ Result[c] \in {"w", "h", "e"}
  /\ Program[c][n].do = IF c \in {"keygen", "mask", "verify"} THEN "caddq" ELSE "reduce"
  /\ c \in {"keygen", "mask", "verify"} => Result[c] = "w"
  /\ Means(c, n + 1, Result[c]) = Coefficients(Expected[c], 1)
  /\ \A i \in 1 .. n : Program[c][i].do = "caddq" => i = n

LEMMA KeygenMoves == Ends("keygen") /\ \A n \in 1 .. 6 : Moves("keygen", n)
<1>1. Program["keygen"] = KeygenT /\ Len(KeygenT) = 6 /\ 6 \in Nat \ {0}
  BY KeygenText DEF Program
<1> HIDE DEF RInv
<1>4. Ends("keygen")
  <2>1. Result["keygen"] = "w"
    BY DEF Result
  <2>2. /\ Program["keygen"][6].do = "caddq" /\ Program["keygen"][6].on = "w"
        /\ \A i \in 1 .. 6 : Program["keygen"][i].do = "caddq" => i = 6
    BY <1>1, KeygenText DEF I, I2
  <2>3. Means("keygen", 6 + 1, "w") = Coefficients(Expected["keygen"], 1)
    BY DEF Means, ResultMeans
  <2> QED BY <1>1, <2>1, <2>2, <2>3 DEF Ends
<1>5. Moves("keygen", 1)
  <2>1. Program["keygen"][1].do = "ntt" /\ Program["keygen"][1].on = "v"
    BY <1>1, KeygenText DEF I, I2
  <2>2. \A x \in Scalars : Means("keygen", 1 + 1, x) = Means("keygen", 1, x)
    BY DEF Scalars, Means, ChallengeMeans, FactorMeans, ErrorMeans, HighMeans, ResultMeans
  <2> QED BY <2>1, <2>2 DEF Moves, Scalars
<1>6. Moves("keygen", 2)
  <2>1. Program["keygen"][2].do = "acc" /\ Program["keygen"][2].on = "w"
    BY <1>1, KeygenText DEF I, I2
  <2>2. \A x \in Scalars \ {"w"} : Means("keygen", 2 + 1, x) = Means("keygen", 2, x)
    BY DEF Scalars, Means, ChallengeMeans, FactorMeans, ErrorMeans, HighMeans, ResultMeans
  <2>3. Means("keygen", 2 + 1, "w") = Transform(MatrixTimesVector, RInv)
    BY DEF Means, ResultMeans
  <2> QED BY <2>1, <2>2, <2>3 DEF Moves
<1>7. Moves("keygen", 3)
  <2>1. Program["keygen"][3].do = "invntt" /\ Program["keygen"][3].on = "w"
    BY <1>1, KeygenText DEF I, I2
  <2>2. \A x \in Scalars \ {"w"} : Means("keygen", 3 + 1, x) = Means("keygen", 3, x)
    BY DEF Scalars, Means, ChallengeMeans, FactorMeans, ErrorMeans, HighMeans, ResultMeans
  <2>3. /\ Means("keygen", 3, "w") = Transform(MatrixTimesVector, RInv)
        /\ Means("keygen", 3 + 1, "w") = Coefficients(MatrixTimesVector, 1)
    BY DEF Means, ResultMeans
  <2> QED BY <2>1, <2>2, <2>3 DEF Moves, Coefficients, Transform
<1>8. Moves("keygen", 4)
  <2>1. Program["keygen"][4].do = "add" /\ Program["keygen"][4].on = "w"
    BY <1>1, KeygenText DEF I, I2
  <2>2. \A x \in Scalars \ {"w"} : Means("keygen", 4 + 1, x) = Means("keygen", 4, x)
    BY DEF Scalars, Means, ChallengeMeans, FactorMeans, ErrorMeans, HighMeans, ResultMeans
  <2> QED BY <2>1, <2>2 DEF Moves
<1>9. Moves("keygen", 5)
  <2>1. Program["keygen"][5].do = "reduce" /\ Program["keygen"][5].on = "w"
    BY <1>1, KeygenText DEF I, I2
  <2>2. \A x \in Scalars \ {"w"} : Means("keygen", 5 + 1, x) = Means("keygen", 5, x)
    BY DEF Scalars, Means, ChallengeMeans, FactorMeans, ErrorMeans, HighMeans, ResultMeans
  <2>3. Means("keygen", 5 + 1, "w") = Means("keygen", 5, "w")
    BY DEF Means, ResultMeans
  <2> QED BY <2>1, <2>2, <2>3 DEF Moves
<1>10. Moves("keygen", 6)
  <2>1. Program["keygen"][6].do = "caddq" /\ Program["keygen"][6].on = "w"
    BY <1>1, KeygenText DEF I, I2
  <2>2. \A x \in Scalars \ {"w"} : Means("keygen", 6 + 1, x) = Means("keygen", 6, x)
    BY DEF Scalars, Means, ChallengeMeans, FactorMeans, ErrorMeans, HighMeans, ResultMeans
  <2>3. Means("keygen", 6 + 1, "w") = Means("keygen", 6, "w")
    BY DEF Means, ResultMeans
  <2> QED BY <2>1, <2>2, <2>3 DEF Moves
<1>11. ASSUME NEW n \in 1 .. 6 PROVE Moves("keygen", n)
  BY <1>5, <1>6, <1>7, <1>8, <1>9, <1>10
<1> QED BY <1>4, <1>11

LEMMA MaskMoves == Ends("mask") /\ \A n \in 1 .. 4 : Moves("mask", n)
<1>1. Program["mask"] = MaskW /\ Len(MaskW) = 4 /\ 4 \in Nat \ {0}
  BY MaskText DEF Program
<1>3. Expected["mask"] = MatrixTimesVector
  BY DEF Expected
<1> HIDE DEF RInv
<1>4. Ends("mask")
  <2>1. Result["mask"] = "w"
    BY DEF Result
  <2>2. /\ Program["mask"][4].do = "caddq" /\ Program["mask"][4].on = "w"
        /\ \A i \in 1 .. 4 : Program["mask"][i].do = "caddq" => i = 4
    BY <1>1, MaskText DEF I, I2
  <2>3. Means("mask", 4 + 1, "w") = Coefficients(Expected["mask"], 1)
    BY <1>3 DEF Means, ResultMeans
  <2> QED BY <1>1, <2>1, <2>2, <2>3 DEF Ends
<1>5. Moves("mask", 1)
  <2>1. Program["mask"][1].do = "ntt" /\ Program["mask"][1].on = "v"
    BY <1>1, MaskText DEF I, I2
  <2>2. \A x \in Scalars : Means("mask", 1 + 1, x) = Means("mask", 1, x)
    BY DEF Scalars, Means, ChallengeMeans, FactorMeans, ErrorMeans, HighMeans, ResultMeans
  <2> QED BY <2>1, <2>2 DEF Moves, Scalars
<1>6. Moves("mask", 2)
  <2>1. Program["mask"][2].do = "acc" /\ Program["mask"][2].on = "w"
    BY <1>1, MaskText DEF I, I2
  <2>2. \A x \in Scalars \ {"w"} : Means("mask", 2 + 1, x) = Means("mask", 2, x)
    BY DEF Scalars, Means, ChallengeMeans, FactorMeans, ErrorMeans, HighMeans, ResultMeans
  <2>3. Means("mask", 2 + 1, "w") = Transform(MatrixTimesVector, RInv)
    BY DEF Means, ResultMeans
  <2> QED BY <2>1, <2>2, <2>3 DEF Moves
<1>7. Moves("mask", 3)
  <2>1. Program["mask"][3].do = "invntt" /\ Program["mask"][3].on = "w"
    BY <1>1, MaskText DEF I, I2
  <2>2. \A x \in Scalars \ {"w"} : Means("mask", 3 + 1, x) = Means("mask", 3, x)
    BY DEF Scalars, Means, ChallengeMeans, FactorMeans, ErrorMeans, HighMeans, ResultMeans
  <2>3. /\ Means("mask", 3, "w") = Transform(MatrixTimesVector, RInv)
        /\ Means("mask", 3 + 1, "w") = Coefficients(MatrixTimesVector, 1)
    BY DEF Means, ResultMeans
  <2> QED BY <2>1, <2>2, <2>3 DEF Moves, Coefficients, Transform
<1>8. Moves("mask", 4)
  <2>1. Program["mask"][4].do = "caddq" /\ Program["mask"][4].on = "w"
    BY <1>1, MaskText DEF I, I2
  <2>2. \A x \in Scalars \ {"w"} : Means("mask", 4 + 1, x) = Means("mask", 4, x)
    BY DEF Scalars, Means, ChallengeMeans, FactorMeans, ErrorMeans, HighMeans, ResultMeans
  <2>3. Means("mask", 4 + 1, "w") = Means("mask", 4, "w")
    BY <1>3 DEF Means, ResultMeans
  <2> QED BY <2>1, <2>2, <2>3 DEF Moves
<1>9. ASSUME NEW n \in 1 .. 4 PROVE Moves("mask", n)
  BY <1>5, <1>6, <1>7, <1>8
<1> QED BY <1>4, <1>9

LEMMA ResponseMoves == Ends("response") /\ \A n \in 1 .. 6 : Moves("response", n)
<1>1. Program["response"] = ResponseZ /\ Len(ResponseZ) = 6 /\ 6 \in Nat \ {0}
  BY ResponseText DEF Program
<1>2. RInv = 1 * RInv
  BY RInvIs
<1> HIDE DEF RInv
<1>4. Ends("response")
  <2>1. Result["response"] = "w"
    BY DEF Result
  <2>2. /\ Program["response"][6].do = "reduce" /\ Program["response"][6].on = "w"
        /\ \A i \in 1 .. 6 : Program["response"][i].do = "caddq" => i = 6
    BY <1>1, ResponseText DEF I, I2
  <2>3. Means("response", 6 + 1, "w") = Coefficients(Expected["response"], 1)
    BY DEF Means, ResultMeans
  <2> QED BY <1>1, <2>1, <2>2, <2>3 DEF Ends
<1>5. Moves("response", 1)
  <2>1. Program["response"][1].do = "ntt" /\ Program["response"][1].on = "c"
    BY <1>1, ResponseText DEF I, I2
  <2>2. \A x \in Scalars \ {"c"} : Means("response", 1 + 1, x) = Means("response", 1, x)
    BY DEF Scalars, Means, ChallengeMeans, FactorMeans, ErrorMeans, HighMeans, ResultMeans
  <2>3. /\ Means("response", 1, "c") = Coefficients(Was("c"), 1)
        /\ Means("response", 1 + 1, "c") = Transform(Was("c"), 1)
    BY DEF Means, ChallengeMeans
  <2> QED BY <2>1, <2>2, <2>3 DEF Moves, Coefficients, Transform
<1>6. Moves("response", 2)
  <2>1. Program["response"][2].do = "ntt" /\ Program["response"][2].on = "t"
    BY <1>1, ResponseText DEF I, I2
  <2>2. \A x \in Scalars \ {"t"} : Means("response", 2 + 1, x) = Means("response", 2, x)
    BY DEF Scalars, Means, ChallengeMeans, FactorMeans, ErrorMeans, HighMeans, ResultMeans
  <2>3. /\ Means("response", 2, "t") = Coefficients(Was("t"), 1)
        /\ Means("response", 2 + 1, "t") = Transform(Was("t"), 1)
    BY DEF Means, FactorMeans
  <2> QED BY <2>1, <2>2, <2>3 DEF Moves, Coefficients, Transform
<1>7. Moves("response", 3)
  <2>1. Program["response"][3].do = "pointwise" /\ Program["response"][3].on = "w"
    BY <1>1, ResponseText DEF I, I2
  <2>2. \A x \in Scalars \ {"w"} : Means("response", 3 + 1, x) = Means("response", 3, x)
    BY DEF Scalars, Means, ChallengeMeans, FactorMeans, ErrorMeans, HighMeans, ResultMeans
  <2>3. /\ Means("response", 3, "c") = Transform(Was("c"), 1)
        /\ Means("response", 3, "t") = Transform(Was("t"), 1)
        /\ Means("response", 3 + 1, "w") = Transform(ChallengeTimes, 1 * RInv)
    BY <1>2 DEF Means, ChallengeMeans, FactorMeans, ResultMeans
  <2> QED BY <2>1, <2>2, <2>3 DEF Moves, Transform
<1>8. Moves("response", 4)
  <2>1. Program["response"][4].do = "invntt" /\ Program["response"][4].on = "w"
    BY <1>1, ResponseText DEF I, I2
  <2>2. \A x \in Scalars \ {"w"} : Means("response", 4 + 1, x) = Means("response", 4, x)
    BY DEF Scalars, Means, ChallengeMeans, FactorMeans, ErrorMeans, HighMeans, ResultMeans
  <2>3. /\ Means("response", 4, "w") = Transform(ChallengeTimes, RInv)
        /\ Means("response", 4 + 1, "w") = Coefficients(ChallengeTimes, 1)
    BY DEF Means, ResultMeans
  <2> QED BY <2>1, <2>2, <2>3 DEF Moves, Coefficients, Transform
<1>9. Moves("response", 5)
  <2>1. Program["response"][5].do = "add" /\ Program["response"][5].on = "w"
    BY <1>1, ResponseText DEF I, I2
  <2>2. \A x \in Scalars \ {"w"} : Means("response", 5 + 1, x) = Means("response", 5, x)
    BY DEF Scalars, Means, ChallengeMeans, FactorMeans, ErrorMeans, HighMeans, ResultMeans
  <2> QED BY <2>1, <2>2 DEF Moves
<1>10. Moves("response", 6)
  <2>1. Program["response"][6].do = "reduce" /\ Program["response"][6].on = "w"
    BY <1>1, ResponseText DEF I, I2
  <2>2. \A x \in Scalars \ {"w"} : Means("response", 6 + 1, x) = Means("response", 6, x)
    BY DEF Scalars, Means, ChallengeMeans, FactorMeans, ErrorMeans, HighMeans, ResultMeans
  <2>3. Means("response", 6 + 1, "w") = Means("response", 6, "w")
    BY DEF Means, ResultMeans
  <2> QED BY <2>1, <2>2, <2>3 DEF Moves
<1>11. ASSUME NEW n \in 1 .. 6 PROVE Moves("response", n)
  BY <1>5, <1>6, <1>7, <1>8, <1>9, <1>10
<1> QED BY <1>4, <1>11

LEMMA LowMoves == Ends("low") /\ \A n \in 1 .. 6 : Moves("low", n)
<1>1. Program["low"] = SignLow /\ Len(SignLow) = 6 /\ 6 \in Nat \ {0}
  BY LowText DEF Program
<1>2. RInv = 1 * RInv
  BY RInvIs
<1> HIDE DEF RInv
<1>4. Ends("low")
  <2>1. Result["low"] = "e"
    BY DEF Result
  <2>2. /\ Program["low"][6].do = "reduce" /\ Program["low"][6].on = "e"
        /\ \A i \in 1 .. 6 : Program["low"][i].do = "caddq" => i = 6
    BY <1>1, LowText DEF I, I2
  <2>3. Means("low", 6 + 1, "e") = Coefficients(Expected["low"], 1)
    BY DEF Means, ErrorMeans
  <2> QED BY <1>1, <2>1, <2>2, <2>3 DEF Ends
<1>5. Moves("low", 1)
  <2>1. Program["low"][1].do = "ntt" /\ Program["low"][1].on = "c"
    BY <1>1, LowText DEF I, I2
  <2>2. \A x \in Scalars \ {"c"} : Means("low", 1 + 1, x) = Means("low", 1, x)
    BY DEF Scalars, Means, ChallengeMeans, FactorMeans, ErrorMeans, HighMeans, ResultMeans
  <2>3. /\ Means("low", 1, "c") = Coefficients(Was("c"), 1)
        /\ Means("low", 1 + 1, "c") = Transform(Was("c"), 1)
    BY DEF Means, ChallengeMeans
  <2> QED BY <2>1, <2>2, <2>3 DEF Moves, Coefficients, Transform
<1>6. Moves("low", 2)
  <2>1. Program["low"][2].do = "ntt" /\ Program["low"][2].on = "t"
    BY <1>1, LowText DEF I, I2
  <2>2. \A x \in Scalars \ {"t"} : Means("low", 2 + 1, x) = Means("low", 2, x)
    BY DEF Scalars, Means, ChallengeMeans, FactorMeans, ErrorMeans, HighMeans, ResultMeans
  <2>3. /\ Means("low", 2, "t") = Coefficients(Was("t"), 1)
        /\ Means("low", 2 + 1, "t") = Transform(Was("t"), 1)
    BY DEF Means, FactorMeans
  <2> QED BY <2>1, <2>2, <2>3 DEF Moves, Coefficients, Transform
<1>7. Moves("low", 3)
  <2>1. Program["low"][3].do = "pointwise" /\ Program["low"][3].on = "h"
    BY <1>1, LowText DEF I, I2
  <2>2. \A x \in Scalars \ {"h"} : Means("low", 3 + 1, x) = Means("low", 3, x)
    BY DEF Scalars, Means, ChallengeMeans, FactorMeans, ErrorMeans, HighMeans, ResultMeans
  <2>3. /\ Means("low", 3, "c") = Transform(Was("c"), 1)
        /\ Means("low", 3, "t") = Transform(Was("t"), 1)
        /\ Means("low", 3 + 1, "h") = Transform(ChallengeTimes, 1 * RInv)
    BY <1>2 DEF Means, ChallengeMeans, FactorMeans, HighMeans
  <2> QED BY <2>1, <2>2, <2>3 DEF Moves, Transform
<1>8. Moves("low", 4)
  <2>1. Program["low"][4].do = "invntt" /\ Program["low"][4].on = "h"
    BY <1>1, LowText DEF I, I2
  <2>2. \A x \in Scalars \ {"h"} : Means("low", 4 + 1, x) = Means("low", 4, x)
    BY DEF Scalars, Means, ChallengeMeans, FactorMeans, ErrorMeans, HighMeans, ResultMeans
  <2>3. /\ Means("low", 4, "h") = Transform(ChallengeTimes, RInv)
        /\ Means("low", 4 + 1, "h") = Coefficients(ChallengeTimes, 1)
    BY DEF Means, HighMeans
  <2> QED BY <2>1, <2>2, <2>3 DEF Moves, Coefficients, Transform
<1>9. Moves("low", 5)
  <2>1. Program["low"][5].do = "sub" /\ Program["low"][5].on = "e"
    BY <1>1, LowText DEF I, I2
  <2>2. \A x \in Scalars \ {"e"} : Means("low", 5 + 1, x) = Means("low", 5, x)
    BY DEF Scalars, Means, ChallengeMeans, FactorMeans, ErrorMeans, HighMeans, ResultMeans
  <2> QED BY <2>1, <2>2 DEF Moves
<1>10. Moves("low", 6)
  <2>1. Program["low"][6].do = "reduce" /\ Program["low"][6].on = "e"
    BY <1>1, LowText DEF I, I2
  <2>2. \A x \in Scalars \ {"e"} : Means("low", 6 + 1, x) = Means("low", 6, x)
    BY DEF Scalars, Means, ChallengeMeans, FactorMeans, ErrorMeans, HighMeans, ResultMeans
  <2>3. Means("low", 6 + 1, "e") = Means("low", 6, "e")
    BY DEF Means, ErrorMeans
  <2> QED BY <2>1, <2>2, <2>3 DEF Moves
<1>11. ASSUME NEW n \in 1 .. 6 PROVE Moves("low", n)
  BY <1>5, <1>6, <1>7, <1>8, <1>9, <1>10
<1> QED BY <1>4, <1>11

LEMMA HintMoves == Ends("hint") /\ \A n \in 1 .. 5 : Moves("hint", n)
<1>1. Program["hint"] = HintH /\ Len(HintH) = 5 /\ 5 \in Nat \ {0}
  BY HintText DEF Program
<1>2. RInv = 1 * RInv
  BY RInvIs
<1>3. Expected["hint"] = ChallengeTimes
  BY DEF Expected
<1> HIDE DEF RInv
<1>4. Ends("hint")
  <2>1. Result["hint"] = "h"
    BY DEF Result
  <2>2. /\ Program["hint"][5].do = "reduce" /\ Program["hint"][5].on = "h"
        /\ \A i \in 1 .. 5 : Program["hint"][i].do = "caddq" => i = 5
    BY <1>1, HintText DEF I, I2
  <2>3. Means("hint", 5 + 1, "h") = Coefficients(Expected["hint"], 1)
    BY <1>3 DEF Means, HighMeans
  <2> QED BY <1>1, <2>1, <2>2, <2>3 DEF Ends
<1>5. Moves("hint", 1)
  <2>1. Program["hint"][1].do = "ntt" /\ Program["hint"][1].on = "c"
    BY <1>1, HintText DEF I, I2
  <2>2. \A x \in Scalars \ {"c"} : Means("hint", 1 + 1, x) = Means("hint", 1, x)
    BY DEF Scalars, Means, ChallengeMeans, FactorMeans, ErrorMeans, HighMeans, ResultMeans
  <2>3. /\ Means("hint", 1, "c") = Coefficients(Was("c"), 1)
        /\ Means("hint", 1 + 1, "c") = Transform(Was("c"), 1)
    BY DEF Means, ChallengeMeans
  <2> QED BY <2>1, <2>2, <2>3 DEF Moves, Coefficients, Transform
<1>6. Moves("hint", 2)
  <2>1. Program["hint"][2].do = "ntt" /\ Program["hint"][2].on = "t"
    BY <1>1, HintText DEF I, I2
  <2>2. \A x \in Scalars \ {"t"} : Means("hint", 2 + 1, x) = Means("hint", 2, x)
    BY DEF Scalars, Means, ChallengeMeans, FactorMeans, ErrorMeans, HighMeans, ResultMeans
  <2>3. /\ Means("hint", 2, "t") = Coefficients(Was("t"), 1)
        /\ Means("hint", 2 + 1, "t") = Transform(Was("t"), 1)
    BY DEF Means, FactorMeans
  <2> QED BY <2>1, <2>2, <2>3 DEF Moves, Coefficients, Transform
<1>7. Moves("hint", 3)
  <2>1. Program["hint"][3].do = "pointwise" /\ Program["hint"][3].on = "h"
    BY <1>1, HintText DEF I, I2
  <2>2. \A x \in Scalars \ {"h"} : Means("hint", 3 + 1, x) = Means("hint", 3, x)
    BY DEF Scalars, Means, ChallengeMeans, FactorMeans, ErrorMeans, HighMeans, ResultMeans
  <2>3. /\ Means("hint", 3, "c") = Transform(Was("c"), 1)
        /\ Means("hint", 3, "t") = Transform(Was("t"), 1)
        /\ Means("hint", 3 + 1, "h") = Transform(ChallengeTimes, 1 * RInv)
    BY <1>2 DEF Means, ChallengeMeans, FactorMeans, HighMeans
  <2> QED BY <2>1, <2>2, <2>3 DEF Moves, Transform
<1>8. Moves("hint", 4)
  <2>1. Program["hint"][4].do = "invntt" /\ Program["hint"][4].on = "h"
    BY <1>1, HintText DEF I, I2
  <2>2. \A x \in Scalars \ {"h"} : Means("hint", 4 + 1, x) = Means("hint", 4, x)
    BY DEF Scalars, Means, ChallengeMeans, FactorMeans, ErrorMeans, HighMeans, ResultMeans
  <2>3. /\ Means("hint", 4, "h") = Transform(ChallengeTimes, RInv)
        /\ Means("hint", 4 + 1, "h") = Coefficients(ChallengeTimes, 1)
    BY DEF Means, HighMeans
  <2> QED BY <2>1, <2>2, <2>3 DEF Moves, Coefficients, Transform
<1>9. Moves("hint", 5)
  <2>1. Program["hint"][5].do = "reduce" /\ Program["hint"][5].on = "h"
    BY <1>1, HintText DEF I, I2
  <2>2. \A x \in Scalars \ {"h"} : Means("hint", 5 + 1, x) = Means("hint", 5, x)
    BY DEF Scalars, Means, ChallengeMeans, FactorMeans, ErrorMeans, HighMeans, ResultMeans
  <2>3. Means("hint", 5 + 1, "h") = Means("hint", 5, "h")
    BY <1>3 DEF Means, HighMeans
  <2> QED BY <2>1, <2>2, <2>3 DEF Moves
<1>10. ASSUME NEW n \in 1 .. 5 PROVE Moves("hint", n)
  BY <1>5, <1>6, <1>7, <1>8, <1>9
<1> QED BY <1>4, <1>10

LEMMA VerifyMoves == Ends("verify") /\ \A n \in 1 .. 10 : Moves("verify", n)
<1>1. Program["verify"] = VerifyW /\ Len(VerifyW) = 10 /\ 10 \in Nat \ {0}
  BY VerifyText DEF Program
<1> HIDE DEF RInv
<1>4. Ends("verify")
  <2>1. Result["verify"] = "w"
    BY DEF Result
  <2>2. /\ Program["verify"][10].do = "caddq" /\ Program["verify"][10].on = "w"
        /\ \A i \in 1 .. 10 : Program["verify"][i].do = "caddq" => i = 10
    BY <1>1, VerifyText DEF I, I2
  <2>3. Means("verify", 10 + 1, "w") = Coefficients(Expected["verify"], 1)
    BY DEF Means, ResultMeans
  <2> QED BY <1>1, <2>1, <2>2, <2>3 DEF Ends
<1>5. Moves("verify", 1)
  <2>1. Program["verify"][1].do = "ntt" /\ Program["verify"][1].on = "c"
    BY <1>1, VerifyText DEF I, I2
  <2>2. \A x \in Scalars \ {"c"} : Means("verify", 1 + 1, x) = Means("verify", 1, x)
    BY DEF Scalars, Means, ChallengeMeans, FactorMeans, ErrorMeans, HighMeans, ResultMeans
  <2>3. /\ Means("verify", 1, "c") = Coefficients(Was("c"), 1)
        /\ Means("verify", 1 + 1, "c") = Transform(Was("c"), 1)
    BY DEF Means, ChallengeMeans
  <2> QED BY <2>1, <2>2, <2>3 DEF Moves, Coefficients, Transform
<1>6. Moves("verify", 2)
  <2>1. Program["verify"][2].do = "shiftl" /\ Program["verify"][2].on = "t"
    BY <1>1, VerifyText DEF I, I2
  <2>2. \A x \in Scalars \ {"t"} : Means("verify", 2 + 1, x) = Means("verify", 2, x)
    BY DEF Scalars, Means, ChallengeMeans, FactorMeans, ErrorMeans, HighMeans, ResultMeans
  <2>3. /\ Means("verify", 2, "t") = Coefficients(Was("t"), 1)
        /\ Means("verify", 2 + 1, "t") = Coefficients(Was("t"), Shift)
    BY DEF Means, FactorMeans
  <2> QED BY <2>1, <2>2, <2>3 DEF Moves
<1>7. Moves("verify", 3)
  <2>1. Program["verify"][3].do = "ntt" /\ Program["verify"][3].on = "t"
    BY <1>1, VerifyText DEF I, I2
  <2>2. \A x \in Scalars \ {"t"} : Means("verify", 3 + 1, x) = Means("verify", 3, x)
    BY DEF Scalars, Means, ChallengeMeans, FactorMeans, ErrorMeans, HighMeans, ResultMeans
  <2>3. /\ Means("verify", 3, "t") = Coefficients(Was("t"), Shift)
        /\ Means("verify", 3 + 1, "t") = Transform(Was("t"), Shift)
    BY DEF Means, FactorMeans
  <2> QED BY <2>1, <2>2, <2>3 DEF Moves, Coefficients, Transform
<1>8. Moves("verify", 4)
  <2>1. Program["verify"][4].do = "pointwise" /\ Program["verify"][4].on = "h"
    BY <1>1, VerifyText DEF I, I2
  <2>2. \A x \in Scalars \ {"h"} : Means("verify", 4 + 1, x) = Means("verify", 4, x)
    BY DEF Scalars, Means, ChallengeMeans, FactorMeans, ErrorMeans, HighMeans, ResultMeans
  <2>3. /\ Means("verify", 4, "c") = Transform(Was("c"), 1)
        /\ Means("verify", 4, "t") = Transform(Was("t"), Shift)
        /\ Means("verify", 4 + 1, "h") = Transform(ChallengeTimes, Shift * RInv)
    BY DEF Means, ChallengeMeans, FactorMeans, HighMeans
  <2> QED BY <2>1, <2>2, <2>3 DEF Moves, Transform
<1>9. Moves("verify", 5)
  <2>1. Program["verify"][5].do = "ntt" /\ Program["verify"][5].on = "v"
    BY <1>1, VerifyText DEF I, I2
  <2>2. \A x \in Scalars : Means("verify", 5 + 1, x) = Means("verify", 5, x)
    BY DEF Scalars, Means, ChallengeMeans, FactorMeans, ErrorMeans, HighMeans, ResultMeans
  <2> QED BY <2>1, <2>2 DEF Moves, Scalars
<1>10. Moves("verify", 6)
  <2>1. Program["verify"][6].do = "acc" /\ Program["verify"][6].on = "w"
    BY <1>1, VerifyText DEF I, I2
  <2>2. \A x \in Scalars \ {"w"} : Means("verify", 6 + 1, x) = Means("verify", 6, x)
    BY DEF Scalars, Means, ChallengeMeans, FactorMeans, ErrorMeans, HighMeans, ResultMeans
  <2>3. Means("verify", 6 + 1, "w") = Transform(MatrixTimesVector, RInv)
    BY DEF Means, ResultMeans
  <2> QED BY <2>1, <2>2, <2>3 DEF Moves
<1>11. Moves("verify", 7)
  <2>1. Program["verify"][7].do = "sub" /\ Program["verify"][7].on = "w"
    BY <1>1, VerifyText DEF I, I2
  <2>2. \A x \in Scalars \ {"w"} : Means("verify", 7 + 1, x) = Means("verify", 7, x)
    BY DEF Scalars, Means, ChallengeMeans, FactorMeans, ErrorMeans, HighMeans, ResultMeans
  <2> QED BY <2>1, <2>2 DEF Moves
<1>12. Moves("verify", 8)
  <2>1. Program["verify"][8].do = "reduce" /\ Program["verify"][8].on = "w"
    BY <1>1, VerifyText DEF I, I2
  <2>2. \A x \in Scalars \ {"w"} : Means("verify", 8 + 1, x) = Means("verify", 8, x)
    BY DEF Scalars, Means, ChallengeMeans, FactorMeans, ErrorMeans, HighMeans, ResultMeans
  <2>3. Means("verify", 8 + 1, "w") = Means("verify", 8, "w")
    BY DEF Means, ResultMeans
  <2> QED BY <2>1, <2>2, <2>3 DEF Moves
<1>13. Moves("verify", 9)
  <2>1. Program["verify"][9].do = "invntt" /\ Program["verify"][9].on = "w"
    BY <1>1, VerifyText DEF I, I2
  <2>2. \A x \in Scalars \ {"w"} : Means("verify", 9 + 1, x) = Means("verify", 9, x)
    BY DEF Scalars, Means, ChallengeMeans, FactorMeans, ErrorMeans, HighMeans, ResultMeans
  <2>3. /\ Means("verify", 9, "w") = Transform(Expected["verify"], RInv)
        /\ Means("verify", 9 + 1, "w") = Coefficients(Expected["verify"], 1)
    BY DEF Means, ResultMeans
  <2> QED BY <2>1, <2>2, <2>3 DEF Moves, Coefficients, Transform
<1>14. Moves("verify", 10)
  <2>1. Program["verify"][10].do = "caddq" /\ Program["verify"][10].on = "w"
    BY <1>1, VerifyText DEF I, I2
  <2>2. \A x \in Scalars \ {"w"} : Means("verify", 10 + 1, x) = Means("verify", 10, x)
    BY DEF Scalars, Means, ChallengeMeans, FactorMeans, ErrorMeans, HighMeans, ResultMeans
  <2>3. Means("verify", 10 + 1, "w") = Means("verify", 10, "w")
    BY DEF Means, ResultMeans
  <2> QED BY <2>1, <2>2, <2>3 DEF Moves
<1>15. ASSUME NEW n \in 1 .. 10 PROVE Moves("verify", n)
  BY <1>5, <1>6, <1>7, <1>8, <1>9, <1>10, <1>11, <1>12, <1>13, <1>14
<1> QED BY <1>4, <1>15

LEMMA ProgramsMove ==
  ASSUME NEW c \in DOMAIN Program
  PROVE  /\ Ends(c) /\ \A n \in 1 .. Len(Program[c]) : Moves(c, n)
         /\ \A x \in Scalars : Means(c, 1, x) = Coefficients(Was(x), 1)
<1>1. c \in {"keygen", "mask", "response", "low", "hint", "verify"}
  BY DEF Program
<1>2. /\ Len(Program["keygen"]) = 6 /\ Len(Program["mask"]) = 4 /\ Len(Program["response"]) = 6
      /\ Len(Program["low"]) = 6 /\ Len(Program["hint"]) = 5 /\ Len(Program["verify"]) = 10
  BY KeygenText, MaskText, ResponseText, LowText, HintText, VerifyText DEF Program
<1>3. \A x \in Scalars : Means(c, 1, x) = Coefficients(Was(x), 1)
  BY <1>1 DEF Scalars, Means, ChallengeMeans, FactorMeans, ErrorMeans, HighMeans, ResultMeans
<1> QED BY <1>1, <1>2, <1>3, KeygenMoves, MaskMoves, ResponseMoves, LowMoves, HintMoves,
           VerifyMoves

MeaningOk(m) ==
  /\ m.form \in {"values", "coefficients"} /\ m.of \in [Index -> Int] /\ m.by \in Int

LEMMA GivenType ==
  ASSUME NttType
  PROVE  /\ given.poly \in [Names -> [Index -> Int]]
         /\ given.matrix \in [1 .. L -> [Index -> Int]]
         /\ \A i \in 1 .. L : given.mat[i] = Values(given.matrix[i])
         /\ \A x \in Scalars : Was(x) \in [Index -> Int]
         /\ \A i \in 1 .. L : given.poly[Vector(i)] \in [Index -> Int]
<1>1. given \in Inputs
  BY DEF NttType
<1>2. given.poly \in [Names -> [Index -> Word]]
  BY <1>1, InputAssumption DEF Polynomial
<1>3. Word \subseteq Int
  BY Halves DEF Word
<1> HIDE DEF Word
<1>4. given.poly \in [Names -> [Index -> Int]]
  BY <1>2, <1>3
<1>5. given.matrix \in [1 .. L -> [Index -> Int]]
      /\ \A i \in 1 .. L : given.mat[i] = Values(given.matrix[i])
  BY <1>1, MatrixAssumption
<1>6. \A x \in Scalars : Single(x) \in Names
  BY NamesAre DEF Scalars
<1>7. \A i \in 1 .. L : Vector(i) \in Names
  BY NamesAre
<1>8. \A x \in Scalars : Was(x) \in [Index -> Int]
  BY <1>4, <1>6 DEF Was
<1>9. \A i \in 1 .. L : given.poly[Vector(i)] \in [Index -> Int]
  BY <1>4, <1>7
<1> QED BY <1>4, <1>5, <1>8, <1>9

\* A row of the matrix with the vector, by polynomials.
Products == [i \in 1 .. L |-> RingProduct(given.matrix[i], given.poly[Vector(i)])]

LEMMA ProductsType ==
  ASSUME NttType
  PROVE  /\ L \in Nat /\ \A i \in 1 .. L : Products[i] \in [Index -> Int]
         /\ MatrixTimesVector = [m \in Index |-> Sum([i \in 1 .. L |-> Products[i][m]], L)]
         /\ MatrixTimesVector \in [Index -> Int]
<1>1. L \in Nat
  BY NttAssumption
<1>2. ASSUME NEW i \in 1 .. L PROVE Products[i] \in [Index -> Int]
  <2>1. given.matrix[i] \in [Index -> Int] /\ given.poly[Vector(i)] \in [Index -> Int]
    BY GivenType
  <2> QED BY <2>1, RingIs DEF Products
<1>3. MatrixTimesVector = [m \in Index |-> Sum([i \in 1 .. L |-> Products[i][m]], L)]
  BY DEF MatrixTimesVector, Products
<1>4. ASSUME NEW m \in Index PROVE Sum([i \in 1 .. L |-> Products[i][m]], L) \in Int
  <2> DEFINE t == [i \in 1 .. L |-> Products[i][m]]
  <2>1. Ints(t, L)
    BY <1>2 DEF Ints
  <2> HIDE DEF t
  <2>2. Sum(t, L) \in Int
    BY <1>1, <2>1, SumType
  <2> QED BY <2>2 DEF t
<1>5. MatrixTimesVector \in [Index -> Int]
  BY <1>3, <1>4
<1> QED BY <1>1, <1>2, <1>3, <1>5

LEMMA CombineType ==
  ASSUME NEW a \in [Index -> Int], NEW b \in [Index -> Int], NEW s \in Int
  PROVE  /\ Combine(a, s, b) \in [Index -> Int]
         /\ \A j \in Index : Combine(a, s, b)[j] = a[j] + s * b[j]
<1>1. ASSUME NEW j \in Index PROVE a[j] + s * b[j] \in Int
  <2> DEFINE x == a[j]
             y == b[j]
  <2>1. x \in Int /\ y \in Int
    OBVIOUS
  <2> HIDE DEF x, y
  <2>2. x + s * y \in Int
    BY <2>1
  <2> QED BY <2>2 DEF x, y
<1> QED BY <1>1 DEF Combine

LEMMA ExpectedType ==
  ASSUME NttType
  PROVE  /\ ChallengeTimes \in [Index -> Int] /\ MatrixTimesVector \in [Index -> Int]
         /\ Shift \in Int /\ RInv \in Int /\ 1 \in Int
         /\ \A c \in DOMAIN Program : Expected[c] \in [Index -> Int]
         /\ Expected["keygen"] = Combine(MatrixTimesVector, 1, Was("e"))
         /\ Expected["response"] = Combine(Was("e"), 1, ChallengeTimes)
         /\ Expected["low"] = Combine(Was("e"), -1, ChallengeTimes)
         /\ Expected["verify"] = Combine(MatrixTimesVector, -Shift, ChallengeTimes)
<1>1. Was("c") \in [Index -> Int] /\ Was("t") \in [Index -> Int] /\ Was("e") \in [Index -> Int]
  BY GivenType DEF Scalars
<1>2. ChallengeTimes \in [Index -> Int]
  BY <1>1, RingIs DEF ChallengeTimes, Was
<1>3. MatrixTimesVector \in [Index -> Int]
  BY ProductsType
<1>4. Shift \in Int /\ -Shift \in Int /\ 1 \in Int /\ -1 \in Int
  <2>1. 2 ^ D \in Nat
    BY PowerType, NttAssumption
  <2>2. Shift \in Nat
    BY <2>1 DEF Shift
  <2> QED BY <2>2
<1>5. /\ Expected["keygen"] = Combine(MatrixTimesVector, 1, Was("e"))
      /\ Expected["mask"] = MatrixTimesVector
      /\ Expected["response"] = Combine(Was("e"), 1, ChallengeTimes)
      /\ Expected["low"] = Combine(Was("e"), -1, ChallengeTimes)
      /\ Expected["hint"] = ChallengeTimes
      /\ Expected["verify"] = Combine(MatrixTimesVector, -Shift, ChallengeTimes)
  BY DEF Expected, Was, Shift
<1> HIDE DEF Shift
<1>61. Combine(MatrixTimesVector, 1, Was("e")) \in [Index -> Int]
  BY <1>1, <1>3, <1>4, CombineType
<1>62. Combine(Was("e"), 1, ChallengeTimes) \in [Index -> Int]
  BY <1>1, <1>2, <1>4, CombineType
<1>63. Combine(Was("e"), -1, ChallengeTimes) \in [Index -> Int]
  BY <1>1, <1>2, <1>4, CombineType
<1>64. Combine(MatrixTimesVector, -Shift, ChallengeTimes) \in [Index -> Int]
  BY <1>2, <1>3, <1>4, CombineType
<1>6. /\ Expected["keygen"] \in [Index -> Int] /\ Expected["mask"] \in [Index -> Int]
      /\ Expected["response"] \in [Index -> Int] /\ Expected["low"] \in [Index -> Int]
      /\ Expected["hint"] \in [Index -> Int] /\ Expected["verify"] \in [Index -> Int]
  BY <1>2, <1>3, <1>5, <1>61, <1>62, <1>63, <1>64
<1>7. DOMAIN Program = {"keygen", "mask", "response", "low", "hint", "verify"}
  BY DEF Program
<1>8. RInv \in Int
  BY RInvIs
<1> QED BY <1>2, <1>3, <1>4, <1>5, <1>6, <1>7, <1>8

LEMMA MeansType ==
  ASSUME NttType, NEW c \in DOMAIN Program, NEW n, NEW x
  PROVE  MeaningOk(Means(c, n, x))
<1>1. /\ Was("c") \in [Index -> Int] /\ Was("t") \in [Index -> Int]
      /\ Was("e") \in [Index -> Int] /\ Was("h") \in [Index -> Int] /\ Was("w") \in [Index -> Int]
  BY GivenType DEF Scalars
<1>2. /\ ChallengeTimes \in [Index -> Int] /\ MatrixTimesVector \in [Index -> Int]
      /\ Shift \in Int /\ RInv \in Int /\ 1 \in Int
      /\ Expected[c] \in [Index -> Int] /\ Expected["low"] \in [Index -> Int]
  BY ExpectedType DEF Program
<1>3. Shift * RInv \in Int
  <2> DEFINE x2 == Shift
             y == RInv
  <2>1. x2 \in Int /\ y \in Int
    BY <1>2
  <2> HIDE DEF x2, y
  <2>2. x2 * y \in Int
    BY <2>1
  <2> QED BY <2>2 DEF x2, y
<1>4. ASSUME NEW a \in [Index -> Int], NEW g \in Int
      PROVE  MeaningOk(Coefficients(a, g)) /\ MeaningOk(Transform(a, g))
  BY DEF MeaningOk, Coefficients, Transform
<1>5. MeaningOk(ChallengeMeans(c, n))
  BY <1>1, <1>2, <1>4 DEF ChallengeMeans
<1>6. MeaningOk(FactorMeans(c, n))
  BY <1>1, <1>2, <1>4 DEF FactorMeans
<1>7. MeaningOk(ErrorMeans(c, n))
  BY <1>1, <1>2, <1>4 DEF ErrorMeans
<1>8. MeaningOk(HighMeans(c, n))
  BY <1>1, <1>2, <1>3, <1>4 DEF HighMeans
<1>9. MeaningOk(ResultMeans(c, n))
  BY <1>1, <1>2, <1>4 DEF ResultMeans
<1> QED BY <1>5, <1>6, <1>7, <1>8, <1>9 DEF Means

LEMMA MeaningType ==
  ASSUME NttType, NEW n, NEW i, NEW p \in Names
  PROVE  MeaningOk(Meaning(n, i, p))
<1>1. call \in DOMAIN Program
  BY DEF NttType
<1>2. given.poly[p] \in [Index -> Int] /\ 1 \in Int
  BY GivenType
<1>3. MeaningOk(Transform(given.poly[p], 1)) /\ MeaningOk(Coefficients(given.poly[p], 1))
  BY <1>2 DEF MeaningOk, Coefficients, Transform
<1>4. MeaningOk(Means(call, n, p[1]))
  BY <1>1, MeansType
<1> QED BY <1>3, <1>4 DEF Meaning

LEMMA FaceType ==
  ASSUME NEW m, MeaningOk(m), NEW j \in Index
  PROVE  Shown(m, j) \in Int /\ Face(m, j) \in Int
<1>1. m.of \in [Index -> Int] /\ m.by \in Int
  BY DEF MeaningOk
<1>2. Shown(m, j) \in Int
  <2>1. Layers \in 0 .. Layers
    BY NttAssumption
  <2>2. Val(m.of, Layers, j) \in Int
    BY <1>1, <2>1, ValType
  <2> QED BY <1>1, <2>2 DEF Shown
<1> DEFINE x == Shown(m, j)
           y == m.by
<1>3. x \in Int /\ y \in Int
  BY <1>1, <1>2
<1> HIDE DEF x, y
<1>4. y * x \in Int
  BY <1>3
<1> QED BY <1>3, <1>4 DEF Face, x, y

LEMMA FaceIs ==
  ASSUME NEW a, NEW g, NEW j
  PROVE  /\ Face(Coefficients(a, g), j) = g * a[j]
         /\ Face(Transform(a, g), j) = g * Val(a, Layers, j)
BY DEF Face, Shown, Coefficients, Transform

\* A sum stands for the sum of what its terms stand for.
Adds(c, n) ==
  LET do == Program[c][n].do
      on == Program[c][n].on
      with == Program[c][n].with
  IN
  \A j \in Index :
    /\ do = "add" => /\ with \in Scalars
                     /\ Face(Means(c, n + 1, on), j)
                          = Face(Means(c, n, on), j) + Face(Means(c, n, with), j)
    /\ do = "sub" => /\ with \in Scalars
                     /\ Face(Means(c, n + 1, on), j)
                          = Face(Means(c, n, on), j) - Face(Means(c, n, with), j)

LEMMA KeygenAdds ==
  ASSUME NttType, NEW n \in 1 .. 6
  PROVE  Adds("keygen", n)
<1>1. Program["keygen"] = KeygenT
  BY DEF Program
<1>2. CASE n # 4
  BY <1>1, <1>2, KeygenText DEF Adds, I, I2
<1>3. CASE n = 4
  <2> DEFINE a == MatrixTimesVector
             b == Was("e")
             s == Expected["keygen"]
  <2>1. a \in [Index -> Int] /\ b \in [Index -> Int] /\ s = Combine(a, 1, b) /\ 1 \in Int
    BY GivenType, ExpectedType DEF Scalars
  <2>2. /\ Program["keygen"][4].do = "add" /\ Program["keygen"][4].on = "w"
        /\ Program["keygen"][4].with = "e" /\ "e" \in Scalars
    BY <1>1, KeygenText DEF I, I2, Scalars
  <2>3. /\ Means("keygen", 4 + 1, "w") = Coefficients(s, 1)
        /\ Means("keygen", 4, "w") = Coefficients(a, 1)
        /\ Means("keygen", 4, "e") = Coefficients(b, 1)
    BY DEF Means, ResultMeans, ErrorMeans
  <2> HIDE DEF a, b, s
  <2>4. ASSUME NEW j \in Index
        PROVE  1 * s[j] = 1 * a[j] + 1 * b[j]
    <3> DEFINE x == a[j]
               y == b[j]
               z == s[j]
    <3>1. x \in Int /\ y \in Int /\ z = x + 1 * y
      BY <2>1, CombineType
    <3> HIDE DEF x, y, z
    <3>2. 1 * z = 1 * x + 1 * y
      BY <3>1
    <3> QED BY <3>2 DEF x, y, z
  <2> QED BY <1>3, <2>2, <2>3, <2>4, FaceIs DEF Adds
<1> QED BY <1>2, <1>3

LEMMA ResponseAdds ==
  ASSUME NttType, NEW n \in 1 .. 6
  PROVE  Adds("response", n)
<1>1. Program["response"] = ResponseZ
  BY DEF Program
<1>2. CASE n # 5
  BY <1>1, <1>2, ResponseText DEF Adds, I, I2
<1>3. CASE n = 5
  <2> DEFINE a == ChallengeTimes
             b == Was("e")
             s == Expected["response"]
  <2>1. a \in [Index -> Int] /\ b \in [Index -> Int] /\ s = Combine(b, 1, a) /\ 1 \in Int
    BY GivenType, ExpectedType DEF Scalars
  <2>2. /\ Program["response"][5].do = "add" /\ Program["response"][5].on = "w"
        /\ Program["response"][5].with = "e" /\ "e" \in Scalars
    BY <1>1, ResponseText DEF I, I2, Scalars
  <2>3. /\ Means("response", 5 + 1, "w") = Coefficients(s, 1)
        /\ Means("response", 5, "w") = Coefficients(a, 1)
        /\ Means("response", 5, "e") = Coefficients(b, 1)
    BY DEF Means, ResultMeans, ErrorMeans
  <2> HIDE DEF a, b, s
  <2>4. ASSUME NEW j \in Index
        PROVE  1 * s[j] = 1 * a[j] + 1 * b[j]
    <3> DEFINE x == a[j]
               y == b[j]
               z == s[j]
    <3>1. x \in Int /\ y \in Int /\ z = y + 1 * x
      BY <2>1, CombineType
    <3> HIDE DEF x, y, z
    <3>2. 1 * z = 1 * x + 1 * y
      BY <3>1
    <3> QED BY <3>2 DEF x, y, z
  <2> QED BY <1>3, <2>2, <2>3, <2>4, FaceIs DEF Adds
<1> QED BY <1>2, <1>3

LEMMA LowAdds ==
  ASSUME NttType, NEW n \in 1 .. 6
  PROVE  Adds("low", n)
<1>1. Program["low"] = SignLow
  BY DEF Program
<1>2. CASE n # 5
  BY <1>1, <1>2, LowText DEF Adds, I, I2
<1>3. CASE n = 5
  <2> DEFINE a == Was("e")
             b == ChallengeTimes
             s == Expected["low"]
  <2>1. a \in [Index -> Int] /\ b \in [Index -> Int] /\ s = Combine(a, -1, b) /\ -1 \in Int
    BY GivenType, ExpectedType DEF Scalars
  <2>2. /\ Program["low"][5].do = "sub" /\ Program["low"][5].on = "e"
        /\ Program["low"][5].with = "h" /\ "h" \in Scalars
    BY <1>1, LowText DEF I, I2, Scalars
  <2>3. /\ Means("low", 5 + 1, "e") = Coefficients(s, 1)
        /\ Means("low", 5, "e") = Coefficients(a, 1)
        /\ Means("low", 5, "h") = Coefficients(b, 1)
    BY DEF Means, HighMeans, ErrorMeans
  <2> HIDE DEF a, b, s
  <2>4. ASSUME NEW j \in Index
        PROVE  1 * s[j] = 1 * a[j] - 1 * b[j]
    <3> DEFINE x == a[j]
               y == b[j]
               z == s[j]
    <3>1. x \in Int /\ y \in Int /\ z = x + (-1) * y
      BY <2>1, CombineType
    <3> HIDE DEF x, y, z
    <3>2. 1 * z = 1 * x - 1 * y
      BY <3>1
    <3> QED BY <3>2 DEF x, y, z
  <2> QED BY <1>3, <2>2, <2>3, <2>4, FaceIs DEF Adds
<1> QED BY <1>2, <1>3

LEMMA VerifyAdds ==
  ASSUME NttType, NEW n \in 1 .. 10
  PROVE  Adds("verify", n)
<1>1. Program["verify"] = VerifyW
  BY DEF Program
<1>2. CASE n # 7
  BY <1>1, <1>2, VerifyText DEF Adds, I, I2
<1>3. CASE n = 7
  <2> DEFINE a == MatrixTimesVector
             b == ChallengeTimes
             s == Expected["verify"]
             d == Shift
             g == RInv
  <2>1. /\ a \in [Index -> Int] /\ b \in [Index -> Int] /\ s = Combine(a, -d, b)
        /\ d \in Int /\ g \in Int
    BY GivenType, ExpectedType DEF Scalars
  <2>2. /\ Program["verify"][7].do = "sub" /\ Program["verify"][7].on = "w"
        /\ Program["verify"][7].with = "h" /\ "h" \in Scalars
    BY <1>1, VerifyText DEF I, I2, Scalars
  <2>3. /\ Means("verify", 7 + 1, "w") = Transform(s, g)
        /\ Means("verify", 7, "w") = Transform(a, g)
        /\ Means("verify", 7, "h") = Transform(b, d * g)
    BY DEF Means, HighMeans, ResultMeans
  <2> HIDE DEF a, b, s, d, g
  <2>4. ASSUME NEW j \in Index
        PROVE  g * Val(s, Layers, j) = g * Val(a, Layers, j) - (d * g) * Val(b, Layers, j)
    <3> DEFINE x == Val(a, Layers, j)
               y == Val(b, Layers, j)
               z == Val(s, Layers, j)
    <3>1. Layers \in 0 .. Layers /\ -d \in Int
      BY <2>1, NttAssumption
    <3>2. x \in Int /\ y \in Int /\ z = x + (-d) * y
      BY <2>1, <3>1, ValType, ValCombine
    <3> HIDE DEF x, y, z
    <3>3. g * z = g * x - (d * g) * y
      BY <2>1, <3>2
    <3> QED BY <3>3 DEF x, y, z
  <2> QED BY <1>3, <2>2, <2>3, <2>4, FaceIs DEF Adds
<1> QED BY <1>2, <1>3

LEMMA ProgramsAdd ==
  ASSUME NttType, NEW c \in DOMAIN Program, NEW n \in 1 .. Len(Program[c])
  PROVE  Adds(c, n)
<1>1. c \in {"keygen", "mask", "response", "low", "hint", "verify"}
  BY DEF Program
<1>2. /\ Len(Program["keygen"]) = 6 /\ Len(Program["mask"]) = 4 /\ Len(Program["response"]) = 6
      /\ Len(Program["low"]) = 6 /\ Len(Program["hint"]) = 5 /\ Len(Program["verify"]) = 10
  BY KeygenText, MaskText, ResponseText, LowText, HintText, VerifyText DEF Program
<1>3. CASE c = "mask"
  BY <1>2, <1>3, MaskText DEF Adds, Program, I, I2
<1>4. CASE c = "hint"
  BY <1>2, <1>4, HintText DEF Adds, Program, I, I2
<1>5. CASE c \in {"keygen", "response", "low", "verify"}
  BY <1>2, <1>5, KeygenAdds, ResponseAdds, LowAdds, VerifyAdds
<1> QED BY <1>1, <1>3, <1>4, <1>5

-----------------------------------------------------------------------------
(* Every action keeps what the polynomials stand for.                      *)

\* What a polynomial stands for is told by the call and what it was given.
LEMMA MeaningSame ==
  ASSUME call' = call, given' = given
  PROVE  /\ \A p : Meaning(at, lane, p)' = Meaning(at', lane', p)
         /\ Code' = Code
<1>1. Code' = Code
  BY DEF Code
<1>2. ChallengeTimes' = ChallengeTimes
  BY DEF ChallengeTimes
<1>3. MatrixTimesVector' = MatrixTimesVector
  BY Zenon DEF MatrixTimesVector
<1>4. \A x : Was(x)' = Was(x)
  BY DEF Was
<1>5. Expected' = Expected
  BY <1>2, <1>3, Zenon DEF Expected
<1>6. ASSUME NEW p PROVE Meaning(at, lane, p)' = Meaning(at', lane', p)
  BY <1>1, <1>2, <1>3, <1>4, <1>5, Zenon
     DEF Meaning, Means, ChallengeMeans, FactorMeans, ErrorMeans, HighMeans, ResultMeans
<1> QED BY <1>1, <1>6

\* The names of polynomials
LEMMA NameIs ==
  ASSUME NEW p \in Names
  PROVE  /\ p = <<p[1], p[2]>> /\ p[2] \in 1 .. L /\ p[1] \in Scalars \cup {"v"}
         /\ p[1] # "v" => p[1] \in Scalars /\ p[2] = 1 /\ p = Single(p[1])
<1>1. L \in Nat \ {0}
  BY NttAssumption
<1>2. CASE \E x \in {"c", "t", "e", "h", "w"} : p = <<x, 1>>
  <2>1. PICK x \in {"c", "t", "e", "h", "w"} : p = <<x, 1>>
    BY <1>2
  <2>2. p[1] = x /\ p[2] = 1
    BY <2>1
  <2> QED BY <1>1, <2>1, <2>2 DEF Single, Scalars
<1>3. CASE \E i \in 1 .. L : p = <<"v", i>>
  <2>1. PICK i \in 1 .. L : p = <<"v", i>>
    BY <1>3
  <2>2. p[1] = "v" /\ p[2] = i
    BY <2>1
  <2> QED BY <2>1, <2>2
<1> QED BY <1>2, <1>3, NamesAre

\* What is not worked on stands for what it did.
LEMMA MeaningKept ==
  ASSUME NttType, ~Done, NEW p \in Names, p # On, NEW n, NEW i,
         \/ n = at /\ i = lane + 1 /\ i =< L /\ Code[at].on = "v"
         \/ n = at + 1 /\ i = 1 /\ (Code[at].on = "v" => lane = L)
  PROVE  Meaning(n, i, p) = Meaning(at, lane, p)
<1>1. /\ at \in 1 .. Len(Code) /\ Len(Code) \in Nat /\ InOrder(Code, at)
      /\ lane \in 1 .. L /\ L \in Nat /\ call \in DOMAIN Program
      /\ (Code[at].on # "v" => lane = 1) /\ On = <<Code[at].on, lane>>
  BY InProgram, NttAssumption DEF NttType, On
<1> HIDE DEF On
<1>2. CASE p[1] # "v"
  <2>1. p[1] \in Scalars /\ p = <<p[1], 1>>
    BY <1>2, NameIs
  <2>2. Meaning(n, i, p) = Means(call, n, p[1]) /\ Meaning(at, lane, p) = Means(call, at, p[1])
    BY <1>2 DEF Meaning
  <2>3. CASE n = at
    BY <2>2, <2>3
  <2>4. CASE n = at + 1
    <3>1. p[1] # Code[at].on
      BY <1>1, <1>2, <2>1
    <3>2. Moves(call, at)
      BY <1>1, ProgramsMove DEF Code
    <3>3. Means(call, at + 1, p[1]) = Means(call, at, p[1])
      BY <2>1, <3>1, <3>2 DEF Moves, Code
    <3> QED BY <2>2, <2>4, <3>3
  <2> QED BY <2>3, <2>4
<1>3. CASE p[1] = "v"
  <2> DEFINE Gone(m, o) == \/ Transformed(Code, "v", m)
                           \/ m =< Len(Code) /\ Code[m].do = "ntt" /\ Code[m].on = "v" /\ p[2] < o
  <2>1. p[2] \in 1 .. L /\ (Code[at].on = "v" => p[2] # lane)
    BY <1>1, <1>3, NameIs
  <2>2. CASE n = at /\ i = lane + 1
    <3>1. Gone(n, i) <=> Gone(at, lane)
      <4>1. p[2] < i <=> (p[2] < lane \/ p[2] = lane)
        BY <1>1, <2>1, <2>2
      <4> QED BY <2>1, <2>2, <4>1
    <3> QED BY <1>3, <3>1 DEF Meaning
  <2>3. CASE n = at + 1 /\ i = 1 /\ (Code[at].on = "v" => lane = L)
    <3>1. ~ (p[2] < i) /\ p[2] =< L /\ p[2] \in Nat
      BY <1>1, <2>1, <2>3
    <3>2. Transformed(Code, "v", n) <=>
            Transformed(Code, "v", at) \/ (Code[at].do = "ntt" /\ Code[at].on = "v")
      BY <1>1, <2>3 DEF Transformed
    <3>3. Gone(n, i) <=> Gone(at, lane)
      <4>1. CASE Code[at].do = "ntt" /\ Code[at].on = "v"
        <5>1. p[2] < lane
          BY <1>1, <2>1, <2>3, <3>1, <4>1
        <5> QED BY <1>1, <3>2, <4>1, <5>1
      <4>2. CASE ~ (Code[at].do = "ntt" /\ Code[at].on = "v")
        BY <3>1, <3>2, <4>2
      <4> QED BY <4>1, <4>2
    <3> QED BY <1>3, <3>3 DEF Meaning
  <2> QED BY <2>2, <2>3
<1> QED BY <1>2, <1>3

\* What a transform is entered with
LEMMA SourceForm ==
  ASSUME NttType, NEW n \in 1 .. Len(Code), NEW i \in 1 .. L, Code[n].on # "v" => i = 1,
         NEW m, m = Meaning(n, i, <<Code[n].on, i>>)
  PROVE  /\ Code[n].do = "ntt" => m.form = "coefficients"
         /\ Code[n].do = "invntt" => m.form = "values" /\ m.by = RInv
         /\ MeaningOk(m)
<1>1. /\ call \in DOMAIN Program /\ InOrder(Code, n) /\ Moves(call, n)
      /\ L \in Nat
  BY ProgramsSound, ProgramsMove, NttAssumption DEF NttType, Sound, Code
<1> DEFINE p == <<Code[n].on, i>>
<1>2. p \in Names /\ p[1] = Code[n].on /\ p[2] = i
  BY <1>1, NameOf DEF Code
<1>3. m = Meaning(n, i, p)
  OBVIOUS
<1> HIDE DEF p
<1>4. MeaningOk(m)
  BY <1>2, <1>3, MeaningType
<1>5. CASE p[1] # "v"
  <2>1. m = Means(call, n, Code[n].on)
    BY <1>2, <1>3, <1>5 DEF Meaning
  <2> QED BY <1>1, <1>2, <1>4, <1>5, <2>1 DEF Moves, Code
<1>6. CASE p[1] = "v"
  <2>1. Code[n].do # "invntt"
    BY <1>1, <1>2, <1>6 DEF InOrder, Outputs
  <2>2. Code[n].do = "ntt" => ~Transformed(Code, "v", n) /\ ~ (p[2] < i)
    BY <1>1, <1>2, <1>6 DEF InOrder
  <2>3. Code[n].do = "ntt" => m = Coefficients(given.poly[p], 1)
    BY <1>2, <1>3, <1>6, <2>2 DEF Meaning
  <2> QED BY <1>4, <2>1, <2>3 DEF Coefficients
<1> QED BY <1>4, <1>5, <1>6

\* What an instruction leaves
LEMMA MeaningMade ==
  ASSUME NttType, ~Done, NEW n, NEW i,
         \/ n = at /\ i = lane + 1 /\ i =< L /\ Code[at].on = "v"
         \/ n = at + 1 /\ i = 1 /\ (Code[at].on = "v" => lane = L)
  PROVE  /\ MeaningOk(Source)
         /\ Code[at].do = "ntt" => Meaning(n, i, On) = Transform(Source.of, Source.by)
         /\ Code[at].do \in Outputs \cup {"shiftl"} =>
              /\ Code[at].on \in Scalars /\ On = Single(Code[at].on)
              /\ Moves(call, at) /\ Adds(call, at)
              /\ Source = Means(call, at, Code[at].on)
              /\ Meaning(n, i, On) = Means(call, at + 1, Code[at].on)
<1>1. /\ at \in 1 .. Len(Code) /\ Len(Code) \in Nat /\ InOrder(Code, at)
      /\ lane \in 1 .. L /\ L \in Nat /\ call \in DOMAIN Program
      /\ (Code[at].on # "v" => lane = 1) /\ On = <<Code[at].on, lane>>
  BY InProgram, NttAssumption DEF NttType, On
<1>2. Moves(call, at) /\ Adds(call, at)
  BY <1>1, ProgramsMove, ProgramsAdd DEF Code
<1>3. On \in Names /\ On[1] = Code[at].on /\ On[2] = lane
  BY OnIsName
<1> HIDE DEF On
<1>4. MeaningOk(Source)
  BY <1>3, MeaningType DEF Source
<1>5. CASE On[1] # "v"
  <2>1. n = at + 1 /\ On = Single(On[1]) /\ On[1] \in Scalars
    BY <1>3, <1>5, NameIs
  <2>2. /\ Source = Means(call, at, Code[at].on)
        /\ Meaning(n, i, On) = Means(call, at + 1, Code[at].on)
    BY <1>3, <1>5, <2>1 DEF Meaning, Source
  <2>3. Code[at].do = "ntt" => Meaning(n, i, On) = Transform(Source.of, Source.by)
    BY <1>2, <1>3, <1>5, <2>2 DEF Moves, Code
  <2> QED BY <1>2, <1>3, <1>4, <2>1, <2>2, <2>3
<1>6. CASE On[1] = "v"
  <2>1. Code[at].do \notin Outputs \cup {"shiftl"}
    BY <1>1, <1>3, <1>6 DEF InOrder
  <2>2. ASSUME Code[at].do = "ntt"
        PROVE  Meaning(n, i, On) = Transform(Source.of, Source.by)
    <3>1. ~Transformed(Code, "v", at) /\ ~ (On[2] < lane)
      BY <1>1, <1>3, <1>6, <2>2 DEF InOrder
    <3>2. Source = Coefficients(given.poly[On], 1)
      BY <1>6, <3>1 DEF Source, Meaning
    <3>3. \/ Transformed(Code, "v", n)
          \/ n =< Len(Code) /\ Code[n].do = "ntt" /\ Code[n].on = "v" /\ On[2] < i
      <4>1. CASE n = at /\ i = lane + 1
        <5>1. lane < lane + 1 /\ at =< Len(Code)
          BY <1>1
        <5> QED BY <1>3, <1>6, <2>2, <4>1, <5>1
      <4>2. CASE n = at + 1
        <5>1. at \in 1 .. n - 1
          BY <1>1, <4>2
        <5> QED BY <1>3, <1>6, <2>2, <5>1 DEF Transformed
      <4> QED BY <4>1, <4>2
    <3>4. Meaning(n, i, On) = Transform(given.poly[On], 1)
      BY <1>6, <3>3 DEF Meaning
    <3> QED BY <3>2, <3>4 DEF Coefficients, Transform
  <2> QED BY <1>4, <2>1, <2>2
<1> QED BY <1>5, <1>6

\* Where Proceed leads
LEMMA StepsTo ==
  ASSUME NttType, ~Done, Proceed
  PROVE  /\ \/ /\ at' = at /\ lane' = lane + 1 /\ lane' =< L /\ Code[at].on = "v"
               /\ Enter(at, lane + 1)
            \/ at' = at + 1 /\ lane' = 1 /\ (Code[at].on = "v" => lane = L) /\ Enter(at + 1, 1)
         /\ at \in 1 .. Len(Code) /\ Len(Code) \in Nat
<1>1. lane \in 1 .. L /\ L \in Nat /\ at \in 1 .. Len(Code) /\ Len(Code) \in Nat
  BY InProgram, NttAssumption DEF NttType
<1> QED BY <1>1 DEF Proceed, Enter

\* An instruction that leaves what the next one rests on keeps the invariant.
LEMMA MeantProceeds ==
  ASSUME Inv, Inv', Meant, ~Done, NEW r \in [Index -> Int], Becomes(r), Proceed,
         Represents(r, Meaning(at', lane', On)),
         at = Len(Code) /\ call \in {"keygen", "mask", "verify"} => \A j \in Index : r[j] >= 0
  PROVE  Meant'
<1>1. NttType /\ NttType'
  BY DEF Inv
<1>2. /\ poly' \in [Names -> [Index -> Int]] /\ poly'[On] = r
      /\ \A p \in Names : p # On => poly'[p] = poly[p]
      /\ call' = call /\ given' = given /\ Code' = Code
  BY <1>1, Becoming
<1>3. /\ \/ /\ at' = at /\ lane' = lane + 1 /\ lane' =< L /\ Code[at].on = "v"
            /\ Enter(at, lane + 1)
         \/ at' = at + 1 /\ lane' = 1 /\ (Code[at].on = "v" => lane = L) /\ Enter(at + 1, 1)
      /\ at \in 1 .. Len(Code) /\ Len(Code) \in Nat
  BY <1>1, StepsTo
<1>4. ASSUME NEW p \in Names PROVE Represents(poly'[p], Meaning(at', lane', p))
  <2>1. CASE p = On
    BY <1>2, <2>1
  <2>2. CASE p # On
    <3>1. Meaning(at', lane', p) = Meaning(at, lane, p)
      BY <1>1, <1>3, <2>2, MeaningKept
    <3>2. Represents(poly[p], Meaning(at, lane, p))
      BY <2>2 DEF Meant
    <3> QED BY <1>2, <2>2, <3>1, <3>2
  <2> QED BY <2>1, <2>2
<1>5. /\ \A p : Meaning(at, lane, p)' = Meaning(at', lane', p)
      /\ On' = <<Code[at'].on, lane'>> /\ Source' = Meaning(at', lane', On')
      /\ \A do : Now(do)' <=> at' =< Len(Code) /\ Code[at'].do = do
      /\ Done' <=> at' > Len(Code)
  <2>1. \A p : Meaning(at, lane, p)' = Meaning(at', lane', p)
    BY <1>2, MeaningSame
  <2>2. Done' <=> at' > Len(Code)
    BY <1>2 DEF Done
  <2>3. at' \in Nat
    BY <1>3
  <2>4. \A do : Now(do)' <=> at' =< Len(Code) /\ Code[at'].do = do
    BY <1>2, <1>3, <2>2, <2>3 DEF Now
  <2>5. On' = <<Code[at'].on, lane'>>
    BY <1>2 DEF On
  <2>6. Source' = Meaning(at', lane', On')
    BY <1>2, MeaningSame DEF Source
  <2> QED BY <2>1, <2>2, <2>4, <2>5, <2>6
<1>6. ASSUME NEW p \in Names PROVE Represents(poly[p], Meaning(at, lane, p))'
  <2>1. Represents(poly'[p], Meaning(at, lane, p)')
    BY <1>4, <1>5
  <2> QED BY <2>1 DEF Represents
<1>7. /\ at' \in 1 .. Len(Code) + 1 /\ lane' \in 1 .. L
      /\ (at' > Len(Code) \/ Code[at'].on # "v" => lane' = 1)
  BY <1>1, <1>2, <1>5 DEF NttType
<1>8. ASSUME at' =< Len(Code), Code[at'].do = "ntt" \/ Code[at'].do = "invntt"
      PROVE  /\ MeaningOk(Source')
             /\ Code[at'].do = "ntt" => Source'.form = "coefficients"
             /\ Code[at'].do = "invntt" => Source'.form = "values"
             /\ \A j \in Index : Same(poly'[On'][j], Source'.by * Shown(Source', j))
             /\ start' = 0
             /\ Code[at'].do = "ntt" => layer' = 1
             /\ Code[at'].do = "invntt" => layer' = Layers
  <2>1. at' \in 1 .. Len(Code)
    BY <1>3, <1>7, <1>8
  <2>2. Code[at'].on # "v" => lane' = 1
    BY <1>7
  <2> DEFINE p == <<Code[at'].on, lane'>>
             m == Meaning(at', lane', p)
  <2>3. p \in Names
    BY <1>1, <1>7, <2>1, <2>2, NameOf DEF NttType, Code
  <2>4. On' = p /\ Source' = m
    BY <1>5
  <2>5. /\ Code[at'].do = "ntt" => m.form = "coefficients"
        /\ Code[at'].do = "invntt" => m.form = "values"
        /\ MeaningOk(m)
    BY <1>1, <1>7, <2>1, <2>2, SourceForm
  <2> HIDE DEF p, m
  <2>6. Represents(poly'[p], m)
    BY <1>4, <2>3 DEF m
  <2>7. /\ start' = 0
        /\ Code[at'].do = "ntt" => layer' = 1
        /\ Code[at'].do = "invntt" => layer' = Layers
    BY <1>3, <1>8 DEF Enter
  <2> QED BY <2>4, <2>5, <2>6, <2>7 DEF Represents, Face
<1>9. Now("ntt")' =>
        \A j \in Index :
          Same(poly'[On'][j], Source'.by * Rising(Source'.of, layer', start', j))
  <2> SUFFICES ASSUME Now("ntt")', NEW j \in Index
               PROVE  Same(poly'[On'][j], Source'.by * Rising(Source'.of, layer', start', j))
    OBVIOUS
  <2> DEFINE m == Source'
  <2>1. at' =< Len(Code) /\ Code[at'].do = "ntt"
    BY <1>5
  <2>2. /\ MeaningOk(m) /\ m.form = "coefficients" /\ start' = 0 /\ layer' = 1
        /\ Same(poly'[On'][j], m.by * Shown(m, j))
    BY <1>8, <2>1
  <2> HIDE DEF m
  <2>3. m.of \in [Index -> Int] /\ Shown(m, j) = m.of[j]
    BY <2>2 DEF MeaningOk, Shown
  <2>4. Rising(m.of, 1, 0, j) = Val(m.of, 0, j)
    <3>1. ~ (j < 0) /\ 1 - 1 = 0
      BY QNatural DEF Index
    <3> QED BY <3>1 DEF Rising
  <2>5. Val(m.of, 0, j) = m.of[j]
    BY <2>3, ValEnds
  <2> QED BY <2>2, <2>3, <2>4, <2>5 DEF m
<1>10. ASSUME Now("invntt")'
       PROVE  /\ layer' = Layers /\ Layers # 0
              /\ \A j \in Index : Same(poly'[On'][j],
                    (Source'.by * Span(layer')) * Falling(Source'.of, layer', start', j))
  <2> DEFINE m == Source'
  <2>1. at' =< Len(Code) /\ Code[at'].do = "invntt"
    BY <1>5, <1>10
  <2>2. /\ MeaningOk(m) /\ m.form = "values" /\ start' = 0 /\ layer' = Layers
        /\ \A j \in Index : Same(poly'[On'][j], m.by * Shown(m, j))
    BY <1>8, <2>1
  <2> HIDE DEF m
  <2>3. Layers # 0 /\ Span(Layers) = 1
    BY NttAssumption, SpanEnds
  <2>4. m.by * 1 = m.by
    BY <2>2 DEF MeaningOk
  <2>5. ASSUME NEW j \in Index
        PROVE  Falling(m.of, Layers, 0, j) = Shown(m, j)
    <3>1. ~ (j < 0)
      BY QNatural DEF Index
    <3> QED BY <2>2, <3>1 DEF Falling, Shown
  <2> QED BY <2>2, <2>3, <2>4, <2>5 DEF m
<1>11. Done' /\ call' \in {"keygen", "mask", "verify"} =>
         \A j \in Index : poly'[Single("w")][j] >= 0
  <2> SUFFICES ASSUME Done', call \in {"keygen", "mask", "verify"}
               PROVE  \A j \in Index : poly'[Single("w")][j] >= 0
    BY <1>2
  <2>1. at = Len(Code)
    BY <1>3, <1>5
  <2>2. Ends(call)
    BY <1>1, ProgramsMove DEF NttType
  <2>3. Code[at].on = "w"
    BY <2>1, <2>2 DEF Ends, Code
  <2>4. On = Single("w")
    BY <1>1, <2>3 DEF On, Single, NttType
  <2> QED BY <1>2, <2>1, <2>4
<1> QED BY <1>2, <1>6, <1>9, <1>10, <1>11, Zenon DEF Meant

\* Within a transform, so does a block.
LEMMA MeantContinues ==
  ASSUME Inv, Meant, InTransform, NEW r \in [Index -> Int], Becomes(r), UNCHANGED <<at, lane>>,
         Now("ntt") =>
           \A j \in Index : Same(r[j], Source.by * Rising(Source.of, layer', start', j)),
         Now("invntt") /\ layer' >= 1 =>
           \A j \in Index :
             Same(r[j], (Source.by * Span(layer')) * Falling(Source.of, layer', start', j)),
         Now("invntt") /\ layer' = 0 =>
           \A j \in Index : Same(r[j], (Source.by * N) * Source.of[j])
  PROVE  Meant'
<1>1. NttType /\ ~Done
  BY DEF Inv, InTransform, Now
<1>2. /\ poly' \in [Names -> [Index -> Int]] /\ poly'[On] = r
      /\ \A p \in Names : p # On => poly'[p] = poly[p]
      /\ call' = call /\ given' = given /\ Code' = Code
  BY <1>1, Becoming
<1>3. /\ Done' = Done /\ On' = On /\ at' = at /\ lane' = lane
      /\ Now("ntt")' = Now("ntt") /\ Now("invntt")' = Now("invntt")
  BY <1>2 DEF Done, On, Now
<1>4. \A p : Meaning(at, lane, p)' = Meaning(at, lane, p)
  BY <1>2, <1>3, MeaningSame
<1>5. Source' = Source
  BY <1>2, <1>3, MeaningSame DEF Source
<1>6. ASSUME NEW p \in Names, p # On PROVE Represents(poly[p], Meaning(at, lane, p))'
  <2>1. Represents(poly[p], Meaning(at, lane, p))
    BY <1>6 DEF Meant
  <2> QED BY <1>2, <1>4, <1>6, <2>1 DEF Represents
<1> QED BY <1>1, <1>2, <1>3, <1>5, <1>6, Zenon DEF Meant, InTransform

\* Where a block is, on the way up and on the way down
LEMMA UpNode ==
  ASSUME NEW l \in 1 .. Layers, NEW s \in Nat, NEW z \in Int, s < N,
         2 * (Span(l) * z) = s + N
  PROVE  \E q \in 0 .. FirstUp(l) - 1 : z = FirstUp(l) + q /\ s = q * (2 * Span(l))
<1> DEFINE S == Span(l)
           P == FirstUp(l)
           d == z - P
<1>1. S \in Nat \ {0} /\ P \in Nat \ {0} /\ N = 2 * (S * P)
  BY SpanFacts
<1> HIDE DEF S, P
<1>2. d \in Int /\ z = P + d
  BY <1>1
<1> HIDE DEF d
<1>3. s = 2 * (S * d)
  BY <1>1, <1>2 DEF S
<1>4. S * d < S * P /\ S * d >= 0
  BY <1>1, <1>2, <1>3
<1>5. d >= 0
  <2>1. CASE d < 0
    <3>1. S * d < 0
      BY <1>1, <1>2, <2>1
    <3> QED BY <1>1, <1>2, <1>4, <3>1
  <2> QED BY <1>2, <2>1
<1>6. d < P
  <2>1. CASE d >= P
    <3>1. S * d >= S * P
      BY <1>1, <1>2, <2>1
    <3> QED BY <1>1, <1>2, <1>4, <3>1
  <2> QED BY <1>1, <1>2, <2>1
<1>7. d * (2 * S) = 2 * (S * d)
  BY <1>1, <1>2
<1>8. d \in 0 .. P - 1
  BY <1>1, <1>2, <1>5, <1>6
<1> QED BY <1>2, <1>3, <1>7, <1>8 DEF S, P

LEMMA DownNode ==
  ASSUME NEW l \in 1 .. Layers, NEW s \in Nat, NEW z \in Int, s < N,
         2 * (Span(l) * z) + s = 2 * N - 2 * Span(l)
  PROVE  \E q \in 0 .. FirstUp(l) - 1 : z = 2 * FirstUp(l) - 1 - q /\ s = q * (2 * Span(l))
<1> DEFINE S == Span(l)
           P == FirstUp(l)
           e == 3 * P - 1 - z
<1>1. S \in Nat \ {0} /\ P \in Nat \ {0} /\ N = 2 * (S * P)
  BY SpanFacts
<1> HIDE DEF S, P
<1>2. e \in Int /\ z = 3 * P - 1 - e
  BY <1>1
<1> HIDE DEF e
<1>3. 2 * (S * e) = s + N
  <2>1. S * z = 3 * (S * P) - S - S * e
    BY <1>1, <1>2
  <2>2. S * e \in Int /\ S * P \in Int
    BY <1>1, <1>2
  <2>3. 2 * (S * z) + s = 2 * N - 2 * S
    BY DEF S
  <2>4. S * z \in Int
    BY <1>1
  <2> QED BY <1>1, <2>1, <2>2, <2>3, <2>4
<1>4. \E q \in 0 .. P - 1 : e = P + q /\ s = q * (2 * S)
  BY <1>2, <1>3, UpNode DEF S, P
<1>5. PICK q \in 0 .. P - 1 : e = P + q /\ s = q * (2 * S)
  BY <1>4
<1>6. z = 2 * P - 1 - q
  BY <1>1, <1>2, <1>5
<1> QED BY <1>5, <1>6 DEF S, P

\* The last block of a layer ends where the polynomial ends.
LEMMA LayerDone ==
  ASSUME NEW A, NEW l, NEW e, e >= N, N \in Nat, NEW j \in Index, e \in Int
  PROVE  Rising(A, l, e, j) = Val(A, l, j) /\ Falling(A, l, e, j) = 2 * Val(A, l - 1, j)
<1>1. j < e
  BY DEF Index
<1> QED BY <1>1 DEF Rising, Falling

\* A layer begins with nothing done.
LEMMA LayerBegins ==
  ASSUME NEW A, NEW l, NEW j \in Index
  PROVE  Rising(A, l, 0, j) = Val(A, l - 1, j) /\ Falling(A, l, 0, j) = Val(A, l, j)
<1>1. ~ (j < 0)
  BY QNatural DEF Index
<1> QED BY <1>1 DEF Rising, Falling

\* What a transform under way rests on
LEMMA SourceType ==
  ASSUME Inv, InTransform
  PROVE  /\ NttType /\ ~Done /\ Source.of \in [Index -> Int] /\ Source.by \in Int
         /\ poly[On] \in [Index -> Int] /\ Layers \in Nat \ {0} /\ N \in Nat \ {0}
<1>1. NttType /\ ~Done
  BY DEF Inv, InTransform, Now
<1>2. On \in Names
  BY <1>1, OnIsName
<1>3. MeaningOk(Source)
  BY <1>1, <1>2, MeaningType DEF Source
<1> QED BY <1>1, <1>2, <1>3, QNatural, NttAssumption DEF MeaningOk, NttType

LEMMA NttBlockMeant == Inv /\ Inv' /\ Meant /\ NttBlock => Meant'
<1> SUFFICES ASSUME Inv, Inv', Meant, NttBlock PROVE Meant'
  OBVIOUS
<1> DEFINE S == Span(layer)
           r == Forward(poly[On], zetas[k], start, S)
           A == Source.of
           g == Source.by
           e == start + 2 * S
<1>1. /\ Now("ntt") /\ ~Now("invntt") /\ Code[at].do = "ntt" /\ UpBounds /\ InTransform
      /\ Becomes(r)
  BY DEF NttBlock, Now, Inv, InTransform
<1>2. /\ NttType /\ ~Done /\ A \in [Index -> Int] /\ g \in Int /\ poly[On] \in [Index -> Int]
      /\ Layers \in Nat \ {0} /\ N \in Nat \ {0}
  BY <1>1, SourceType
<1>3. /\ layer \in 1 .. Layers /\ start \in Nat /\ k \in Int /\ start < N
      /\ 2 * (S * k) = start + N
  BY <1>1, <1>2 DEF NttType, UpBounds
<1>4. PICK q \in 0 .. FirstUp(layer) - 1 : k = FirstUp(layer) + q /\ start = q * (2 * S)
  BY <1>3, UpNode
<1>5. \A j \in Index : Same(poly[On][j], g * Rising(A, layer, start, j))
  BY <1>1 DEF Meant
<1>6. /\ r \in [Index -> Int]
      /\ \A j \in Index : Same(r[j], g * Rising(A, layer, e, j))
  <2> DEFINE p == poly[On]
  <2>1. p \in [Index -> Int] /\ \A j \in Index : Same(p[j], g * Rising(A, layer, start, j))
    BY <1>2, <1>5
  <2> HIDE DEF p, A, g
  <2>2. /\ Forward(p, zetas[FirstUp(layer) + q], start, S) \in [Index -> Int]
        /\ \A j \in Index : Same(Forward(p, zetas[FirstUp(layer) + q], start, S)[j],
                                 g * Rising(A, layer, start + 2 * S, j))
    BY <1>2, <1>3, <1>4, <2>1, ForwardSame
  <2> QED BY <1>4, <2>2 DEF p
<1> HIDE DEF r
<1>7. e \in Int
  <2>1. S \in Nat
    BY <1>3, SpanFacts
  <2> QED BY <1>3, <2>1
<1>8. CASE e < N /\ start' = e /\ UNCHANGED <<layer, at, lane>>
  <2> HIDE DEF e, A, g
  <2>1. \A j \in Index : Same(r[j], g * Rising(A, layer', start', j))
    BY <1>6, <1>8
  <2> QED BY <1>1, <1>6, <1>8, <2>1, MeantContinues DEF A, g
<1>9. ASSUME e >= N, NEW j \in Index PROVE Same(r[j], g * Val(A, layer, j))
  <2> HIDE DEF e, A, g
  <2> QED BY <1>2, <1>6, <1>7, <1>9, LayerDone
<1>10. CASE e >= N /\ layer < Layers /\ layer' = layer + 1 /\ start' = 0 /\ UNCHANGED <<at, lane>>
  <2> HIDE DEF A, g
  <2>1. \A j \in Index : Same(r[j], g * Rising(A, layer', start', j))
    <3>1. (layer + 1) - 1 = layer
      BY <1>3
    <3> QED BY <1>9, <1>10, <3>1, LayerBegins
  <2> QED BY <1>1, <1>6, <1>10, <2>1, MeantContinues DEF A, g
<1>11. CASE e >= N /\ layer = Layers /\ Proceed
  <2>1. \/ at' = at /\ lane' = lane + 1 /\ lane' =< L /\ Code[at].on = "v"
        \/ at' = at + 1 /\ lane' = 1 /\ (Code[at].on = "v" => lane = L)
    BY <1>2, <1>11, StepsTo
  <2>2. Meaning(at', lane', On) = Transform(A, g)
    BY <1>1, <1>2, <2>1, MeaningMade
  <2> HIDE DEF A, g
  <2>3. Represents(r, Transform(A, g))
    BY <1>9, <1>11, FaceIs DEF Represents
  <2>4. ~ (at = Len(Code) /\ call \in {"keygen", "mask", "verify"})
    <3>1. Ends(call)
      BY <1>2, ProgramsMove DEF NttType
    <3> QED BY <1>1, <3>1 DEF Ends, Code
  <2> QED BY <1>1, <1>2, <1>6, <1>11, <2>2, <2>3, <2>4, MeantProceeds
<1> QED BY <1>8, <1>10, <1>11 DEF NttBlock

LEMMA InvNttBlockMeant == Inv /\ Inv' /\ Meant /\ InvNttBlock => Meant'
<1> SUFFICES ASSUME Inv, Inv', Meant, InvNttBlock PROVE Meant'
  OBVIOUS
<1> DEFINE S == Span(layer)
           r == Backward(poly[On], zetas[k], start, S)
           A == Source.of
           b == Source.by
           g == b * S
           e == start + 2 * S
<1>1. /\ Now("invntt") /\ ~Now("ntt") /\ Code[at].do = "invntt" /\ DownBounds /\ InTransform
      /\ Becomes(r) /\ layer >= 1 /\ UNCHANGED <<at, lane>>
  BY DEF InvNttBlock, Now, Inv, InTransform
<1>2. /\ NttType /\ ~Done /\ A \in [Index -> Int] /\ b \in Int /\ poly[On] \in [Index -> Int]
      /\ Layers \in Nat \ {0} /\ N \in Nat \ {0}
  BY <1>1, SourceType
<1>3. /\ layer \in 1 .. Layers /\ start \in Nat /\ k \in Int /\ start < N
      /\ 2 * (S * k) + start = 2 * N - 2 * S
  <2>1. layer \in 1 .. Layers /\ start \in Nat /\ k \in Int /\ layer # 0
    BY <1>1, <1>2 DEF NttType
  <2> QED BY <1>1, <2>1 DEF DownBounds
<1>4. PICK q \in 0 .. FirstUp(layer) - 1 : k = 2 * FirstUp(layer) - 1 - q /\ start = q * (2 * S)
  BY <1>3, DownNode
<1>5. \A j \in Index : Same(poly[On][j], g * Falling(A, layer, start, j))
  BY <1>1 DEF Meant
<1>12. S \in Nat \ {0} /\ Span(layer - 1) = 2 * S
  BY <1>3, SpanFacts
<1>13. g \in Int
  <2> HIDE DEF S, b
  <2> QED BY <1>2, <1>12
<1>6. /\ r \in [Index -> Int]
      /\ \A j \in Index : Same(r[j], g * Falling(A, layer, e, j))
  <2> DEFINE p == poly[On]
  <2>1. p \in [Index -> Int] /\ \A j \in Index : Same(p[j], g * Falling(A, layer, start, j))
    BY <1>2, <1>5
  <2> HIDE DEF p, A, g
  <2>2. /\ Backward(p, zetas[2 * FirstUp(layer) - 1 - q], start, S) \in [Index -> Int]
        /\ \A j \in Index : Same(Backward(p, zetas[2 * FirstUp(layer) - 1 - q], start, S)[j],
                                 g * Falling(A, layer, start + 2 * S, j))
    BY <1>2, <1>3, <1>4, <1>13, <2>1, BackwardSame
  <2> QED BY <1>4, <2>2 DEF p
<1> HIDE DEF r
<1>7. e \in Int
  BY <1>3, <1>12
<1>8. CASE e < N /\ start' = e /\ UNCHANGED layer
  <2>1. layer' >= 1 /\ layer' # 0
    BY <1>3, <1>8
  <2>2. \A j \in Index : Same(r[j], (b * Span(layer')) * Falling(A, layer', start', j))
    <3> HIDE DEF e, A, b
    <3> QED BY <1>6, <1>8
  <2> HIDE DEF A, b
  <2> QED BY <1>1, <1>6, <1>8, <2>1, <2>2, MeantContinues DEF A, b
<1>9. CASE e >= N /\ layer' = layer - 1 /\ start' = 0
  <2>1. ASSUME NEW j \in Index
        PROVE  Same(r[j], (b * Span(layer - 1)) * Val(A, layer - 1, j))
    <3> DEFINE v == Val(A, layer - 1, j)
    <3>1. Same(r[j], g * (2 * v))
      <4> HIDE DEF e, A, g
      <4>1. Falling(A, layer, e, j) = 2 * Val(A, layer - 1, j)
        BY <1>2, <1>7, <1>9, LayerDone
      <4> QED BY <1>6, <4>1
    <3>2. v \in Int
      <4>1. layer - 1 \in 0 .. Layers
        BY <1>2, <1>3
      <4> HIDE DEF A
      <4> QED BY <1>2, <4>1, ValType
    <3> HIDE DEF v, S, b
    <3>3. g * (2 * v) = (b * (2 * S)) * v
      BY <1>2, <1>12, <3>2
    <3> QED BY <1>12, <3>1, <3>3 DEF v
  <2>2. CASE layer = 1
    <3>1. layer' = 0 /\ layer - 1 = 0 /\ Span(0) = N
      BY <1>9, <2>2, SpanEnds
    <3> HIDE DEF A, b
    <3>2. \A j \in Index : Same(r[j], (b * N) * A[j])
      BY <1>2, <2>1, <3>1, ValEnds
    <3> QED BY <1>1, <1>6, <3>1, <3>2, MeantContinues DEF A, b
  <2>3. CASE layer # 1
    <3>1. layer' >= 1 /\ layer' # 0
      BY <1>3, <1>9, <2>3
    <3> HIDE DEF A, b
    <3>2. \A j \in Index : Same(r[j], (b * Span(layer')) * Falling(A, layer', start', j))
      BY <1>9, <2>1, LayerBegins
    <3> QED BY <1>1, <1>6, <3>1, <3>2, MeantContinues DEF A, b
  <2> QED BY <2>2, <2>3
<1> QED BY <1>8, <1>9 DEF InvNttBlock

LEMMA ScaleMeant == Inv /\ Inv' /\ Meant /\ Scale => Meant'
<1> SUFFICES ASSUME Inv, Inv', Meant, Scale PROVE Meant'
  OBVIOUS
<1> DEFINE r == Map(FqScale, poly[On])
           A == Source.of
           n == Code[at].on
<1>1. /\ Now("invntt") /\ Code[at].do = "invntt" /\ InTransform /\ layer = 0
      /\ Becomes(r) /\ Proceed
  BY DEF Scale, Now, Inv, InTransform
<1>2. /\ NttType /\ ~Done /\ A \in [Index -> Int] /\ Source.by \in Int
      /\ poly[On] \in [Index -> Int]
      /\ Layers \in Nat \ {0} /\ N \in Nat \ {0}
  BY <1>1, SourceType
<1>3. \A j \in Index : Same(poly[On][j], (Source.by * N) * A[j])
  BY <1>1 DEF Meant
<1>4. \/ at' = at /\ lane' = lane + 1 /\ lane' =< L /\ Code[at].on = "v"
      \/ at' = at + 1 /\ lane' = 1 /\ (Code[at].on = "v" => lane = L)
  BY <1>1, <1>2, StepsTo
<1>5. /\ Moves(call, at) /\ Source = Means(call, at, n)
      /\ Meaning(at', lane', On) = Means(call, at + 1, n)
  BY <1>1, <1>2, <1>4, MeaningMade DEF Outputs
<1>6. Source.by = RInv /\ Meaning(at', lane', On) = Coefficients(A, 1)
  BY <1>1, <1>5 DEF Moves, Code
<1>7. ASSUME NEW j \in Index
      PROVE  FqScale(poly[On][j]) \in Int /\ Same(FqScale(poly[On][j]), 1 * A[j])
  <2> DEFINE a == poly[On][j]
             x == A[j]
  <2>1. a \in Int /\ x \in Int /\ RInv \in Int /\ Same(a, (RInv * N) * x)
    BY <1>2, <1>3, <1>6
  <2> HIDE DEF a, x, RInv
  <2>2. (RInv * N) * x = (x * RInv) * N /\ x * RInv \in Int
    BY <1>2, <2>1
  <2>3. FqScale(a) \in Int /\ Same(FqScale(a), (x * RInv) * R)
    BY <2>1, <2>2, ScaleSame
  <2>4. R \in Int /\ (x * RInv) * R \in Int /\ (x * RInv) * R = R * (x * RInv) /\ 1 * x = x
    BY <2>1, <2>2, QNatural
  <2>5. Same(R * (x * RInv), x)
    BY <2>1, RCancels
  <2>6. Same(FqScale(a), x)
    BY <2>1, <2>3, <2>4, <2>5, SameTrans
  <2> QED BY <2>3, <2>4, <2>6 DEF a, x
<1>8. r \in [Index -> Int] /\ \A j \in Index : r[j] = FqScale(poly[On][j])
  BY <1>7 DEF Map
<1> HIDE DEF r, A
<1>9. Represents(r, Coefficients(A, 1))
  BY <1>7, <1>8, FaceIs DEF Represents
<1>10. ~ (at = Len(Code) /\ call \in {"keygen", "mask", "verify"})
  <2>1. Ends(call)
    BY <1>2, ProgramsMove DEF NttType
  <2> QED BY <1>1, <2>1 DEF Ends, Code
<1> QED BY <1>1, <1>2, <1>6, <1>8, <1>9, <1>10, MeantProceeds

\* What an instruction on coefficients finds
LEMMA Found ==
  ASSUME Inv, Meant, ~Done, ~InTransform, NEW x \in Scalars
  PROVE  /\ NttType /\ poly[Single(x)] \in [Index -> Int]
         /\ Represents(poly[Single(x)], Means(call, at, x)) /\ MeaningOk(Means(call, at, x))
         /\ Code[at].do \in Outputs \cup {"shiftl"} =>
              Code[at].on \in Scalars /\ On = Single(Code[at].on)
<1>1. NttType
  BY DEF Inv
<1>2. Single(x) \in Names /\ Single(x)[1] = x /\ x # "v"
  BY NamesAre DEF Scalars
<1>3. poly[Single(x)] \in [Index -> Int]
  BY <1>1, <1>2 DEF NttType
<1>4. Meaning(at, lane, Single(x)) = Means(call, at, x)
  BY <1>2 DEF Meaning
<1>5. Represents(poly[Single(x)], Means(call, at, x))
  BY <1>2, <1>4 DEF Meant
<1>6. MeaningOk(Means(call, at, x))
  BY <1>1, MeansType DEF NttType
<1>7. Code[at].do \in Outputs \cup {"shiftl"} =>
        Code[at].on \in Scalars /\ On = Single(Code[at].on)
  BY <1>1, InProgram DEF InOrder, On, Single, Scalars, NttType
<1> QED BY <1>1, <1>3, <1>5, <1>6, <1>7

LEMMA OrdinaryMeant ==
  ASSUME Inv, Inv', Meant, ~Done, Code[at].do \in Outputs \cup {"shiftl"},
         NEW r \in [Index -> Int], Becomes(r), Proceed,
         Represents(r, Means(call, at + 1, Code[at].on)),
         Code[at].do = "caddq" => \A j \in Index : r[j] >= 0
  PROVE  Meant'
<1>1. NttType
  BY DEF Inv
<1>2. /\ \/ at' = at /\ lane' = lane + 1 /\ lane' =< L /\ Code[at].on = "v"
         \/ at' = at + 1 /\ lane' = 1 /\ (Code[at].on = "v" => lane = L)
      /\ at \in 1 .. Len(Code)
  BY <1>1, StepsTo
<1>3. Meaning(at', lane', On) = Means(call, at + 1, Code[at].on)
  BY <1>1, <1>2, MeaningMade
<1>4. at = Len(Code) /\ call \in {"keygen", "mask", "verify"} => \A j \in Index : r[j] >= 0
  <2>1. Ends(call)
    BY <1>1, ProgramsMove DEF NttType
  <2> QED BY <2>1 DEF Ends, Code
<1> QED BY <1>3, <1>4, MeantProceeds

LEMMA PointwiseMeant == Inv /\ Inv' /\ Meant /\ PointwiseMul => Meant'
<1> SUFFICES ASSUME Inv, Inv', Meant, PointwiseMul PROVE Meant'
  OBVIOUS
<1> DEFINE a == poly[Single("c")]
           b == poly[Single("t")]
           r == [j \in Index |-> FqMul(a[j], b[j])]
           s == Means(call, at, "t").by
           on == Code[at].on
<1>1. /\ Now("pointwise") /\ ~Done /\ Code[at].do = "pointwise" /\ ~InTransform /\ Proceed
      /\ Code[at].do \in Outputs
  BY DEF PointwiseMul, Zip, Now, InTransform, Outputs
<1>2. /\ NttType /\ at \in 1 .. Len(Code) /\ Code[at].with = "t"
  BY <1>1, InProgram DEF InOrder, Inv
<1>3. Becomes(r)
  BY <1>2 DEF PointwiseMul, Zip, With
<1>4. /\ a \in [Index -> Int] /\ b \in [Index -> Int]
      /\ Represents(a, Means(call, at, "c")) /\ Represents(b, Means(call, at, "t"))
      /\ MeaningOk(Means(call, at, "t"))
  BY <1>1, Found DEF Scalars
<1>5. Moves(call, at)
  BY <1>2, ProgramsMove DEF NttType, Code
<1>6. /\ Means(call, at, "c") = Transform(Was("c"), 1)
      /\ Means(call, at, "t") = Transform(Was("t"), s)
      /\ Means(call, at + 1, on) = Transform(ChallengeTimes, s * RInv)
  BY <1>1, <1>5 DEF Moves, Code
<1>7. s \in Int /\ RInv \in Int /\ Was("c") \in [Index -> Int] /\ Was("t") \in [Index -> Int]
  BY <1>2, <1>4, RInvIs, GivenType DEF MeaningOk, Scalars
<1>8. ASSUME NEW j \in Index
      PROVE  /\ FqMul(a[j], b[j]) \in Int
             /\ Same(FqMul(a[j], b[j]), (s * RInv) * Val(ChallengeTimes, Layers, j))
  <2> DEFINE u == a[j]
             v == b[j]
             x == Val(Was("c"), Layers, j)
             y == Val(Was("t"), Layers, j)
             z == Val(ChallengeTimes, Layers, j)
             m == FqMul(u, v)
             g == RInv
  <2>1. Same(u, 1 * x) /\ Same(v, s * y)
    BY <1>4, <1>6, FaceIs DEF Represents
  <2>2. x \in Int /\ y \in Int /\ z \in Int /\ Same(x * y, z)
    BY <1>7, ValProduct DEF ChallengeTimes, Was
  <2>3. u \in Int /\ v \in Int /\ g \in Int /\ s \in Int
    BY <1>4, <1>7
  <2>4. m \in Int /\ Same(m, (u * v) * g)
    BY <2>3, FqMulSame
  <2> HIDE DEF u, v, x, y, z, m, g, s
  <2>5. /\ u * v \in Int /\ 1 * x \in Int /\ s * y \in Int /\ x * y \in Int
        /\ (1 * x) * (s * y) = s * (x * y) /\ s * (x * y) \in Int /\ s * z \in Int
        /\ (u * v) * g \in Int /\ (s * z) * g = (s * g) * z /\ (s * z) * g \in Int
    BY <2>2, <2>3
  <2>6. Same(u * v, s * (x * y))
    BY <2>1, <2>3, <2>5, SameMul
  <2>7. Same(s * (x * y), s * z)
    BY <2>2, <2>3, <2>5, SameLeft
  <2>8. Same(u * v, s * z)
    BY <2>5, <2>6, <2>7, SameTrans
  <2>9. Same((u * v) * g, (s * z) * g)
    BY <2>3, <2>5, <2>8, SameRight
  <2>10. Same(m, (s * z) * g)
    BY <2>4, <2>5, <2>9, SameTrans
  <2> QED BY <2>4, <2>5, <2>10 DEF u, v, z, m, g
<1>9. r \in [Index -> Int] /\ \A j \in Index : r[j] = FqMul(a[j], b[j])
  BY <1>8
<1> HIDE DEF r, a, b, s
<1>10. Represents(r, Transform(ChallengeTimes, s * RInv))
  BY <1>8, <1>9, FaceIs DEF Represents
<1> QED BY <1>1, <1>3, <1>6, <1>9, <1>10, OrdinaryMeant

LEMMA AddMeant == Inv /\ Inv' /\ Meant /\ Add => Meant'
<1> SUFFICES ASSUME Inv, Inv', Meant, Add PROVE Meant'
  OBVIOUS
<1> DEFINE on == Code[at].on
           with == Code[at].with
           a == poly[Single(on)]
           b == poly[Single(with)]
           r == [j \in Index |-> a[j] + b[j]]
           m == Means(call, at, on)
           n == Means(call, at, with)
           m2 == Means(call, at + 1, on)
<1>1. /\ ~Done /\ Code[at].do = "add" /\ ~InTransform /\ Proceed /\ Code[at].do \in Outputs
  BY DEF Add, Now, InTransform, Outputs
<1>2. NttType /\ at \in 1 .. Len(Code) /\ call \in DOMAIN Program
  BY <1>1, InProgram DEF Inv, NttType
<1>3. Adds(call, at)
  BY <1>2, ProgramsAdd DEF Code
<1>4. Index # {}
  BY QNatural DEF Index
<1>5. on \in Scalars /\ with \in Scalars /\ On = Single(on)
  <2>1. on \in Scalars /\ On = Single(on)
    BY <1>1, Found DEF Scalars
  <2> QED BY <1>1, <1>3, <1>4, <2>1 DEF Adds, Code
<1>6. Becomes(r)
  BY <1>5 DEF Add, With
<1>7. /\ a \in [Index -> Int] /\ b \in [Index -> Int] /\ Represents(a, m) /\ Represents(b, n)
      /\ MeaningOk(m) /\ MeaningOk(n)
  BY <1>1, <1>5, Found
<1>8. ASSUME NEW j \in Index PROVE a[j] + b[j] \in Int /\ Same(a[j] + b[j], Face(m2, j))
  <2>1. Face(m2, j) = Face(m, j) + Face(n, j)
    BY <1>1, <1>3 DEF Adds, Code
  <2>2. Face(m, j) \in Int /\ Face(n, j) \in Int
    BY <1>7, FaceType
  <2>3. Same(a[j], Face(m, j)) /\ Same(b[j], Face(n, j)) /\ a[j] \in Int /\ b[j] \in Int
    BY <1>7 DEF Represents
  <2> HIDE DEF a, b, m, n, m2
  <2> QED BY <2>1, <2>2, <2>3, SameAdd
<1>9. r \in [Index -> Int] /\ \A j \in Index : r[j] = a[j] + b[j]
  BY <1>8
<1> HIDE DEF r, a, b, m, n, m2
<1>10. Represents(r, m2)
  BY <1>8, <1>9 DEF Represents
<1> QED BY <1>1, <1>6, <1>9, <1>10, OrdinaryMeant DEF m2

LEMMA SubMeant == Inv /\ Inv' /\ Meant /\ Sub => Meant'
<1> SUFFICES ASSUME Inv, Inv', Meant, Sub PROVE Meant'
  OBVIOUS
<1> DEFINE on == Code[at].on
           with == Code[at].with
           a == poly[Single(on)]
           b == poly[Single(with)]
           r == [j \in Index |-> a[j] - b[j]]
           m == Means(call, at, on)
           n == Means(call, at, with)
           m2 == Means(call, at + 1, on)
<1>1. /\ ~Done /\ Code[at].do = "sub" /\ ~InTransform /\ Proceed /\ Code[at].do \in Outputs
  BY DEF Sub, Now, InTransform, Outputs
<1>2. NttType /\ at \in 1 .. Len(Code) /\ call \in DOMAIN Program
  BY <1>1, InProgram DEF Inv, NttType
<1>3. Adds(call, at)
  BY <1>2, ProgramsAdd DEF Code
<1>4. Index # {}
  BY QNatural DEF Index
<1>5. on \in Scalars /\ with \in Scalars /\ On = Single(on)
  <2>1. on \in Scalars /\ On = Single(on)
    BY <1>1, Found DEF Scalars
  <2> QED BY <1>1, <1>3, <1>4, <2>1 DEF Adds, Code
<1>6. Becomes(r)
  BY <1>5 DEF Sub, With
<1>7. /\ a \in [Index -> Int] /\ b \in [Index -> Int] /\ Represents(a, m) /\ Represents(b, n)
      /\ MeaningOk(m) /\ MeaningOk(n)
  BY <1>1, <1>5, Found
<1>8. ASSUME NEW j \in Index PROVE a[j] - b[j] \in Int /\ Same(a[j] - b[j], Face(m2, j))
  <2>1. Face(m2, j) = Face(m, j) - Face(n, j)
    BY <1>1, <1>3 DEF Adds, Code
  <2>2. Face(m, j) \in Int /\ Face(n, j) \in Int
    BY <1>7, FaceType
  <2>3. Same(a[j], Face(m, j)) /\ Same(b[j], Face(n, j)) /\ a[j] \in Int /\ b[j] \in Int
    BY <1>7 DEF Represents
  <2> HIDE DEF a, b, m, n, m2
  <2> QED BY <2>1, <2>2, <2>3, SameAdd
<1>9. r \in [Index -> Int] /\ \A j \in Index : r[j] = a[j] - b[j]
  BY <1>8
<1> HIDE DEF r, a, b, m, n, m2
<1>10. Represents(r, m2)
  BY <1>8, <1>9 DEF Represents
<1> QED BY <1>1, <1>6, <1>9, <1>10, OrdinaryMeant DEF m2

LEMMA ShiftLMeant == Inv /\ Inv' /\ Meant /\ ShiftL => Meant'
<1> SUFFICES ASSUME Inv, Inv', Meant, ShiftL PROVE Meant'
  OBVIOUS
<1> DEFINE on == Code[at].on
           a == poly[Single(on)]
           r == [j \in Index |-> a[j] * Shift]
           w == Was("t")
<1>1. /\ ~Done /\ Code[at].do = "shiftl" /\ ~InTransform /\ Proceed
  BY DEF ShiftL, Now, InTransform
<1>2. NttType /\ at \in 1 .. Len(Code) /\ on \in Scalars /\ On = Single(on)
  BY <1>1, InProgram, Found DEF Inv, Scalars
<1>3. Becomes(r)
  BY <1>2 DEF ShiftL, Shift
<1>4. Moves(call, at)
  BY <1>2, ProgramsMove DEF NttType, Code
<1>5. Means(call, at, on) = Coefficients(w, 1) /\ Means(call, at + 1, on) = Coefficients(w, Shift)
  BY <1>1, <1>4 DEF Moves, Code
<1>6. a \in [Index -> Int] /\ Represents(a, Coefficients(w, 1))
  BY <1>1, <1>2, <1>5, Found
<1>7. Shift \in Int /\ w \in [Index -> Int]
  BY <1>2, ExpectedType, GivenType DEF Scalars
<1>8. ASSUME NEW j \in Index PROVE a[j] * Shift \in Int /\ Same(a[j] * Shift, Shift * w[j])
  <2> DEFINE x == a[j]
             y == w[j]
             s == Shift
  <2>1. x \in Int /\ y \in Int /\ s \in Int /\ Same(x, 1 * y)
    BY <1>6, <1>7, FaceIs DEF Represents
  <2> HIDE DEF x, y, s
  <2>2. 1 * y = y /\ x * s \in Int /\ y * s = s * y
    BY <2>1
  <2>3. Same(x * s, y * s)
    BY <2>1, <2>2, SameRight
  <2> QED BY <2>2, <2>3 DEF x, y, s
<1>9. r \in [Index -> Int] /\ \A j \in Index : r[j] = a[j] * Shift
  BY <1>8
<1> HIDE DEF r, a, w
<1>10. Represents(r, Coefficients(w, Shift))
  BY <1>8, <1>9, FaceIs DEF Represents
<1> QED BY <1>1, <1>3, <1>5, <1>9, <1>10, OrdinaryMeant

LEMMA ReduceMeant == Inv /\ Inv' /\ Meant /\ Reduce => Meant'
<1> SUFFICES ASSUME Inv, Inv', Meant, Reduce PROVE Meant'
  OBVIOUS
<1> DEFINE on == Code[at].on
           a == poly[Single(on)]
           r == Map(Reduce32, a)
           m == Means(call, at, on)
<1>1. /\ ~Done /\ Code[at].do = "reduce" /\ ~InTransform /\ Proceed /\ Code[at].do \in Outputs
  BY DEF Reduce, Now, InTransform, Outputs
<1>2. NttType /\ at \in 1 .. Len(Code) /\ on \in Scalars /\ On = Single(on)
  BY <1>1, InProgram, Found DEF Inv, Scalars
<1>3. Becomes(r)
  BY <1>2 DEF Reduce
<1>4. Moves(call, at)
  BY <1>2, ProgramsMove DEF NttType, Code
<1>5. Means(call, at + 1, on) = m
  BY <1>1, <1>4 DEF Moves, Code
<1>6. a \in [Index -> Int] /\ Represents(a, m) /\ MeaningOk(m)
  BY <1>1, <1>2, Found
<1> HIDE DEF m
<1>7. ASSUME NEW j \in Index PROVE Reduce32(a[j]) \in Int /\ Same(Reduce32(a[j]), Face(m, j))
  <2> DEFINE x == a[j]
  <2>1. x \in Int /\ Same(x, Face(m, j)) /\ Face(m, j) \in Int
    BY <1>6, FaceType DEF Represents
  <2> HIDE DEF x
  <2>2. Reduce32(x) \in Int /\ Same(Reduce32(x), x)
    BY <2>1, ReduceSame
  <2>3. Same(Reduce32(x), Face(m, j))
    BY <2>1, <2>2, SameTrans
  <2> QED BY <2>2, <2>3 DEF x
<1>8. r \in [Index -> Int] /\ \A j \in Index : r[j] = Reduce32(a[j])
  BY <1>7 DEF Map
<1> HIDE DEF r, a
<1>9. Represents(r, m)
  BY <1>7, <1>8 DEF Represents
<1> QED BY <1>1, <1>3, <1>5, <1>8, <1>9, OrdinaryMeant

LEMMA CAddMeant == Inv /\ Inv' /\ Meant /\ CAdd => Meant'
<1> SUFFICES ASSUME Inv, Inv', Meant, CAdd PROVE Meant'
  OBVIOUS
<1> DEFINE on == Code[at].on
           a == poly[Single(on)]
           r == Map(CAddQ, a)
           m == Means(call, at, on)
<1>1. /\ ~Done /\ Code[at].do = "caddq" /\ ~InTransform /\ Proceed /\ Code[at].do \in Outputs
  BY DEF CAdd, Now, InTransform, Outputs
<1>2. NttType /\ at \in 1 .. Len(Code) /\ on \in Scalars /\ On = Single(on)
  BY <1>1, InProgram, Found DEF Inv, Scalars
<1>3. Becomes(r)
  BY <1>2 DEF CAdd
<1>4. Moves(call, at)
  BY <1>2, ProgramsMove DEF NttType, Code
<1>5. Means(call, at + 1, on) = m
  BY <1>1, <1>4 DEF Moves, Code
<1>6. a \in [Index -> Int] /\ Represents(a, m) /\ MeaningOk(m)
  BY <1>1, <1>2, Found
<1>11. Below(a, Index, Q)
  BY <1>1, <1>2, CAddReads
<1> HIDE DEF m
<1>7. ASSUME NEW j \in Index
      PROVE  CAddQ(a[j]) \in Int /\ Same(CAddQ(a[j]), Face(m, j)) /\ CAddQ(a[j]) >= 0
  <2> DEFINE x == a[j]
  <2>1. x \in Int /\ Same(x, Face(m, j)) /\ Face(m, j) \in Int /\ Abs(x) < Q
    BY <1>6, <1>11, FaceType DEF Represents, Below
  <2> HIDE DEF x
  <2>2. CAddQ(x) \in Int /\ Same(CAddQ(x), x)
    BY <2>1, CAddSame
  <2>3. Same(CAddQ(x), Face(m, j))
    BY <2>1, <2>2, SameTrans
  <2>4. CAddQ(x) >= 0
    BY <2>1, QNatural DEF CAddQ, Abs
  <2> QED BY <2>2, <2>3, <2>4 DEF x
<1>8. r \in [Index -> Int] /\ \A j \in Index : r[j] = CAddQ(a[j])
  BY <1>7 DEF Map
<1> HIDE DEF r, a
<1>9. Represents(r, m)
  BY <1>7, <1>8 DEF Represents
<1> QED BY <1>1, <1>3, <1>5, <1>7, <1>8, <1>9, OrdinaryMeant

LEMMA AccumulateMeant == Inv /\ Inv' /\ Meant /\ Accumulate => Meant'
<1> SUFFICES ASSUME Inv, Inv', Meant, Accumulate PROVE Meant'
  OBVIOUS
<1> DEFINE vec == [i \in 1 .. L |-> poly[Vector(i)]]
           terms(j) == [i \in 1 .. L |-> given.mat[i][j] * vec[i][j]]
           values(j) == [i \in 1 .. L |-> Val(Products[i], Layers, j)]
           r == [j \in Index |-> MontgomeryReduce(Sum(terms(j), L))]
<1>1. /\ Now("acc") /\ ~Done /\ Code[at].do = "acc" /\ ~InTransform /\ Proceed
      /\ Code[at].do \in Outputs /\ Becomes(r)
  BY DEF Accumulate, PointwiseAcc, Now, InTransform, Outputs
<1>2. /\ NttType /\ at \in 1 .. Len(Code) /\ Transformed(Code, "v", at) /\ L \in Nat
  BY <1>1, InProgram, NttAssumption DEF InOrder, Inv
<1>3. Moves(call, at)
  BY <1>2, ProgramsMove DEF NttType, Code
<1>4. Means(call, at + 1, Code[at].on) = Transform(MatrixTimesVector, RInv)
  BY <1>1, <1>3 DEF Moves, Code
<1>5. ASSUME NEW i \in 1 .. L, NEW j \in Index
      PROVE  /\ terms(j)[i] \in Int /\ values(j)[i] \in Int
             /\ Same(terms(j)[i], values(j)[i])
  <2> DEFINE a == given.matrix[i]
             b == given.poly[Vector(i)]
             u == given.mat[i][j]
             v == vec[i][j]
             x == Val(a, Layers, j)
             y == Val(b, Layers, j)
             z == Val(RingProduct(a, b), Layers, j)
  <2>1. Vector(i) \in Names /\ Vector(i)[1] = "v"
    BY NamesAre
  <2>2. a \in [Index -> Int] /\ b \in [Index -> Int] /\ u = Values(a)[j]
    BY <1>2, GivenType
  <2>3. Meaning(at, lane, Vector(i)) = Transform(b, 1)
    BY <1>2, <2>1 DEF Meaning
  <2>4. Represents(poly[Vector(i)], Transform(b, 1)) /\ poly[Vector(i)] \in [Index -> Int]
    BY <1>1, <1>2, <2>1, <2>3 DEF Meant, NttType
  <2>5. v \in Int /\ Same(v, 1 * y)
    <3> HIDE DEF b
    <3> QED BY <2>4, FaceIs DEF Represents
  <2>6. u \in Int /\ Same(x, u)
    <3>1. given.mat[i] \in [Index -> 0 .. Q - 1]
      BY <1>2, InputAssumption DEF NttType
    <3>2. u \in Int
      BY <3>1, QNatural
    <3> HIDE DEF a, u
    <3> QED BY <2>2, <3>2, ValEnds
  <2>7. x \in Int /\ y \in Int /\ z \in Int /\ Same(x * y, z)
    <3> HIDE DEF a, b
    <3> QED BY <2>2, ValProduct
  <2>8. terms(j)[i] = u * v /\ values(j)[i] = z
    BY DEF Products
  <2> HIDE DEF a, b, u, v, x, y, z, terms, values
  <2>9. 1 * y = y /\ u * v \in Int /\ x * y \in Int
    BY <2>5, <2>6, <2>7
  <2>10. Same(u, x)
    BY <2>6, <2>7, SameSym
  <2>11. Same(u * v, x * y)
    BY <2>5, <2>6, <2>7, <2>9, <2>10, SameMul
  <2>12. Same(u * v, z)
    BY <2>7, <2>9, <2>11, SameTrans
  <2> QED BY <2>7, <2>8, <2>9, <2>12
<1>6. ASSUME NEW j \in Index
      PROVE  /\ MontgomeryReduce(Sum(terms(j), L)) \in Int
             /\ Same(MontgomeryReduce(Sum(terms(j), L)), RInv * Val(MatrixTimesVector, Layers, j))
  <2> DEFINE t == terms(j)
             u == values(j)
             v == Val(MatrixTimesVector, Layers, j)
             s == Sum(t, L)
             g == RInv
  <2>1. Ints(t, L) /\ Ints(u, L) /\ \A i \in 1 .. L : Same(t[i], u[i])
    <3> HIDE DEF terms, values
    <3> QED BY <1>5 DEF Ints
  <2>2. v = Sum(u, L)
    <3> DEFINE p == Products
    <3>1. /\ \A i \in 1 .. L : p[i] \in [Index -> Int]
          /\ MatrixTimesVector = [m \in Index |-> Sum([i \in 1 .. L |-> p[i][m]], L)]
      BY <1>2, ProductsType
    <3> HIDE DEF p
    <3>2. Val([m \in Index |-> Sum([i \in 1 .. L |-> p[i][m]], L)], Layers, j)
            = Sum([i \in 1 .. L |-> Val(p[i], Layers, j)], L)
      BY <1>2, <3>1, ValSum
    <3> QED BY <3>1, <3>2 DEF p
  <2> HIDE DEF t, u
  <2>3. s \in Int /\ v \in Int /\ Same(s, v)
    BY <1>2, <2>1, <2>2, SumType, SumSame
  <2>4. g \in Int
    BY RInvIs
  <2> HIDE DEF s, v
  <2>5. MontgomeryReduce(s) \in Int /\ Same(MontgomeryReduce(s), s * g)
    BY <2>3, MontgomerySame
  <2> HIDE DEF g
  <2>6. s * g \in Int /\ g * v \in Int /\ v * g = g * v
    BY <2>3, <2>4
  <2>7. Same(s * g, g * v)
    BY <2>3, <2>4, <2>6, SameRight
  <2>8. Same(MontgomeryReduce(s), g * v)
    BY <2>5, <2>6, <2>7, SameTrans
  <2> QED BY <2>5, <2>8 DEF s, v, g, t
<1>7. r \in [Index -> Int] /\ \A j \in Index : r[j] = MontgomeryReduce(Sum(terms(j), L))
  BY <1>6
<1> HIDE DEF r, terms
<1>8. Represents(r, Transform(MatrixTimesVector, RInv))
  BY <1>6, <1>7, FaceIs DEF Represents
<1> QED BY <1>1, <1>4, <1>7, <1>8, OrdinaryMeant

LEMMA InitMeant == NttInit => Meant
<1> SUFFICES ASSUME NttInit PROVE Meant
  OBVIOUS
<1>1. Inv /\ NttType
  BY InitInv DEF Inv
<1>2. /\ call \in DOMAIN Program /\ at = 1 /\ lane = 1 /\ poly = given.poly
      /\ layer = 1 /\ start = 0
  BY DEF NttInit
<1>3. Len(Code) \in Nat \ {0} /\ Code[1].do # "invntt" /\ ~Done
  <2>1. Ends(call)
    BY <1>2, ProgramsMove
  <2>2. Code[1].do # "invntt"
    BY <1>2, KeygenText, MaskText, ResponseText, LowText, HintText, VerifyText
       DEF Program, Code, I
  <2> QED BY <1>2, <2>1, <2>2 DEF Ends, Code, Done
<1>4. ASSUME NEW p \in Names PROVE Meaning(at, lane, p) = Coefficients(poly[p], 1)
  <2>1. CASE p[1] # "v"
    <3>1. p[1] \in Scalars /\ p = Single(p[1])
      BY <2>1, NameIs
    <3>2. Means(call, 1, p[1]) = Coefficients(Was(p[1]), 1)
      BY <1>2, <3>1, ProgramsMove
    <3> QED BY <1>2, <2>1, <3>1, <3>2 DEF Meaning, Was
  <2>2. CASE p[1] = "v"
    <3>1. ~Transformed(Code, "v", 1)
      BY DEF Transformed
    <3>2. ~ (p[2] < 1)
      BY NameIs, NttAssumption
    <3> QED BY <1>2, <2>2, <3>1, <3>2 DEF Meaning
  <2> QED BY <2>1, <2>2
<1>5. ASSUME NEW p \in Names
      PROVE  \A j \in Index : Same(poly[p][j], 1 * poly[p][j]) /\ poly[p][j] \in Int
  <2> SUFFICES ASSUME NEW j \in Index
               PROVE  Same(poly[p][j], 1 * poly[p][j]) /\ poly[p][j] \in Int
    OBVIOUS
  <2> DEFINE x == poly[p][j]
  <2>1. x \in Int
    BY <1>1 DEF NttType
  <2> HIDE DEF x
  <2>2. x = 1 * x
    BY <2>1
  <2>3. Same(x, 1 * x)
    BY <2>1, <2>2, SameEqual
  <2> QED BY <2>1, <2>3 DEF x
<1>6. \A p \in Names : Represents(poly[p], Meaning(at, lane, p))
  BY <1>4, <1>5, FaceIs DEF Represents
<1>7. ASSUME NEW j \in Index
      PROVE  Same(poly[On][j], Source.by * Rising(Source.of, layer, start, j))
  <2> DEFINE A == poly[On]
  <2>1. On \in Names
    BY <1>1, <1>3, OnIsName
  <2>2. Source = Coefficients(A, 1)
    BY <1>4, <2>1 DEF Source
  <2>3. A \in [Index -> Int] /\ Same(A[j], 1 * A[j])
    BY <1>1, <1>5, <2>1 DEF NttType
  <2> HIDE DEF A
  <2>4. Rising(A, 1, 0, j) = Val(A, 1 - 1, j) /\ 1 - 1 = 0
    BY LayerBegins
  <2>5. Val(A, 0, j) = A[j]
    BY <2>3, ValEnds
  <2>6. Source.of = A /\ Source.by = 1
    BY <2>2 DEF Coefficients
  <2> QED BY <1>2, <2>3, <2>4, <2>5, <2>6 DEF A
<1>8. ~Now("invntt")
  BY <1>2, <1>3 DEF Now
<1> QED BY <1>3, <1>6, <1>7, <1>8 DEF Meant

LEMMA StutterMeant == Meant /\ UNCHANGED nttVars => Meant'
<1> SUFFICES ASSUME Meant, UNCHANGED nttVars PROVE Meant'
  OBVIOUS
<1>1. /\ call' = call /\ at' = at /\ lane' = lane /\ poly' = poly /\ layer' = layer
      /\ start' = start /\ given' = given
  BY DEF nttVars
<1>2. /\ Code' = Code /\ \A p : Meaning(at, lane, p)' = Meaning(at, lane, p)
  BY <1>1, MeaningSame
<1>3. /\ Done' = Done /\ On' = On /\ Now("ntt")' = Now("ntt") /\ Now("invntt")' = Now("invntt")
  BY <1>1, <1>2 DEF Done, On, Now
<1>4. Source' = Source
  BY <1>1, <1>3, MeaningSame DEF Source
<1>5. ASSUME NEW p \in Names, p # On, InTransform PROVE Represents(poly[p], Meaning(at, lane, p))'
  <2>1. Represents(poly[p], Meaning(at, lane, p))
    BY <1>5 DEF Meant
  <2> QED BY <1>1, <1>2, <2>1 DEF Represents
<1>6. ASSUME NEW p \in Names, ~InTransform PROVE Represents(poly[p], Meaning(at, lane, p))'
  <2>1. Represents(poly[p], Meaning(at, lane, p))
    BY <1>6 DEF Meant
  <2> QED BY <1>1, <1>2, <2>1 DEF Represents
<1> QED BY <1>1, <1>3, <1>4, <1>5, <1>6, Zenon DEF Meant, InTransform

-----------------------------------------------------------------------------
(* What the meaning of the polynomials implies.                            *)

LEMMA MeantStandard == Inv /\ Meant => StandardOrder
<1> SUFFICES ASSUME Inv, Meant, Now("acc"), NEW i \in 1 .. L, NEW j \in Index
             PROVE  (poly[Vector(i)][j] - Values(given.poly[Vector(i)])[j]) % Q = 0
  BY DEF StandardOrder
<1> DEFINE b == given.poly[Vector(i)]
           x == poly[Vector(i)][j]
           y == Val(b, Layers, j)
           z == Values(b)[j]
<1>1. ~Done /\ Code[at].do = "acc" /\ ~InTransform /\ NttType
  BY DEF Now, InTransform, Inv
<1>2. Transformed(Code, "v", at)
  BY <1>1, InProgram DEF InOrder
<1>3. Vector(i) \in Names /\ Vector(i)[1] = "v"
  BY NamesAre
<1>4. Meaning(at, lane, Vector(i)) = Transform(b, 1)
  BY <1>2, <1>3 DEF Meaning
<1>5. Represents(poly[Vector(i)], Transform(b, 1)) /\ poly[Vector(i)] \in [Index -> Int]
  BY <1>1, <1>3, <1>4 DEF Meant, NttType
<1>6. b \in [Index -> Int]
  BY <1>1, GivenType
<1>7. x \in Int /\ Same(x, 1 * y)
  <2> HIDE DEF b
  <2> QED BY <1>5, FaceIs DEF Represents
<1> HIDE DEF b
<1>8. y \in Int /\ Same(y, z)
  <2>1. Layers \in 0 .. Layers
    BY NttAssumption
  <2> QED BY <1>6, <2>1, ValType, ValEnds
<1>9. z \in Int
  BY <1>6, ValEnds
<1> HIDE DEF x, y, z
<1>10. 1 * y = y
  BY <1>8
<1>11. Same(x, z)
  BY <1>7, <1>8, <1>9, <1>10, SameTrans
<1>12. (x - z) % Q = 0
  BY <1>7, <1>9, <1>11, SameIsMod
<1> QED BY <1>12 DEF x, z, b

LEMMA MeantExact == Inv /\ Meant => CallExact
<1> SUFFICES ASSUME Inv, Meant, Done
             PROVE  LET r == poly[Single(Result[call])] IN
                    /\ \A j \in Index : (r[j] - Expected[call][j]) % Q = 0
                    /\ IF call \in {"response", "low", "hint"}
                         THEN \A j \in Index : Abs(r[j]) < Q
                         ELSE \A j \in Index : r[j] \in 0 .. Q - 1
  BY DEF CallExact
<1> DEFINE x == Result[call]
           r == poly[Single(x)]
           w == Expected[call]
<1>1. NttType /\ Sized /\ ~InTransform /\ call \in DOMAIN Program
  BY DEF Inv, InTransform, Now, NttType
<1>2. Ends(call) /\ Sound(call)
  BY <1>1, ProgramsMove, ProgramsSound
<1>3. at = Len(Code) + 1 /\ Len(Code) \in Nat \ {0} /\ lane = 1
  BY <1>1, <1>2 DEF Ends, Code, Done, NttType
<1>4. x \in {"w", "h", "e"} /\ x \in Scalars /\ Single(x) \in Names /\ Single(x)[1] = x
  BY <1>2, NamesAre DEF Ends, Scalars
<1>5. Meaning(at, lane, Single(x)) = Coefficients(w, 1)
  BY <1>2, <1>3, <1>4 DEF Ends, Meaning, Code
<1>6. r \in [Index -> Int] /\ Represents(r, Coefficients(w, 1)) /\ w \in [Index -> Int]
  BY <1>1, <1>4, <1>5, ExpectedType DEF Meant, NttType
<1>7. Below(r, Index, Q)
  <2>1. ~Transformed(Code, x, at)
    <3> SUFFICES ASSUME Transformed(Code, x, at) PROVE FALSE
      OBVIOUS
    <3>1. PICK m \in 1 .. at - 1 : Code[m].do = "ntt" /\ Code[m].on = x
      BY DEF Transformed
    <3>2. InOrder(Code, m)
      BY <1>2, <1>3 DEF Sound, Code
    <3> QED BY <1>4, <3>1, <3>2 DEF InOrder
  <2>2. ~ (at =< Len(Code)) /\ at - 1 = Len(Code)
    BY <1>3
  <2>3. Code[at - 1].do \notin Sums
    BY <1>2, <2>2 DEF Ends, Code, Sums
  <2>4. SizeAt(Code, at, lane, Single(x)) = 1
    BY <1>4, <2>1, <2>2, <2>3 DEF SizeAt
  <2>5. Below(r, Index, 1 * Q) /\ 1 * Q = Q
    BY <1>1, <1>4, <2>4, QNatural DEF Sized
  <2> QED BY <2>5
<1>8. ASSUME NEW j \in Index PROVE (r[j] - w[j]) % Q = 0
  <2> DEFINE a == r[j]
             b == w[j]
  <2>1. a \in Int /\ b \in Int /\ Same(a, 1 * b)
    <3> HIDE DEF r, w
    <3> QED BY <1>6, FaceIs DEF Represents
  <2> HIDE DEF a, b
  <2>2. 1 * b = b
    BY <2>1
  <2>3. (a - b) % Q = 0
    BY <2>1, <2>2, SameIsMod
  <2> QED BY <2>3 DEF a, b
<1>9. ASSUME call \notin {"response", "low", "hint"}, NEW j \in Index PROVE r[j] \in 0 .. Q - 1
  <2>1. call \in {"keygen", "mask", "verify"}
    BY <1>1, <1>9 DEF Program
  <2>2. x = "w"
    BY <1>2, <2>1 DEF Ends
  <2>3. r[j] >= 0
    BY <2>1, <2>2 DEF Meant
  <2>4. r[j] \in Int /\ Abs(r[j]) < Q
    BY <1>6, <1>7 DEF Below
  <2> QED BY <2>3, <2>4, QNatural DEF Abs
<1>10. \A j \in Index : Abs(r[j]) < Q
  BY <1>7 DEF Below
<1> QED BY <1>8, <1>9, <1>10

LEMMA MeantInvariance == NttSpec => [](Inv /\ Meant)
<1>1. NttInit => Inv /\ Meant
  BY InitInv, InitMeant
<1>2. Inv /\ Meant /\ [NttNext]_nttVars => Inv' /\ Meant'
  <2> SUFFICES ASSUME Inv, Meant, [NttNext]_nttVars PROVE Inv' /\ Meant'
    OBVIOUS
  <2>1. CASE NttBlock
    BY <2>1, NttBlockInv, NttBlockMeant
  <2>2. CASE InvNttBlock
    BY <2>2, InvNttBlockInv, InvNttBlockMeant
  <2>3. CASE Scale
    BY <2>3, ScaleInv, ScaleMeant
  <2>4. CASE PointwiseMul
    BY <2>4, PointwiseInv, PointwiseMeant
  <2>5. CASE Accumulate
    BY <2>5, AccumulateInv, AccumulateMeant
  <2>6. CASE Add
    BY <2>6, AddInv, AddMeant
  <2>7. CASE Sub
    BY <2>7, SubInv, SubMeant
  <2>8. CASE ShiftL
    BY <2>8, ShiftLInv, ShiftLMeant
  <2>9. CASE Reduce
    BY <2>9, ReduceInv, ReduceMeant
  <2>10. CASE CAdd
    BY <2>10, CAddInv, CAddMeant
  <2>11. CASE UNCHANGED nttVars
    BY <2>11, StutterInv, StutterMeant
  <2> QED BY <2>1, <2>2, <2>3, <2>4, <2>5, <2>6, <2>7, <2>8, <2>9, <2>10, <2>11 DEF NttNext
<1> QED BY <1>1, <1>2, PTL DEF NttSpec

\* What key generation, signing and verification compute with the transforms
\* of poly.c and the Montgomery multiplications of reduce.h is exactly the sum
\* of products in the ring of polynomials modulo X^N + 1 and Q that the standard
\* names, canonical or within the range of mld_reduce32 where the code relies on
\* it, and the matrix is multiplied with transforms in the standard's order:
\* for every input, and for every length, modulus and table of twiddle factors
\* the assumptions allow.
THEOREM ProductsExact == NttSpec => []ResultExact
<1>1. Inv /\ Meant => ResultExact
  BY MeantExact, MeantStandard DEF ResultExact
<1> QED BY <1>1, MeantInvariance, PTL
=============================================================================
