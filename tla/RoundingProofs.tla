--------------------------- MODULE RoundingProofs ---------------------------
(***************************************************************************)
(* Proofs about Rounding for every coefficient of w, c s2 and c t0.        *)
(*                                                                         *)
(* The high and the low bits of a coefficient are determined by an         *)
(* interval: IsSplit.  mld_decompose, the AVX2 kernels and FIPS 204 each   *)
(* compute such a pair, and there is only one: hence DecomposeExact.       *)
(* That the norm checks decide as specified follows since mld_reduce32     *)
(* leaves representatives of small values alone (ReduceSmall), and that    *)
(* the hint restores the high bits, since c t0 moves a coefficient at most *)
(* into the next interval (HintRestores).                                  *)
(***************************************************************************)
EXTENDS Rounding, TLAPS

\* h and l are high and low bits of a.
IsSplit(a, h, l) ==
  /\ h \in 0 .. TopHigh /\ l \in Int
  /\ \/ l = a - 2 * GAMMA2 * h /\ -GAMMA2 < l /\ l =< GAMMA2
     \/ h = 0 /\ l = a - Q /\ -GAMMA2 =< l /\ l < 0

-----------------------------------------------------------------------------
(* The functions.                                                          *)

LEMMA SplitsAgree ==
  ASSUME set \in {44, 65, 87}, NEW a, Canonical(a),
         NEW h, NEW l, IsSplit(a, h, l), NEW k, NEW m, IsSplit(a, k, m)
  PROVE  h = k /\ l = m
<1>1. CASE set = 44
  BY <1>1, SMT DEF IsSplit, Canonical, TopHigh, GAMMA2, Q
<1>2. CASE set # 44
  BY <1>2, SMT DEF IsSplit, Canonical, TopHigh, GAMMA2, Q
<1> QED BY <1>1, <1>2

\* Multiplication and shift stay within half an interval of the division.
LEMMA HighNearest ==
  ASSUME set \in {44, 65, 87}, NEW a, Canonical(a)
  PROVE  /\ High(a) \in 0 .. TopHigh
         /\ \/ /\ 2 * GAMMA2 * High(a) - GAMMA2 < a
               /\ a =< 2 * GAMMA2 * High(a) + GAMMA2
            \/ High(a) = 0 /\ a > Q - 1 - GAMMA2
<1>1. CASE set = 44
  BY <1>1, SMT DEF High, Canonical, TopHigh, GAMMA2, Q
<1>2. CASE set # 44
  BY <1>2, SMT DEF High, Canonical, TopHigh, GAMMA2, Q
<1> QED BY <1>1, <1>2

LEMMA CodeSplits ==
  ASSUME set \in {44, 65, 87}, NEW a, Canonical(a)
  PROVE  IsSplit(a, High(a), Low(a))
<1> DEFINE h == High(a)
           d == a - h * 2 * GAMMA2
<1>1. /\ h \in 0 .. TopHigh /\ d \in Int
      /\ \/ -GAMMA2 < d /\ d =< GAMMA2
         \/ h = 0 /\ a > Q - 1 - GAMMA2
  BY HighNearest, SMT DEF Canonical, TopHigh, GAMMA2
<1>2. Low(a) = IF (Q - 1) \div 2 - d < 0 THEN d - Q ELSE d
  BY DEF Low
<1> HIDE DEF h
<1>3. ASSUME NEW g \in {95232, 261888}, GAMMA2 = g
      PROVE  IsSplit(a, h, Low(a))
  <2> DEFINE e == a - h * 2 * g
  <2>1. e = d /\ e \in Int
    BY <1>1, <1>3
  <2>2. CASE -g < e /\ e =< g
    <3>1. Low(a) = e
      BY <1>2, <2>1, <2>2, SMT DEF Q
    <3> QED BY <1>1, <1>3, <2>1, <2>2, <3>1, SMT DEF IsSplit, Canonical
  <2>3. CASE h = 0 /\ a > Q - 1 - g
    <3>1. Low(a) = a - Q
      BY <1>2, <1>3, <2>1, <2>3, SMT DEF Canonical, Q
    <3> QED BY <1>1, <1>3, <2>3, <3>1, SMT DEF IsSplit, Canonical, Q
  <2> QED BY <1>1, <1>3, <2>1, <2>2, <2>3
<1>5. IsSplit(a, h, Low(a))
  BY <1>3 DEF GAMMA2
<1> QED BY <1>5 DEF h

LEMMA StandardSplits ==
  ASSUME set \in {44, 65, 87}, NEW a, Canonical(a)
  PROVE  IsSplit(a, HighBits(a), LowBits(a))
<1>1. CASE set = 44
  BY <1>1, SMT DEF IsSplit, HighBits, LowBits, CentredMod, Canonical, TopHigh,
                   GAMMA2, Q
<1>2. CASE set # 44
  BY <1>2, SMT DEF IsSplit, HighBits, LowBits, CentredMod, Canonical, TopHigh,
                   GAMMA2, Q
<1> QED BY <1>1, <1>2

\* mld_decompose computes what FIPS 204 defines, for each element of the field.
THEOREM DecomposeIsExact ==
  ASSUME set \in {44, 65, 87}, NEW a, Canonical(a)
  PROVE  High(a) = HighBits(a) /\ Low(a) = LowBits(a)
BY CodeSplits, StandardSplits, SplitsAgree

\* Two multiplications by the kernels' constants find the same interval, the one
\* beyond the last of them in the wrapping part below Q.
LEMMA QuotientOfKernel ==
  ASSUME set \in {44, 65, 87}, NEW a, Canonical(a)
  PROVE  /\ f1(a) \in 0 .. TopHigh + 1
         /\ IF a > WrapsAbove
              THEN f1(a) = TopHigh + 1
              ELSE /\ f1(a) =< TopHigh
                   /\ 2 * GAMMA2 * f1(a) - GAMMA2 < a
                   /\ a =< 2 * GAMMA2 * f1(a) + GAMMA2
<1>1. CASE set = 44
  BY <1>1, SMTT(60) DEF f1, Canonical, WrapsAbove, TopHigh, GAMMA2, Q
<1>2. CASE set # 44
  BY <1>2, SMTT(60) DEF f1, Canonical, WrapsAbove, TopHigh, GAMMA2, Q
<1> QED BY <1>1, <1>2

LEMMA KernelSplits ==
  ASSUME set \in {44, 65, 87}, NEW a, Canonical(a)
  PROVE  IsSplit(a, High_avx2(a, WrapsAbove), Low_avx2(a, WrapsAbove))
<1> DEFINE f == f1(a)
<1>1. /\ f \in 0 .. TopHigh + 1
      /\ IF a > WrapsAbove
           THEN f = TopHigh + 1
           ELSE /\ f =< TopHigh
                /\ 2 * GAMMA2 * f - GAMMA2 < a /\ a =< 2 * GAMMA2 * f + GAMMA2
  BY QuotientOfKernel
<1>2. /\ High_avx2(a, WrapsAbove) = IF a > WrapsAbove THEN 0 ELSE f
      /\ Low_avx2(a, WrapsAbove)
           = a - f * 2 * GAMMA2 - IF a > WrapsAbove THEN 1 ELSE 0
  BY DEF High_avx2, Low_avx2, Above
<1> HIDE DEF f
<1>3. CASE set = 44
  BY <1>1, <1>2, <1>3, SMT DEF IsSplit, Canonical, WrapsAbove, TopHigh, GAMMA2, Q
<1>4. CASE set # 44
  BY <1>1, <1>2, <1>4, SMT DEF IsSplit, Canonical, WrapsAbove, TopHigh, GAMMA2, Q
<1> QED BY <1>3, <1>4

\* The AVX2 kernels decompose each element of the field as mld_decompose does.
THEOREM DecomposeKernelExact ==
  ASSUME set \in {44, 65, 87}, NEW a, Canonical(a)
  PROVE  /\ High_avx2(a, WrapsAbove) = High(a)
         /\ Low_avx2(a, WrapsAbove) = Low(a)
BY CodeSplits, KernelSplits, SplitsAgree

\* The AVX2 kernels use a hint as mld_use_hint does, although the bound of the
\* one for 65 and 87 is beyond Q.
THEOREM UseHintKernelExact ==
  ASSUME set \in {44, 65, 87}, NEW a, Canonical(a), NEW h \in {0, 1}
  PROVE  use_hint_avx2(a, h) = use_hint(a, h)
<1> DEFINE f == f1(a)
           g == High(a)
           l == Low(a)
<1>1. /\ f \in 0 .. TopHigh + 1
      /\ IF a > WrapsAbove THEN f = TopHigh + 1 ELSE f =< TopHigh
  BY QuotientOfKernel
<1>2. /\ g = IF a > WrapsAbove THEN 0 ELSE f
      /\ l = a - f * 2 * GAMMA2 - IF a > WrapsAbove THEN 1 ELSE 0
  BY DecomposeKernelExact DEF High_avx2, Low_avx2, Above
<1>3. use_hint(a, h) = IF h = 0 THEN g
                       ELSE IF l > 0 THEN IF g = TopHigh THEN 0 ELSE g + 1
                       ELSE IF g = 0 THEN TopHigh ELSE g - 1
  BY DEF use_hint
<1>4. CASE set = 44
  <2>1. use_hint_avx2(a, h) =
          LET t == g + IF l > 0 THEN h ELSE -h
          IN  IF t < 0 THEN 43 ELSE IF t > 43 THEN 0 ELSE t
    BY <1>4, DecomposeKernelExact DEF use_hint_avx2, WrapsAbove, HintWrapsAbove
  <2>2. g \in 0 .. 43
    BY <1>1, <1>2, <1>4, SMT DEF TopHigh
  <2> HIDE DEF g, l
  <2> QED BY <1>3, <1>4, <2>1, <2>2, SMT DEF TopHigh
<1>5. CASE set # 44
  <2> DEFINE d == a - f * 2 * GAMMA2
  <2>1. ~(a > HintWrapsAbove)
    BY <1>5, SMT DEF Canonical, HintWrapsAbove, GAMMA2, Q
  <2>2. use_hint_avx2(a, h) = (f + IF d > 0 THEN h ELSE -h) % 16
    <3>1. /\ High_avx2(a, HintWrapsAbove) = f
          /\ Low_avx2(a, HintWrapsAbove) = d - 0
      BY <2>1 DEF High_avx2, Low_avx2, Above
    <3>2. d - 0 = d
      BY <1>1, <1>5, SMT DEF Canonical, GAMMA2, TopHigh
    <3> QED BY <1>5, <3>1, <3>2 DEF use_hint_avx2
  <2>3. /\ d \in Int
        /\ \/ f = 16 /\ g = 0 /\ l =< 0 /\ d =< 0
           \/ f \in 0 .. 15 /\ g = f /\ l = d
    BY <1>1, <1>2, <1>5, SMT DEF Canonical, WrapsAbove, GAMMA2, TopHigh, Q
  <2>4. TopHigh = 15 /\ l \in Int
    BY <1>1, <1>2, <1>5, SMT DEF Canonical, WrapsAbove, GAMMA2, TopHigh, Q
  <2> HIDE DEF f, g, l, d
  <2>5. CASE f = 16 /\ g = 0 /\ l =< 0 /\ d =< 0
    BY <1>3, <2>2, <2>3, <2>4, <2>5, SMT
  <2>6. CASE f \in 0 .. 15 /\ g = f /\ l = d
    BY <1>3, <2>2, <2>3, <2>4, <2>6, SMT
  <2> QED BY <2>3, <2>5, <2>6
<1> QED BY <1>4, <1>5

\* mld_reduce32 finds a small value in any of its representatives.
LEMMA ReduceSmall ==
  ASSUME NEW v \in Int, Small(v, 300000), NEW k \in -2 .. 2
  PROVE  reduce32(v + k * Q) = v
BY SMT DEF Small, reduce32, Q

\* And it always gives a representative.
LEMMA ReduceCongruent ==
  ASSUME NEW x \in Int, -2 * Q < x, x < 2 * Q
  PROVE  \E k \in -3 .. 3 : reduce32(x) = x + k * Q
BY SMT DEF reduce32, Q

LEMMA ModCanonical ==
  ASSUME NEW x \in Int
  PROVE  Canonical(x % Q) /\ \E k \in Int : x = (x % Q) + k * Q
BY SMT DEF Canonical, Q

-----------------------------------------------------------------------------
(* The norm checks and the hint.                                           *)

\* A value of less than GAMMA2 beside the multiple of the high bits is the low
\* bits of what is there, modulo Q.
LEMMA SplitBeside ==
  ASSUME set \in {44, 65, 87}, NEW u, Canonical(u), NEW h \in 0 .. TopHigh,
         NEW l \in Int, Small(l, GAMMA2),
         NEW k \in Int, 2 * GAMMA2 * h + l = u + k * Q
  PROVE  IsSplit(u, h, l)
<1>1. CASE set = 44
  BY <1>1, SMT DEF IsSplit, Canonical, Small, TopHigh, GAMMA2, Q
<1>2. CASE set # 44
  BY <1>2, SMT DEF IsSplit, Canonical, Small, TopHigh, GAMMA2, Q
<1> QED BY <1>1, <1>2

LEMMA SplitCongruent ==
  ASSUME set \in {44, 65, 87}, NEW u, Canonical(u), NEW h, NEW l, IsSplit(u, h, l)
  PROVE  \E k \in {0, -1} : 2 * GAMMA2 * h + l = u + k * Q
BY SMT DEF IsSplit, Canonical, GAMMA2, Q

\* The hint tells the direction: the verifier finds h again.
LEMMA HintRestores ==
  ASSUME set \in {44, 65, 87}, NEW u, Canonical(u), NEW v, Canonical(v),
         NEW h, NEW l, IsSplit(u, h, l), Small(l, GAMMA2 - BETA),
         NEW t \in Int, Small(t, GAMMA2), NEW k \in Int, v = u + t + k * Q
  PROVE  /\ make_hint(l + t, h) = 1 <=> High(v) # h
         /\ use_hint(v, make_hint(l + t, h)) = h
<1> DEFINE g == High(v)
           m == Low(v)
<1>1. IsSplit(v, g, m)
  BY CodeSplits
<1> HIDE DEF g, m
<1>2. make_hint(l + t, h) \in {0, 1}
  BY DEF make_hint
<1>3. PICK j \in -2 .. 2 : 2 * GAMMA2 * g + m = 2 * GAMMA2 * h + l + t + j * Q
  <2>1. k \in -1 .. 1
    BY SMT DEF Canonical, Small, GAMMA2, Q
  <2>2. CASE set = 44
    BY <1>1, <2>1, <2>2, SMT DEF IsSplit, Canonical, GAMMA2, Q
  <2>3. CASE set # 44
    BY <1>1, <2>1, <2>3, SMT DEF IsSplit, Canonical, GAMMA2, Q
  <2> QED BY <2>2, <2>3
<1>4. /\ make_hint(l + t, h) = 1 <=> g # h
      /\ m > 0 /\ g # h => h = IF g = TopHigh THEN 0 ELSE g + 1
      /\ m =< 0 /\ g # h => h = IF g = 0 THEN TopHigh ELSE g - 1
  <2>1. CASE set = 44
    <3>1. /\ g \in 0 .. 43 /\ h \in 0 .. 43 /\ m \in Int /\ l \in Int
          /\ -95232 =< m /\ m =< 95232 /\ (m = -95232 => g = 0)
          /\ -95154 < l /\ l < 95154 /\ -95232 < t /\ t < 95232
      BY <1>1, <2>1, SMT DEF IsSplit, Small, TopHigh, GAMMA2, BETA
    <3>2. 190464 * g + m = 190464 * h + l + t + j * Q
      BY <1>3, <2>1, SMT DEF GAMMA2
    <3>3. PICK d \in -1 .. 1 : g - h = 44 * j + d /\ m = l + t + j - 190464 * d
      BY <3>1, <3>2, SMT DEF Q
    <3> QED BY <2>1, <3>1, <3>3, SMT DEF make_hint, TopHigh, GAMMA2
  <2>2. CASE set # 44
    BY <1>1, <1>3, <2>2, SMT DEF IsSplit, Canonical, Small, make_hint, TopHigh,
                                 GAMMA2, BETA, Q
  <2> QED BY <2>1, <2>2
<1> QED BY <1>1, <1>2, <1>4, SMT DEF use_hint, IsSplit, g, m

-----------------------------------------------------------------------------
(* The inductive invariant.                                                *)

\* The coefficient w - c s2.
Less == (w - cs2) % Q

Inv ==
  /\ TypeOK
  /\ phase \in {"reduced", "signed", "verified"} => -BETA =< cs2 /\ cs2 =< BETA
  /\ phase = "decomposed" => IsSplit(w, w1, w0)
  /\ phase = "reduced" =>
       IsSplit(Less, w1, w0) /\ Small(w0, GAMMA2 - BETA)
  /\ phase \in {"signed", "verified"} =>
       /\ Small(ct0, GAMMA2)
       /\ IsSplit(Less, w1, w0 - ct0) /\ Small(w0 - ct0, GAMMA2 - BETA)
       /\ hint = make_hint(w0, w1)
  /\ phase = "verified" => recovered = w1
  /\ phase = "rejected" =>
       ~Small(LowBits(Less), GAMMA2 - BETA) \/ ~Small(ct0, GAMMA2)

\* The set is never changed, and one of three.
LEMMA SetIn == TypeOK => set \in {44, 65, 87}
BY RoundingAssumption DEF TypeOK

LEMMA Limits ==
  ASSUME set \in {44, 65, 87}
  PROVE  /\ GAMMA2 \in {95232, 261888} /\ BETA \in {78, 120, 196}
         /\ TopHigh \in {43, 15}
BY DEF GAMMA2, BETA, TopHigh

LEMMA ReduceRange ==
  ASSUME NEW x \in Int, -2 * Q < x, x < 2 * Q
  PROVE  reduce32(x) \in Int /\ -Q < reduce32(x) /\ reduce32(x) < Q
BY SMT DEF reduce32, Q

LEMMA NormChecked ==
  ASSUME NEW x \in Int, NEW bound \in Int
  PROVE  ChkNorm(x, bound) <=> ~Small(x, bound)
BY SMT DEF ChkNorm, Small

LEMMA RepresentativeIs ==
  ASSUME NEW x \in Int, NEW y \in Representatives(x)
  PROVE  /\ y \in Int /\ -Q < y /\ y < Q
         /\ \E k \in -1 .. 1 : y = x + k * Q
BY SMT DEF Representatives, Q

\* The check of w0 - c s2 decides as that of the low bits of w - c s2.
LEMMA LowCheckExact ==
  ASSUME set \in {44, 65, 87}, Canonical(w), IsSplit(w, w1, w0),
         NEW e \in Int, -BETA =< e, e =< BETA, NEW y \in Representatives(e)
  PROVE  LET r == reduce32(w0 - y)
             u == (w - e) % Q
         IN  /\ r \in Int /\ -Q < r /\ r < Q
             /\ Small(r, GAMMA2 - BETA) => IsSplit(u, w1, r)
             /\ ~Small(r, GAMMA2 - BETA) => ~Small(LowBits(u), GAMMA2 - BETA)
<1> DEFINE r == reduce32(w0 - y)
           u == (w - e) % Q
<1>1. PICK k \in -1 .. 1 : y = e + k * Q
  BY RepresentativeIs
<1>2. /\ w0 \in Int /\ w1 \in 0 .. TopHigh /\ -GAMMA2 =< w0 /\ w0 =< GAMMA2
      /\ w \in Int /\ y \in Int /\ -Q < y /\ y < Q
  BY RepresentativeIs, SMT DEF IsSplit, Canonical, GAMMA2
<1>3. -2 * Q < w0 - y /\ w0 - y < 2 * Q
  BY <1>2, Limits, SMT DEF Q
<1>4. PICK j \in -3 .. 3 : r = w0 - y + j * Q
  BY <1>2, <1>3, ReduceCongruent
<1>5. r \in Int /\ -Q < r /\ r < Q
  BY <1>2, <1>3, ReduceRange
<1>6. Canonical(u) /\ \E i \in Int : w - e = u + i * Q
  BY <1>2, ModCanonical
<1>7. PICK i \in Int : w - e = u + i * Q
  BY <1>6
<1>8. PICK n \in {0, -1} : 2 * GAMMA2 * w1 + w0 = w + n * Q
  BY SplitCongruent
<1> HIDE DEF r, u
<1>9. ASSUME Small(r, GAMMA2 - BETA)
      PROVE  IsSplit(u, w1, r)
  <2>1. Small(r, GAMMA2)
    BY <1>5, <1>9, Limits, SMT DEF Small
  <2>2. 2 * GAMMA2 * w1 + r = u + (i + n + j - k) * Q
    BY <1>1, <1>2, <1>4, <1>6, <1>7, <1>8, Limits, SMT DEF Canonical, Q
  <2> QED BY <1>2, <1>5, <1>6, <2>1, <2>2, SplitBeside
<1>10. ASSUME Small(LowBits(u), GAMMA2 - BETA)
       PROVE  Small(r, GAMMA2 - BETA)
  <2> DEFINE h == HighBits(u)
             l == LowBits(u)
  <2>1. IsSplit(u, h, l)
    BY <1>6, StandardSplits
  <2>2. PICK o \in {0, -1} : 2 * GAMMA2 * h + l = u + o * Q
    BY <1>6, <2>1, SplitCongruent
  <2>3. h \in 0 .. TopHigh /\ l \in Int
    BY <2>1 DEF IsSplit
  <2> HIDE DEF h, l
  <2>4. Small(l + e, GAMMA2) /\ l + e \in Int
    BY <1>10, <2>3, Limits, SMT DEF Small, l
  <2>5. 2 * GAMMA2 * h + (l + e) = w + (o - i) * Q
    BY <1>2, <1>6, <1>7, <2>2, <2>3, Limits, SMT DEF Canonical, Q
  <2>6. IsSplit(w, h, l + e)
    BY <2>3, <2>4, <2>5, SplitBeside
  <2>7. w0 = l + e
    BY <2>6, SplitsAgree
  <2>8. w0 - y = l + (-k) * Q
    BY <1>1, <2>3, <2>7, SMT DEF Q
  <2>9. Small(l, 300000)
    BY <1>10, <2>3, Limits, SMT DEF Small, l
  <2>10. r = l
    BY <2>3, <2>8, <2>9, ReduceSmall, -k \in -2 .. 2 DEF r
  <2> QED BY <1>10, <2>10 DEF l
<1> QED BY <1>5, <1>9, <1>10 DEF r, u

\* c t0 is added to w - c s2; the hint and the verifier follow.
LEMMA AddExact ==
  ASSUME set \in {44, 65, 87}, NEW t \in Int, -Q < 2 * t, 2 * t < Q,
         NEW y \in Representatives(t)
  PROVE  /\ Small(reduce32(y), GAMMA2) <=> Small(t, GAMMA2)
         /\ Small(t, GAMMA2) => reduce32(y) = t
<1>1. PICK k \in -1 .. 1 : y = t + k * Q
  BY RepresentativeIs
<1>2. y \in Int /\ -Q < y /\ y < Q
  BY RepresentativeIs
<1>3. PICK j \in -3 .. 3 : reduce32(y) = y + j * Q
  BY <1>2, ReduceCongruent, SMT DEF Q
<1>4. Small(t, GAMMA2) => reduce32(y) = t
  <2>1. Small(t, GAMMA2) => Small(t, 300000)
    BY Limits, SMT DEF Small
  <2> QED BY <1>1, <2>1, ReduceSmall
<1>5. Small(reduce32(y), GAMMA2) => Small(t, GAMMA2)
  BY <1>1, <1>2, <1>3, Limits, SMT DEF Small, Q
<1> QED BY <1>4, <1>5

LEMMA InitInv == Init => Inv
<1> SUFFICES ASSUME Init PROVE Inv
  OBVIOUS
<1>1. set \in {44, 65, 87} /\ TypeOK
  BY RoundingAssumption, SMT DEF Init, TypeOK, Canonical, TopHigh, Q
<1> QED BY <1>1 DEF Init, Inv

LEMMA DecomposeInv == Inv /\ Decompose => Inv'
<1> SUFFICES ASSUME Inv, Decompose PROVE Inv'
  OBVIOUS
<1> set \in {44, 65, 87}
  BY SetIn DEF Inv
<1>1. PICK x \in Ws : \E y \in Representatives(x) : w' = caddq(y)
  BY DEF Decompose
<1>2. PICK y \in Representatives(x) : w' = caddq(y)
  BY <1>1
<1>3. Canonical(w')
  BY <1>2, RepresentativeIs, RoundingAssumption, SMT DEF Canonical, caddq, Q
<1>4. IsSplit(w', w1', w0')
  <2>1. CASE w1' = High(w') /\ w0' = Low(w')
    BY <1>3, <2>1, CodeSplits
  <2>2. CASE /\ w1' = High_avx2(w', WrapsAbove)
             /\ w0' = Low_avx2(w', WrapsAbove)
    BY <1>3, <2>2, KernelSplits
  <2> QED BY <2>1, <2>2 DEF Decompose
<1>5. set' = set /\ phase' = "decomposed" /\ UNCHANGED <<cs2, ct0, hint, recovered>>
  BY DEF Decompose
<1>6. IsSplit(w, w1, w0)'
  BY <1>4, <1>5 DEF IsSplit, TopHigh, GAMMA2
<1>7. TypeOK'
  <2>1. w0' \in Int /\ -Q < w0' /\ w0' < Q /\ w1' \in 0 .. TopHigh
    BY <1>4, Limits, SMT DEF IsSplit, Q
  <2> QED BY <1>3, <1>5, <2>1 DEF Inv, TypeOK, TopHigh, Canonical
<1> QED BY <1>5, <1>6, <1>7 DEF Inv

LEMMA SubtractInv == Inv /\ SubtractCS2 => Inv'
<1> SUFFICES ASSUME Inv, SubtractCS2 PROVE Inv'
  OBVIOUS
<1> set \in {44, 65, 87}
  BY SetIn DEF Inv
<1>1. PICK e \in CS2s : \E y \in Representatives(e) :
        /\ -BETA =< e /\ e =< BETA /\ cs2' = e /\ w0' = reduce32(w0 - y)
        /\ phase' = IF ChkNorm(w0', GAMMA2 - BETA) THEN "rejected" ELSE "reduced"
  BY DEF SubtractCS2
<1>2. PICK y \in Representatives(e) :
        /\ -BETA =< e /\ e =< BETA /\ cs2' = e /\ w0' = reduce32(w0 - y)
        /\ phase' = IF ChkNorm(w0', GAMMA2 - BETA) THEN "rejected" ELSE "reduced"
  BY <1>1
<1>3. /\ phase = "decomposed" /\ UNCHANGED <<set, w, ct0, w1, hint, recovered>>
      /\ IsSplit(w, w1, w0) /\ Canonical(w) /\ e \in Int
  BY RoundingAssumption DEF SubtractCS2, Inv, TypeOK
<1>4. /\ w0' \in Int /\ -Q < w0' /\ w0' < Q
      /\ Small(w0', GAMMA2 - BETA) => IsSplit((w - e) % Q, w1, w0')
      /\ ~Small(w0', GAMMA2 - BETA) =>
           ~Small(LowBits((w - e) % Q), GAMMA2 - BETA)
  BY <1>2, <1>3, LowCheckExact
<1>5. ChkNorm(w0', GAMMA2 - BETA) <=> ~Small(w0', GAMMA2 - BETA)
  BY <1>4, Limits, NormChecked
<1>6. TypeOK'
  BY <1>2, <1>3, <1>4 DEF Inv, TypeOK, TopHigh, Canonical
<1>7. /\ Less' = (w - e) % Q
      /\ LowBits(Less)' = LowBits((w - e) % Q)
      /\ IsSplit(Less, w1, w0)' = IsSplit((w - e) % Q, w1, w0')
      /\ Small(w0, GAMMA2 - BETA)' = Small(w0', GAMMA2 - BETA)
      /\ (GAMMA2 - BETA)' = GAMMA2 - BETA /\ BETA' = BETA
  BY <1>2, <1>3 DEF Less, LowBits, CentredMod, IsSplit, Small, GAMMA2, BETA, TopHigh
<1>8. CASE Small(w0', GAMMA2 - BETA)
  <2>1. phase' = "reduced"
    BY <1>2, <1>5, <1>8
  <2> QED BY <1>2, <1>4, <1>6, <1>7, <1>8, <2>1 DEF Inv
<1>9. CASE ~Small(w0', GAMMA2 - BETA)
  <2>1. phase' = "rejected"
    BY <1>2, <1>5, <1>9
  <2>2. (~Small(LowBits(Less), GAMMA2 - BETA))'
    BY <1>4, <1>7, <1>9 DEF Small
  <2> QED BY <1>6, <2>1, <2>2 DEF Inv
<1> QED BY <1>8, <1>9

LEMMA AddInv == Inv /\ AddCT0 => Inv'
<1> SUFFICES ASSUME Inv, AddCT0 PROVE Inv'
  OBVIOUS
<1> set \in {44, 65, 87}
  BY SetIn DEF Inv
<1> DEFINE Adds(t, y) ==
       /\ -Q < 2 * t /\ 2 * t < Q /\ ct0' = t
       /\ IF ChkNorm(reduce32(y), GAMMA2)
            THEN phase' = "rejected" /\ UNCHANGED <<w0, hint>>
            ELSE /\ w0' = w0 + reduce32(y)
                 /\ hint' = make_hint(w0', w1)
                 /\ phase' = "signed"
<1>1. PICK t \in CT0s : \E y \in Representatives(t) : Adds(t, y)
  BY DEF AddCT0
<1>2. PICK y \in Representatives(t) : Adds(t, y)
  BY <1>1
<1>3. /\ phase = "reduced" /\ UNCHANGED <<set, w, cs2, w1, recovered>>
      /\ IsSplit(Less, w1, w0) /\ Small(w0, GAMMA2 - BETA)
      /\ -BETA =< cs2 /\ cs2 =< BETA
      /\ t \in Int /\ w0 \in Int /\ TypeOK
  BY RoundingAssumption DEF AddCT0, Inv, TypeOK
<1>4. y \in Int /\ reduce32(y) \in Int
  <2>1. y \in Int /\ -Q < y /\ y < Q
    BY <1>3, RepresentativeIs
  <2> QED BY <2>1, ReduceRange, SMT DEF Q
<1>5. /\ Small(reduce32(y), GAMMA2) <=> Small(t, GAMMA2)
      /\ Small(t, GAMMA2) => reduce32(y) = t
  BY <1>2, <1>3, AddExact
<1>6. ChkNorm(reduce32(y), GAMMA2) <=> ~Small(t, GAMMA2)
  BY <1>4, <1>5, Limits, NormChecked
<1>7. /\ Less' = Less /\ GAMMA2' = GAMMA2 /\ BETA' = BETA /\ TopHigh' = TopHigh
  BY <1>3 DEF Less, IsSplit, GAMMA2, BETA, TopHigh
<1>8. CASE ~Small(t, GAMMA2)
  <2>1. phase' = "rejected" /\ UNCHANGED <<w0, hint>> /\ ct0' = t
    BY <1>2, <1>6, <1>8
  <2>2. TypeOK'
    BY <1>3, <2>1 DEF TypeOK, TopHigh, Canonical
  <2>3. (~Small(ct0, GAMMA2))'
    BY <1>7, <1>8, <2>1 DEF Small
  <2> QED BY <2>1, <2>2, <2>3 DEF Inv
<1>9. CASE Small(t, GAMMA2)
  <2>1. /\ phase' = "signed" /\ w0' = w0 + t /\ ct0' = t
        /\ hint' = make_hint(w0', w1)
    BY <1>2, <1>5, <1>6, <1>9
  <2>2. w0' - ct0' = w0
    BY <1>3, <2>1
  <2>3. TypeOK'
    <3>1. w0' \in Int /\ -Q < w0' /\ w0' < Q
      BY <1>3, <1>9, <2>1, Limits, SMT DEF Small, Q
    <3>2. hint' \in {0, 1}
      BY <2>1 DEF make_hint
    <3> QED BY <1>3, <2>1, <3>1, <3>2 DEF TypeOK, TopHigh, Canonical
  <2>4. (Small(ct0, GAMMA2) /\ Small(w0 - ct0, GAMMA2 - BETA))'
    BY <1>3, <1>7, <1>9, <2>1, <2>2 DEF Small
  <2>5. IsSplit(Less, w1, w0 - ct0)'
    BY <1>3, <2>2 DEF IsSplit, Less, GAMMA2, TopHigh
  <2>6. (hint = make_hint(w0, w1))'
    BY <1>3, <2>1 DEF make_hint, GAMMA2
  <2>7. (-BETA =< cs2 /\ cs2 =< BETA)'
    BY <1>3, <1>7
  <2> QED BY <2>1, <2>3, <2>4, <2>5, <2>6, <2>7 DEF Inv
<1> QED BY <1>8, <1>9

\* What the hint does, in a state that has one.
LEMMA HintOfState ==
  ASSUME Inv, phase \in {"signed", "verified"}
  PROVE  /\ hint = 1 <=> HighBits(Reconstructed) # HighBits(Less)
         /\ use_hint(Reconstructed, hint) = w1
<1> set \in {44, 65, 87}
  BY SetIn DEF Inv
<1> DEFINE l == w0 - ct0
<1>1. /\ IsSplit(Less, w1, l) /\ Small(l, GAMMA2 - BETA) /\ Small(ct0, GAMMA2)
      /\ hint = make_hint(w0, w1)
      /\ w \in Int /\ cs2 \in Int /\ ct0 \in Int /\ w0 \in Int
  BY DEF Inv, TypeOK, Canonical
<1>2. /\ Canonical(Less) /\ Canonical(Reconstructed)
      /\ \E k \in Int : Reconstructed = Less + ct0 + k * Q
  <2>1. /\ w - cs2 \in Int /\ w - cs2 + ct0 \in Int
    BY <1>1
  <2>2. Canonical(Less) /\ \E i \in Int : w - cs2 = Less + i * Q
    BY <2>1, ModCanonical DEF Less
  <2>3. /\ Canonical(Reconstructed)
        /\ \E j \in Int : w - cs2 + ct0 = Reconstructed + j * Q
    BY <2>1, ModCanonical DEF Reconstructed
  <2>4. PICK i \in Int : w - cs2 = Less + i * Q
    BY <2>2
  <2>5. PICK j \in Int : w - cs2 + ct0 = Reconstructed + j * Q
    BY <2>3
  <2>6. Reconstructed = Less + ct0 + (i - j) * Q
    BY <1>1, <2>2, <2>3, <2>4, <2>5, SMT DEF Canonical, Q
  <2> QED BY <2>2, <2>3, <2>6
<1>3. PICK k \in Int : Reconstructed = Less + ct0 + k * Q
  BY <1>2
<1>4. l + ct0 = w0
  BY <1>1
<1>5. /\ make_hint(l + ct0, w1) = 1 <=> High(Reconstructed) # w1
      /\ use_hint(Reconstructed, make_hint(l + ct0, w1)) = w1
  <2> HIDE DEF l
  <2> QED BY <1>1, <1>2, <1>3, HintRestores
<1>6. HighBits(Reconstructed) = High(Reconstructed)
  BY <1>2, DecomposeIsExact
<1>7. HighBits(Less) = w1
  BY <1>1, <1>2, StandardSplits, SplitsAgree
<1> QED BY <1>1, <1>4, <1>5, <1>6, <1>7

LEMMA UseHintInv == Inv /\ UseHint => Inv'
<1> SUFFICES ASSUME Inv, UseHint PROVE Inv'
  OBVIOUS
<1>1. /\ phase = "signed" /\ phase' = "verified"
      /\ recovered' = use_hint(Reconstructed, hint)
      /\ UNCHANGED <<set, w, cs2, ct0, w0, w1, hint>>
  <2>1. Canonical(Reconstructed)
    BY ModCanonical DEF Inv, TypeOK, Canonical, Reconstructed
  <2>2. hint \in {0, 1} /\ set \in {44, 65, 87}
    BY SetIn DEF Inv, TypeOK
  <2> QED BY <2>1, <2>2, UseHintKernelExact DEF UseHint
<1>2. recovered' = w1
  BY <1>1, HintOfState
<1>3. TypeOK'
  BY <1>1, <1>2 DEF Inv, TypeOK, TopHigh, Canonical
<1>4. /\ Less' = Less /\ GAMMA2' = GAMMA2 /\ BETA' = BETA /\ TopHigh' = TopHigh
  BY <1>1 DEF Less, GAMMA2, BETA, TopHigh
<1>5. (Small(ct0, GAMMA2) /\ Small(w0 - ct0, GAMMA2 - BETA))'
  BY <1>1, <1>4 DEF Inv, Small
<1>6. IsSplit(Less, w1, w0 - ct0)'
  BY <1>1, <1>4 DEF Inv, IsSplit
<1>7. (hint = make_hint(w0, w1))'
  BY <1>1, <1>4 DEF Inv, make_hint
<1>8. (-BETA =< cs2 /\ cs2 =< BETA)'
  BY <1>1, <1>4 DEF Inv
<1> QED BY <1>1, <1>2, <1>3, <1>5, <1>6, <1>7, <1>8 DEF Inv

LEMMA StutterInv == Inv /\ UNCHANGED vars => Inv'
<1> SUFFICES ASSUME Inv, UNCHANGED vars PROVE Inv'
  OBVIOUS
<1>1. /\ Less' = Less /\ GAMMA2' = GAMMA2 /\ BETA' = BETA /\ TopHigh' = TopHigh
      /\ LowBits(Less)' = LowBits(Less)
      /\ UNCHANGED <<set, phase, w, cs2, ct0, w0, w1, hint, recovered>>
  BY SMT DEF vars, Less, LowBits, CentredMod, GAMMA2, BETA, TopHigh
<1>2. TypeOK'
  BY <1>1, SMT DEF Inv, TypeOK, Canonical
<1>3. /\ IsSplit(w, w1, w0)' = IsSplit(w, w1, w0)
      /\ IsSplit(Less, w1, w0)' = IsSplit(Less, w1, w0)
      /\ IsSplit(Less, w1, w0 - ct0)' = IsSplit(Less, w1, w0 - ct0)
      /\ Small(w0, GAMMA2 - BETA)' = Small(w0, GAMMA2 - BETA)
      /\ Small(w0 - ct0, GAMMA2 - BETA)' = Small(w0 - ct0, GAMMA2 - BETA)
      /\ Small(ct0, GAMMA2)' = Small(ct0, GAMMA2)
      /\ Small(LowBits(Less), GAMMA2 - BETA)' = Small(LowBits(Less), GAMMA2 - BETA)
      /\ make_hint(w0, w1)' = make_hint(w0, w1)
  BY <1>1, SMT DEF IsSplit, Small, make_hint
<1> QED BY <1>1, <1>2, <1>3, SMT DEF Inv

\* The invariant holds in every state, for all coefficients.
THEOREM Invariance == Spec => []Inv
<1>1. Inv /\ [Next]_vars => Inv'
  BY DecomposeInv, SubtractInv, AddInv, UseHintInv, StutterInv DEF Next
<1> QED BY InitInv, <1>1, PTL DEF Spec

-----------------------------------------------------------------------------
(* The properties.                                                         *)

\* Every variable keeps its type: low bits never leave -Q .. Q.
THEOREM TypeCorrect == Spec => []TypeOK
<1>1. Inv => TypeOK
  BY DEF Inv
<1> QED BY <1>1, Invariance, PTL

\* mld_decompose is exact on every coefficient of w.
THEOREM BitsExact == Spec => []DecomposeExact
<1>1. Inv => DecomposeExact
  <2> SUFFICES ASSUME Inv, phase = "decomposed"
               PROVE  w1 = HighBits(w) /\ w0 = LowBits(w)
    BY DEF DecomposeExact
  <2>1. IsSplit(w, w1, w0) /\ Canonical(w) /\ set \in {44, 65, 87}
    BY SetIn DEF Inv, TypeOK
  <2> QED BY <2>1, StandardSplits, SplitsAgree
<1> QED BY <1>1, Invariance, PTL

\* The checks of w0 and c t0 reject exactly what FIPS 204 rejects.
THEOREM RejectionExact == Spec => []RejectsAsSpecified
<1>1. Inv => RejectsAsSpecified
  <2> SUFFICES ASSUME Inv PROVE RejectsAsSpecified
    OBVIOUS
  <2>1. set \in {44, 65, 87} /\ Canonical(Less)
    BY SetIn, ModCanonical DEF Inv, TypeOK, Canonical, Less
  <2>2. ASSUME phase = "reduced"
        PROVE  Small(LowBits(Less), GAMMA2 - BETA)
    BY <2>1, <2>2, StandardSplits, SplitsAgree DEF Inv
  <2>3. ASSUME phase \in {"signed", "verified"}
        PROVE  Small(LowBits(Less), GAMMA2 - BETA) /\ Small(ct0, GAMMA2)
    BY <2>1, <2>3, StandardSplits, SplitsAgree DEF Inv
  <2> QED BY <2>2, <2>3 DEF Inv, RejectsAsSpecified, Less
<1> QED BY <1>1, Invariance, PTL

\* The hint is set exactly where c t0 moves the high bits.
THEOREM HintExact == Spec => []HintAsSpecified
<1>1. Inv => HintAsSpecified
  BY HintOfState DEF HintAsSpecified, Less
<1> QED BY <1>1, Invariance, PTL

\* For every coefficient of w, c s2 and c t0 the verifier restores the high
\* bits that the signer hashed.
THEOREM VerifierRestores == Spec => []VerifierSeesW1
<1>1. Inv => VerifierSeesW1
  BY DEF Inv, VerifierSeesW1
<1> QED BY <1>1, Invariance, PTL
=============================================================================
