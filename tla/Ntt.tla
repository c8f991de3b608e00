-------------------------------- MODULE Ntt --------------------------------
(***************************************************************************)
(* Products in the ring of polynomials modulo X^N + 1 and Q, as signing,   *)
(* verification and key generation compute them: the number theoretic      *)
(* transform and its inverse (poly.c), block of butterflies by block,      *)
(* Montgomery multiplication (reduce.h), and the operations around them    *)
(* (poly.c, polyvec.c) in the order in which sign.c calls them.            *)
(*                                                                         *)
(* Nothing is reduced between the layers: the coefficients of a transform  *)
(* grow by Q a layer, those of its inverse double.  int32_t holds them     *)
(* because N * Q is below 2^31, the modulus R of Montgomery's reduction    *)
(* being 2^32.                                                             *)
(***************************************************************************)
EXTENDS Integers, Sequences

CONSTANTS
  N, Layers,        \* MLDSA_N = 256 coefficients, 8 layers of butterflies
  Q, QBits,         \* MLDSA_Q, 23 bits
  R, QINV,          \* 2^32 and the inverse of Q modulo R
  D,                \* MLDSA_D
  L,                \* MLDSA_L, polynomials of a vector
  Root,             \* a primitive root of unity of order 2 N: 1753
  zetas,            \* mld_zetas
  f,                \* R^2 / N modulo Q
  Inputs            \* polynomials to compute with

Index == 0 .. N - 1
Half == (Q + 1) \div 2            \* MLDSA_Q_HALF

Word == -(R \div 2) .. (R \div 2) - 1          \* int32_t
Polynomial == [Index -> Word]

\* A polynomial is named by the variable it is in; that of a vector is
\* followed by its place.
Single(x) == <<x, 1>>
Vector(i) == <<"v", i>>
Names == {Single(x) : x \in {"c", "t", "e", "h", "w"}} \cup {Vector(i) : i \in 1 .. L}

Abs(x) == IF x < 0 THEN -x ELSE x
Below(r, indices, bound) == \A j \in indices : Abs(r[j]) < bound

ASSUME NttAssumption ==
  /\ Layers \in Nat \ {0} /\ N = 2 ^ Layers /\ L \in Nat \ {0} /\ D \in Nat
  /\ Q \in Nat /\ R \in Nat /\ R % 2 = 0 /\ QBits \in Nat \ {0} /\ QINV \in Nat
  /\ (QINV * Q) % R = 1
  /\ zetas \in [Index -> 1 - Half .. Half - 1]
  /\ f \in 1 - Half .. Half - 1 /\ (f * N - R * R) % Q = 0

\* What the lengths of the code's integers rest on: coefficients within the
\* inverse transform, the product of two transforms, and the inner product of
\* a row of the matrix with a transform fit; and Q is so close below a power of
\* two that mld_reduce32 brings what is below 2 Q below Q.
ASSUME RangeAssumption ==
  /\ 2 * N * Q =< R
  /\ 2 * (Layers + 1) * (Layers + 1) * Q =< R
  /\ 2 * L * (Layers + 1) * Q =< R
  /\ Q < 2 ^ QBits /\ 5 * 2 ^ QBits < 6 * Q

\* What the callers have: a matrix of residues, and polynomials below Q.
ASSUME InputAssumption ==
  \A x \in Inputs :
    /\ x.mat \in [1 .. L -> [Index -> 0 .. Q - 1]]
    /\ x.poly \in [Names -> Polynomial]
    /\ \A p \in Names : Below(x.poly[p], Index, Q)

\* N >> layer
Span(layer) == N \div (2 ^ layer)

-----------------------------------------------------------------------------
(* Arithmetic on one coefficient.                                          *)

\* The representative of x modulo R that an int32_t holds.
Signed(x) == LET y == x % R IN IF y < R \div 2 THEN y ELSE y - R

MontgomeryReduce(a) ==
  LET t == Signed((a % R) * QINV) IN (a - t * Q) \div R

FqMul(a, b) == MontgomeryReduce(a * b)
FqScale(a) == FqMul(a, f)

Reduce32(a) == a - ((a + 2 ^ (QBits - 1)) \div (2 ^ QBits)) * Q
CAddQ(a) == IF a < 0 THEN a + Q ELSE a

-----------------------------------------------------------------------------
(* One block of butterflies with the twiddle factor zeta.                  *)

Forward(r, zeta, start, len) ==
  [j \in Index |->
     IF j < start \/ j >= start + 2 * len THEN r[j]
     ELSE IF j < start + len
       THEN r[j] + FqMul(r[j + len], zeta)
       ELSE r[j - len] - FqMul(r[j], zeta)]

\* Fault: the sign of the twiddle factor is not changed.
BackwardSameSign(r, zeta, start, len) ==
  [j \in Index |->
     IF j < start \/ j >= start + 2 * len THEN r[j]
     ELSE IF j < start + len
       THEN r[j] + r[j + len]
       ELSE FqMul(r[j - len] - r[j], zeta)]

Backward(r, zeta, start, len) ==
  [j \in Index |->
     IF j < start \/ j >= start + 2 * len THEN r[j]
     ELSE IF j < start + len
       THEN r[j] + r[j + len]
       ELSE FqMul(r[j - len] - r[j], -zeta)]

\* The sum of terms[1 .. n]
Sum(terms, n) ==
  LET sum[i \in 0 .. n] == IF i = 0 THEN 0 ELSE sum[i - 1] + terms[i] IN sum[n]

Map(Op(_), r) == [j \in Index |-> Op(r[j])]
Zip(Op(_, _), r, s) == [j \in Index |-> Op(r[j], s[j])]

\* mld_polyvecl_pointwise_acc_montgomery: one reduction for the whole sum
PointwiseAcc(mat, vec) ==
  [j \in Index |->
     MontgomeryReduce(Sum([i \in 1 .. L |-> mat[i][j] * vec[i][j]], L))]

-----------------------------------------------------------------------------
(* What sign.c computes with these operations, one polynomial of a vector  *)
(* at a time but for its transform.  An instruction changes "on".          *)

I(do, on) == [do |-> do, on |-> on, with |-> on]
I2(do, on, with) == [do |-> do, on |-> on, with |-> with]

\* w = A v
MatrixTimes == <<I("ntt", "v"), I("acc", "w")>>

\* c t, as transforms
Product(on) == <<I("ntt", "c"), I("ntt", "t"), I2("pointwise", on, "t")>>

\* t = A s1 + s2
KeygenT ==
  MatrixTimes \o <<I("invntt", "w"), I2("add", "w", "e"), I("reduce", "w"),
                   I("caddq", "w")>>

\* w = A y
MaskW == MatrixTimes \o <<I("invntt", "w"), I("caddq", "w")>>

\* z = y + c s1
ResponseZ ==
  Product("w") \o <<I("invntt", "w"), I2("add", "w", "e"), I("reduce", "w")>>

\* w0 - c s2
SignLow ==
  Product("h") \o <<I("invntt", "h"), I2("sub", "e", "h"), I("reduce", "e")>>

\* c t0
HintH == Product("h") \o <<I("invntt", "h"), I("reduce", "h")>>

\* A z - c t1 2^D, as transforms
Difference ==
  <<I("ntt", "c"), I("shiftl", "t"), I("ntt", "t"), I2("pointwise", "h", "t")>>
  \o MatrixTimes \o <<I2("sub", "w", "h")>>

\* Fault: it is reduced, but afterwards.
ReducedLateW ==
  Difference \o <<I("invntt", "w"), I("reduce", "w"), I("caddq", "w")>>

VerifyW ==
  Difference \o <<I("reduce", "w"), I("invntt", "w"), I("caddq", "w")>>

Program ==
  [keygen |-> KeygenT, mask |-> MaskW, response |-> ResponseZ,
   low |-> SignLow, hint |-> HintH, verify |-> VerifyW]

Result ==
  [keygen |-> "w", mask |-> "w", response |-> "w", low |-> "e", hint |-> "h",
   verify |-> "w"]

-----------------------------------------------------------------------------

VARIABLES
  call,              \* which computation runs
  at, lane,          \* its instruction, and the place in a vector
  poly,              \* the polynomials it works on
  layer, start, k,   \* loop counters of a transform; layer 0: scaling is left
  given              \* history: what it was called with

nttVars == <<call, at, lane, poly, layer, start, k, given>>

Code == Program[call]
Done == at > Len(Code)
Now(do) == ~Done /\ Code[at].do = do
On == <<Code[at].on, lane>>
With == poly[Single(Code[at].with)]
Becomes(r) == poly' = [poly EXCEPT ![On] = r] /\ UNCHANGED <<call, given>>

\* Twiddle factors of a layer are at 2^(layer-1) .. 2^layer - 1.
FirstUp(l) == 2 ^ (l - 1)
FirstDown(l) == 2 ^ l - 1

Enter(n, i) ==
  /\ at' = n /\ lane' = i /\ start' = 0
  /\ IF n =< Len(Code) /\ Code[n].do = "invntt"
       THEN layer' = Layers /\ k' = FirstDown(Layers)
       ELSE layer' = 1 /\ k' = FirstUp(1)

\* The next polynomial of a vector is transformed, or the next instruction
\* follows.
Proceed ==
  IF Code[at].on = "v" /\ lane < L THEN Enter(at, lane + 1) ELSE Enter(at + 1, 1)

\* mld_polyveck_shiftl is for t1, which has D bits less than Q.
NttInit ==
  /\ call \in DOMAIN Program /\ at = 1 /\ lane = 1
  /\ given \in Inputs /\ poly = given.poly
  /\ call = "verify" =>
       \A j \in Index : Abs(given.poly[Single("t")][j] * 2 ^ D) < Q
  /\ layer = 1 /\ start = 0 /\ k = FirstUp(1)

\* One round of the loop in mld_ntt_layer, and the end of a layer.
NttBlock ==
  /\ Now("ntt")
  /\ Becomes(Forward(poly[On], zetas[k], start, Span(layer)))
  /\ \/ /\ start + 2 * Span(layer) < N
        /\ start' = start + 2 * Span(layer) /\ k' = k + 1
        /\ UNCHANGED <<layer, at, lane>>
     \/ /\ start + 2 * Span(layer) >= N /\ layer < Layers
        /\ layer' = layer + 1 /\ start' = 0 /\ k' = FirstUp(layer + 1)
        /\ UNCHANGED <<at, lane>>
     \/ /\ start + 2 * Span(layer) >= N /\ layer = Layers
        /\ Proceed

\* One round of the loop in mld_invntt_layer, and the end of a layer.
InvNttBlock ==
  /\ Now("invntt") /\ layer >= 1
  /\ Becomes(Backward(poly[On], zetas[k], start, Span(layer)))
  /\ UNCHANGED <<at, lane>>
  /\ \/ /\ start + 2 * Span(layer) < N
        /\ start' = start + 2 * Span(layer) /\ k' = k - 1
        /\ UNCHANGED layer
     \/ /\ start + 2 * Span(layer) >= N
        /\ layer' = layer - 1 /\ start' = 0 /\ k' = FirstDown(layer - 1)

\* The last loop of mld_poly_invntt_tomont_c.
Scale ==
  /\ Now("invntt") /\ layer = 0
  /\ Becomes(Map(FqScale, poly[On]))
  /\ Proceed

PointwiseMul ==
  /\ Now("pointwise")
  /\ Becomes(Zip(FqMul, poly[Single("c")], With))
  /\ Proceed

Accumulate ==
  /\ Now("acc")
  /\ Becomes(PointwiseAcc(given.mat, [i \in 1 .. L |-> poly[Vector(i)]]))
  /\ Proceed

Add ==
  /\ Now("add")
  /\ Becomes([j \in Index |-> poly[On][j] + With[j]])
  /\ Proceed

Sub ==
  /\ Now("sub")
  /\ Becomes([j \in Index |-> poly[On][j] - With[j]])
  /\ Proceed

ShiftL ==
  /\ Now("shiftl")
  /\ Becomes([j \in Index |-> poly[On][j] * 2 ^ D])
  /\ Proceed

Reduce ==
  /\ Now("reduce")
  /\ Becomes(Map(Reduce32, poly[On]))
  /\ Proceed

CAdd ==
  /\ Now("caddq")
  /\ Becomes(Map(CAddQ, poly[On]))
  /\ Proceed

NttNext ==
  \/ NttBlock \/ InvNttBlock \/ Scale \/ PointwiseMul \/ Accumulate
  \/ Add \/ Sub \/ ShiftL \/ Reduce \/ CAdd

NttSpec == NttInit /\ [][NttNext]_nttVars

-----------------------------------------------------------------------------
(* The ring, by definition.                                                *)

Power(b, e) ==
  LET pow[i \in 0 .. e] == IF i = 0 THEN 1 ELSE (pow[i - 1] * b) % Q IN pow[e]

\* Coefficient i of a * b modulo X^N + 1: X^N is -1.
RingProduct(a, b) ==
  [i \in Index |->
     Sum([j \in 1 .. N |-> IF j - 1 =< i THEN a[j - 1] * b[i - j + 1]
                                         ELSE -a[j - 1] * b[i - j + 1 + N]], N)]

\* i with its bits in reverse order
BitRev(i) ==
  LET bit(b) == (i \div 2 ^ b) % 2
  IN Sum([b \in 1 .. Layers |-> bit(b - 1) * 2 ^ (Layers - b)], Layers)

\* FIPS 204's NTT: the values at odd powers of Root in bit-reversed order.
Values(a) ==
  [i \in Index |->
     Sum([j \in 1 .. N |->
            a[j - 1] * Power(Root, (2 * BitRev(i) + 1) * (j - 1))], N) % Q]

Combine(a, s, b) == [j \in Index |-> a[j] + s * b[j]]

\* The table holds the powers of Root in bit-reversed order, times R.
ASSUME TableAssumption ==
  /\ Root \in Nat /\ (Power(Root, N) + 1) % Q = 0
  /\ \A i \in 1 .. N - 1 : (zetas[i] - R * Power(Root, BitRev(i))) % Q = 0

\* The matrix is sampled as the transforms of its polynomials.
ASSUME MatrixAssumption ==
  \A x \in Inputs : /\ x.matrix \in [1 .. L -> [Index -> Int]]
                    /\ \A i \in 1 .. L : x.mat[i] = Values(x.matrix[i])

MatrixTimesVector ==
  LET p == [i \in 1 .. L |-> RingProduct(given.matrix[i], given.poly[Vector(i)])]
  IN [j \in Index |-> Sum([i \in 1 .. L |-> p[i][j]], L)]

ChallengeTimes == RingProduct(given.poly[Single("c")], given.poly[Single("t")])

Expected ==
  [keygen |-> Combine(MatrixTimesVector, 1, given.poly[Single("e")]),
   mask |-> MatrixTimesVector,
   response |-> Combine(given.poly[Single("e")], 1, ChallengeTimes),
   low |-> Combine(given.poly[Single("e")], -1, ChallengeTimes),
   hint |-> ChallengeTimes,
   verify |-> Combine(MatrixTimesVector, -(2 ^ D), ChallengeTimes)]

-----------------------------------------------------------------------------
(* Properties.                                                             *)

\* What the operations require and promise of the sizes of coefficients holds
\* wherever they are called: within a transform, blocks that are done have
\* the larger bound of the next layer already, the others the one before
\* (the loop invariants of mld_ntt_layer and mld_invntt_layer); products
\* take transforms below (Layers + 1) Q, sub and the inverse transform
\* reduced ones, and mld_reduce32 what it can round without leaving its
\* domain (MLD_REDUCE32_DOMAIN_MAX).  So no coefficient ever leaves the integers an int32_t holds.
WithinBounds ==
  /\ \A p \in Names : poly[p] \in Polynomial
  /\ Now("ntt") =>
       /\ Below(poly[On], 0 .. start - 1, (layer + 1) * Q)
       /\ Below(poly[On], start .. N - 1, layer * Q)
       /\ 2 * Span(layer) * k = start + N
  /\ Now("invntt") /\ layer >= 1 =>
       /\ Below(poly[On], 0 .. start - 1, Span(layer - 1) * Q)
       /\ Below(poly[On], start .. N - 1, Span(layer) * Q)
       /\ 2 * Span(layer) * k + start = 2 * N - 2 * Span(layer)
  /\ Now("invntt") /\ layer = 0 => Below(poly[On], Index, N * Q)
  /\ Now("pointwise") => /\ Below(poly[Single("c")], Index, (Layers + 1) * Q)
                         /\ Below(With, Index, (Layers + 1) * Q)
  /\ Now("acc") => \A i \in 1 .. L :
                     Below(poly[Vector(i)], Index, (Layers + 1) * Q)
  /\ Now("sub") => Below(poly[On], Index, Q) /\ Below(With, Index, Q)
  /\ Now("reduce") => \A j \in Index : poly[On][j] + 2 ^ (QBits - 1) \in Word
  /\ Now("caddq") => Below(poly[On], Index, Q)

\* The butterflies, the factors R^-1 of Montgomery multiplication and the
\* final scaling together compute the ring's operations exactly: every
\* coefficient of a result is the one of the definition modulo Q, canonical
\* where the code goes on to decompose or round it, and within the range of
\* mld_reduce32 where it goes on to a norm check.
CallExact ==
  Done =>
    LET r == poly[Single(Result[call])] IN
    /\ \A j \in Index : (r[j] - Expected[call][j]) % Q = 0
    /\ IF call \in {"response", "low", "hint"}
         THEN \A j \in Index : Abs(r[j]) < Q
         ELSE \A j \in Index : r[j] \in 0 .. Q - 1

\* A transform leaves what the standard's NTT would, in its order: the
\* matrix is sampled as transforms and never transformed, so any other
\* order or sign would compute with a matrix no other implementation has.
StandardOrder ==
  Now("acc") =>
    \A i \in 1 .. L, j \in Index :
      (poly[Vector(i)][j] - Values(given.poly[Vector(i)])[j]) % Q = 0

\* What the transforms compute is the ring of FIPS 204, for the caller of a
\* whole product and for a peer that sampled the same matrix.
ResultExact == CallExact /\ StandardOrder
=============================================================================
