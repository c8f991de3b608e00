------------------------------ MODULE Sampling ------------------------------
(***************************************************************************)
(* Sampling of the matrix A, of the short vectors s1 and s2 and of the     *)
(* mask y: mld_polyvec_matrix_expand and mld_polymat_get_row (polyvec.c),  *)
(* mld_sample_s1_s2 (sign.c), mld_polyvecl_uniform_gamma1 (polyvec.c), and *)
(* the samplers of one or four polynomials they call.                      *)
(*                                                                         *)
(* A seed with a nonce stands for a stream of candidates, some of which    *)
(* are rejected.  A coefficient is the nonce and the place in the stream   *)
(* it was taken from, and one of s1 or s2 its value, too; the hashing is   *)
(* not modelled.  The blocks squeezed at first may go through an AVX2      *)
(* kernel instead (mld_rej_uniform_avx2, mld_rej_uniform_eta2_avx2 and     *)
(* mld_rej_uniform_eta4_avx2), which takes a vector of candidates at once. *)
(***************************************************************************)
EXTENDS Integers, Sequences, FiniteSets

CONSTANTS
  ParameterSets,   \* those to check, of 44, 65 and 87
  Coefficients,    \* of a polynomial: MLDSA_N
  PerBlock,        \* candidates in a block of the stream
  NBLOCKS,         \* blocks squeezed at first: MLD_POLY_UNIFORM_*_NBLOCKS
  Vector,          \* candidates an AVX2 kernel takes at once, 8 in the code
  SlowHorizon,     \* bound: later candidates are all accepted
  MaxSlow,         \* bound: streams with rejected candidates
  LongHorizon      \* bound: SlowHorizon if one stream alone has any

ASSUME SamplingAssumption ==
  /\ ParameterSets \subseteq {44, 65, 87}
  /\ {Coefficients, PerBlock, NBLOCKS, Vector} \subseteq Nat \ {0}
  /\ {SlowHorizon, LongHorizon} \subseteq Nat

VARIABLES
  set, serial, reduceRam,   \* MLD_CONFIG_PARAMETER_SET, ..._SERIAL_FIPS202_ONLY,
                            \* MLD_CONFIG_REDUCE_RAM
  job,                      \* "matrix", "secrets" or "y"
  calls,                    \* the calls of samplers it makes
  rejected,                 \* the candidates rejected, of each stream
  batch,                    \* number of the call of a sampler
  blocks, ctr,              \* of that call: blocks squeezed, counters by lane
  poly,                     \* polynomials, by place
  rows                      \* rows of A that have been used

config == <<set, serial, reduceRam, job, calls, rejected>>
samplingVars == <<config, batch, blocks, ctr, poly, rows>>

L == CASE set = 44 -> 4 [] set = 65 -> 5 [] set = 87 -> 7
K == CASE set = 44 -> 4 [] set = 65 -> 6 [] set = 87 -> 8

Irrelevant == 255      \* 0xFF, the nonce of a lane that is overwritten

-----------------------------------------------------------------------------
(* The calls each job makes, in order: which polynomial each lane fills    *)
(* from which stream.                                                      *)

Lane(place, nonce) == [to |-> place, nonce |-> nonce]
OneByOne(lanes) == [i \in 1 .. Len(lanes) |-> <<lanes[i]>>]

\* Lanes that fill v[first] to v[last], from consecutive nonces.
Run(v, first, last, nonce) ==
  [i \in 1 .. last - first + 1 |-> Lane(<<v, first + i - 1>>, nonce + i - 1)]

\* Entry i of the matrix in row order; a row buffer holds one row of them.
Entry(i) ==
  Lane(<<IF reduceRam THEN "row" ELSE i \div L, i % L>>, <<i % L, i \div L>>)
Entries(first, last) == [i \in 1 .. last - first + 1 |-> Entry(first + i - 1)]

\* Fault: the entries of an incomplete batch are forgotten.
MatrixCallsInFours ==
  [b \in 1 .. (K * L) \div 4 |-> Entries(4 * (b - 1), 4 * b - 1)]

MatrixCalls ==
  LET inFours == IF serial \/ reduceRam THEN 0 ELSE (K * L) \div 4
  IN  [b \in 1 .. inFours |-> Entries(4 * (b - 1), 4 * b - 1)]
        \o OneByOne(Entries(4 * inFours, K * L - 1))

ShortCalls ==
  CASE serial -> OneByOne(Run("s1", 0, L - 1, 0) \o Run("s2", 0, K - 1, L))
    [] ~serial /\ set = 44 -> <<Run("s1", 0, 3, 0), Run("s2", 0, 3, 4)>>
    [] ~serial /\ set = 65 ->
         <<Run("s1", 0, 3, 0),
           Run("s1", 4, 4, 4) \o Run("s2", 0, 1, 5) \o Run("s2", 2, 2, Irrelevant),
           Run("s2", 2, 5, 7)>>
    [] ~serial /\ set = 87 ->
         <<Run("s1", 0, 3, 0),
           Run("s1", 4, 6, 4) \o Run("s2", 0, 0, Irrelevant),
           Run("s2", 0, 3, 7), Run("s2", 4, 7, 11)>>

\* The nonce of y is relative to that of the attempt.
MaskCalls ==
  CASE serial -> OneByOne(Run("y", 0, L - 1, 0))
    [] ~serial /\ L = 4 -> <<Run("y", 0, 3, 0)>>
    [] ~serial /\ L = 5 -> <<Run("y", 0, 3, 0), Run("y", 4, 4, 4)>>
    [] ~serial /\ L = 7 -> <<Run("y", 0, 2, 0) \o Run("y", 3, 3, Irrelevant),
                             Run("y", 3, 6, 3)>>

Calls == CASE job = "matrix" -> MatrixCalls
           [] job = "secrets" -> ShortCalls
           [] job = "y" -> MaskCalls

Places ==
  CASE job = "matrix" /\ ~reduceRam -> (0 .. K - 1) \X (0 .. L - 1)
    [] job = "matrix" /\ reduceRam -> {"row"} \X (0 .. L - 1)
    [] job = "secrets" -> ({"s1"} \X (0 .. L - 1)) \cup ({"s2"} \X (0 .. K - 1))
    [] job = "y" -> {"y"} \X (0 .. L - 1)

-----------------------------------------------------------------------------
(* The streams, and the samplers.                                          *)

FourLanes == 1 .. 4
Stale == <<>>
NoPolynomial == [k \in 1 .. Coefficients |-> Stale]

Rejected(n, j) == n \in DOMAIN rejected /\ j \in rejected[n]

\* Up to MaxSlow of the streams of one call have rejected candidates.
SlowStreams(call) ==
  LET nonces == {call[l].nonce : l \in DOMAIN call}
  IN  (UNION {[slow -> (SUBSET (1 .. SlowHorizon)) \ {{}}] :
                slow \in {x \in SUBSET nonces : Cardinality(x) =< MaxSlow}})
      \cup (UNION {[{n} -> (SUBSET (1 .. LongHorizon)) \ {{}}] : n \in nonces})

\* MLD_CONFIG_REDUCE_RAM concerns the matrix alone, and samples it one by one
\* in any case.
SamplingInit ==
  /\ set \in ParameterSets /\ serial \in BOOLEAN /\ reduceRam \in BOOLEAN
  /\ job \in {"matrix", "secrets", "y"} /\ calls = Calls
  /\ (job # "matrix" => ~reduceRam) /\ (reduceRam => ~serial)
  /\ rejected \in IF job = "y" THEN {<<>>}
                  ELSE UNION {SlowStreams(calls[b]) : b \in DOMAIN calls}
  /\ batch = 1 /\ blocks = 0 /\ ctr = [l \in FourLanes |-> 0]
  /\ poly = [p \in Places |-> NoPolynomial] /\ rows = <<>>

\* The bits of candidate j for a coefficient of s1 or s2, if it is accepted.
Code(n, j) == (4 * n + j) % IF set = 65 THEN 9 ELSE 15

\* mld_rej_eta_c: the residue modulo 5 by a multiplication.
Eta_c(t) == IF set = 65 THEN 4 - t ELSE 2 - (t - ((205 * t) \div 1024) * 5)

\* The kernels: mulhrs by v = -6560 on the signed difference.
Eta_avx2(t) ==
  LET d == (IF set = 65 THEN 4 ELSE 2) - t
  IN  IF set = 65 THEN d ELSE d + 5 * ((16384 - 6560 * d) \div 32768)

Coefficient(n, j, value) ==
  IF job = "secrets" THEN <<n, j, value>> ELSE <<n, j>>

\* The numbers in a set, from the least on.
InOrder(S) ==
  [k \in 1 .. Cardinality(S) |->
     CHOOSE j \in S : Cardinality({h \in S : h =< j}) = k]

\* The candidates of stream n that are accepted, from one to another.
Accepted(n, from, to) == InOrder({j \in from .. to : ~Rejected(n, j)})

\* Coefficients a lane still lacks; no more are taken.
Room(l) == Coefficients - ctr[l]

\* Where a lane continues.
StartOf(l) == ctr[l]

\* mld_rej_uniform_c or mld_rej_eta_c in every lane, on the next n blocks.
RejNext(n) ==
  LET call == calls[batch]
      taken == [l \in DOMAIN call |->
                  LET good == Accepted(call[l].nonce, blocks * PerBlock + 1,
                                       (blocks + n) * PerBlock)
                  IN  IF Len(good) > Room(l) THEN SubSeq(good, 1, Room(l))
                                             ELSE good]
      Written(l, k) ==
        IF k - StartOf(l) \in 1 .. Len(taken[l])
          THEN LET j == taken[l][k - StartOf(l)]
               IN  Coefficient(call[l].nonce, j, Eta_c(Code(call[l].nonce, j)))
          ELSE poly[call[l].to][k]
  IN  /\ blocks' = blocks + n
      /\ ctr' = [l \in FourLanes |-> IF l \in DOMAIN call
                                   THEN StartOf(l) + Len(taken[l]) ELSE 0]
      /\ poly' = [p \in Places |->
                    IF \E l \in DOMAIN call : call[l].to = p
                      THEN LET l == CHOOSE m \in DOMAIN call : call[m].to = p
                           IN  [k \in 1 .. Coefficients |-> Written(l, k)]
                      ELSE poly[p]]

\* A row of mld_rej_uniform_table: the places of what is good, packed to the
\* front; the places after them are all the first.
mld_rej_uniform_table(good) ==
  [k \in 1 .. Vector |-> IF k =< Cardinality(good) THEN InOrder(good)[k] ELSE 1]

\* The bytes a kernel loads at once hold so many candidates, the first of which
\* it uses: of 32 bytes mld_rej_uniform_avx2 uses 24; the others use 16 bytes in
\* four rounds (here two), and look at the room between two of them.
Buffer == NBLOCKS * PerBlock
Loaded == IF job = "matrix" THEN Vector + 1 ELSE 2 * Vector
LoadsAt(pos) == job = "matrix" \/ pos % (2 * Vector) = 0

InVectors(s) ==
  /\ s.vectors /\ s.ctr =< Coefficients - Vector
  /\ LoadsAt(s.pos) => s.pos + Loaded =< Buffer

\* One round of the vector loop: the whole vector is stored, and what was not
\* good is overwritten by the next one.
Compress(n, s) ==
  LET good == {i \in 1 .. Vector : ~Rejected(n, s.pos + i)}
      row == mld_rej_uniform_table(good)
      Stored(k) == LET j == s.pos + row[k - s.ctr]
                   IN  Coefficient(n, j, Eta_avx2(Code(n, j)))
  IN  [pos |-> s.pos + Vector, ctr |-> s.ctr + Cardinality(good), vectors |-> TRUE,
       r |-> [k \in (DOMAIN s.r) \cup (s.ctr + 1 .. s.ctr + Vector) |->
                IF k > s.ctr /\ k =< s.ctr + Vector THEN Stored(k) ELSE s.r[k]]]

\* The loop over the rest takes one by one.
TakeNext(n, s) ==
  LET j == s.pos + 1
  IN  IF Rejected(n, j)
        THEN [pos |-> j, ctr |-> s.ctr, vectors |-> FALSE, r |-> s.r]
        ELSE [pos |-> j, ctr |-> s.ctr + 1, vectors |-> FALSE,
              r |-> [s.r EXCEPT ![s.ctr + 1] = Coefficient(n, j, Eta_c(Code(n, j)))]]

\* A kernel on the first blocks of stream n, over what r holds.
RejKernel(n, r) ==
  LET run[i \in 0 .. Buffer] ==
        IF i = 0 THEN [pos |-> 0, ctr |-> 0, r |-> r, vectors |-> TRUE]
        ELSE LET s == run[i - 1] IN
             IF InVectors(s) THEN Compress(n, s)
             ELSE IF s.ctr < Coefficients /\ s.pos < Buffer THEN TakeNext(n, s)
             ELSE s
  IN  run[Buffer]

\* With MLD_CONFIG_REDUCE_RAM a row is sampled when the last one was used.
RowWanted == job = "matrix" /\ reduceRam => batch =< (Len(rows) + 1) * L

FirstBlocks ==
  /\ batch =< Len(calls) /\ blocks = 0 /\ job # "y" /\ RowWanted
  /\ RejNext(NBLOCKS)
  /\ UNCHANGED <<config, batch, rows>>

\* The first blocks, where the back end has a kernel and does not decline it:
\* mld_rej_uniform and mld_rej_eta call it for a whole polynomial only.
FirstBlocksNative ==
  /\ batch =< Len(calls) /\ blocks = 0 /\ job # "y" /\ RowWanted
  /\ LET call == calls[batch]
         done == [l \in DOMAIN call |-> RejKernel(call[l].nonce, poly[call[l].to])]
     IN  /\ ctr' = [l \in FourLanes |-> IF l \in DOMAIN call THEN done[l].ctr ELSE 0]
         /\ poly' = [p \in Places |->
                       IF \E l \in DOMAIN call : call[l].to = p
                         THEN done[CHOOSE l \in DOMAIN call : call[l].to = p].r
                         ELSE poly[p]]
  /\ blocks' = NBLOCKS
  /\ UNCHANGED <<config, batch, rows>>

\* A polynomial of y is unpacked from one piece of the stream.
UnpackMask ==
  /\ batch =< Len(calls) /\ blocks = 0 /\ job = "y"
  /\ LET call == calls[batch]
     IN  poly' = [p \in Places |->
                    IF \E l \in DOMAIN call : call[l].to = p
                      THEN LET l == CHOOSE m \in DOMAIN call : call[m].to = p
                           IN  [k \in 1 .. Coefficients |-> <<call[l].nonce, k>>]
                      ELSE poly[p]]
  /\ blocks' = NBLOCKS
  /\ ctr' = [l \in FourLanes |->
               IF l \in DOMAIN calls[batch] THEN Coefficients ELSE 0]
  /\ UNCHANGED <<config, batch, rows>>

Unfinished == \E l \in DOMAIN calls[batch] : ctr[l] < Coefficients

NextBlock ==
  /\ blocks > 0 /\ Unfinished
  /\ RejNext(1)
  /\ UNCHANGED <<config, batch, rows>>

EndCall ==
  /\ blocks > 0 /\ ~Unfinished
  /\ batch' = batch + 1 /\ blocks' = 0 /\ ctr' = [l \in FourLanes |-> 0]
  /\ UNCHANGED <<config, poly, rows>>

\* mld_polymat_get_row, for the next row of the product.
GetRow ==
  /\ job = "matrix" /\ Len(rows) < K
  /\ batch = 1 + IF reduceRam THEN (Len(rows) + 1) * L ELSE Len(calls)
  /\ rows' = Append(rows,
       [j \in 0 .. L - 1 |->
          poly[<<IF reduceRam THEN "row" ELSE Len(rows), j>>]])
  /\ UNCHANGED <<config, batch, blocks, ctr, poly>>

SamplingNext ==
  FirstBlocks \/ FirstBlocksNative \/ UnpackMask \/ NextBlock \/ EndCall \/ GetRow

SamplingSpec == SamplingInit /\ [][SamplingNext]_samplingVars

-----------------------------------------------------------------------------
(* The specification: FIPS 204 expands each polynomial from its own nonce. *)

\* The first accepted candidates of a stream.
Polynomial(n) ==
  LET good == Accepted(n, 1, SlowHorizon + LongHorizon + Coefficients)
      Value(t) == IF set = 65 THEN 4 - t ELSE 2 - (t % 5)
  IN  [k \in 1 .. Coefficients |->
         Coefficient(n, good[k], Value(Code(n, good[k])))]

\* The nonce of a polynomial: rho with column and row, and consecutive
\* numbers for s1 and s2, and for y.
NonceOf(p) ==
  IF job = "matrix" THEN <<p[2], p[1]>>
  ELSE IF p[1] = "s2" THEN L + p[2] ELSE p[2]

\* In batches of four or one by one, all at once or by the row, with lanes to
\* spare or without, by the C code or a kernel, every polynomial is expanded
\* from its own nonce.
SampledAsSpecified ==
  IF job = "matrix"
    THEN \A i \in 1 .. Len(rows), j \in 0 .. L - 1 :
           rows[i][j] = Polynomial(NonceOf(<<i - 1, j>>))
    ELSE batch > Len(calls) =>
           \A p \in Places : poly[p] = Polynomial(NonceOf(p))
=============================================================================
