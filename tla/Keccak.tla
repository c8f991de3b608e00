------------------------------- MODULE Keccak -------------------------------
(***************************************************************************)
(* The permutation Keccak-f[1600] under the sponge, in the four codes that *)
(* compute it: mld_keccakf1600_permute_c, the AVX2 code for four states    *)
(* (KeccakP_1600_times4_SIMD256.c), and tiny_sha3, which brings a FIPS 202 *)
(* of its own or serves as a native back end (custom_backend).  A code is  *)
(* followed from the bytes that are added to a state to the bytes that are *)
(* read from it, on machines of either byte order.                         *)
(*                                                                         *)
(* A word is the set of its bits that are 1.  Four states are permuted     *)
(* side by side: bit 64 k + z of lane i is bit z of lane i of state k.     *)
(* Only the AVX2 code has words of 256 bits; the others permute one state  *)
(* after another (mld_keccakf1600x4_permute).                              *)
(***************************************************************************)
EXTENDS Integers, Sequences

CONSTANT Inputs     \* bytes of four states, each the set of its bits that are 1

Lanes == 0 .. 24         \* MLD_KECCAK_LANES
Columns == 0 .. 4
States == 0 .. 3         \* MLD_KECCAK_WAY
Bytes == 0 .. 199
NROUNDS == 24

ASSUME InputsAssumption == Inputs \subseteq [States -> [Bytes -> SUBSET (0 .. 7)]]

a \oplus b == (a \ b) \cup (b \ a)
AndNot(a, b) == b \ a

\* MLD_KECCAK_ROL, MLD_ROL64IN256 and ROTL64
Rol(a, n) == {64 * (b \div 64) + ((b + n) % 64) : b \in a}

\* Rotations by whole bytes as byte shuffles: which byte goes to each place.
rho8 == <<7, 0, 1, 2, 3, 4, 5, 6>>
rho56 == <<1, 2, 3, 4, 5, 6, 7, 0>>
Shuffle(a, from) ==
  {b \in 0 .. 255 : 64 * (b \div 64) + 8 * from[((b % 64) \div 8) + 1] + (b % 8) \in a}

\* The round constants of every code, as the bits that are 1.
RoundConstants ==
  << {0}, {1, 7, 15}, {1, 3, 7, 15, 63}, {15, 31, 63}, {0, 1, 3, 7, 15}, {0, 31},
     {0, 7, 15, 31, 63}, {0, 3, 15, 63}, {1, 3, 7}, {3, 7}, {0, 3, 15, 31},
     {1, 3, 31}, {0, 1, 3, 7, 15, 31}, {0, 1, 3, 7, 63}, {0, 3, 7, 15, 63},
     {0, 1, 15, 63}, {1, 15, 63}, {7, 63}, {1, 3, 15}, {1, 3, 31, 63},
     {0, 7, 15, 31, 63}, {7, 15, 63}, {0, 31}, {3, 15, 31, 63} >>
keccakf_rndc == RoundConstants
keccakf1600RoundConstants == RoundConstants

\* The constant in each of the four states.
Broadcast(c) == {64 * k + z : k \in States, z \in c}

VARIABLES
  code,        \* "c", "avx2", "tiny_sha3" or "custom"
  endian,      \* byte order of the machine
  input,       \* bytes that are added to the empty states
  stage,       \* "xor", "load", "prepare", "rounds", "store", "extract", "done"
  memory,      \* bytes of the four states
  lanes,       \* local variables: Aba, ... or Eba, ...
  columns,     \* Ca .. Cu of the AVX2 code
  round,
  extracted,   \* bytes read from the four states
  standard     \* lanes of FIPS 202 after so many rounds

keccakVars == <<code, endian, input, stage, memory, lanes, columns, round,
                extracted, standard>>

-----------------------------------------------------------------------------
(* Bytes and words.                                                        *)

\* Fault: tiny_sha3 leaves the conversion of words to its caller.
SwappedByAll == endian = "big"

\* Only tiny_sha3 as a FIPS 202 of its own adds and reads bytes in memory on
\* every machine, and converts words; a back end gets words as they are.
Swapped == endian = "big" /\ code # "tiny_sha3"

\* Significance of a byte of memory within its word.
Significance(m) == IF Swapped THEN 7 - m ELSE m

\* Where mld_keccakf1600_xor_bytes and mld_keccakf1600_extract_bytes find byte
\* q of a state: in place, or by shifting the word.
Place(q) == IF endian = "big" /\ code # "tiny_sha3" THEN 8 * (q \div 8) + 7 - (q % 8) ELSE q

LaneOf(mem, i) ==
  UNION {{64 * k + 8 * Significance(m) + z : z \in mem[k][8 * i + m]} :
           k \in States, m \in 0 .. 7}
BytesOf(words) ==
  [k \in States |-> [p \in Bytes |->
     {z \in 0 .. 7 : 64 * k + 8 * Significance(p % 8) + z \in words[p \div 8]}]]

-----------------------------------------------------------------------------
(* One round.                                                              *)

\* prepareTheta
ColumnsOf(A) == [x \in Columns |-> A[x] \oplus A[x + 5] \oplus A[x + 10] \oplus A[x + 15] \oplus A[x + 20]]

\* Da, De, Di, Do, Du
D(C) == [x \in Columns |-> C[(x + 4) % 5] \oplus Rol(C[(x + 1) % 5], 1)]

\* Row r of the result takes these lanes, rotated by so much: b, g, k, m, s
\* are 0 to 4, and a, e, i, o, u are 0 to 4.
From == << <<0, 6, 12, 18, 24>>, <<3, 9, 10, 16, 22>>, <<1, 7, 13, 19, 20>>,
           <<4, 5, 11, 17, 23>>, <<2, 8, 14, 15, 21>> >>
By == << <<0, 44, 43, 21, 14>>, <<28, 20, 3, 45, 61>>, <<1, 6, 25, 8, 18>>,
         <<27, 36, 10, 15, 56>>, <<62, 55, 39, 41, 2>> >>
Turn(a, n) ==
  CASE code = "avx2" /\ n = 8  -> Shuffle(a, rho8)
    [] code = "avx2" /\ n = 56 -> Shuffle(a, rho56)
    [] OTHER                   -> Rol(a, n)

\* thetaRhoPiChiIota
UnrolledRound(A, C, constant) ==
  LET d == D(C)
      B(r, x) == LET i == From[r + 1][(x % 5) + 1]
                 IN  Turn(A[i] \oplus d[i % 5], By[r + 1][(x % 5) + 1])
      E(r, x) == B(r, x) \oplus AndNot(B(r, x + 1), B(r, x + 2))
  IN  [i \in Lanes |-> IF i = 0 THEN E(0, 0) \oplus Broadcast(constant)
                                ELSE E(i \div 5, i % 5)]

\* The round of tiny_sha3, in place.
keccakf_rotc == <<1, 3, 6, 10, 15, 21, 28, 36, 45, 55, 2, 14,
                  27, 41, 56, 8, 25, 43, 62, 18, 39, 61, 20, 44>>
keccakf_piln == <<10, 7, 11, 17, 18, 3, 5, 16, 8, 21, 24, 4,
                  15, 23, 19, 13, 12, 2, 20, 14, 22, 9, 6, 1>>
Theta(st) == [i \in Lanes |-> st[i] \oplus D(ColumnsOf(st))[i % 5]]
\* Each place gets what was in the place before it, the first what was in 1.
RhoPi(st) ==
  [j \in Lanes |->
     IF j = 0 THEN st[0]
     ELSE LET i == CHOOSE n \in 1 .. 24 : keccakf_piln[n] = j
          IN  Rol(st[IF i = 1 THEN 1 ELSE keccakf_piln[i - 1]], keccakf_rotc[i])]
Chi(st) ==
  [i \in Lanes |->
     LET bc(x) == st[5 * (i \div 5) + (x % 5)]
     IN  st[i] \oplus AndNot(bc((i % 5) + 1), bc((i % 5) + 2))]
Iota(st, r) == [st EXCEPT ![0] = @ \oplus Broadcast(keccakf_rndc[r + 1])]

-----------------------------------------------------------------------------
(* FIPS 202, Section 3.2: lane (x, y) is lane 5 y + x.                      *)

\* The lanes in the order in which rho rotates them further and further.
Walk[t \in 0 .. 23] ==
  IF t = 0 THEN [x |-> 1, y |-> 0]
  ELSE LET p == Walk[t - 1] IN [x |-> p.y, y |-> (2 * p.x + 3 * p.y) % 5]
Offset(x, y) ==
  IF x = 0 /\ y = 0 THEN 0
  ELSE LET t == CHOOSE n \in 0 .. 23 : Walk[n] = [x |-> x, y |-> y]
       IN  (((t + 1) * (t + 2)) \div 2) % 64

\* The shift register of iota: bits of R that are 1.
Register[t \in 0 .. 254] ==
  IF t = 0 THEN {0}
  ELSE LET R == {b + 1 : b \in Register[t - 1]}
       IN  (IF 8 \in R THEN R \oplus {0, 4, 5, 6} ELSE R) \ {8}
StandardConstant(ir) == {2^j - 1 : j \in {n \in 0 .. 6 : 0 \in Register[(n + 7 * ir) % 255]}}

StandardRound(A, ir) ==
  LET C == [x \in Columns |-> A[x] \oplus A[x + 5] \oplus A[x + 10] \oplus A[x + 15] \oplus A[x + 20]]
      Theta1(x, y) == A[5 * y + x] \oplus C[(x + 4) % 5] \oplus Rol(C[(x + 1) % 5], 1)
      Rho(x, y) == Rol(Theta1(x, y), Offset(x, y))
      Pi(x, y) == Rho((x + 3 * y) % 5, x)
      Chi1(x, y) == Pi(x, y) \oplus (Pi((x + 2) % 5, y) \ Pi((x + 1) % 5, y))
  IN  [i \in Lanes |-> IF i = 0 THEN Chi1(0, 0) \oplus Broadcast(StandardConstant(ir))
                                ELSE Chi1(i % 5, i \div 5)]

\* Bit z of byte q is bit 8 (q % 8) + z of lane q / 8.
StandardLanes(bytes) ==
  [i \in Lanes |-> UNION {{64 * k + 8 * m + z : z \in bytes[k][8 * i + m]} :
                            k \in States, m \in 0 .. 7}]

-----------------------------------------------------------------------------

Empty == [k \in States |-> [p \in Bytes |-> {}]]
NoLanes == [i \in Lanes |-> {}]
NoColumns == [x \in Columns |-> {}]

KeccakInit ==
  /\ code \in {"c", "avx2", "tiny_sha3", "custom"}
  /\ endian \in IF code = "avx2" THEN {"little"} ELSE {"little", "big"}
  /\ input \in Inputs /\ stage = "xor" /\ round = 0
  /\ memory = Empty /\ extracted = Empty
  /\ lanes = NoLanes /\ columns = NoColumns /\ standard = NoLanes

AddBytes ==
  /\ stage = "xor" /\ stage' = "load"
  /\ memory' = [k \in States |-> [p \in Bytes |-> memory[k][p] \oplus input[k][Place(p)]]]
  /\ standard' = StandardLanes(input)
  /\ UNCHANGED <<code, endian, input, lanes, columns, round, extracted>>

\* mld_keccak_f1600_x4_native declines on a processor without AVX2.
Decline ==
  /\ stage = "load" /\ code = "avx2" /\ code' = "c"
  /\ UNCHANGED <<endian, input, stage, memory, lanes, columns, round, extracted, standard>>

\* MLD_COPY_FROM_STATE gathers the lanes of four states.
Load ==
  /\ stage = "load"
  /\ stage' = IF code = "avx2" THEN "prepare" ELSE "rounds"
  /\ lanes' = [i \in Lanes |-> LaneOf(memory, i)]
  /\ UNCHANGED <<code, endian, input, memory, columns, round, extracted, standard>>

\* The sums of columns are computed once, and then together with each round.
PrepareTheta ==
  /\ stage = "prepare" /\ stage' = "rounds"
  /\ columns' = ColumnsOf(lanes)
  /\ UNCHANGED <<code, endian, input, memory, lanes, round, extracted, standard>>

NextRound ==
  /\ stage = "rounds"
  /\ round' = round + 1 /\ stage' = IF round' = NROUNDS THEN "store" ELSE "rounds"
  /\ standard' = StandardRound(standard, round)
  /\ UNCHANGED <<code, endian, input, memory, extracted>>

\* Rounds from A to E and back from E to A.
RoundC ==
  /\ code = "c" /\ NextRound
  /\ lanes' = UnrolledRound(lanes, ColumnsOf(lanes), RoundConstants[round + 1])
  /\ UNCHANGED columns

RoundAVX2 ==
  /\ code = "avx2" /\ NextRound
  /\ lanes' = UnrolledRound(lanes, columns, keccakf1600RoundConstants[round + 1])
  /\ columns' = IF round = 23 THEN columns ELSE ColumnsOf(lanes')

RoundTiny ==
  /\ code \in {"tiny_sha3", "custom"} /\ NextRound
  /\ lanes' = Iota(Chi(RhoPi(Theta(lanes))), round)
  /\ UNCHANGED columns

Store ==
  /\ stage = "store" /\ stage' = "extract"
  /\ memory' = BytesOf(lanes)
  /\ UNCHANGED <<code, endian, input, lanes, columns, round, extracted, standard>>

Extract ==
  /\ stage = "extract" /\ stage' = "done"
  /\ extracted' = [k \in States |-> [q \in Bytes |-> memory[k][Place(q)]]]
  /\ UNCHANGED <<code, endian, input, memory, lanes, columns, round, standard>>

KeccakNext ==
  \/ AddBytes \/ Decline \/ Load \/ PrepareTheta \/ RoundC \/ RoundAVX2 \/ RoundTiny
  \/ Store \/ Extract

KeccakSpec == KeccakInit /\ [][KeccakNext]_keccakVars

\* Every code computes the permutation of FIPS 202 on the bytes of a state,
\* round by round, and a byte is found where it was added, on machines of
\* either byte order: the tables of lanes and rotations, the constants, the
\* sums of columns carried to the next round and the conversions fit together
\* (keccakf1600.c, KeccakP_1600_times4_SIMD256.c, sha3.c).
PermutationAsSpecified ==
  /\ stage \in {"prepare", "rounds", "store"} => lanes = standard
  /\ stage = "done" =>
       \A k \in States : \A q \in Bytes :
         extracted[k][q] = {z \in 0 .. 7 : 64 * k + 8 * (q % 8) + z \in standard[q \div 8]}
=============================================================================
