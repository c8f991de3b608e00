---------------------------- MODULE HashingProofs ----------------------------
(***************************************************************************)
(* SHAKE by fips202.c, by fips202x4.c and by tiny_sha3 is the hash of the  *)
(* whole message, for every block length, message and output length, and   *)
(* however the calls cut them.  The argument: a state is always that of    *)
(* the message bytes absorbed so far (Absorbing), finalizing turns it into *)
(* that of the padded message (Squeezing), and output read from the n-th   *)
(* permutation after is block n of SHAKE.                                  *)
(*                                                                         *)
(* The challenge drawn with it is the one of the byte-wise algorithm.  The *)
(* argument: the byte read next is number Used of the hash, wherever the   *)
(* blocks end (NextIsUsed, from the above and ShakeInjective), and all     *)
(* candidates between the last accepted one and it were rejected in this   *)
(* round (DrawInv), so that the search of the specification stops where    *)
(* the loop does (FoundIs).  Its recursive functions exist by induction,   *)
(* which is done for a set of numbers (NumbersByInduction).                *)
(*                                                                         *)
(* The matrix, secrets and mask are those of their nonces.  The argument:  *)
(* a lane holds what was accepted of the candidates so far (Holds), kept   *)
(* by the C code (RejNextHolds) and by the kernels (KernelIs); a           *)
(* polynomial that no call has touched since is complete (DoneInv); and in *)
(* every schedule the last call that touches one has its nonce             *)
(* (Schedules, and RowCalls for the row buffer).                           *)
(*                                                                         *)
(* The permutation is Keccak-f[1600] in every code.  The argument: the     *)
(* tables of constants, lanes and rotations are what the standard's        *)
(* register and walk give (ConstantsAre, TablesAre), so that the round of  *)
(* each code is the standard's (Rounded), and the conversions of bytes     *)
(* undo each other on either byte order (LoadedAsAdded, ReadAsStored).     *)
(***************************************************************************)
EXTENDS Challenge, Sampling, Keccak, SequenceTheorems, FiniteSetTheorems,
        WellFoundedInduction, TLAPS

\* Block k of the first a bytes of m, the rest of it untouched.
Part(m, k, a) ==
  [u \in Position |-> IF k * Rate + u < a THEN {m[k * Rate + u + 1]} ELSE {}]

\* The state after a bytes of m, of which p blocks were permuted.
Absorbing(m, p, a) ==
  [past |-> [k \in 1 .. p |-> Part(m, k - 1, a)], block |-> Part(m, p, a)]

\* The state of the padded message with p blocks permuted.
Squeezing(m, p) ==
  [past |-> [k \in 1 .. p |-> BlockOf(m, k - 1)], block |-> BlockOf(m, p)]

Absorbed == Len(message) - inlen
Outputs(m) == {Shake(m, q) : q \in Nat}

TypeInv ==
  /\ message \in Seq(Byte) /\ out \in Seq(Outputs(message))
  /\ inlen \in 0 .. Len(message) /\ togo \in Nat /\ pos \in 0 .. Rate

\* Which loop may run in which phase of a context, and what is left to do.
PhaseInv ==
  /\ phase = "released" => pc = "ready" /\ inlen = 0 /\ out = <<>>
  /\ phase = "absorb" => pc \in {"ready", "absorbing"} /\ out = <<>>
  /\ phase = "absorb_x4" => pc = "absorbing_x4" /\ out = <<>>
  /\ phase = "absorb_tiny" => pc \in {"ready", "absorbing_tiny"} /\ out = <<>>
  /\ phase = "squeeze" => pc \in {"ready", "squeezing"} /\ inlen = 0
  /\ phase = "squeeze_x4" => pc \in {"ready", "squeezing_x4"} /\ inlen = 0
  /\ phase = "squeeze_tiny" => pc \in {"ready", "squeezing_tiny"} /\ inlen = 0
  /\ phase \in {"released", "absorb", "absorb_x4", "absorb_tiny", "squeeze",
                "squeeze_x4", "squeeze_tiny"}
  /\ pc = "ready" => inlen = 0
  /\ pc = "absorbing_tiny" => inlen > 0
  /\ pc = "squeezing_tiny" => togo > 0

AbsorbInv ==
  phase \in {"absorb", "absorb_x4", "absorb_tiny"} =>
    \E p \in Nat :
      /\ Absorbed = p * Rate + pos /\ pos < Rate
      /\ s = Absorbing(message, p, Absorbed)
      /\ phase = "absorb_x4" => pos = 0

\* n permutations since the message was padded.  The serial code permutes
\* when it needs output, tiny_sha3 at once, the batch before every block.
SqueezeInv ==
  phase \in {"squeeze", "squeeze_x4", "squeeze_tiny"} =>
    \E n \in Nat :
      /\ s = Squeezing(message, LastBlock(message) + n)
      /\ phase = "squeeze" => Len(out) = (n - 1) * Rate + pos
      /\ phase = "squeeze_tiny" => Len(out) = (n - 1) * Rate + pos /\ n > 0
      /\ phase = "squeeze_x4" => Len(out) = n * Rate

IInv == TypeInv /\ PhaseInv /\ AbsorbInv /\ SqueezeInv /\ OutputIsShake

-----------------------------------------------------------------------------
(* Arithmetic of blocks.                                                   *)

LEMMA Earlier ==
  ASSUME NEW r \in Nat, NEW k \in Int, NEW p \in Int, k < p
  PROVE  k * r + r =< p * r
<1> DEFINE d == p - k - 1
<1>1. d \in Nat
  OBVIOUS
<1>2. p = k + 1 + d
  OBVIOUS
<1> HIDE DEF d
<1>3. d * r \in Nat
  BY <1>1
<1>4. p * r = k * r + r + d * r
  BY <1>1, <1>2
<1> QED
  BY <1>3, <1>4

LEMMA Quotient ==
  ASSUME NEW r \in Nat \ {0}, NEW n \in Nat, NEW u \in 0 .. r - 1
  PROVE  /\ n * r \in Nat
         /\ (n * r + u) \div r = n
         /\ (n * r + u) % r = u
<1>1. n * r \in Nat
  OBVIOUS
<1> DEFINE x == n * r + u
           q == x \div r
           m == x % r
<1>2. x \in Nat
  BY <1>1
<1>3. q \in Int /\ m \in 0 .. r - 1 /\ x = q * r + m
  BY <1>2
<1> HIDE DEF q, m
<1>4. q = n
  <2>1. ~ (q < n)
    BY <1>1, <1>3, Earlier DEF x
  <2>2. ~ (n < q)
    BY <1>1, <1>3, Earlier DEF x
  <2> QED
    BY <1>3, <2>1, <2>2
<1>5. m = u
  BY <1>1, <1>3, <1>4 DEF x
<1> QED
  BY <1>1, <1>4, <1>5 DEF q, m, x

LEMMA AppendNext ==
  ASSUME NEW n \in Nat, NEW T, NEW f \in [1 .. n + 1 -> T]
  PROVE  Append([k \in 1 .. n |-> f[k]], f[n + 1]) = f
<1> DEFINE g == [k \in 1 .. n |-> f[k]]
<1>1. g \in Seq(T) /\ Len(g) = n
  OBVIOUS
<1>2. f \in Seq(T) /\ Len(f) = n + 1
  OBVIOUS
<1>3. /\ Append(g, f[n + 1]) \in Seq(T)
      /\ Len(Append(g, f[n + 1])) = n + 1
      /\ \A u \in 1 .. n + 1 : Append(g, f[n + 1])[u] = f[u]
  BY <1>1, AppendProperties
<1> QED
  BY <1>2, <1>3, SeqEqual

-----------------------------------------------------------------------------
(* What the operations on a state do to these states.                      *)

LEMMA PartEqual ==
  ASSUME NEW m, NEW k, NEW a, NEW w,
         \A u \in Position : k * Rate + u < a <=> k * Rate + u < w
  PROVE  Part(m, k, a) = Part(m, k, w)
<1>1. \A u \in Position : Part(m, k, a)[u] = Part(m, k, w)[u]
  BY Zenon DEF Part
<1>2. /\ Part(m, k, a) = [u \in Position |-> Part(m, k, a)[u]]
      /\ Part(m, k, w) = [u \in Position |-> Part(m, k, w)[u]]
  BY DEF Part
<1> QED
  BY <1>1, <1>2

\* in holds the n bytes of m behind the first a; two messages begin alike.
Follows(in, m, a, n) == \A j \in 0 .. n - 1 : in[j] = {m[a + j + 1]}
SameStart(m, m2, a) == \A j \in 1 .. a : m[j] = m2[j]

\* A block with bytes, or one byte, added.
Plus(block, in, at, n) ==
  [u \in Position |-> IF u \in at .. at + n - 1 THEN Xor(block[u], in[u - at])
                                                ELSE block[u]]
PlusOne(block, b, at) ==
  [u \in Position |-> IF u = at THEN Xor(block[u], b) ELSE block[u]]

LEMMA PlusFunction ==
  ASSUME NEW block, NEW in, NEW at, NEW n, NEW b
  PROVE  /\ Plus(block, in, at, n) = [u \in Position |-> Plus(block, in, at, n)[u]]
         /\ PlusOne(block, b, at) = [u \in Position |-> PlusOne(block, b, at)[u]]
BY DEF Plus, PlusOne

LEMMA XorBlock ==
  ASSUME NEW past, NEW block, NEW in, NEW at, NEW n
  PROVE  XorBytes([past |-> past, block |-> block], in, at, n)
           = [past |-> past, block |-> Plus(block, in, at, n)]
<1> DEFINE t == [past |-> past, block |-> block]
<1>1. t.block = block
  OBVIOUS
<1>2. XorBytes(t, in, at, n) = [t EXCEPT !.block = Plus(t.block, in, at, n)]
  BY Zenon DEF XorBytes, Plus
<1>3. [t EXCEPT !.block = Plus(block, in, at, n)]
        = [past |-> past, block |-> Plus(block, in, at, n)]
  OBVIOUS
<1> QED
  BY <1>1, <1>2, <1>3

\* Adding the next n bytes of the message behind those already in the block.
LEMMA AbsorbBytes ==
  ASSUME NEW m \in Seq(Byte), NEW p \in Nat, NEW at \in 0 .. Rate - 1,
         NEW a \in Nat, a = p * Rate + at,
         NEW n \in Nat, at + n =< Rate, a + n =< Len(m),
         NEW in, Follows(in, m, a, n)
  PROVE  XorBytes(Absorbing(m, p, a), in, at, n) = Absorbing(m, p, a + n)
<1> USE SpongeAssumption
<1>1. ASSUME NEW k \in 1 .. p
      PROVE  Part(m, k - 1, a) = Part(m, k - 1, a + n)
  <2>1. (k - 1) * Rate + Rate =< p * Rate
    BY Earlier
  <2>2. (k - 1) * Rate \in Int /\ p * Rate \in Int
    OBVIOUS
  <2>3. \A u \in Position : (k - 1) * Rate + u < a /\ (k - 1) * Rate + u < a + n
    BY <2>1, <2>2 DEF Position
  <2> QED
    BY <2>3, PartEqual
<1>2. ASSUME NEW u \in Position
      PROVE  (IF u \in at .. at + n - 1 THEN Xor(Part(m, p, a)[u], in[u - at])
                                        ELSE Part(m, p, a)[u])
             = Part(m, p, a + n)[u]
  <2> DEFINE b == p * Rate
  <2>1. b \in Int /\ a = b + at
    OBVIOUS
  <2>2. Part(m, p, a)[u] = IF b + u < a THEN {m[b + u + 1]} ELSE {}
    BY DEF Part
  <2>3. Part(m, p, a + n)[u] = IF b + u < a + n THEN {m[b + u + 1]} ELSE {}
    BY DEF Part
  <2> HIDE DEF b
  <2>4. CASE u \in at .. at + n - 1
    <3>1. u - at \in 0 .. n - 1 /\ a + (u - at) + 1 = b + u + 1
      BY <2>1, <2>4 DEF Position
    <3>2. in[u - at] = {m[b + u + 1]}
      BY <3>1 DEF Follows
    <3>3. ~ (b + u < a) /\ b + u < a + n
      BY <2>1, <2>4 DEF Position
    <3> QED
      BY <2>2, <2>3, <2>4, <3>2, <3>3 DEF Xor
  <2>5. CASE u \notin at .. at + n - 1
    BY <2>1, <2>2, <2>3, <2>5 DEF Position
  <2> QED
    BY <2>4, <2>5
<1>3. Plus(Part(m, p, a), in, at, n) = Part(m, p, a + n)
  <2>1. Part(m, p, a + n) = [u \in Position |-> Part(m, p, a + n)[u]]
    BY DEF Part
  <2> QED
    BY <1>2, <2>1 DEF Plus
<1>4. [k \in 1 .. p |-> Part(m, k - 1, a)] = [k \in 1 .. p |-> Part(m, k - 1, a + n)]
  BY <1>1
<1> DEFINE past == [k \in 1 .. p |-> Part(m, k - 1, a)]
           old == Part(m, p, a)
           new == Part(m, p, a + n)
<1>5. Absorbing(m, p, a) = [past |-> past, block |-> old]
  BY DEF Absorbing
<1>6. Absorbing(m, p, a + n) = [past |-> past, block |-> new]
  BY <1>4 DEF Absorbing
<1> HIDE DEF past, old, new
<1>7. XorBytes([past |-> past, block |-> old], in, at, n)
        = [past |-> past, block |-> Plus(old, in, at, n)]
  BY XorBlock
<1> QED
  BY <1>3, <1>5, <1>6, <1>7 DEF old, new

\* A full block is permuted.
LEMMA PermuteAbsorbed ==
  ASSUME NEW m \in Seq(Byte), NEW p \in Nat, NEW a \in Nat, a = p * Rate + Rate
  PROVE  Permute(Absorbing(m, p, a)) = Absorbing(m, p + 1, a)
<1> USE SpongeAssumption
<1> DEFINE F == [k \in 1 .. p + 1 |-> Part(m, k - 1, a)]
<1>1. F \in [1 .. p + 1 -> {F[k] : k \in 1 .. p + 1}]
  OBVIOUS
<1>2. Append([k \in 1 .. p |-> F[k]], F[p + 1]) = F
  BY <1>1, AppendNext
<1>3. [k \in 1 .. p |-> F[k]] = [k \in 1 .. p |-> Part(m, k - 1, a)]
  <2>1. \A k \in 1 .. p : F[k] = Part(m, k - 1, a)
    OBVIOUS
  <2> HIDE DEF F
  <2> QED
    BY <2>1
<1>4. F[p + 1] = Part(m, p, a)
  OBVIOUS
<1>5. Zero = Part(m, p + 1, a)
  <2>1. p * Rate \in Int /\ (p + 1) * Rate = a
    OBVIOUS
  <2>2. \A u \in Position : ~ ((p + 1) * Rate + u < a)
    BY <2>1 DEF Position
  <2> QED
    BY <2>2 DEF Zero, Part
<1> HIDE DEF F
<1>6. Append([k \in 1 .. p |-> Part(m, k - 1, a)], Part(m, p, a)) = F
  BY <1>2, <1>3, <1>4
<1> QED
  BY <1>5, <1>6 DEF Permute, Absorbing, F

LEMMA PermuteSqueezed ==
  ASSUME NEW m \in Seq(Byte), NEW p \in Nat, p >= LastBlock(m)
  PROVE  Permute(Squeezing(m, p)) = Squeezing(m, p + 1)
<1> USE SpongeAssumption
<1> DEFINE F == [k \in 1 .. p + 1 |-> BlockOf(m, k - 1)]
<1>1. F \in [1 .. p + 1 -> {F[k] : k \in 1 .. p + 1}]
  OBVIOUS
<1>2. Append([k \in 1 .. p |-> F[k]], F[p + 1]) = F
  BY <1>1, AppendNext
<1>3. [k \in 1 .. p |-> F[k]] = [k \in 1 .. p |-> BlockOf(m, k - 1)]
  <2>1. \A k \in 1 .. p : F[k] = BlockOf(m, k - 1)
    OBVIOUS
  <2> HIDE DEF F
  <2> QED
    BY <2>1
<1>4. F[p + 1] = BlockOf(m, p)
  OBVIOUS
<1>5. Zero = BlockOf(m, p + 1)
  <2>1. LastBlock(m) \in Int
    BY DEF LastBlock
  <2> QED
    BY <2>1 DEF BlockOf
<1> HIDE DEF F
<1>6. Append([k \in 1 .. p |-> BlockOf(m, k - 1)], BlockOf(m, p)) = F
  BY <1>2, <1>3, <1>4
<1> QED
  BY <1>5, <1>6 DEF Permute, Squeezing, F

LEMMA SameFunction ==
  ASSUME NEW S, NEW g, NEW h, g = [u \in S |-> g[u]], h = [u \in S |-> h[u]],
         \A u \in S : g[u] = h[u]
  PROVE  g = h
BY Zenon

LEMMA XorOne ==
  ASSUME NEW past, NEW block, NEW b, NEW at \in Int
  PROVE  XorByte([past |-> past, block |-> block], b, at)
           = [past |-> past, block |-> PlusOne(block, b, at)]
<1> DEFINE in == [j \in {0} |-> b]
<1>1. Plus(block, in, at, 1) = PlusOne(block, b, at)
  <2>1. \A u \in Position : u \in at .. at + 1 - 1 <=> u = at
    BY SpongeAssumption DEF Position
  <2>2. in[at - at] = b
    OBVIOUS
  <2>3. \A u \in Position : Plus(block, in, at, 1)[u] = PlusOne(block, b, at)[u]
    BY <2>1, <2>2 DEF Plus, PlusOne
  <2>4. /\ Plus(block, in, at, 1) = [u \in Position |-> Plus(block, in, at, 1)[u]]
        /\ PlusOne(block, b, at) = [u \in Position |-> PlusOne(block, b, at)[u]]
    BY PlusFunction
  <2> QED
    BY <2>3, <2>4, SameFunction
<1>2. XorByte([past |-> past, block |-> block], b, at)
        = XorBytes([past |-> past, block |-> block], in, at, 1)
  BY DEF XorByte
<1> HIDE DEF in
<1> QED
  BY <1>1, <1>2, XorBlock

\* The block the end of the message lies in, once it is padded.
LEMMA PaddedBlock ==
  ASSUME NEW m \in Seq(Byte), NEW p \in Nat, NEW at \in 0 .. Rate - 1,
         Len(m) = p * Rate + at
  PROVE  /\ LastBlock(m) = p
         /\ \A k \in 1 .. p : Part(m, k - 1, Len(m)) = BlockOf(m, k - 1)
         /\ \A u \in Position :
              BlockOf(m, p)[u] = Part(m, p, Len(m))[u]
                                   \cup (IF u = at THEN {Suffix} ELSE {})
                                   \cup (IF u = Rate - 1 THEN {Last} ELSE {})
         /\ \A u \in Position : u >= at => Part(m, p, Len(m))[u] = {}
<1> USE SpongeAssumption
<1>1. LastBlock(m) = p /\ p * Rate \in Nat
  BY Quotient DEF LastBlock
<1>2. ASSUME NEW k \in 1 .. p
      PROVE  Part(m, k - 1, Len(m)) = BlockOf(m, k - 1)
  <2>1. (k - 1) * Rate + Rate =< p * Rate /\ (k - 1) * Rate \in Int
    BY Earlier
  <2>2. \A u \in Position : (k - 1) * Rate + u < Len(m)
    BY <1>1, <2>1 DEF Position
  <2> DEFINE G == [u \in Position |-> Padded(m, (k - 1) * Rate + u)]
  <2>3. BlockOf(m, k - 1) = G
    BY <1>1 DEF BlockOf
  <2>4. \A u \in Position : Padded(m, (k - 1) * Rate + u) = {m[(k - 1) * Rate + u + 1]}
    BY <2>2, Zenon DEF Padded
  <2>5. \A u \in Position : Part(m, k - 1, Len(m))[u] = {m[(k - 1) * Rate + u + 1]}
    BY <2>2, Zenon DEF Part
  <2>6. Part(m, k - 1, Len(m)) = [u \in Position |-> Part(m, k - 1, Len(m))[u]]
    BY DEF Part
  <2>7. G = [u \in Position |-> G[u]] /\ \A u \in Position : G[u] = Part(m, k - 1, Len(m))[u]
    BY <2>4, <2>5
  <2> HIDE DEF G
  <2> QED
    BY <2>3, <2>6, <2>7, SameFunction
<1>3. ASSUME NEW u \in Position
      PROVE  /\ BlockOf(m, p)[u] = Part(m, p, Len(m))[u]
                                     \cup (IF u = at THEN {Suffix} ELSE {})
                                     \cup (IF u = Rate - 1 THEN {Last} ELSE {})
             /\ u >= at => Part(m, p, Len(m))[u] = {}
  <2> DEFINE j == p * Rate + u
  <2>1. u \in 0 .. Rate - 1 /\ j \in Int
    BY DEF Position
  <2>2. j % Rate = u
    BY <2>1, Quotient
  <2>3. (j < Len(m) <=> u < at) /\ (j = Len(m) <=> u = at)
    BY <1>1, <2>1
  <2>4. BlockOf(m, p)[u] = Padded(m, j)
    BY <1>1 DEF BlockOf
  <2>5. Part(m, p, Len(m))[u] = IF j < Len(m) THEN {m[j + 1]} ELSE {}
    BY DEF Part
  <2>6. Padded(m, j) =
          IF u < at THEN {m[j + 1]}
          ELSE (IF u = at THEN {Suffix} ELSE {})
                 \cup (IF u = Rate - 1 THEN {Last} ELSE {})
    BY <2>2, <2>3 DEF Padded
  <2> HIDE DEF j
  <2>7. u < at => u # at /\ u # Rate - 1 /\ ~ (u >= at)
    BY <2>1
  <2>8. u >= at => ~ (u < at)
    BY <2>1
  <2> QED
    BY <2>3, <2>4, <2>5, <2>6, <2>7, <2>8
<1> QED
  BY <1>1, <1>2, <1>3

\* Suffix at the end of the message, the last bit at the end of the block.
LEMMA Padding ==
  ASSUME NEW m \in Seq(Byte), NEW p \in Nat, NEW at \in 0 .. Rate - 1,
         Len(m) = p * Rate + at
  PROVE  /\ XorByte(XorByte(Absorbing(m, p, Len(m)), {Suffix}, at), {Last}, Rate - 1)
              = Squeezing(m, p)
         /\ at = Rate - 1 =>
              XorByte(Absorbing(m, p, Len(m)), {Suffix, Last}, at) = Squeezing(m, p)
<1> USE SpongeAssumption
<1> DEFINE past == [k \in 1 .. p |-> Part(m, k - 1, Len(m))]
           B == Part(m, p, Len(m))
           C == PlusOne(B, {Suffix}, at)
           E == PlusOne(C, {Last}, Rate - 1)
           F == PlusOne(B, {Suffix, Last}, at)
<1>1. Absorbing(m, p, Len(m)) = [past |-> past, block |-> B]
  BY DEF Absorbing
<1>2. Squeezing(m, p) = [past |-> past, block |-> BlockOf(m, p)]
  <2> DEFINE G == [k \in 1 .. p |-> BlockOf(m, k - 1)]
  <2>1. \A k \in 1 .. p : past[k] = G[k]
    <3>1. \A k \in 1 .. p : Part(m, k - 1, Len(m)) = BlockOf(m, k - 1)
      BY PaddedBlock
    <3> QED
      BY <3>1
  <2>2. past = [k \in 1 .. p |-> past[k]] /\ G = [k \in 1 .. p |-> G[k]]
    OBVIOUS
  <2>3. Squeezing(m, p) = [past |-> G, block |-> BlockOf(m, p)]
    BY DEF Squeezing
  <2> HIDE DEF past, G
  <2>4. past = G
    BY <2>1, <2>2, SameFunction
  <2> QED
    BY <2>3, <2>4
<1>3. BlockOf(m, p) = [u \in Position |-> BlockOf(m, p)[u]]
  <2> DEFINE G == [u \in Position |-> Padded(m, p * Rate + u)]
  <2>1. BlockOf(m, p) = G
    <3>1. LastBlock(m) = p
      BY PaddedBlock
    <3> QED
      BY <3>1 DEF BlockOf
  <2>2. G = [u \in Position |-> G[u]]
    OBVIOUS
  <2> HIDE DEF G
  <2> QED
    BY <2>1, <2>2
<1>4. ASSUME NEW u \in Position
      PROVE  /\ E[u] = BlockOf(m, p)[u]
             /\ at = Rate - 1 => F[u] = BlockOf(m, p)[u]
  <2>1. /\ BlockOf(m, p)[u] = B[u] \cup (IF u = at THEN {Suffix} ELSE {})
                                   \cup (IF u = Rate - 1 THEN {Last} ELSE {})
        /\ u >= at => B[u] = {}
    BY PaddedBlock
  <2>2. u \in Int /\ u =< Rate - 1 /\ Suffix # Last
    BY DEF Position, Suffix, Last
  <2>3. C[u] = IF u = at THEN Xor(B[u], {Suffix}) ELSE B[u]
    BY Zenon DEF PlusOne
  <2>4. E[u] = IF u = Rate - 1 THEN Xor(C[u], {Last}) ELSE C[u]
    BY Zenon DEF PlusOne
  <2>5. F[u] = IF u = at THEN Xor(B[u], {Suffix, Last}) ELSE B[u]
    BY Zenon DEF PlusOne
  <2> HIDE DEF B, C, E, F
  <2>6. CASE u < at
    <3>1. u # at /\ u # Rate - 1
      BY <2>2, <2>6
    <3> QED
      BY <2>1, <2>3, <2>4, <2>5, <3>1
  <2>7. CASE u = at
    <3>1. B[u] = {}
      BY <2>1, <2>2, <2>7
    <3>2. C[u] = {Suffix}
      BY <2>3, <2>7, <3>1 DEF Xor
    <3>3. F[u] = {Suffix, Last}
      BY <2>5, <2>7, <3>1 DEF Xor
    <3>4. u = Rate - 1 => E[u] = {Suffix, Last}
      BY <2>2, <2>4, <3>2 DEF Xor
    <3> QED
      BY <2>1, <2>4, <2>7, <3>1, <3>2, <3>3, <3>4
  <2>8. CASE u > at
    <3>1. B[u] = {} /\ u # at
      BY <2>1, <2>2, <2>8
    <3>2. C[u] = {} /\ at # Rate - 1
      BY <2>2, <2>3, <2>8, <3>1
    <3>3. u = Rate - 1 => E[u] = {Last}
      BY <2>4, <3>2 DEF Xor
    <3> QED
      BY <2>1, <2>4, <3>1, <3>2, <3>3
  <2> QED
    BY <2>2, <2>6, <2>7, <2>8
<1>5. E = [u \in Position |-> E[u]] /\ F = [u \in Position |-> F[u]]
  BY Zenon DEF PlusOne
<1>6. /\ XorByte([past |-> past, block |-> B], {Suffix}, at) = [past |-> past, block |-> C]
      /\ XorByte([past |-> past, block |-> B], {Suffix, Last}, at)
           = [past |-> past, block |-> F]
  <2> DEFINE x == {Suffix}
             xs == {Suffix, Last}
  <2>1. at \in Int
    OBVIOUS
  <2> HIDE DEF past, B, x, xs
  <2>2. /\ XorByte([past |-> past, block |-> B], x, at)
             = [past |-> past, block |-> PlusOne(B, x, at)]
        /\ XorByte([past |-> past, block |-> B], xs, at)
             = [past |-> past, block |-> PlusOne(B, xs, at)]
    BY <2>1, XorOne
  <2> QED
    BY <2>2 DEF x, xs
<1>7. XorByte([past |-> past, block |-> C], {Last}, Rate - 1) = [past |-> past, block |-> E]
  <2> DEFINE x == {Last}
             end == Rate - 1
  <2>1. end \in Int
    OBVIOUS
  <2> HIDE DEF past, C, x, end
  <2>2. XorByte([past |-> past, block |-> C], x, end)
          = [past |-> past, block |-> PlusOne(C, x, end)]
    BY <2>1, XorOne
  <2> QED
    BY <2>2 DEF x, end
<1> HIDE DEF past, B, C, E, F
<1>8. E = BlockOf(m, p)
  BY <1>3, <1>4, <1>5
<1>9. at = Rate - 1 => F = BlockOf(m, p)
  BY <1>3, <1>4, <1>5
<1> QED
  BY <1>1, <1>2, <1>6, <1>7, <1>8, <1>9

\* n bytes read from block b of the output, from position from on.
LEMMA OutputBytes ==
  ASSUME NEW m \in Seq(Byte), NEW b \in Nat, NEW from \in Nat, NEW n \in Nat,
         from + n =< Rate
  PROVE  \A j \in 1 .. n :
           ExtractBytes(Squeezing(m, LastBlock(m) + b + 1), from, n)[j]
             = Shake(m, b * Rate + from + j - 1)
<1> USE SpongeAssumption
<1> SUFFICES ASSUME NEW j \in 1 .. n
             PROVE  ExtractBytes(Squeezing(m, LastBlock(m) + b + 1), from, n)[j]
                      = Shake(m, b * Rate + from + j - 1)
  OBVIOUS
<1> DEFINE l == LastBlock(m)
           q == b * Rate + from + j - 1
           u == from + j - 1
<1>1. l \in Int
  BY DEF LastBlock
<1>2. u \in 0 .. Rate - 1 /\ b * Rate \in Nat /\ q = b * Rate + u
  OBVIOUS
<1>3. q \div Rate = b /\ q % Rate = u
  <2> HIDE DEF q, u
  <2> QED
    BY <1>2, Quotient
<1>4. ExtractBytes(Squeezing(m, l + b + 1), from, n)[j]
        = [state |-> Squeezing(m, l + b + 1), at |-> u]
  BY DEF ExtractBytes
<1>5. Squeezing(m, l + b + 1) = [past |-> [k \in 1 .. l + b + 1 |-> BlockOf(m, k - 1)],
                                 block |-> Zero]
  <2>1. BlockOf(m, l + b + 1) = Zero
    BY <1>1 DEF BlockOf
  <2> QED
    BY <2>1 DEF Squeezing
<1>6. l + b + 1 = l + 1 + b
  BY <1>1
<1> HIDE DEF l, q, u
<1>7. Shake(m, q) = [state |-> [past |-> [k \in 1 .. l + 1 + b |-> BlockOf(m, k - 1)],
                                block |-> Zero],
                     at |-> u]
  BY <1>3 DEF Shake, l
<1> QED
  BY <1>4, <1>5, <1>6, <1>7 DEF l, q

LEMMA LastBlockNat ==
  ASSUME NEW m \in Seq(Byte)
  PROVE  LastBlock(m) \in Nat
<1>1. Len(m) \in Nat /\ Rate \in Nat \ {0}
  BY SpongeAssumption
<1> DEFINE l == Len(m)
<1> HIDE DEF l
<1>2. l \div Rate \in Nat
  BY <1>1 DEF l
<1> QED
  BY <1>2 DEF LastBlock, l

\* The state that block b of the output is read from, and n of its bytes after o.
OutputBlock(m, b) == Squeezing(m, LastBlock(m) + b + 1)
Longer(o, m, b, from, n) == o \o ExtractBytes(OutputBlock(m, b), from, n)
Hashed(m, o) == \A q \in 1 .. Len(o) : o[q] = Shake(m, q - 1)

LEMMA OutputMore ==
  ASSUME NEW m \in Seq(Byte), NEW b \in Nat, NEW from \in Nat, NEW n \in Nat,
         from + n =< Rate,
         NEW o \in Seq(Outputs(m)), Len(o) = b * Rate + from,
         Hashed(m, o)
  PROVE  /\ Longer(o, m, b, from, n) \in Seq(Outputs(m))
         /\ Len(Longer(o, m, b, from, n)) = b * Rate + from + n
         /\ Hashed(m, Longer(o, m, b, from, n))
<1> USE SpongeAssumption DEF OutputBlock
<1> DEFINE o2 == Longer(o, m, b, from, n)
<1> DEFINE x == ExtractBytes(Squeezing(m, LastBlock(m) + b + 1), from, n)
           w == b * Rate + from
<1>1. w \in Nat
  OBVIOUS
<1>2. \A j \in 1 .. n : x[j] = Shake(m, w + j - 1)
  BY OutputBytes
<1>3. x = [j \in 1 .. n |-> x[j]]
  BY DEF ExtractBytes
<1> HIDE DEF x, w
<1>4. \A j \in 1 .. n : x[j] \in Outputs(m)
  BY <1>1, <1>2 DEF Outputs
<1>5. x \in Seq(Outputs(m)) /\ Len(x) = n
  <2>1. x \in [1 .. n -> Outputs(m)]
    BY <1>3, <1>4
  <2> QED
    BY <2>1
<1>6. Len(o) = w /\ o2 = o \o x
  BY DEF x, w, Longer
<1> HIDE DEF o2
<1>7. /\ o2 \in Seq(Outputs(m)) /\ Len(o2) = w + n
      /\ \A u \in 1 .. w + n : o2[u] = IF u =< w THEN o[u] ELSE x[u - w]
  <2>1. /\ o \o x \in Seq(Outputs(m)) /\ Len(o \o x) = Len(o) + Len(x)
        /\ \A u \in 1 .. Len(o) + Len(x) :
             (o \o x)[u] = IF u =< Len(o) THEN o[u] ELSE x[u - Len(o)]
    BY <1>5, ConcatProperties
  <2> QED
    BY <1>5, <1>6, <2>1
<1>8. ASSUME NEW r \in 1 .. w + n PROVE o2[r] = Shake(m, r - 1)
  <2>1. CASE r =< w
    BY <1>1, <1>6, <1>7, <2>1 DEF Hashed
  <2>2. CASE r > w
    <3>1. r - w \in 1 .. n /\ w + (r - w) - 1 = r - 1
      BY <1>1, <2>2
    <3> QED
      <4> DEFINE j == r - w
      <4>1. x[j] = Shake(m, r - 1)
        <5> HIDE DEF j
        <5> QED
          BY <1>2, <3>1 DEF j
      <4> QED
        BY <1>1, <1>7, <2>2, <4>1
  <2>3. r =< w \/ r > w
    BY <1>1
  <2> QED
    BY <2>1, <2>2, <2>3
<1> QED
  BY <1>7, <1>8 DEF w, Hashed, o2

\* Only the bytes absorbed matter.
LEMMA AbsorbingSame ==
  ASSUME NEW m \in Seq(Byte), NEW m2 \in Seq(Byte), NEW p \in Nat, NEW a \in Nat,
         SameStart(m, m2, a)
  PROVE  Absorbing(m, p, a) = Absorbing(m2, p, a)
<1> USE SpongeAssumption
<1>1. ASSUME NEW k \in Nat PROVE Part(m, k, a) = Part(m2, k, a)
  <2>1. k * Rate \in Nat
    OBVIOUS
  <2>2. \A u \in Position : k * Rate + u < a => k * Rate + u + 1 \in 1 .. a
    BY <2>1 DEF Position
  <2>3. \A u \in Position : Part(m, k, a)[u] = Part(m2, k, a)[u]
    BY <2>2, Zenon DEF Part, SameStart
  <2>4. /\ Part(m, k, a) = [u \in Position |-> Part(m, k, a)[u]]
        /\ Part(m2, k, a) = [u \in Position |-> Part(m2, k, a)[u]]
    BY DEF Part
  <2> QED
    BY <2>3, <2>4, SameFunction
<1>2. \A k \in 1 .. p : Part(m, k - 1, a) = Part(m2, k - 1, a)
  BY <1>1
<1>3. [k \in 1 .. p |-> Part(m, k - 1, a)] = [k \in 1 .. p |-> Part(m2, k - 1, a)]
  BY <1>2
<1> QED
  BY <1>1, <1>3 DEF Absorbing

LEMMA AbsorbingNothing ==
  ASSUME NEW m \in Seq(Byte)
  PROVE  Absorbing(m, 0, 0) = [past |-> <<>>, block |-> Zero]
<1>1. Part(m, 0, 0) = Zero
  <2>1. \A u \in Position : ~ (0 * Rate + u < 0)
    BY SpongeAssumption DEF Position
  <2> QED
    BY <2>1 DEF Part, Zero
<1>2. [k \in 1 .. 0 |-> Part(m, k - 1, 0)] = <<>>
  OBVIOUS
<1> QED
  BY <1>1, <1>2 DEF Absorbing

LEMMA InputsAreSequences == \A in \in Input : in \in Seq(Byte)
BY SpongeAssumption DEF Input

LEMMA NextBytes ==
  ASSUME TypeInv
  PROVE  \A j \in 0 .. inlen - 1 : In[j] = {message[Absorbed + j + 1]}
BY DEF In, Absorbed

-----------------------------------------------------------------------------
(* The invariant.                                                          *)

LEMMA InitInv == Init => IInv
<1> SUFFICES ASSUME Init PROVE IInv
  OBVIOUS
<1> USE SpongeAssumption DEF Init
<1>1. TypeInv
  BY DEF TypeInv
<1>2. PhaseInv
  BY DEF PhaseInv
<1> QED
  BY <1>1, <1>2 DEF IInv, AbsorbInv, SqueezeInv, OutputIsShake

\* A computation begins with the empty state.
LEMMA BeginInv ==
  ASSUME IInv, Begin, phase' \in {"absorb", "absorb_x4", "absorb_tiny"},
         message' \in Seq(Byte), inlen' = Len(message'), togo' = togo,
         phase' = "absorb_x4" => pc' = "absorbing_x4",
         phase' # "absorb_x4" => pc' = "ready" /\ inlen' = 0
  PROVE  IInv'
<1> USE SpongeAssumption
<1>1. TypeInv'
  BY DEF IInv, TypeInv, Begin
<1>2. PhaseInv'
  BY DEF PhaseInv, Begin
<1>3. AbsorbInv'
  <2>1. Absorbed' = 0 /\ pos' = 0
    BY DEF Absorbed, Begin
  <2>2. s' = Absorbing(message', 0, 0)
    BY AbsorbingNothing DEF Begin
  <2>3. Absorbed' = 0 * Rate + pos'
    BY <2>1
  <2> QED
    BY <2>1, <2>2, <2>3 DEF AbsorbInv
<1> QED
  BY <1>1, <1>2, <1>3 DEF IInv, SqueezeInv, OutputIsShake, Begin

LEMMA InitsInv == IInv /\ (ShakeInit \/ TinyInit) => IInv'
<1> SUFFICES ASSUME IInv, ShakeInit \/ TinyInit PROVE IInv'
  OBVIOUS
<1>1. /\ Begin /\ phase' \in {"absorb", "absorb_tiny"} /\ message' = <<>>
      /\ pc' = "ready" /\ inlen' = 0 /\ togo' = togo
  BY DEF IInv, PhaseInv, ShakeInit, TinyInit, Begin
<1>2. message' \in Seq(Byte) /\ inlen' = Len(message')
  BY <1>1
<1> QED
  BY <1>1, <1>2, BeginInv

LEMMA AbsorbOnceX4Inv ==
  ASSUME NEW in \in Input
  PROVE  IInv /\ AbsorbOnceX4(in) => IInv'
<1> SUFFICES ASSUME IInv, AbsorbOnceX4(in) PROVE IInv'
  OBVIOUS
<1>1. in \in Seq(Byte)
  BY InputsAreSequences
<1>2. /\ Begin /\ phase' = "absorb_x4" /\ message' = in
      /\ pc' = "absorbing_x4" /\ inlen' = Len(in) /\ togo' = togo
  BY DEF AbsorbOnceX4
<1> QED
  BY <1>1, <1>2, BeginInv

\* A call that adds input: nothing of it is taken yet.
LEMMA CallAbsorbInv ==
  ASSUME NEW in \in Input
  PROVE  IInv /\ (Absorb(in) \/ TinyAbsorb(in)) => IInv'
<1> SUFFICES ASSUME IInv, Absorb(in) \/ TinyAbsorb(in) PROVE IInv'
  OBVIOUS
<1> USE SpongeAssumption
<1>1. in \in Seq(Byte) /\ message \in Seq(Byte)
  BY InputsAreSequences DEF IInv, TypeInv
<1>2. /\ phase \in {"absorb", "absorb_tiny"} /\ phase' = phase /\ pc = "ready"
      /\ message' = message \o in /\ inlen' = Len(in)
      /\ s' = s /\ pos' = pos /\ togo' = togo /\ out' = out
      /\ phase = "absorb" => pc' = "absorbing"
      /\ phase = "absorb_tiny" => pc' = "absorbing_tiny" /\ Len(in) > 0
  BY DEF Absorb, TinyAbsorb
<1>3. inlen = 0 /\ out = <<>>
  BY <1>2 DEF IInv, PhaseInv
<1>4. /\ message' \in Seq(Byte) /\ Len(message') = Len(message) + Len(in)
      /\ \A j \in 1 .. Len(message) : message'[j] = message[j]
  <2>1. /\ message \o in \in Seq(Byte) /\ Len(message \o in) = Len(message) + Len(in)
        /\ \A j \in 1 .. Len(message) + Len(in) :
             (message \o in)[j] = IF j =< Len(message) THEN message[j]
                                                       ELSE in[j - Len(message)]
    BY <1>1, ConcatProperties
  <2> QED
    BY <1>1, <1>2, <2>1
<1>5. Absorbed' = Absorbed /\ Absorbed = Len(message) /\ Absorbed \in Nat
  BY <1>1, <1>2, <1>3, <1>4 DEF Absorbed
<1>6. TypeInv'
  BY <1>1, <1>2, <1>3, <1>4 DEF IInv, TypeInv
<1>7. PhaseInv'
  BY <1>1, <1>2, <1>3 DEF IInv, PhaseInv
<1>8. AbsorbInv'
  <2>1. PICK p \in Nat : /\ Absorbed = p * Rate + pos /\ pos < Rate
                         /\ s = Absorbing(message, p, Absorbed)
    BY <1>2 DEF IInv, AbsorbInv
  <2>2. Absorbing(message', p, Absorbed') = Absorbing(message, p, Absorbed)
    <3>1. SameStart(message, message', Absorbed)
      BY <1>4, <1>5 DEF SameStart
    <3> QED
      BY <1>1, <1>4, <1>5, <3>1, AbsorbingSame
  <2>3. /\ Absorbed' = p * Rate + pos' /\ pos' < Rate
        /\ s' = Absorbing(message', p, Absorbed') /\ phase' # "absorb_x4"
    BY <1>2, <1>5, <2>1, <2>2
  <2> QED
    BY <2>3 DEF AbsorbInv
<1> QED
  BY <1>2, <1>3, <1>6, <1>7, <1>8 DEF IInv, SqueezeInv, OutputIsShake

\* What a step that takes n bytes, and no more than fit the block, has to show.
LEMMA TakeBytes ==
  ASSUME IInv, phase \in {"absorb", "absorb_x4", "absorb_tiny"},
         NEW n \in Nat, n =< inlen, pos + n =< Rate,
         NEW in, \A j \in 0 .. n - 1 : in[j] = In[j]
  PROVE  \E p \in Nat :
           /\ Absorbed = p * Rate + pos /\ pos < Rate
           /\ phase = "absorb_x4" => pos = 0
           /\ XorBytes(s, in, pos, n) = Absorbing(message, p, Absorbed + n)
<1> USE SpongeAssumption
<1>1. PICK p \in Nat : /\ Absorbed = p * Rate + pos /\ pos < Rate
                       /\ s = Absorbing(message, p, Absorbed)
                       /\ phase = "absorb_x4" => pos = 0
  BY DEF IInv, AbsorbInv
<1>2. /\ message \in Seq(Byte) /\ pos \in 0 .. Rate - 1 /\ Absorbed \in Nat
      /\ inlen \in Nat /\ Absorbed + n =< Len(message)
  BY <1>1 DEF IInv, TypeInv, Absorbed
<1>3. Follows(in, message, Absorbed, n)
  <2>1. \A j \in 0 .. inlen - 1 : In[j] = {message[Absorbed + j + 1]}
    BY NextBytes DEF IInv
  <2>2. \A j \in 0 .. n - 1 : j \in 0 .. inlen - 1
    BY <1>2
  <2> QED
    BY <2>1, <2>2 DEF Follows
<1>4. XorBytes(Absorbing(message, p, Absorbed), in, pos, n) = Absorbing(message, p, Absorbed + n)
  BY <1>1, <1>2, <1>3, AbsorbBytes
<1> QED
  BY <1>1, <1>4

LEMMA AbsorbBlockInv == IInv /\ (AbsorbBlock \/ AbsorbBlockX4) => IInv'
<1> SUFFICES ASSUME IInv, AbsorbBlock \/ AbsorbBlockX4 PROVE IInv'
  OBVIOUS
<1> USE SpongeAssumption
<1>1. /\ phase \in {"absorb", "absorb_x4"} /\ phase' = phase /\ pc' = pc /\ out = <<>>
      /\ pc = "absorbing" => phase = "absorb"
      /\ pc = "absorbing_x4" => phase = "absorb_x4"
      /\ phase = "absorb_x4" => pos = 0
      /\ pos \in 0 .. Rate - 1 /\ inlen \in Nat /\ message \in Seq(Byte)
  BY DEF IInv, PhaseInv, AbsorbInv, TypeInv, AbsorbBlock, AbsorbBlockX4
<1> DEFINE n == Rate - pos
<1>2. /\ inlen >= n /\ s' = Permute(XorBytes(s, In, pos, n)) /\ inlen' = inlen - n
      /\ pos' = 0 /\ message' = message /\ out' = out /\ togo' = togo
  <2>1. CASE AbsorbBlock
    BY <2>1 DEF AbsorbBlock, FillsBlock
  <2>2. CASE AbsorbBlockX4
    <3>1. pos = 0
      BY <1>1, <2>2 DEF AbsorbBlockX4
    <3> QED
      BY <2>2, <3>1 DEF AbsorbBlockX4
  <2> QED
    BY <2>1, <2>2
<1>3. n \in Nat /\ n =< inlen /\ pos + n = Rate
  BY <1>1, <1>2
<1> HIDE DEF n
<1>4. PICK p \in Nat : /\ Absorbed = p * Rate + pos
                       /\ XorBytes(s, In, pos, n) = Absorbing(message, p, Absorbed + n)
  BY <1>1, <1>3, TakeBytes
<1>5. Absorbed + n = p * Rate + Rate /\ Absorbed + n \in Nat
  BY <1>1, <1>3, <1>4
<1>6. s' = Absorbing(message, p + 1, Absorbed + n)
  BY <1>1, <1>2, <1>4, <1>5, PermuteAbsorbed
<1>7. Absorbed' = Absorbed + n
  BY <1>1, <1>2, <1>3 DEF Absorbed
<1>8. TypeInv'
  BY <1>1, <1>2, <1>3 DEF IInv, TypeInv
<1>9. PhaseInv'
  BY <1>1, <1>2, <1>3 DEF IInv, PhaseInv, AbsorbBlock, AbsorbBlockX4
<1>10. AbsorbInv'
  <2>1. Absorbed' = (p + 1) * Rate + pos' /\ pos' < Rate
    BY <1>2, <1>5, <1>7
  <2> QED
    BY <1>2, <1>6, <1>7, <2>1 DEF AbsorbInv
<1> QED
  BY <1>1, <1>2, <1>8, <1>9, <1>10 DEF IInv, SqueezeInv, OutputIsShake

LEMMA AbsorbTailInv == IInv /\ AbsorbTail => IInv'
<1> SUFFICES ASSUME IInv, AbsorbTail PROVE IInv'
  OBVIOUS
<1> USE SpongeAssumption
<1>1. /\ phase = "absorb" /\ phase' = phase /\ pc' = "ready" /\ out = <<>>
      /\ inlen \in Nat /\ message \in Seq(Byte) /\ pos \in 0 .. Rate
      /\ inlen < Rate - pos /\ inlen' = 0 /\ pos' = pos + inlen
      /\ s' = XorBytes(s, In, pos, inlen)
      /\ message' = message /\ out' = out /\ togo' = togo
  BY DEF IInv, PhaseInv, TypeInv, AbsorbTail, FillsBlock
<1>2. PICK p \in Nat : /\ Absorbed = p * Rate + pos
                       /\ XorBytes(s, In, pos, inlen) = Absorbing(message, p, Absorbed + inlen)
  BY <1>1, TakeBytes
<1>3. Absorbed' = Absorbed + inlen
  BY <1>1 DEF Absorbed
<1>4. TypeInv'
  BY <1>1 DEF IInv, TypeInv
<1>5. PhaseInv'
  BY <1>1 DEF IInv, PhaseInv
<1>6. AbsorbInv'
  <2>1. Absorbed' = p * Rate + pos' /\ pos' < Rate
    BY <1>1, <1>2, <1>3
  <2> QED
    BY <1>1, <1>2, <1>3, <2>1 DEF AbsorbInv
<1> QED
  BY <1>1, <1>4, <1>5, <1>6 DEF IInv, SqueezeInv, OutputIsShake

LEMMA TinyAbsorbByteInv == IInv /\ TinyAbsorbByte => IInv'
<1> SUFFICES ASSUME IInv, TinyAbsorbByte PROVE IInv'
  OBVIOUS
<1> USE SpongeAssumption
<1> DEFINE one == 1
           in == [j \in {0} |-> In[0]]
           t == XorBytes(s, in, pos, one)
<1>1. /\ phase = "absorb_tiny" /\ phase' = phase /\ out = <<>>
      /\ inlen \in Nat \ {0} /\ message \in Seq(Byte) /\ inlen' = inlen - 1
      /\ pc' = IF inlen = 1 THEN "ready" ELSE "absorbing_tiny"
      /\ message' = message /\ out' = out /\ togo' = togo
  BY DEF IInv, PhaseInv, TypeInv, TinyAbsorbByte
<1>2. IF pos + 1 >= Rate THEN s' = Permute(t) /\ pos' = 0
                         ELSE s' = t /\ pos' = pos + 1
  BY DEF TinyAbsorbByte, XorByte
<1>3. pos \in 0 .. Rate - 1
  BY <1>1 DEF IInv, AbsorbInv, TypeInv
<1>4. \A j \in 0 .. one - 1 : in[j] = In[j]
  OBVIOUS
<1>5. PICK p \in Nat : Absorbed = p * Rate + pos /\ t = Absorbing(message, p, Absorbed + one)
  <2>1. one \in Nat /\ one =< inlen /\ pos + one =< Rate
    BY <1>1, <1>3
  <2> HIDE DEF in, one
  <2> QED
    BY <1>1, <1>4, <2>1, TakeBytes
<1> HIDE DEF t
<1>6. Absorbed' = Absorbed + 1
  BY <1>1 DEF Absorbed
<1>7. TypeInv'
  BY <1>1, <1>2, <1>3 DEF IInv, TypeInv
<1>8. PhaseInv'
  BY <1>1 DEF IInv, PhaseInv
<1>9. AbsorbInv'
  <2>1. CASE pos + 1 >= Rate
    <3>1. Absorbed + 1 = p * Rate + Rate /\ Absorbed + 1 \in Nat
      BY <1>3, <1>5, <2>1
    <3>2. s' = Absorbing(message, p + 1, Absorbed + 1)
      BY <1>1, <1>2, <1>5, <2>1, <3>1, PermuteAbsorbed
    <3>3. Absorbed' = (p + 1) * Rate + pos' /\ pos' < Rate
      BY <1>2, <1>6, <2>1, <3>1
    <3> QED
      BY <1>1, <1>6, <3>2, <3>3 DEF AbsorbInv
  <2>2. CASE ~ (pos + 1 >= Rate)
    <3>1. Absorbed' = p * Rate + pos' /\ pos' < Rate
      BY <1>2, <1>3, <1>5, <1>6, <2>2
    <3> QED
      BY <1>1, <1>2, <1>5, <1>6, <2>2, <3>1 DEF AbsorbInv
  <2> QED
    BY <2>1, <2>2
<1> QED
  BY <1>1, <1>7, <1>8, <1>9 DEF IInv, SqueezeInv, OutputIsShake

\* What a step that pads a message taken up to at bytes of its last block shows.
LEMMA PadInv ==
  ASSUME IInv, message' = message, out = <<>>, out' = out, inlen' = 0, togo' = togo,
         pc' = "ready", pos' \in 0 .. Rate,
         NEW p \in Nat, NEW at \in 0 .. Rate - 1, Len(message) = p * Rate + at,
         \/ phase' = "squeeze" /\ pos' = Rate /\ s' = Squeezing(message, p)
         \/ phase' = "squeeze_x4" /\ s' = Squeezing(message, p)
         \/ /\ phase' = "squeeze_tiny" /\ pos' = 0
            /\ s' = Permute(Squeezing(message, p))
  PROVE  IInv'
<1> USE SpongeAssumption
<1>1. message \in Seq(Byte)
  BY DEF IInv, TypeInv
<1>2. LastBlock(message) = p
  BY <1>1, PaddedBlock
<1>3. TypeInv'
  BY <1>1 DEF IInv, TypeInv
<1>4. PhaseInv'
  BY DEF PhaseInv
<1>5. SqueezeInv'
  <2>1. CASE phase' = "squeeze"
    <3>1. s' = Squeezing(message', LastBlock(message') + 0)
      BY <1>2, <2>1
    <3>2. Len(out') = (0 - 1) * Rate + pos'
      BY <2>1
    <3> QED
      BY <2>1, <3>1, <3>2 DEF SqueezeInv
  <2>2. CASE phase' = "squeeze_x4"
    <3>1. s' = Squeezing(message', LastBlock(message') + 0)
      BY <1>2, <2>2
    <3>2. Len(out') = 0 * Rate
      BY <2>2
    <3> QED
      BY <2>2, <3>1, <3>2 DEF SqueezeInv
  <2>3. CASE phase' = "squeeze_tiny"
    <3>1. s' = Squeezing(message', LastBlock(message') + 1)
      BY <1>1, <1>2, <2>3, PermuteSqueezed
    <3>2. Len(out') = (1 - 1) * Rate + pos'
      BY <2>3
    <3> QED
      BY <2>3, <3>1, <3>2 DEF SqueezeInv
  <2> QED
    BY <2>1, <2>2, <2>3
<1>6. AbsorbInv'
  BY DEF AbsorbInv
<1> QED
  BY <1>3, <1>4, <1>5, <1>6 DEF IInv, OutputIsShake

LEMMA FinalizeInv == IInv /\ (Finalize \/ TinyFinalize) => IInv'
<1> SUFFICES ASSUME IInv, Finalize \/ TinyFinalize PROVE IInv'
  OBVIOUS
<1> USE SpongeAssumption
<1> DEFINE t == XorByte(XorByte(s, {Suffix}, pos), {Last}, Rate - 1)
<1>1. /\ phase \in {"absorb", "absorb_tiny"} /\ pc = "ready" /\ pc' = "ready"
      /\ message' = message /\ out' = out /\ togo' = togo /\ inlen' = inlen
      /\ inlen = 0 /\ out = <<>> /\ message \in Seq(Byte)
  BY DEF IInv, PhaseInv, TypeInv, Finalize, TinyFinalize
<1>2. \/ phase' = "squeeze" /\ pos' = Rate /\ s' = t
      \/ phase' = "squeeze_tiny" /\ pos' = 0 /\ s' = Permute(t)
  BY DEF Finalize, TinyFinalize
<1>3. PICK p \in Nat : /\ Absorbed = p * Rate + pos /\ pos < Rate
                       /\ s = Absorbing(message, p, Absorbed)
  BY <1>1 DEF IInv, AbsorbInv
<1>4. Absorbed = Len(message) /\ pos \in 0 .. Rate - 1
  BY <1>1, <1>3 DEF Absorbed, IInv, TypeInv
<1>5. t = Squeezing(message, p)
  BY <1>1, <1>3, <1>4, Padding
<1> HIDE DEF t
<1>6. pos' \in 0 .. Rate
  BY <1>2
<1> QED
  BY <1>1, <1>2, <1>3, <1>4, <1>5, <1>6, PadInv

LEMMA PadX4Inv == IInv /\ PadX4 => IInv'
<1> SUFFICES ASSUME IInv, PadX4 PROVE IInv'
  OBVIOUS
<1> USE SpongeAssumption
<1> DEFINE t == XorBytes(s, In, 0, inlen)
<1>1. /\ phase = "absorb_x4" /\ pc' = "ready" /\ phase' = "squeeze_x4"
      /\ message' = message /\ out' = out /\ togo' = togo /\ inlen' = 0 /\ pos' = pos
      /\ out = <<>> /\ message \in Seq(Byte) /\ inlen \in 0 .. Rate - 1
      /\ s' = IF inlen = Rate - 1
                THEN XorByte(t, {Suffix, Last}, inlen)
                ELSE XorByte(XorByte(t, {Suffix}, inlen), {Last}, Rate - 1)
  BY DEF IInv, PhaseInv, TypeInv, PadX4
<1>2. pos = 0
  BY <1>1 DEF IInv, AbsorbInv
<1>3. PICK p \in Nat : Absorbed = p * Rate + pos /\ t = Absorbing(message, p, Absorbed + inlen)
  BY <1>1, <1>2, TakeBytes
<1> HIDE DEF t
<1>4. Absorbed + inlen = Len(message) /\ Len(message) = p * Rate + inlen
  BY <1>1, <1>2, <1>3 DEF Absorbed
<1>5. s' = Squeezing(message, p)
  BY <1>1, <1>3, <1>4, Padding
<1>6. pos' \in 0 .. Rate
  BY <1>1, <1>2
<1> QED
  BY <1>1, <1>4, <1>5, <1>6, PadInv

\* A call that asks for output.
LEMMA CallSqueezeInv ==
  ASSUME NEW n \in 0 .. MaxOutput
  PROVE  IInv /\ (Squeeze(n) \/ SqueezeBlocksX4(n) \/ TinySqueeze(n)) => IInv'
<1> SUFFICES ASSUME IInv, Squeeze(n) \/ SqueezeBlocksX4(n) \/ TinySqueeze(n)
             PROVE  IInv'
  OBVIOUS
<1> USE SpongeAssumption
<1>1. /\ phase \in {"squeeze", "squeeze_x4", "squeeze_tiny"} /\ phase' = phase
      /\ togo' = n /\ s' = s /\ pos' = pos /\ inlen' = inlen
      /\ message' = message /\ out' = out
      /\ phase = "squeeze" => pc' = "squeezing"
      /\ phase = "squeeze_x4" => pc' = "squeezing_x4"
      /\ phase = "squeeze_tiny" => pc' = "squeezing_tiny" /\ n > 0
  BY DEF Squeeze, SqueezeBlocksX4, TinySqueeze
<1>2. TypeInv'
  BY <1>1 DEF IInv, TypeInv
<1>3. PhaseInv'
  BY <1>1 DEF IInv, PhaseInv
<1>4. SqueezeInv'
  BY <1>1 DEF IInv, SqueezeInv
<1> QED
  BY <1>1, <1>2, <1>3, <1>4 DEF IInv, AbsorbInv, OutputIsShake

\* What a step that reads u bytes of block b shows.
Reads(b, from, u) ==
  /\ message' = message /\ from + u =< Rate /\ Len(out) = b * Rate + from
  /\ s' = OutputBlock(message, b) /\ out' = out \o ExtractBytes(s', from, u)

LEMMA ReadBytes ==
  ASSUME IInv, NEW b \in Nat, NEW from \in Nat, NEW u \in Nat, Reads(b, from, u)
  PROVE  /\ OutputIsShake' /\ out' \in Seq(Outputs(message'))
         /\ Len(out') = b * Rate + from + u
<1> USE DEF Reads
<1>1. /\ message \in Seq(Byte) /\ out \in Seq(Outputs(message))
      /\ Hashed(message, out)
  BY DEF IInv, TypeInv, OutputIsShake, Hashed
<1>2. out' = out \o ExtractBytes(OutputBlock(message, b), from, u)
  OBVIOUS
<1>3. /\ out' \in Seq(Outputs(message)) /\ Len(out') = b * Rate + from + u
      /\ Hashed(message, out')
  <2>1. out' = Longer(out, message, b, from, u)
    BY <1>2 DEF Longer
  <2> QED
    BY <1>1, <2>1, OutputMore
<1> QED
  BY <1>3 DEF OutputIsShake, Hashed

\* Where a serial loop reads next: at the start of a block when one is used up.
ReadFrom == IF pos = Rate THEN 0 ELSE pos

\* Both serial loops permute when the block is used up, and read from it.
LEMMA ReadSerial ==
  ASSUME IInv, phase \in {"squeeze", "squeeze_tiny"}, message' = message,
         NEW from \in Nat, from = ReadFrom,
         NEW u \in Nat, from + u =< Rate,
         s' = IF pos = Rate THEN Permute(s) ELSE s,
         out' = out \o ExtractBytes(s', from, u), pos' = from + u
  PROVE  /\ OutputIsShake' /\ out' \in Seq(Outputs(message')) /\ pos' \in 0 .. Rate
         /\ \E n \in Nat : /\ s' = Squeezing(message', LastBlock(message') + n)
                           /\ Len(out') = (n - 1) * Rate + pos' /\ n > 0
<1> USE SpongeAssumption
<1>1. PICK n \in Nat : /\ s = Squeezing(message, LastBlock(message) + n)
                       /\ Len(out) = (n - 1) * Rate + pos
  BY DEF IInv, SqueezeInv
<1>2. /\ message \in Seq(Byte) /\ pos \in 0 .. Rate /\ Len(out) \in Nat
      /\ LastBlock(message) \in Nat
  <2>1. message \in Seq(Byte)
    BY DEF IInv, TypeInv
  <2>2. LastBlock(message) \in Nat
    BY <2>1, LastBlockNat
  <2>3. pos \in 0 .. Rate /\ Len(out) \in Nat
    BY DEF IInv, TypeInv
  <2> QED
    BY <2>1, <2>2, <2>3
<1>3. CASE pos = Rate
  <2> DEFINE n1 == n + 1
  <2>1. s' = Squeezing(message, LastBlock(message) + n + 1)
    BY <1>1, <1>2, <1>3, PermuteSqueezed
  <2>2. Len(out) = n * Rate + from
    BY <1>1, <1>3 DEF ReadFrom
  <2>3. /\ OutputIsShake' /\ out' \in Seq(Outputs(message'))
        /\ Len(out') = n * Rate + from + u
    <3>1. s' = OutputBlock(message, n)
      BY <2>1 DEF OutputBlock
    <3>2. Reads(n, from, u)
      BY <2>2, <3>1 DEF Reads
    <3> QED
      BY <3>2, ReadBytes
  <2>4. /\ s' = Squeezing(message', LastBlock(message') + n1)
        /\ Len(out') = (n1 - 1) * Rate + pos' /\ n1 > 0 /\ n1 \in Nat
    BY <1>2, <2>1, <2>3
  <2>5. pos' \in 0 .. Rate
    OBVIOUS
  <2> HIDE DEF n1
  <2> QED
    BY <2>3, <2>4, <2>5
<1>4. CASE pos # Rate
  <2> DEFINE b == n - 1
  <2>1. n > 0
    BY <1>1, <1>2, <1>4
  <2>2. /\ b \in Nat /\ Len(out) = b * Rate + from
        /\ s' = OutputBlock(message, b)
    BY <1>1, <1>2, <1>4, <2>1 DEF ReadFrom, OutputBlock
  <2> HIDE DEF b
  <2>3. /\ OutputIsShake' /\ out' \in Seq(Outputs(message'))
        /\ Len(out') = b * Rate + from + u
    <3>1. Reads(b, from, u)
      BY <2>2 DEF Reads
    <3> QED
      BY <2>2, <3>1, ReadBytes
  <2>4. /\ s' = Squeezing(message', LastBlock(message') + n)
        /\ Len(out') = (n - 1) * Rate + pos'
    BY <1>1, <1>4, <2>3 DEF b
  <2>5. pos' \in 0 .. Rate
    OBVIOUS
  <2> QED
    BY <2>1, <2>3, <2>4, <2>5
<1> QED
  BY <1>3, <1>4

LEMMA SqueezeSomeInv == IInv /\ SqueezeSome => IInv'
<1> SUFFICES ASSUME IInv, SqueezeSome PROVE IInv'
  OBVIOUS
<1> USE SpongeAssumption
<1> DEFINE from == IF pos = Rate THEN 0 ELSE pos
           u == IF togo < Rate - from THEN togo ELSE Rate - from
<1>1. /\ phase = "squeeze" /\ phase' = phase /\ pc' = pc /\ inlen' = inlen
      /\ message' = message /\ togo \in Nat /\ pos \in 0 .. Rate
  BY DEF IInv, PhaseInv, TypeInv, SqueezeSome
<1>2. from \in Nat /\ u \in Nat /\ from + u =< Rate /\ togo - u \in Nat
  BY <1>1
<1>3. /\ s' = IF pos = Rate THEN Permute(s) ELSE s
      /\ out' = out \o ExtractBytes(s', from, u)
      /\ togo' = togo - u /\ pos' = from + u
  BY DEF SqueezeSome
<1>4. from = ReadFrom
  BY DEF ReadFrom
<1> HIDE DEF from, u
<1>5. /\ OutputIsShake' /\ out' \in Seq(Outputs(message')) /\ pos' \in 0 .. Rate
      /\ \E n \in Nat : /\ s' = Squeezing(message', LastBlock(message') + n)
                        /\ Len(out') = (n - 1) * Rate + pos' /\ n > 0
  BY <1>1, <1>2, <1>3, <1>4, ReadSerial
<1>6. TypeInv'
  BY <1>1, <1>2, <1>3, <1>5 DEF IInv, TypeInv
<1>7. PhaseInv'
  BY <1>1 DEF IInv, PhaseInv, SqueezeSome
<1>8. SqueezeInv'
  BY <1>1, <1>5 DEF SqueezeInv
<1> QED
  BY <1>1, <1>5, <1>6, <1>7, <1>8 DEF IInv, AbsorbInv

LEMMA TinySqueezeByteInv == IInv /\ TinySqueezeByte => IInv'
<1> SUFFICES ASSUME IInv, TinySqueezeByte PROVE IInv'
  OBVIOUS
<1> USE SpongeAssumption
<1> DEFINE from == IF pos = Rate THEN 0 ELSE pos
           u == 1
<1>1. /\ phase = "squeeze_tiny" /\ phase' = phase /\ inlen' = inlen
      /\ message' = message /\ togo \in Nat \ {0} /\ togo' = togo - 1
      /\ pos \in 0 .. Rate
  BY DEF IInv, PhaseInv, TypeInv, TinySqueezeByte
<1>2. from \in Nat /\ u \in Nat /\ from + u =< Rate
  BY <1>1
<1>3. /\ s' = IF pos = Rate THEN Permute(s) ELSE s
      /\ out' = out \o ExtractBytes(s', from, u) /\ pos' = from + u
  <2>1. pos >= Rate <=> pos = Rate
    BY <1>1
  <2> QED
    BY <2>1 DEF TinySqueezeByte
<1>4. from = ReadFrom
  BY DEF ReadFrom
<1> HIDE DEF from, u
<1>5. /\ OutputIsShake' /\ out' \in Seq(Outputs(message')) /\ pos' \in 0 .. Rate
      /\ \E n \in Nat : /\ s' = Squeezing(message', LastBlock(message') + n)
                        /\ Len(out') = (n - 1) * Rate + pos' /\ n > 0
  BY <1>1, <1>2, <1>3, <1>4, ReadSerial
<1>6. TypeInv'
  BY <1>1, <1>5 DEF IInv, TypeInv
<1>7. PhaseInv'
  BY <1>1 DEF IInv, PhaseInv, TinySqueezeByte
<1>8. SqueezeInv'
  BY <1>1, <1>5 DEF SqueezeInv
<1> QED
  BY <1>1, <1>5, <1>6, <1>7, <1>8 DEF IInv, AbsorbInv

LEMMA SqueezeBlockX4Inv == IInv /\ SqueezeBlockX4 => IInv'
<1> SUFFICES ASSUME IInv, SqueezeBlockX4 PROVE IInv'
  OBVIOUS
<1> USE SpongeAssumption
<1>1. /\ phase = "squeeze_x4" /\ phase' = phase /\ pc' = pc /\ inlen' = inlen
      /\ message' = message /\ pos' = pos /\ togo \in Nat \ {0} /\ togo' = togo - 1
      /\ s' = Permute(s) /\ out' = out \o ExtractBytes(s', 0, Rate)
  BY DEF IInv, PhaseInv, TypeInv, SqueezeBlockX4
<1>2. PICK n \in Nat : /\ s = Squeezing(message, LastBlock(message) + n)
                       /\ Len(out) = n * Rate
  BY <1>1 DEF IInv, SqueezeInv
<1>3. message \in Seq(Byte) /\ LastBlock(message) \in Nat
  BY LastBlockNat DEF IInv, TypeInv
<1>4. s' = Squeezing(message, LastBlock(message) + n + 1) /\ s' = OutputBlock(message, n)
  BY <1>1, <1>2, <1>3, PermuteSqueezed DEF OutputBlock
<1>5. /\ OutputIsShake' /\ out' \in Seq(Outputs(message'))
      /\ Len(out') = n * Rate + Rate
  <2> DEFINE from == 0
  <2>1. from \in Nat /\ from + Rate =< Rate /\ Len(out) = n * Rate + from
    BY <1>2
  <2>2. out' = out \o ExtractBytes(s', from, Rate)
    BY <1>1
  <2> HIDE DEF from
  <2>3. /\ OutputIsShake' /\ out' \in Seq(Outputs(message'))
        /\ Len(out') = n * Rate + from + Rate
    <3>1. Reads(n, from, Rate)
      BY <1>1, <1>4, <2>1, <2>2 DEF Reads
    <3> QED
      BY <2>1, <3>1, ReadBytes
  <2> QED
    BY <2>3 DEF from
<1>6. TypeInv'
  BY <1>1, <1>5 DEF IInv, TypeInv
<1>7. PhaseInv'
  BY <1>1 DEF IInv, PhaseInv, SqueezeBlockX4
<1>8. SqueezeInv'
  <2>1. /\ s' = Squeezing(message', LastBlock(message') + (n + 1))
        /\ Len(out') = (n + 1) * Rate
    BY <1>1, <1>3, <1>4, <1>5
  <2> QED
    BY <1>1, <2>1 DEF SqueezeInv
<1> QED
  BY <1>1, <1>5, <1>6, <1>7, <1>8 DEF IInv, AbsorbInv

LEMMA SqueezeDoneInv == IInv /\ SqueezeDone => IInv'
<1> SUFFICES ASSUME IInv, SqueezeDone PROVE IInv'
  OBVIOUS
<1> USE SpongeAssumption
<1>1. /\ phase \in {"squeeze", "squeeze_x4"} /\ pc' = "ready" /\ inlen = 0
      /\ UNCHANGED <<phase, s, pos, inlen, togo, message, out>>
  BY DEF IInv, PhaseInv, SqueezeDone
<1>2. TypeInv' /\ PhaseInv'
  BY <1>1 DEF IInv, TypeInv, PhaseInv
<1>3. SqueezeInv'
  BY <1>1 DEF IInv, SqueezeInv
<1> QED
  BY <1>1, <1>2, <1>3 DEF IInv, AbsorbInv, OutputIsShake

LEMMA ReleaseInv == IInv /\ Release => IInv'
<1> SUFFICES ASSUME IInv, Release PROVE IInv'
  OBVIOUS
<1> USE SpongeAssumption
<1>1. /\ pc = "ready" /\ pc' = "ready" /\ phase' = "released" /\ inlen' = inlen
      /\ togo' = togo /\ pos' = 0 /\ message' = <<>> /\ out' = <<>>
  BY DEF Release
<1>2. TypeInv' /\ PhaseInv'
  BY <1>1 DEF IInv, TypeInv, PhaseInv
<1> QED
  BY <1>1, <1>2 DEF IInv, AbsorbInv, SqueezeInv, OutputIsShake

LEMMA StutterInv == IInv /\ UNCHANGED spongeVars => IInv'
<1> SUFFICES ASSUME IInv, UNCHANGED spongeVars PROVE IInv'
  OBVIOUS
<1>1. TypeInv' /\ PhaseInv'
  BY DEF IInv, TypeInv, PhaseInv, spongeVars
<1>2. AbsorbInv'
  BY DEF IInv, AbsorbInv, Absorbed, spongeVars
<1>3. SqueezeInv'
  BY DEF IInv, SqueezeInv, spongeVars
<1> QED
  BY <1>1, <1>2, <1>3 DEF IInv, OutputIsShake, spongeVars

LEMMA StepInv == IInv /\ [Next]_spongeVars => IInv'
<1> SUFFICES ASSUME IInv, [Next]_spongeVars PROVE IInv'
  OBVIOUS
<1>1. CASE ShakeInit \/ TinyInit
  BY <1>1, InitsInv
<1>2. CASE \E in \in Input : Absorb(in) \/ AbsorbOnceX4(in) \/ TinyAbsorb(in)
  BY <1>2, CallAbsorbInv, AbsorbOnceX4Inv
<1>3. CASE AbsorbBlock \/ AbsorbTail \/ AbsorbBlockX4 \/ TinyAbsorbByte
  BY <1>3, AbsorbBlockInv, AbsorbTailInv, TinyAbsorbByteInv
<1>4. CASE Finalize \/ TinyFinalize \/ PadX4
  BY <1>4, FinalizeInv, PadX4Inv
<1>5. CASE \E n \in 0 .. MaxOutput : Squeeze(n) \/ SqueezeBlocksX4(n) \/ TinySqueeze(n)
  BY <1>5, CallSqueezeInv
<1>6. CASE SqueezeSome \/ TinySqueezeByte \/ SqueezeBlockX4
  BY <1>6, SqueezeSomeInv, TinySqueezeByteInv, SqueezeBlockX4Inv
<1>7. CASE SqueezeDone \/ Release
  BY <1>7, SqueezeDoneInv, ReleaseInv
<1>8. CASE UNCHANGED spongeVars
  BY <1>8, StutterInv
<1> QED
  BY <1>1, <1>2, <1>3, <1>4, <1>5, <1>6, <1>7, <1>8 DEF Next

\* The hashes of fips202.c, fips202x4.c and tiny_sha3 (in custom_fips202) are
\* SHAKE of the message, for every block length, alphabet and length of input
\* and output, in whatever pieces the callers absorb and squeeze.
THEOREM ShakeExact == Spec => []OutputIsShake
<1>1. IInv => OutputIsShake
  BY DEF IInv
<1> QED
  BY <1>1, InitInv, StepInv, PTL DEF Spec

-----------------------------------------------------------------------------
(* What the challenge is drawn from.                                       *)

LEMMA ShakeInjective ==
  ASSUME NEW m \in Seq(Byte), NEW q1 \in Nat, NEW q2 \in Nat,
         Shake(m, q1) = Shake(m, q2)
  PROVE  q1 = q2
<1> USE SpongeAssumption
<1> DEFINE past(q) == [k \in 1 .. LastBlock(m) + 1 + q \div Rate |-> BlockOf(m, k - 1)]
           b1 == LastBlock(m) + 1 + q1 \div Rate
           b2 == LastBlock(m) + 1 + q2 \div Rate
<1>1. past(q1) = past(q2) /\ q1 % Rate = q2 % Rate
  BY DEF Shake
<1>2. b1 \in Nat /\ b2 \in Nat /\ LastBlock(m) \in Nat
  <2>1. LastBlock(m) \in Nat
    BY LastBlockNat
  <2>2. q1 \div Rate \in Nat /\ q2 \div Rate \in Nat
    OBVIOUS
  <2> QED BY <2>1, <2>2
<1>3. 1 .. b1 = 1 .. b2
  <2>1. DOMAIN past(q1) = 1 .. b1 /\ DOMAIN past(q2) = 1 .. b2
    OBVIOUS
  <2> HIDE DEF past, b1, b2
  <2> QED BY <1>1, <2>1
<1> HIDE DEF past
<1>4. b1 = b2
  <2> HIDE DEF b1, b2
  <2>1. b1 > 0 => b1 \in 1 .. b2
    BY <1>2, <1>3
  <2>2. b2 > 0 => b2 \in 1 .. b1
    BY <1>2, <1>3
  <2> QED BY <1>2, <2>1, <2>2
<1> DEFINE d1 == q1 \div Rate
           d2 == q2 \div Rate
           r1 == q1 % Rate
           r2 == q2 % Rate
<1>5. /\ d1 \in Nat /\ r1 \in Nat /\ q1 = Rate * d1 + r1
      /\ d2 \in Nat /\ r2 \in Nat /\ q2 = Rate * d2 + r2
  OBVIOUS
<1>6. d1 = d2
  <2> HIDE DEF d1, d2
  <2> QED BY <1>2, <1>4, <1>5 DEF d1, d2, b1, b2
<1> HIDE DEF d1, d2, r1, r2
<1> QED BY <1>1, <1>5, <1>6 DEF r1, r2

\* A byte of the hash tells which candidate it is.
LEMMA ValueIsCandidate ==
  ASSUME NEW q \in Nat, message \in Seq(Byte), q >= SignBytes, q < MaxOutput
  PROVE  ValueOf(Shake(message, q)) = Candidate(q - SignBytes)
<1> USE SpongeAssumption, ChallengeAssumption
<1> DEFINE places == {x \in SignBytes .. MaxOutput - 1 : Shake(message, x) = Shake(message, q)}
<1>1. q \in places
  OBVIOUS
<1>2. \A x \in places : x = q
  BY ShakeInjective
<1>3. (CHOOSE x \in places : TRUE) = q
  BY <1>1, <1>2
<1>4. ValueOf(Shake(message, q)) =
        IF places = {} THEN N ELSE Candidate((CHOOSE x \in places : TRUE) - SignBytes)
  BY DEF ValueOf
<1> HIDE DEF places
<1> QED BY <1>1, <1>3, <1>4

LEMMA CandidateType ==
  ASSUME NEW b \in Nat, candidates \in [0 .. Horizon - 1 -> Indices]
  PROVE  Candidate(b) \in Indices /\ (b >= Horizon => Candidate(b) = 0)
<1>1. 0 \in Indices
  BY ChallengeAssumption DEF Indices
<1> QED BY <1>1, ChallengeAssumption DEF Candidate

-----------------------------------------------------------------------------
(* The byte-wise algorithm, round by round.                                *)

LEMMA LeastNumber ==
  ASSUME NEW S \in SUBSET Nat, S # {}
  PROVE  \E x \in S : \A y \in S : x =< y
<1> DEFINE Less == OpToRel(<, Nat)
<1>1. Less = {ss \in Nat \X Nat : ss[1] < ss[2]}
  BY DEF OpToRel
<1>2. IsWellFoundedOn(Less, Nat)
  BY NatLessThanWellFounded
<1> HIDE DEF Less
<1>3. PICK x \in S : \A y \in S : ~ (<<y, x>> \in Less)
  BY <1>2, WFMin
<1>4. \A y \in S : ~ (y < x)
  BY <1>1, <1>3
<1> QED BY <1>4

\* Induction over the natural numbers, for a set of them.
LEMMA NumbersByInduction ==
  ASSUME NEW S, 0 \in S, \A n \in Nat : n \in S => n + 1 \in S
  PROVE  \A n \in Nat : n \in S
<1> SUFFICES ASSUME NEW n \in Nat, n \notin S PROVE FALSE
  OBVIOUS
<1> DEFINE Missing == {x \in Nat : x \notin S}
<1>1. n \in Missing
  OBVIOUS
<1>2. PICK x \in Missing : \A y \in Missing : x =< y
  BY <1>1, LeastNumber
<1>3. x # 0 /\ x \in Nat
  OBVIOUS
<1>4. x - 1 \in Nat /\ ~ (x =< x - 1) /\ x - 1 + 1 = x
  BY <1>3
<1>5. x - 1 \in S
  BY <1>2, <1>4
<1> QED BY <1>4, <1>5

\* Where the search of round k starts, if g holds what earlier ones accepted,
\* and where one that starts at a candidate ends.
FromOf(g, k) == IF k = First THEN 0 ELSE g[k - 1] + 1
EndsAt(from, k, b) == Candidate(b) =< k /\ \A d \in from .. b - 1 : Candidate(d) > k
Found(from, k) == CHOOSE b \in from .. from + Horizon : EndsAt(from, k, b)

\* The polynomial d after round k has accepted j.
Signed(k) == IF signBits[k - First] = 0 THEN 1 ELSE -1
Placed(d, k, j) ==
  [x \in Indices |-> CASE x = j -> Signed(k)
                       [] x = k /\ x # j -> d[j]
                       [] OTHER -> d[x]]

LEMMA LoopIs ==
  /\ First \in Nat /\ First + TAU = N /\ TAU \in Nat \ {0} /\ N \in Nat \ {0}
  /\ Loop = First .. First + TAU - 1 /\ Horizon \in Nat /\ 0 \in Indices
BY ChallengeAssumption DEF First, Loop, Indices

LEMMA TakenIs == \A k \in Loop : Taken[k] = Found(FromOf(Taken, k), k)
<1> USE LoopIs
<1> DEFINE Is(g) ==
             g = [k \in Loop |->
                    LET from == IF k = First THEN 0 ELSE g[k - 1] + 1
                    IN  CHOOSE b \in from .. from + Horizon :
                          /\ Candidate(b) =< k
                          /\ \A d \in from .. b - 1 : Candidate(d) > k]
           Upto(g, m) ==
             \A k \in Loop : k < First + m => g[k] = Found(FromOf(g, k), k)
           S == {m \in Nat : \E g : DOMAIN g = Loop /\ Upto(g, m)}
<1>1. 0 \in S
  <2> DEFINE g == [k \in Loop |-> 0]
  <2>1. DOMAIN g = Loop /\ Upto(g, 0)
    OBVIOUS
  <2> HIDE DEF Upto, g
  <2> QED BY <2>1
<1>2. ASSUME NEW m \in Nat, m \in S PROVE m + 1 \in S
  <2>1. PICK g : DOMAIN g = Loop /\ Upto(g, m)
    BY <1>2
  <2> DEFINE last == First + m
             e == [k \in Loop |-> IF k = last THEN Found(FromOf(g, k), k) ELSE g[k]]
  <2>2. ASSUME NEW k \in Loop, k < First + (m + 1)
        PROVE  e[k] = Found(FromOf(e, k), k)
    <3>1. FromOf(e, k) = FromOf(g, k)
      <4>1. k # First => k - 1 \in Loop /\ k - 1 # last
        BY <2>2
      <4> QED BY <4>1 DEF FromOf
    <3>2. CASE k = last
      BY <3>1, <3>2
    <3>3. CASE k # last
      <4>1. k < First + m
        BY <2>2, <3>3
      <4>2. g[k] = Found(FromOf(g, k), k)
        BY <2>1, <4>1
      <4> QED BY <3>1, <3>3, <4>2
    <3> QED BY <3>2, <3>3
  <2>3. DOMAIN e = Loop /\ Upto(e, m + 1)
    <3>1. DOMAIN e = Loop
      OBVIOUS
    <3> HIDE DEF e
    <3> QED BY <2>2, <3>1
  <2> HIDE DEF Upto, e
  <2> QED BY <2>3
<1>3. \E g : Is(g)
  <2> HIDE DEF S
  <2>1. TAU \in S
    BY <1>1, <1>2, NumbersByInduction
  <2>2. PICK g : DOMAIN g = Loop /\ Upto(g, TAU)
    BY <2>1 DEF S
  <2> DEFINE e == [k \in Loop |-> g[k]]
  <2>3. ASSUME NEW k \in Loop PROVE e[k] = Found(FromOf(e, k), k)
    <3>1. k # First => k - 1 \in Loop
      OBVIOUS
    <3>2. FromOf(e, k) = FromOf(g, k)
      BY <3>1 DEF FromOf
    <3>3. g[k] = Found(FromOf(g, k), k)
      BY <2>2
    <3> QED BY <3>2, <3>3
  <2>4. e = [k \in Loop |-> e[k]]
    OBVIOUS
  <2> HIDE DEF e, Upto
  <2>5. Is(e)
    BY <2>3, <2>4, Zenon DEF Found, FromOf, EndsAt
  <2> HIDE DEF Is
  <2> QED BY <2>5
<1>4. Taken = CHOOSE g : Is(g)
  BY Zenon DEF Taken
<1>5. Is(Taken)
  <2> HIDE DEF Is
  <2> QED BY <1>3, <1>4, Zenon
<1>6. ASSUME NEW k \in Loop PROVE Taken[k] = Found(FromOf(Taken, k), k)
  BY <1>5, Zenon DEF Found, FromOf, EndsAt
<1> QED BY <1>6

LEMMA InBallIs ==
  \A k \in First .. N :
    InBall[k] = IF k = First THEN [x \in Indices |-> 0]
                ELSE Placed(InBall[k - 1], k - 1, Candidate(Taken[k - 1]))
<1> USE LoopIs
<1> DEFINE Next1(g, k) == IF k = First THEN [x \in Indices |-> 0]
                          ELSE Placed(g[k - 1], k - 1, Candidate(Taken[k - 1]))
           Rounds == First .. N
           Is(g) == g = [k \in Rounds |-> Next1(g, k)]
           Upto(g, m) == \A k \in Rounds : k < First + m => g[k] = Next1(g, k)
           S == {m \in Nat : \E g : DOMAIN g = Rounds /\ Upto(g, m)}
<1>1. 0 \in S
  <2> DEFINE g == [k \in Rounds |-> 0]
  <2>1. DOMAIN g = Rounds /\ Upto(g, 0)
    OBVIOUS
  <2> HIDE DEF Upto, g
  <2> QED BY <2>1
<1>2. ASSUME NEW m \in Nat, m \in S PROVE m + 1 \in S
  <2>1. PICK g : DOMAIN g = Rounds /\ Upto(g, m)
    BY <1>2
  <2> DEFINE last == First + m
             e == [k \in Rounds |-> IF k = last THEN Next1(g, k) ELSE g[k]]
  <2>2. ASSUME NEW k \in Rounds, k < First + (m + 1)
        PROVE  e[k] = Next1(e, k)
    <3>1. k # First => k - 1 \in Rounds /\ k - 1 # last
      BY <2>2
    <3>2. k # First => e[k - 1] = g[k - 1]
      BY <3>1
    <3>3. Next1(e, k) = Next1(g, k)
      <4> HIDE DEF e
      <4> QED BY <3>2
    <3>4. CASE k = last
      <4> HIDE DEF Next1
      <4> QED BY <3>3, <3>4
    <3>5. CASE k # last
      <4>1. k < First + m
        BY <2>2, <3>5
      <4>2. g[k] = Next1(g, k)
        BY <2>1, <4>1
      <4> HIDE DEF Next1
      <4> QED BY <3>3, <3>5, <4>2
    <3> QED BY <3>4, <3>5
  <2>3. DOMAIN e = Rounds /\ Upto(e, m + 1)
    <3>1. DOMAIN e = Rounds
      OBVIOUS
    <3> HIDE DEF e, Next1
    <3> QED BY <2>2, <3>1
  <2> HIDE DEF Upto, e
  <2> QED BY <2>3
<1>3. \E g : Is(g)
  <2> HIDE DEF S
  <2>1. TAU + 1 \in S
    BY <1>1, <1>2, NumbersByInduction
  <2>2. PICK g : DOMAIN g = Rounds /\ Upto(g, TAU + 1)
    BY <2>1 DEF S
  <2> DEFINE e == [k \in Rounds |-> g[k]]
  <2>3. ASSUME NEW k \in Rounds PROVE e[k] = Next1(e, k)
    <3>1. k # First => k - 1 \in Rounds
      OBVIOUS
    <3>2. k # First => e[k - 1] = g[k - 1]
      BY <3>1
    <3>3. Next1(e, k) = Next1(g, k)
      <4> HIDE DEF e
      <4> QED BY <3>2
    <3>4. k < First + (TAU + 1)
      OBVIOUS
    <3>5. g[k] = Next1(g, k)
      BY <2>2, <3>4
    <3>6. e[k] = g[k]
      OBVIOUS
    <3> HIDE DEF Next1, e
    <3> QED BY <3>3, <3>5, <3>6
  <2>4. e = [k \in Rounds |-> e[k]]
    OBVIOUS
  <2> HIDE DEF e, Upto, Next1
  <2>5. Is(e)
    BY <2>3, <2>4, Zenon
  <2> HIDE DEF Is
  <2> QED BY <2>5
<1>4. InBall = CHOOSE g : Is(g)
  BY Zenon DEF InBall, Placed, Signed
<1>5. Is(InBall)
  <2> HIDE DEF Is
  <2> QED BY <1>3, <1>4, Zenon
<1> HIDE DEF Next1
<1>6. ASSUME NEW k \in Rounds PROVE InBall[k] = Next1(InBall, k)
  BY <1>5, Zenon
<1> QED BY <1>6, Zenon DEF Next1

\* A candidate with none before it that would do is the one the search finds.
LEMMA FoundIs ==
  ASSUME candidates \in [0 .. Horizon - 1 -> Indices],
         NEW k \in Nat, NEW from \in Nat, NEW b \in Nat, from =< b, EndsAt(from, k, b)
  PROVE  Found(from, k) = b
<1> USE LoopIs
<1>1. b =< from + Horizon
  <2> SUFFICES ASSUME b > from + Horizon PROVE FALSE
    OBVIOUS
  <2>1. b - 1 \in from .. b - 1 /\ b - 1 \in Nat /\ b - 1 >= Horizon
    OBVIOUS
  <2>2. Candidate(b - 1) = 0
    BY <2>1, CandidateType
  <2> QED BY <2>1, <2>2 DEF EndsAt
<1>2. b \in from .. from + Horizon
  BY <1>1
<1>3. ASSUME NEW x \in from .. from + Horizon, EndsAt(from, k, x) PROVE x = b
  <2>1. Candidate(x) \in Int /\ Candidate(b) \in Int
    BY CandidateType DEF Indices
  <2>2. ~ (x < b)
    <3> SUFFICES ASSUME x < b PROVE FALSE
      OBVIOUS
    <3>1. x \in from .. b - 1
      OBVIOUS
    <3>2. Candidate(x) > k /\ Candidate(x) =< k
      BY <1>3, <3>1 DEF EndsAt
    <3> QED BY <2>1, <3>2
  <2>3. ~ (b < x)
    <3> SUFFICES ASSUME b < x PROVE FALSE
      OBVIOUS
    <3>1. b \in from .. x - 1
      OBVIOUS
    <3>2. Candidate(b) > k /\ Candidate(b) =< k
      BY <1>3, <3>1 DEF EndsAt
    <3> QED BY <2>1, <3>2
  <2> QED BY <2>2, <2>3
<1> QED BY <1>2, <1>3 DEF Found

-----------------------------------------------------------------------------
(* The inductive invariant of drawing a challenge.                         *)

\* Bytes of the hash used so far; a block that is being squeezed is not.
Used == IF step = "refill" THEN Len(out) + togo - Rate ELSE Len(out) - Rate + index

DrawType ==
  /\ step \in {"idle", "absorb", "finalize", "first_block", "signs", "sample",
               "refill", "drawn"}
  /\ candidates \in [0 .. Horizon - 1 -> Indices]
  /\ signBits \in [0 .. TAU - 1 -> {0, 1}]
  /\ i \in First .. N /\ c \in [Indices -> Int]

\* Where the context is while the challenge is drawn.
DrawPhase ==
  /\ step = "absorb" => phase = "absorb" /\ pc = "ready"
  /\ step = "finalize" => phase = "absorb"
  /\ step = "first_block" => phase = "squeeze" /\ pc = "ready" /\ out = <<>>
  /\ step = "signs" => /\ phase = "squeeze" /\ pc = "squeezing"
                       /\ Len(out) + togo = Rate /\ Rate =< MaxOutput
  /\ step = "sample" => /\ phase = "squeeze" /\ pc = "ready" /\ Len(out) >= Rate
                        /\ buf = Squeezed /\ index \in 0 .. Rate
                        /\ Len(out) =< MaxOutput
  /\ step = "refill" => /\ phase = "squeeze" /\ pc = "squeezing" /\ i < N
                        /\ Len(out) + togo =< MaxOutput

\* The candidates between the last accepted one and the next byte were all
\* rejected in this round, and no byte behind the signs was left out.
DrawInv ==
  step \in {"sample", "refill"} =>
    /\ Used >= SignBytes /\ signs = i - First
    /\ i < N =>
         /\ FromOf(Taken, i) \in 0 .. Used - SignBytes
         /\ \A d \in FromOf(Taken, i) .. Used - SignBytes - 1 : Candidate(d) > i

DrawnInv ==
  IF step \in {"sample", "refill", "drawn"}
    THEN c = InBall[i]
    ELSE i = First /\ c = [x \in Indices |-> 0]

CInv == IInv /\ DrawType /\ DrawPhase /\ DrawInv /\ DrawnInv

LEMMA CInvImplies == CInv => ChallengeAsSpecified
<1> SUFFICES ASSUME CInv PROVE c = InBall[i]
  BY DEF ChallengeAsSpecified
<1> USE LoopIs
<1>1. First \in First .. N
  OBVIOUS
<1>2. InBall[First] = [x \in Indices |-> 0]
  BY <1>1, InBallIs
<1> QED BY <1>2 DEF CInv, DrawnInv

\* Both depend on the oracle alone.
TakenOf(cs) ==
  CHOOSE g :
    g = [k \in Loop |->
           LET from == IF k = First THEN 0 ELSE g[k - 1] + 1
           IN  CHOOSE b \in from .. from + Horizon :
                 /\ (IF b < Horizon THEN cs[b] ELSE 0) =< k
                 /\ \A d \in from .. b - 1 : (IF d < Horizon THEN cs[d] ELSE 0) > k]
InBallOf(cs, sb, t) ==
  CHOOSE g :
    g = [k \in First .. N |->
           IF k = First THEN [x \in Indices |-> 0]
           ELSE LET d == g[k - 1]
                    j == IF t[k - 1] < Horizon THEN cs[t[k - 1]] ELSE 0
                IN  [x \in Indices |-> CASE x = j -> IF sb[k - 1 - First] = 0
                                                       THEN 1 ELSE -1
                                         [] x = k - 1 /\ x # j -> d[j]
                                         [] OTHER -> d[x]]]

LEMMA OracleSame ==
  ASSUME UNCHANGED oracle
  PROVE  /\ Taken' = Taken /\ InBall' = InBall
         /\ \A b : Candidate(b)' = Candidate(b)
<1>1. candidates' = candidates /\ signBits' = signBits
  BY DEF oracle
<1>2. \A b : Candidate(b)' = Candidate(b)
  BY <1>1 DEF Candidate
<1>3. Taken' = Taken
  <2>1. Taken = TakenOf(candidates) /\ Taken' = TakenOf(candidates')
    BY Zenon DEF Taken, TakenOf, Candidate
  <2> QED BY <1>1, <2>1, Zenon
<1>4. InBall' = InBall
  <2>1. /\ InBall = InBallOf(candidates, signBits, Taken)
        /\ InBall' = InBallOf(candidates', signBits', Taken')
    BY Zenon DEF InBall, InBallOf, Candidate
  <2> QED BY <1>1, <1>3, <2>1, Zenon
<1> QED BY <1>2, <1>3, <1>4

\* Every step of mld_poly_challenge is one of the sponge's, or none.
LEMMA CallerStep ==
  ASSUME IInv, [ChallengeNext]_<<spongeVars, challengeVars>>
  PROVE  [Next]_spongeVars
<1> USE SpongeAssumption, ChallengeAssumption
<1>1. Len(out) \in Nat
  BY DEF IInv, TypeInv
<1>2. CASE Squeeze(Rate)
  <2>1. Rate \in 0 .. MaxOutput
    BY <1>1, <1>2 DEF Squeeze
  <2> QED BY <1>2, <2>1 DEF Next
<1>3. CASE AbsorbSeed
  <2>1. PICK b \in Byte : Absorb([k \in 1 .. SeedBytes |-> b])
    BY <1>3 DEF AbsorbSeed
  <2>2. [k \in 1 .. SeedBytes |-> b] \in Input
    BY DEF Input
  <2> QED BY <2>1, <2>2 DEF Next
<1>4. CASE Hash \/ Start \/ FinalizeSeed \/ TakeSigns \/ Refilled \/ Drawn \/ OtherCaller
  BY <1>4 DEF Hash, Start, FinalizeSeed, TakeSigns, Refilled, RefilledFrom, Drawn,
              OtherCaller, Next
<1>5. CASE NextByte \/ UNCHANGED <<spongeVars, challengeVars>>
  BY <1>5 DEF NextByte
<1> QED
  BY <1>2, <1>3, <1>4, <1>5 DEF ChallengeNext, FirstBlock, Refill

LEMMA ChallengeInitInv == ChallengeInit => CInv
<1> SUFFICES ASSUME ChallengeInit PROVE CInv
  OBVIOUS
<1> USE LoopIs
<1>1. IInv
  BY InitInv DEF ChallengeInit
<1>2. DrawType
  BY ChallengeAssumption DEF ChallengeInit, DrawType
<1>3. step = "idle" /\ i = First /\ c = [x \in Indices |-> 0]
  BY DEF ChallengeInit
<1> QED BY <1>1, <1>2, <1>3 DEF CInv, DrawPhase, DrawInv, DrawnInv

LEMMA CallerInv == IInv /\ [ChallengeNext]_<<spongeVars, challengeVars>> => IInv'
BY CallerStep, StepInv

\* Before any candidate is read nothing but the context changes.
LEMMA BeforeInv ==
  CInv /\ (OtherCaller \/ AbsorbSeed \/ FinalizeSeed \/ FirstBlock) => CInv'
<1> SUFFICES ASSUME CInv, OtherCaller \/ AbsorbSeed \/ FinalizeSeed \/ FirstBlock
             PROVE  CInv'
  OBVIOUS
<1>1. IInv'
  BY CallerInv DEF CInv, ChallengeNext
<1>2. UNCHANGED <<oracle, locals>>
  BY DEF OtherCaller, AbsorbSeed, FinalizeSeed, FirstBlock, challengeVars
<1>3. /\ step \notin {"sample", "refill", "drawn"} /\ step' \notin {"sample", "refill", "drawn"}
      /\ step' \in {"idle", "finalize", "first_block", "signs"}
  BY DEF OtherCaller, AbsorbSeed, FinalizeSeed, FirstBlock, challengeVars
<1>4. DrawType'
  BY <1>2, <1>3 DEF CInv, DrawType, oracle, locals
<1>5. DrawPhase'
  <2>1. CASE OtherCaller
    BY <1>3, <2>1 DEF OtherCaller, DrawPhase, challengeVars
  <2>2. CASE AbsorbSeed
    BY <2>2 DEF AbsorbSeed, Absorb, DrawPhase
  <2>3. CASE FinalizeSeed
    BY <2>3 DEF FinalizeSeed, Finalize, DrawPhase, CInv, IInv, PhaseInv
  <2>4. CASE FirstBlock
    <3>1. /\ step' = "signs" /\ phase' = "squeeze" /\ pc' = "squeezing"
          /\ out' = <<>> /\ togo' = Rate /\ Len(out) + Rate =< MaxOutput /\ out = <<>>
      BY <2>4 DEF FirstBlock, Squeeze, CInv, DrawPhase
    <3>2. Len(<<>>) = 0
      OBVIOUS
    <3> QED BY <3>1, <3>2, SpongeAssumption DEF DrawPhase
  <2> QED BY <2>1, <2>2, <2>3, <2>4
<1>6. DrawInv' /\ DrawnInv'
  BY <1>2, <1>3 DEF CInv, DrawInv, DrawnInv, locals
<1> QED BY <1>1, <1>4, <1>5, <1>6 DEF CInv

LEMMA StartInv == CInv /\ Start => CInv'
<1> SUFFICES ASSUME CInv, Start PROVE CInv'
  OBVIOUS
<1>1. IInv'
  BY CallerInv DEF CInv, ChallengeNext
<1>2. DrawType'
  BY DEF CInv, DrawType, Start, locals
<1>3. DrawPhase'
  BY DEF Start, ShakeInit, Begin, DrawPhase
<1>4. DrawInv' /\ DrawnInv'
  BY DEF CInv, DrawInv, DrawnInv, Start, locals
<1> QED BY <1>1, <1>2, <1>3, <1>4 DEF CInv

\* What squeezing some bytes leaves to squeeze.
LEMMA SqueezedSome ==
  ASSUME IInv, SqueezeSome
  PROVE  /\ pc = "squeezing" /\ pc' = pc /\ phase' = phase
         /\ Len(out') \in Nat /\ togo' \in Int /\ Len(out) \in Nat /\ togo \in Nat
        /\ Len(out') + togo' = Len(out) + togo
<1> USE SpongeAssumption
<1> DEFINE from == IF pos = Rate THEN 0 ELSE pos
           n == IF togo < Rate - from THEN togo ELSE Rate - from
           x == ExtractBytes(s', from, n)
<1>1. /\ out' = out \o x /\ togo' = togo - n
      /\ pc = "squeezing" /\ pc' = pc /\ phase' = phase
  BY DEF SqueezeSome
<1>2. n \in Nat /\ togo \in Nat
  BY DEF IInv, TypeInv, SqueezeSome
<1> HIDE DEF n, from
<1>3. x \in Seq({x[j] : j \in 1 .. n}) /\ Len(x) = n
  <2> DEFINE T == {x[j] : j \in 1 .. n}
  <2>1. x \in [1 .. n -> T]
    BY DEF ExtractBytes
  <2> HIDE DEF T, x
  <2> QED BY <1>2, <2>1 DEF T
<1> HIDE DEF x
<1>4. out \in Seq(Outputs(message) \cup {x[j] : j \in 1 .. n})
  BY DEF IInv, TypeInv
<1>5. Len(out) \in Nat
  BY DEF IInv, TypeInv
<1>6. Len(out \o x) = Len(out) + n
  <2> DEFINE T == Outputs(message) \cup {x[j] : j \in 1 .. n}
  <2>1. x \in Seq(T) /\ out \in Seq(T)
    BY <1>3, <1>4
  <2> HIDE DEF T
  <2> QED BY <1>3, <2>1, ConcatProperties
<1> QED BY <1>1, <1>2, <1>5, <1>6

LEMMA HashInv == CInv /\ Hash => CInv'
<1> SUFFICES ASSUME CInv, Hash PROVE CInv'
  OBVIOUS
<1>1. IInv'
  BY CallerInv DEF CInv, ChallengeNext
<1>2. UNCHANGED <<step, oracle, buf, index, i, signs, c>>
  BY DEF Hash, challengeVars, locals
<1>3. /\ Taken' = Taken /\ InBall' = InBall /\ \A b : Candidate(b)' = Candidate(b)
  BY <1>2, OracleSame
<1>4. DrawType'
  BY <1>2 DEF CInv, DrawType, oracle
<1>5. DrawnInv'
  BY <1>2, <1>3 DEF CInv, DrawnInv
<1>6. CASE AbsorbBlock \/ AbsorbTail
  <2>1. step = "finalize" \/ step = "drawn"
    BY <1>6 DEF Hash, AbsorbBlock, AbsorbTail, CInv, DrawType, DrawPhase
  <2>2. DrawPhase'
    BY <1>2, <1>6, <2>1 DEF AbsorbBlock, AbsorbTail, CInv, DrawPhase
  <2>3. DrawInv'
    BY <1>2, <2>1 DEF DrawInv
  <2> QED BY <1>1, <1>4, <1>5, <2>2, <2>3 DEF CInv
<1>7. CASE SqueezeSome
  <2>1. /\ pc = "squeezing" /\ pc' = pc /\ phase' = phase
        /\ Len(out') \in Nat /\ togo' \in Int /\ Len(out) \in Nat /\ togo \in Nat
        /\ Len(out') + togo' = Len(out) + togo
    BY <1>7, SqueezedSome DEF CInv
  <2>2. step \in {"signs", "refill", "drawn", "finalize"}
    BY <2>1 DEF Hash, CInv, DrawType, DrawPhase
  <2>3. DrawPhase'
    BY <1>2, <2>1, <2>2 DEF CInv, DrawPhase
  <2>4. CASE step = "refill"
    <3>1. Used' = Used
      <4>1. Used' = Len(out') + togo' - Rate /\ Used = Len(out) + togo - Rate
        BY <1>2, <2>4 DEF Used
      <4> QED BY <2>1, <4>1, SpongeAssumption, SMTT(30)
    <3>2. FromOf(Taken, i)' = FromOf(Taken, i)
      BY <1>2, <1>3 DEF FromOf
    <3> QED BY <1>1, <1>2, <1>3, <1>4, <1>5, <2>3, <3>1, <3>2 DEF CInv, DrawInv
  <2>5. CASE step # "refill"
    <3>1. DrawInv'
      BY <1>2, <2>2, <2>5 DEF DrawInv
    <3> QED BY <1>1, <1>4, <1>5, <2>3, <3>1 DEF CInv
  <2> QED BY <2>4, <2>5
<1> QED BY <1>6, <1>7 DEF Hash

LEMMA TakeSignsInv == CInv /\ TakeSigns => CInv'
<1> SUFFICES ASSUME CInv, TakeSigns PROVE CInv'
  OBVIOUS
<1> USE LoopIs, SpongeAssumption, ChallengeAssumption
<1>1. IInv'
  BY CallerInv DEF CInv, ChallengeNext
<1>2. /\ step = "signs" /\ step' = "sample" /\ UNCHANGED oracle
      /\ phase = "squeeze" /\ pc' = "ready" /\ out' = out /\ phase' = phase
      /\ Len(out) = Rate /\ Rate =< MaxOutput
      /\ index' = SignBytes /\ i' = First /\ signs' = 0 /\ c' = [x \in Indices |-> 0]
  BY DEF TakeSigns, SqueezeDone, CInv, DrawPhase
<1>3. /\ Taken' = Taken /\ InBall' = InBall /\ \A b : Candidate(b)' = Candidate(b)
  BY <1>2, OracleSame
<1>4. DrawType'
  BY <1>2 DEF CInv, DrawType, oracle
<1>5. DrawPhase'
  BY <1>2 DEF DrawPhase, TakeSigns, Squeezed
<1>6. DrawnInv'
  <2>1. First \in First .. N
    OBVIOUS
  <2>2. InBall[First] = [x \in Indices |-> 0]
    BY <2>1, InBallIs
  <2> QED BY <1>2, <1>3, <2>2 DEF DrawnInv
<1>7. DrawInv'
  <2>1. Used' = SignBytes
    BY <1>2 DEF Used
  <2>2. FromOf(Taken, i)' = 0
    BY <1>2 DEF FromOf
  <2> QED BY <1>2, <2>1, <2>2 DEF DrawInv
<1> QED BY <1>1, <1>4, <1>5, <1>6, <1>7 DEF CInv

LEMMA RefillInv == CInv /\ Refill => CInv'
<1> SUFFICES ASSUME CInv, Refill PROVE CInv'
  OBVIOUS
<1> USE SpongeAssumption
<1>1. IInv'
  BY CallerInv DEF CInv, ChallengeNext
<1>2. /\ step = "sample" /\ step' = "refill" /\ i < N /\ index = Rate
      /\ UNCHANGED <<oracle, buf, index, i, signs, c, out, phase>>
      /\ phase = "squeeze" /\ pc' = "squeezing" /\ togo' = Rate
      /\ Len(out) + Rate =< MaxOutput /\ Len(out) \in Nat
  BY DEF Refill, Squeeze, CInv, DrawPhase, locals, IInv, TypeInv
<1>3. /\ Taken' = Taken /\ InBall' = InBall /\ \A b : Candidate(b)' = Candidate(b)
  BY <1>2, OracleSame
<1>4. DrawType'
  BY <1>2 DEF CInv, DrawType, oracle
<1>5. DrawPhase'
  BY <1>2 DEF DrawPhase
<1>6. DrawnInv'
  BY <1>2, <1>3 DEF CInv, DrawnInv
<1>7. DrawInv'
  <2>1. Used' = Used
    BY <1>2 DEF Used
  <2>2. FromOf(Taken, i)' = FromOf(Taken, i)
    BY <1>2, <1>3 DEF FromOf
  <2> QED BY <1>2, <1>3, <2>1, <2>2 DEF CInv, DrawInv
<1> QED BY <1>1, <1>4, <1>5, <1>6, <1>7 DEF CInv

LEMMA RefilledInv == CInv /\ Refilled => CInv'
<1> SUFFICES ASSUME CInv, Refilled PROVE CInv'
  OBVIOUS
<1> USE SpongeAssumption
<1>1. IInv'
  BY CallerInv DEF CInv, ChallengeNext
<1>2. /\ step = "refill" /\ step' = "sample" /\ i < N /\ index' = 0 /\ togo = 0
      /\ UNCHANGED <<oracle, i, signs, c, out, phase>>
      /\ phase = "squeeze" /\ pc' = "ready" /\ buf' = Squeezed
      /\ Len(out) =< MaxOutput /\ Len(out) \in Nat
  BY DEF Refilled, RefilledFrom, SqueezeDone, CInv, DrawPhase, IInv, TypeInv
<1>3. /\ Taken' = Taken /\ InBall' = InBall /\ \A b : Candidate(b)' = Candidate(b)
  BY <1>2, OracleSame
<1>4. DrawType'
  BY <1>2 DEF CInv, DrawType, oracle
<1>5. Used >= SignBytes /\ Used' = Used /\ Used = Len(out) - Rate
  BY <1>2 DEF Used, CInv, DrawInv
<1>6. DrawPhase'
  <2>1. Squeezed' = Squeezed
    BY <1>2 DEF Squeezed
  <2> QED BY <1>2, <1>5, <2>1, ChallengeAssumption DEF DrawPhase
<1>7. DrawnInv'
  BY <1>2, <1>3 DEF CInv, DrawnInv
<1>8. DrawInv'
  <2>1. FromOf(Taken, i)' = FromOf(Taken, i)
    BY <1>2, <1>3 DEF FromOf
  <2> QED BY <1>2, <1>3, <1>5, <2>1 DEF CInv, DrawInv
<1> QED BY <1>1, <1>4, <1>6, <1>7, <1>8 DEF CInv

LEMMA DrawnStepInv == CInv /\ Drawn => CInv'
<1> SUFFICES ASSUME CInv, Drawn PROVE CInv'
  OBVIOUS
<1>1. IInv'
  BY CallerInv DEF CInv, ChallengeNext
<1>2. step = "sample" /\ step' = "drawn" /\ UNCHANGED <<oracle, i, c>>
  BY DEF Drawn
<1>3. /\ Taken' = Taken /\ InBall' = InBall /\ \A b : Candidate(b)' = Candidate(b)
  BY <1>2, OracleSame
<1>4. DrawType'
  BY <1>2 DEF CInv, DrawType, oracle
<1>5. DrawPhase' /\ DrawInv' /\ DrawnInv'
  BY <1>2, <1>3 DEF CInv, DrawPhase, DrawInv, DrawnInv
<1> QED BY <1>1, <1>4, <1>5 DEF CInv

\* The byte read next is the next of the hash.
LEMMA NextIsUsed ==
  ASSUME CInv, step = "sample", index < Rate
  PROVE  /\ Used \in Nat /\ Used >= SignBytes
         /\ ValueOf(buf[index + 1]) = Candidate(Used - SignBytes)
<1> USE SpongeAssumption, ChallengeAssumption
<1> DEFINE base == Len(out) - Rate
           q == base + index
<1>1. /\ Len(out) \in Nat /\ base \in Nat /\ index \in 0 .. Rate - 1
      /\ buf = Squeezed /\ Len(out) =< MaxOutput
  BY DEF CInv, DrawPhase, IInv, TypeInv
<1>2. Used = q /\ q >= SignBytes
  BY DEF Used, CInv, DrawInv
<1>3. q \in Nat /\ q < Len(out) /\ q < MaxOutput
  BY <1>1
<1>4. buf[index + 1] = out[q + 1]
  <2>1. Squeezed = [j \in 1 .. Rate |-> out[base + 1 + j - 1]]
    <3>1. Len(out) - (base + 1) + 1 = Rate /\ base + 1 = Len(out) - Rate + 1
      BY <1>1
    <3> HIDE DEF base
    <3>2. Squeezed = SubSeq(out, base + 1, Len(out))
      BY <3>1 DEF Squeezed
    <3>3. SubSeq(out, base + 1, Len(out))
            = [j \in 1 .. Rate |-> out[base + 1 + j - 1]]
      <4> DEFINE sub == SubSeq(out, base + 1, Len(out))
                 n == Len(out) - (base + 1) + 1
      <4>1. base + 1 \in Int /\ Len(out) \in Int /\ base + 1 =< Len(out)
            /\ n = Rate
        BY <1>1, <3>1
      <4>2. \A j \in base + 1 .. Len(out) : out[j] \in Outputs(message)
        <5>1. out \in Seq(Outputs(message))
          BY DEF CInv, IInv, TypeInv
        <5> QED BY <1>1, <5>1
      <4>3. \A j \in 1 .. n : sub[j] = out[base + 1 + j - 1]
        BY <4>1, <4>2, SubSeqProperties
      <4>4. sub \in Seq(Outputs(message)) /\ Len(sub) = n
        BY <4>1, <4>2, SubSeqProperties
      <4> HIDE DEF sub, n
      <4>5. sub = [j \in 1 .. Rate |-> sub[j]]
        BY <4>1, <4>4
      <4> QED BY <4>1, <4>3, <4>5 DEF sub
    <3> QED BY <3>2, <3>3
  <2>2. index + 1 \in 1 .. Rate /\ base + 1 + (index + 1) - 1 = q + 1
    BY <1>1
  <2> HIDE DEF base, q
  <2> QED BY <1>1, <2>1, <2>2
<1>5. out[q + 1] = Shake(message, q)
  <2>1. q + 1 \in 1 .. Len(out) /\ (q + 1) - 1 = q
    BY <1>1, <1>3
  <2> HIDE DEF q
  <2>2. out[q + 1] = Shake(message, (q + 1) - 1)
    BY <2>1, Zenon DEF CInv, IInv, OutputIsShake
  <2> QED BY <2>1, <2>2, Zenon
<1>6. message \in Seq(Byte)
  BY DEF CInv, IInv, TypeInv
<1> HIDE DEF q, base
<1> QED BY <1>2, <1>3, <1>4, <1>5, <1>6, ValueIsCandidate

\* Moving a coefficient away and putting a sign in its place.
LEMMA SwapPlaces ==
  ASSUME DrawType, i < N, signs = i - First, NEW x \in Indices, x =< i
  PROVE  Swap(x) = Placed(c, i, x) /\ Swap(x) \in [Indices -> Int]
<1> USE LoopIs
<1>1. i \in Indices /\ i - First \in 0 .. TAU - 1
  BY DEF DrawType, Indices
<1> DEFINE b == signBits[i - First]
<1>2. b \in {0, 1}
  BY <1>1 DEF DrawType
<1>3. Swap(x) = [c EXCEPT ![i] = c[x], ![x] = 1 - 2 * b]
  BY DEF Swap
<1>4. Placed(c, i, x) = [y \in Indices |-> CASE y = x -> (IF b = 0 THEN 1 ELSE -1)
                                             [] y = i /\ y # x -> c[x]
                                             [] OTHER -> c[y]]
  BY DEF Placed, Signed
<1>5. 1 - 2 * b = IF b = 0 THEN 1 ELSE -1
  BY <1>2
<1> HIDE DEF b
<1>6. c \in [Indices -> Int]
  BY DEF DrawType
<1> DEFINE d == [c EXCEPT ![i] = c[x]]
           e == [d EXCEPT ![x] = 1 - 2 * b]
<1>7. Swap(x) = e
  BY <1>3
<1>8. d \in [Indices -> Int] /\ \A y \in Indices : d[y] = IF y = i THEN c[x] ELSE c[y]
  BY <1>1, <1>6
<1> HIDE DEF d
<1>9. e \in [Indices -> Int] /\ \A y \in Indices : e[y] = IF y = x THEN 1 - 2 * b ELSE d[y]
  BY <1>2, <1>8
<1> HIDE DEF e
<1>10. \A y \in Indices : e[y] = Placed(c, i, x)[y]
  BY <1>4, <1>5, <1>8, <1>9
<1>11. Placed(c, i, x) = [y \in Indices |-> Placed(c, i, x)[y]]
  BY <1>4
<1>12. e = [y \in Indices |-> e[y]]
  BY <1>9
<1> QED BY <1>7, <1>9, <1>10, <1>11, <1>12

LEMMA NextByteInv == CInv /\ NextByte => CInv'
<1> SUFFICES ASSUME CInv, NextByte PROVE CInv'
  OBVIOUS
<1> USE SpongeAssumption, LoopIs
<1> DEFINE b == Used - SignBytes
           x == Candidate(b)
           from == FromOf(Taken, i)
<1>1. /\ step = "sample" /\ step' = "sample" /\ i < N /\ index < Rate /\ index' = index + 1
      /\ UNCHANGED <<oracle, buf, spongeVars>>
  BY DEF NextByte
<1>2. Used \in Nat /\ b \in Nat /\ ValueOf(buf[index + 1]) = x
  BY <1>1, NextIsUsed, ChallengeAssumption
<1>3. IF x > i THEN UNCHANGED <<i, signs, c>>
      ELSE c' = Swap(x) /\ signs' = signs + 1 /\ i' = i + 1
  BY <1>2 DEF NextByte
<1>4. UNCHANGED <<out, phase, pc, togo>>
  BY <1>1 DEF spongeVars
<1>5. Taken' = Taken /\ InBall' = InBall /\ \A d : Candidate(d)' = Candidate(d)
  BY <1>1, OracleSame
<1>6. /\ DrawType /\ i \in First .. N /\ i \in Loop /\ i \in Nat /\ c = InBall[i]
      /\ signs = i - First /\ from \in 0 .. b /\ Len(out) \in Nat /\ index \in 0 .. Rate
      /\ \A d \in from .. b - 1 : Candidate(d) > i
  BY <1>1, SMTT(30) DEF CInv, DrawType, DrawInv, DrawnInv, DrawPhase, IInv, TypeInv
<1>7. x \in Indices /\ x \in Nat /\ i \in Indices
  <2>1. i \in Indices
    BY <1>1, <1>6 DEF Indices
  <2> HIDE DEF b
  <2>2. x \in Indices
    BY <1>2, <1>6, CandidateType DEF DrawType
  <2> HIDE DEF x
  <2> QED BY <2>1, <2>2 DEF Indices
<1>8. Used' = Used + 1 /\ Used = Len(out) - Rate + index
  BY <1>1, <1>4, <1>6 DEF Used
<1>9. IInv'
  BY <1>1, CallerInv DEF CInv, ChallengeNext
<1>10. DrawPhase'
  <2>1. Squeezed' = Squeezed
    BY <1>4 DEF Squeezed
  <2>2. /\ phase' = "squeeze" /\ pc' = "ready" /\ Len(out') >= Rate /\ buf' = Squeezed
        /\ index' \in 0 .. Rate /\ Len(out') =< MaxOutput
    BY <1>1, <1>4, <1>6 DEF CInv, DrawPhase
  <2> QED BY <1>1, <2>1, <2>2 DEF DrawPhase
<1> HIDE DEF b, x, from
<1>11. CASE x > i
  <2>1. UNCHANGED <<i, signs, c>>
    BY <1>3, <1>11
  <2>2. DrawType'
    BY <1>1, <1>6, <2>1 DEF DrawType, oracle
  <2>3. DrawnInv'
    BY <1>1, <1>5, <1>6, <2>1 DEF DrawnInv
  <2>4. FromOf(Taken, i)' = from
    BY <1>5, <2>1 DEF FromOf, from
  <2>5. (Used - SignBytes)' = b + 1
    BY <1>2, <1>8, ChallengeAssumption DEF b
  <2>6. \A d \in from .. (b + 1) - 1 : Candidate(d) > i
    BY <1>2, <1>6, <1>11 DEF x
  <2>7. from \in 0 .. b + 1
    BY <1>2, <1>6
  <2>8. Used' >= SignBytes
    BY <1>2, <1>8, ChallengeAssumption DEF b
  <2>9. \A d \in (FromOf(Taken, i) .. Used - SignBytes - 1)' : Candidate(d)' > i'
    BY <1>2, <1>5, <2>1, <2>4, <2>5, <2>6
  <2>10. DrawInv'
    BY <1>6, <2>1, <2>4, <2>5, <2>7, <2>8, <2>9 DEF DrawInv
  <2> QED BY <1>9, <1>10, <2>2, <2>3, <2>10 DEF CInv
<1>12. CASE ~ (x > i)
  <2>1. x =< i /\ c' = Swap(x) /\ signs' = signs + 1 /\ i' = i + 1
    BY <1>3, <1>6, <1>7, <1>12
  <2>2. c' = Placed(c, i, x) /\ c' \in [Indices -> Int]
    BY <1>1, <1>6, <1>7, <2>1, SwapPlaces
  <2>3. Taken[i] = b
    <3>1. EndsAt(from, i, b)
      BY <1>6, <2>1 DEF EndsAt, x
    <3>2. Found(from, i) = b
      BY <1>2, <1>6, <3>1, FoundIs DEF DrawType
    <3> QED BY <1>6, <3>2, TakenIs DEF from
  <2>4. i' \in First .. N /\ i' # First /\ i' - 1 = i
    BY <1>1, <1>6, <2>1
  <2>5. InBall[i'] = Placed(InBall[i], i, x)
    BY <2>3, <2>4, InBallIs DEF x
  <2>6. c' = InBall'[i']
    BY <1>5, <1>6, <2>2, <2>5
  <2>7. DrawType'
    BY <1>1, <1>6, <2>2, <2>4 DEF DrawType, oracle
  <2>8. DrawnInv'
    BY <1>1, <2>6 DEF DrawnInv
  <2>9. FromOf(Taken, i)' = b + 1
    BY <1>5, <2>3, <2>4 DEF FromOf
  <2>10. (Used - SignBytes)' = b + 1 /\ Used' >= SignBytes
    BY <1>2, <1>8, ChallengeAssumption DEF b
  <2>11. signs' = i' - First
    BY <1>6, <2>1
  <2>12. DrawInv'
    BY <1>2, <2>9, <2>10, <2>11 DEF DrawInv
  <2> QED BY <1>9, <1>10, <2>7, <2>8, <2>12 DEF CInv
<1> QED BY <1>11, <1>12

LEMMA RestInv == CInv /\ UNCHANGED <<spongeVars, challengeVars>> => CInv'
<1> SUFFICES ASSUME CInv, UNCHANGED <<spongeVars, challengeVars>> PROVE CInv'
  OBVIOUS
<1>1. IInv'
  BY CallerInv DEF CInv
<1>2. UNCHANGED <<oracle, step, buf, index, i, signs, c, out, phase, pc, togo>>
  BY DEF challengeVars, locals, spongeVars
<1>3. Taken' = Taken /\ InBall' = InBall /\ \A d : Candidate(d)' = Candidate(d)
  BY <1>2, OracleSame
<1>4. Squeezed' = Squeezed /\ Used' = Used /\ FromOf(Taken, i)' = FromOf(Taken, i)
  BY <1>2, <1>3 DEF Squeezed, Used, FromOf
<1>5. DrawType' /\ DrawPhase'
  BY <1>2, <1>4 DEF CInv, DrawType, DrawPhase, oracle
<1>6. DrawInv' /\ DrawnInv'
  BY <1>2, <1>3, <1>4 DEF CInv, DrawInv, DrawnInv
<1> QED BY <1>1, <1>5, <1>6 DEF CInv

\* mld_poly_challenge draws the polynomial of the byte-wise SampleInBall, for
\* every number of coefficients and signs, every block length and every hash:
\* no byte is skipped or read twice where a block ends.
THEOREM ChallengeExact == ChallengeSpec => []ChallengeAsSpecified
<1>1. CInv /\ [ChallengeNext]_<<spongeVars, challengeVars>> => CInv'
  BY BeforeInv, StartInv, HashInv, TakeSignsInv, RefillInv, RefilledInv,
     NextByteInv, DrawnStepInv, RestInv DEF ChallengeNext
<1> QED
  BY <1>1, ChallengeInitInv, CInvImplies, PTL DEF ChallengeSpec

-----------------------------------------------------------------------------
(* Sampling: which candidates of a stream are accepted.                    *)

\* Those from one to another, those among the next m after b, and how many up
\* to one of them.
Good(n, a, b) == {x \in a .. b : ~Rejected(n, x)}
GoodAfter(n, b, m) == {x \in 1 .. m : ~Rejected(n, b + x)}
Count(n, m) == Cardinality(Good(n, 1, m))

LEMMA GoodFinite ==
  ASSUME NEW n, NEW a \in Int, NEW b \in Int
  PROVE  /\ IsFiniteSet(Good(n, a, b)) /\ Cardinality(Good(n, a, b)) \in Nat
         /\ Cardinality(Good(n, a, b)) =< Cardinality(a .. b)
<1>1. IsFiniteSet(a .. b)
  BY FS_Interval
<1>2. Good(n, a, b) \in SUBSET (a .. b)
  BY DEF Good
<1>3. IsFiniteSet(Good(n, a, b)) /\ Cardinality(Good(n, a, b)) =< Cardinality(a .. b)
  BY <1>1, <1>2, FS_Subset
<1> QED BY <1>3, FS_CardinalityType

LEMMA GoodNext ==
  ASSUME NEW n, NEW a \in Int, NEW b \in Int, a =< b + 1
  PROVE  Cardinality(Good(n, a, b + 1)) =
           Cardinality(Good(n, a, b)) + IF Rejected(n, b + 1) THEN 0 ELSE 1
<1>1. IsFiniteSet(Good(n, a, b)) /\ b + 1 \notin Good(n, a, b)
  <2>1. b + 1 \notin Good(n, a, b)
    BY DEF Good
  <2> QED BY <2>1, GoodFinite
<1>2. CASE Rejected(n, b + 1)
  <2>1. Good(n, a, b + 1) = Good(n, a, b)
    BY <1>2 DEF Good
  <2> QED BY <1>1, <1>2, <2>1, GoodFinite
<1>3. CASE ~Rejected(n, b + 1)
  <2>1. Good(n, a, b + 1) = Good(n, a, b) \cup {b + 1}
    BY <1>3 DEF Good
  <2>2. Cardinality(Good(n, a, b) \cup {b + 1}) = Cardinality(Good(n, a, b)) + 1
    BY <1>1, FS_AddElement
  <2> QED BY <1>3, <2>1, <2>2
<1> QED BY <1>2, <1>3

LEMMA GoodNone ==
  ASSUME NEW n, NEW a \in Int
  PROVE  Cardinality(Good(n, a, a - 1)) = 0
<1>1. Good(n, a, a - 1) = {}
  BY DEF Good
<1> QED BY <1>1, FS_EmptySet

LEMMA CountZero == \A n : Count(n, 0) = 0
<1> SUFFICES ASSUME NEW n PROVE Count(n, 0) = 0
  OBVIOUS
<1>1. Cardinality(Good(n, 1, 1 - 1)) = 0
  BY GoodNone
<1> QED BY <1>1 DEF Count

LEMMA CountType == \A n : \A m \in Nat : Count(n, m) \in Nat
BY GoodFinite DEF Count

LEMMA CountBound ==
  ASSUME NEW n, NEW m \in Nat
  PROVE  Count(n, m) =< m
<1>1. Cardinality(1 .. m) = m
  BY FS_Interval
<1> QED BY <1>1, GoodFinite DEF Count

LEMMA CountNext ==
  \A n : \A m \in Nat :
    Count(n, m + 1) = IF Rejected(n, m + 1) THEN Count(n, m) ELSE Count(n, m) + 1
<1> SUFFICES ASSUME NEW n, NEW m \in Nat
             PROVE  Count(n, m + 1) = IF Rejected(n, m + 1) THEN Count(n, m)
                                                            ELSE Count(n, m) + 1
  OBVIOUS
<1>1. Cardinality(Good(n, 1, m + 1)) = Cardinality(Good(n, 1, m))
                                         + IF Rejected(n, m + 1) THEN 0 ELSE 1
  BY GoodNext
<1>2. Cardinality(Good(n, 1, m)) \in Nat
  BY GoodFinite
<1> QED BY <1>1, <1>2 DEF Count

LEMMA GoodCount ==
  ASSUME NEW n, NEW a \in Nat, NEW m \in Nat
  PROVE  Cardinality(Good(n, a + 1, a + m)) = Count(n, a + m) - Count(n, a)
<1> DEFINE S == {x \in Nat : Cardinality(Good(n, a + 1, a + x))
                               = Count(n, a + x) - Count(n, a)}
<1>1. 0 \in S
  <2>1. Cardinality(Good(n, a + 1, a + 1 - 1)) = 0
    BY GoodNone
  <2>2. Count(n, a) \in Nat /\ a + 0 = a
    BY CountType
  <2> QED BY <2>1, <2>2
<1>2. ASSUME NEW x \in Nat, x \in S PROVE x + 1 \in S
  <2>1. Cardinality(Good(n, a + 1, a + x + 1)) =
          Cardinality(Good(n, a + 1, a + x)) + IF Rejected(n, a + x + 1) THEN 0 ELSE 1
    BY GoodNext
  <2> a + x \in Nat
    OBVIOUS
  <2>2. Count(n, a + x + 1) = IF Rejected(n, a + x + 1) THEN Count(n, a + x)
                                                       ELSE Count(n, a + x) + 1
    BY CountNext, Zenon
  <2>3. Count(n, a + x) \in Nat /\ Count(n, a) \in Nat
    BY CountType, Zenon
  <2>4. Cardinality(Good(n, a + 1, a + x)) = Count(n, a + x) - Count(n, a)
    BY <1>2
  <2>5. a + (x + 1) = a + x + 1
    OBVIOUS
  <2> QED BY <2>1, <2>2, <2>3, <2>4, <2>5
<1> HIDE DEF S
<1>3. m \in S
  BY <1>1, <1>2, NumbersByInduction
<1> QED BY <1>3 DEF S

LEMMA GoodAfterCount ==
  ASSUME NEW n, NEW b \in Nat, NEW m \in Nat
  PROVE  /\ IsFiniteSet(GoodAfter(n, b, m))
         /\ Cardinality(GoodAfter(n, b, m)) = Count(n, b + m) - Count(n, b)
<1> DEFINE S == {x \in Nat : /\ IsFiniteSet(GoodAfter(n, b, x))
                             /\ Cardinality(GoodAfter(n, b, x))
                                  = Count(n, b + x) - Count(n, b)}
<1>1. 0 \in S
  <2>1. GoodAfter(n, b, 0) = {}
    BY DEF GoodAfter
  <2>2. Count(n, b) \in Nat /\ b + 0 = b
    BY CountType
  <2> QED BY <2>1, <2>2, FS_EmptySet
<1>2. ASSUME NEW x \in Nat, x \in S PROVE x + 1 \in S
  <2>1. /\ IsFiniteSet(GoodAfter(n, b, x)) /\ x + 1 \notin GoodAfter(n, b, x)
        /\ Cardinality(GoodAfter(n, b, x)) = Count(n, b + x) - Count(n, b)
    BY <1>2 DEF GoodAfter
  <2> b + x \in Nat
    OBVIOUS
  <2>2. Count(n, b + x + 1) = IF Rejected(n, b + x + 1) THEN Count(n, b + x)
                                                       ELSE Count(n, b + x) + 1
    BY CountNext, Zenon
  <2>3. Count(n, b + x) \in Nat /\ Count(n, b) \in Nat
    BY CountType, Zenon
  <2>4. b + (x + 1) = b + x + 1
    OBVIOUS
  <2>5. CASE Rejected(n, b + x + 1)
    <3>1. GoodAfter(n, b, x + 1) = GoodAfter(n, b, x)
      BY <2>4, <2>5 DEF GoodAfter
    <3> QED BY <2>1, <2>2, <2>3, <2>4, <2>5, <3>1
  <2>6. CASE ~Rejected(n, b + x + 1)
    <3>1. GoodAfter(n, b, x + 1) = GoodAfter(n, b, x) \cup {x + 1}
      BY <2>4, <2>6 DEF GoodAfter
    <3>2. /\ IsFiniteSet(GoodAfter(n, b, x) \cup {x + 1})
          /\ Cardinality(GoodAfter(n, b, x) \cup {x + 1})
               = Cardinality(GoodAfter(n, b, x)) + 1
      BY <2>1, FS_AddElement
    <3>3. Cardinality(GoodAfter(n, b, x + 1)) = Count(n, b + (x + 1)) - Count(n, b)
      <4>1. Count(n, b + (x + 1)) = Count(n, b + x) + 1
        BY <2>2, <2>4, <2>6
      <4>2. Cardinality(GoodAfter(n, b, x + 1)) = Cardinality(GoodAfter(n, b, x)) + 1
        BY <3>1, <3>2
      <4> QED BY <2>1, <2>3, <4>1, <4>2
    <3> QED BY <3>1, <3>2, <3>3
  <2> QED BY <2>5, <2>6
<1> HIDE DEF S
<1>3. m \in S
  BY <1>1, <1>2, NumbersByInduction
<1> QED BY <1>3 DEF S

LEMMA CountGrows ==
  ASSUME NEW n, NEW a \in Nat, NEW b \in Nat
  PROVE  /\ a =< b => Count(n, a) =< Count(n, b)
         /\ a < b /\ ~Rejected(n, b) => Count(n, a) < Count(n, b)
<1>1. ASSUME NEW x \in Nat, NEW y \in Nat, x =< y PROVE Count(n, x) =< Count(n, y)
  <2>1. y - x \in Nat /\ x + (y - x) = y
    BY <1>1
  <2>2. Cardinality(Good(n, x + 1, y)) = Count(n, y) - Count(n, x)
    BY <2>1, GoodCount
  <2>3. Cardinality(Good(n, x + 1, y)) \in Nat
    BY GoodFinite
  <2>4. Count(n, x) \in Nat /\ Count(n, y) \in Nat
    BY CountType
  <2> QED BY <2>2, <2>3, <2>4
<1>2. ASSUME a < b, ~Rejected(n, b) PROVE Count(n, a) < Count(n, b)
  <2>1. b - 1 \in Nat /\ a =< b - 1 /\ b - 1 + 1 = b
    BY <1>2
  <2>2. Count(n, b) = Count(n, b - 1) + 1
    BY <1>2, <2>1, CountNext
  <2>3. Count(n, a) =< Count(n, b - 1) /\ Count(n, a) \in Nat /\ Count(n, b - 1) \in Nat
    BY <1>1, <2>1, CountType
  <2> QED BY <2>2, <2>3
<1> QED BY <1>1, <1>2

\* The k-th candidate of stream n that is accepted.
IsNth(n, k, x) == x \in Nat \ {0} /\ ~Rejected(n, x) /\ Count(n, x) = k
Nth(n, k) == CHOOSE x \in Nat : IsNth(n, k, x)

LEMMA NthUnique ==
  ASSUME NEW n, NEW k, NEW x, NEW y, IsNth(n, k, x), IsNth(n, k, y)
  PROVE  x = y
<1>1. /\ x \in Nat /\ y \in Nat /\ ~Rejected(n, x) /\ ~Rejected(n, y)
      /\ Count(n, x) = k /\ Count(n, y) = k
  BY DEF IsNth
<1>2. k \in Nat
  BY <1>1, CountType
<1>3. ~ (x < y)
  BY <1>1, <1>2, CountGrows
<1>4. ~ (y < x)
  BY <1>1, <1>2, CountGrows
<1> QED BY <1>1, <1>3, <1>4

LEMMA NthIs ==
  ASSUME NEW n, NEW k, NEW x, IsNth(n, k, x)
  PROVE  Nth(n, k) = x
<1>1. x \in Nat
  BY DEF IsNth
<1>2. IsNth(n, k, Nth(n, k))
  BY <1>1 DEF Nth
<1> QED BY <1>2, NthUnique

LEMMA NthExists ==
  ASSUME NEW n, NEW m \in Nat, NEW k \in 1 .. Count(n, m)
  PROVE  IsNth(n, k, Nth(n, k)) /\ Nth(n, k) \in 1 .. m
<1> DEFINE S == {x \in Nat : \A d \in 1 .. Count(n, x) : \E y \in 1 .. x : IsNth(n, d, y)}
<1>1. 0 \in S
  BY CountZero
<1>2. ASSUME NEW x \in Nat, x \in S PROVE x + 1 \in S
  <2> SUFFICES ASSUME NEW d \in 1 .. Count(n, x + 1)
               PROVE  \E y \in 1 .. x + 1 : IsNth(n, d, y)
    OBVIOUS
  <2>1. /\ Count(n, x) \in Nat
        /\ Count(n, x + 1) = IF Rejected(n, x + 1) THEN Count(n, x) ELSE Count(n, x) + 1
    BY CountNext, CountType
  <2>2. CASE d \in 1 .. Count(n, x)
    <3>1. PICK y \in 1 .. x : IsNth(n, d, y)
      BY <1>2, <2>2
    <3>2. y \in 1 .. x + 1
      OBVIOUS
    <3> QED BY <3>1, <3>2
  <2>3. CASE d \notin 1 .. Count(n, x)
    <3>1. ~Rejected(n, x + 1) /\ d = Count(n, x + 1)
      BY <2>1, <2>3
    <3>2. IsNth(n, d, x + 1)
      BY <3>1 DEF IsNth
    <3> QED BY <3>2
  <2> QED BY <2>2, <2>3
<1>3. m \in S
  <2> HIDE DEF S
  <2> QED BY <1>1, <1>2, NumbersByInduction
<1>4. PICK y \in 1 .. m : IsNth(n, k, y)
  BY <1>3
<1> QED BY <1>4, NthIs

\* Where the k-th is, if it is not among the first a.
LEMMA NthAfter ==
  ASSUME NEW n, NEW a \in Nat, NEW m \in Nat,
         NEW k \in Count(n, a) + 1 .. Count(n, a + m)
  PROVE  IsNth(n, k, Nth(n, k)) /\ Nth(n, k) \in a + 1 .. a + m
<1>1. Count(n, a) \in Nat /\ Count(n, a + m) \in Nat
  <2>1. a + m \in Nat
    OBVIOUS
  <2> QED BY <2>1, CountType, Zenon
<1>2. IsNth(n, k, Nth(n, k)) /\ Nth(n, k) \in 1 .. a + m
  BY <1>1, NthExists
<1>3. ~ (Nth(n, k) =< a)
  <2>1. Nth(n, k) =< a => Count(n, Nth(n, k)) =< Count(n, a)
    BY <1>2, CountGrows
  <2> QED BY <1>1, <1>2, <2>1 DEF IsNth
<1> QED BY <1>2, <1>3

\* Those after a, up to b.
Numbered(n, a, b) ==
  [k \in 1 .. Count(n, b) - Count(n, a) |-> Nth(n, Count(n, a) + k)]

LEMMA AcceptedIs ==
  ASSUME NEW n, NEW a \in Nat, NEW m \in Nat
  PROVE  Accepted(n, a + 1, a + m) = Numbered(n, a, a + m)
<1> DEFINE S == Good(n, a + 1, a + m)
<1>1. Cardinality(S) = Count(n, a + m) - Count(n, a)
  BY GoodCount
<1>2. Count(n, a) \in Nat /\ Count(n, a + m) \in Nat
  <2>1. a + m \in Nat
    OBVIOUS
  <2> QED BY <2>1, CountType, Zenon
<1>3. ASSUME NEW y \in S
      PROVE  Cardinality({h \in S : h =< y}) = Count(n, y) - Count(n, a)
  <2>1. y \in a + 1 .. a + m
    BY DEF Good
  <2>2. y - a \in Nat /\ a + (y - a) = y
    BY <2>1
  <2>3. {h \in S : h =< y} = Good(n, a + 1, y)
    BY <2>1 DEF Good
  <2>4. Cardinality(Good(n, a + 1, y)) = Count(n, y) - Count(n, a)
    BY <2>2, GoodCount
  <2> QED BY <2>3, <2>4
<1>4. ASSUME NEW k \in 1 .. Count(n, a + m) - Count(n, a)
      PROVE  (CHOOSE y \in S : Cardinality({h \in S : h =< y}) = k)
               = Nth(n, Count(n, a) + k)
  <2> DEFINE z == Nth(n, Count(n, a) + k)
  <2>1. IsNth(n, Count(n, a) + k, z) /\ z \in a + 1 .. a + m
    <3>1. Count(n, a) + k \in Count(n, a) + 1 .. Count(n, a + m)
      BY <1>2
    <3> QED BY <3>1, NthAfter
  <2> HIDE DEF z
  <2>2. z \in S /\ Count(n, z) - Count(n, a) = k
    BY <1>2, <2>1 DEF Good, IsNth
  <2>3. ASSUME NEW y \in S, Count(n, y) - Count(n, a) = k
        PROVE  y = z
    <3>1. y \in Nat \ {0} /\ ~Rejected(n, y) /\ Count(n, y) \in Nat
      <4>1. y \in Nat \ {0} /\ ~Rejected(n, y)
        BY DEF Good
      <4> QED BY <4>1, CountType
    <3>2. IsNth(n, Count(n, a) + k, y)
      BY <1>2, <2>3, <3>1 DEF IsNth
    <3> QED BY <2>1, <3>2, NthUnique
  <2> HIDE DEF S
  <2> QED BY <1>3, <2>2, <2>3 DEF z
<1> HIDE DEF S
<1>5. Accepted(n, a + 1, a + m) = InOrder(S)
  BY DEF Accepted, Good, S
<1> QED BY <1>1, <1>4, <1>5 DEF InOrder, Numbered

LEMMA AcceptedFirst ==
  ASSUME NEW n, NEW m \in Nat
  PROVE  Accepted(n, 1, m) = [k \in 1 .. Count(n, m) |-> Nth(n, k)]
<1> DEFINE a == 0
<1>1. a \in Nat /\ a + 1 = 1 /\ a + m = m
  OBVIOUS
<1>2. Count(n, a) = 0 /\ Count(n, m) \in Nat
  BY CountZero, CountType
<1> HIDE DEF a
<1>3. Accepted(n, a + 1, a + m) = Numbered(n, a, a + m)
  BY <1>1, AcceptedIs
<1>4. Accepted(n, 1, m) =
        [k \in 1 .. Count(n, m) - Count(n, a) |-> Nth(n, Count(n, a) + k)]
  BY <1>1, <1>3 DEF Numbered
<1>5. Count(n, m) - Count(n, a) = Count(n, m) /\ \A k \in Int : Count(n, a) + k = k
  BY <1>2
<1>6. \A k \in 1 .. Count(n, m) : Nth(n, Count(n, a) + k) = Nth(n, k)
  BY <1>5
<1> QED BY <1>4, <1>5, <1>6

\* A row of the table names the candidates among the next that are good.
LEMMA TableIs ==
  ASSUME NEW n, NEW b \in Nat, NEW m \in Nat,
         NEW k \in 1 .. Count(n, b + m) - Count(n, b)
  PROVE  b + InOrder(GoodAfter(n, b, m))[k] = Nth(n, Count(n, b) + k)
<1> DEFINE S == GoodAfter(n, b, m)
<1>1. Cardinality(S) = Count(n, b + m) - Count(n, b)
  BY GoodAfterCount
<1>2. Count(n, b) \in Nat /\ Count(n, b + m) \in Nat
  <2>1. b + m \in Nat
    OBVIOUS
  <2> QED BY <2>1, CountType, Zenon
<1>3. ASSUME NEW y \in S
      PROVE  Cardinality({h \in S : h =< y}) = Count(n, b + y) - Count(n, b)
  <2>1. y \in 1 .. m
    BY DEF GoodAfter
  <2>2. {h \in S : h =< y} = GoodAfter(n, b, y)
    BY <2>1 DEF GoodAfter
  <2>3. y \in Nat
    BY <2>1
  <2>4. Cardinality(GoodAfter(n, b, y)) = Count(n, b + y) - Count(n, b)
    BY <2>3, GoodAfterCount
  <2> QED BY <2>2, <2>4
<1> DEFINE z == Nth(n, Count(n, b) + k)
<1>4. IsNth(n, Count(n, b) + k, z) /\ z \in b + 1 .. b + m
  <2>1. Count(n, b) + k \in Count(n, b) + 1 .. Count(n, b + m)
    BY <1>2
  <2> QED BY <2>1, NthAfter
<1> HIDE DEF z
<1>5. z - b \in S /\ b + (z - b) = z /\ Count(n, z) - Count(n, b) = k
  BY <1>2, <1>4 DEF GoodAfter, IsNth
<1> DEFINE w == CHOOSE y \in S : Cardinality({h \in S : h =< y}) = k
<1>6. w \in S /\ Cardinality({h \in S : h =< w}) = k
  <2> HIDE DEF S
  <2> QED BY <1>3, <1>5
<1> HIDE DEF w
<1>7. Count(n, b + w) - Count(n, b) = k
  BY <1>3, <1>6
<1>8. b + w \in Nat \ {0} /\ ~Rejected(n, b + w) /\ Count(n, b + w) \in Nat
  <2>1. b + w \in Nat \ {0} /\ ~Rejected(n, b + w)
    BY <1>6 DEF GoodAfter
  <2> QED BY <2>1, CountType
<1>9. IsNth(n, Count(n, b) + k, b + w)
  BY <1>2, <1>7, <1>8 DEF IsNth
<1>10. b + w = z
  BY <1>4, <1>9, NthUnique
<1>11. InOrder(S)[k] = w
  BY <1>1 DEF InOrder, w
<1> QED BY <1>10, <1>11 DEF z

-----------------------------------------------------------------------------
(* What is written: residues, and the polynomial of a nonce.               *)

\* What the build and the job are, and that rejections end.
Enough == SlowHorizon + LongHorizon + Coefficients
RejectionsEnd == \A n : \A x \in Nat : x > SlowHorizon + LongHorizon => ~Rejected(n, x)
ConfigInv ==
  /\ set \in {44, 65, 87} /\ serial \in BOOLEAN /\ reduceRam \in BOOLEAN
  /\ job \in {"matrix", "secrets", "y"} /\ (job # "matrix" => ~reduceRam)
  /\ calls = Calls /\ RejectionsEnd
  /\ job = "y" => rejected = <<>>

\* The nonces of s1 and s2 are numbers.
Hashable(n) == job = "secrets" => n \in Nat

\* Coefficient k of the polynomial of nonce n.
Exact(n, k) == Coefficient(n, Nth(n, k), Eta_c(Code(n, Nth(n, k))))

LEMMA SizesAre ==
  /\ Coefficients \in Nat \ {0} /\ PerBlock \in Nat \ {0} /\ NBLOCKS \in Nat \ {0}
  /\ Vector \in Nat \ {0} /\ SlowHorizon \in Nat /\ LongHorizon \in Nat
BY SamplingAssumption

LEMMA CodeIs ==
  ASSUME set \in {44, 65, 87}, NEW n \in Nat, NEW j \in Nat
  PROVE  Code(n, j) \in IF set = 65 THEN 0 .. 8 ELSE 0 .. 14
<1>1. 4 * n + j \in Nat
  OBVIOUS
<1>2. \A v \in Nat : v % 9 \in 0 .. 8 /\ v % 15 \in 0 .. 14
  OBVIOUS
<1> QED BY <1>1, <1>2 DEF Code

\* The ways to reduce a code modulo 5 agree on those that are accepted.
LEMMA ResidueIs ==
  ASSUME set \in {44, 65, 87}, NEW t \in IF set = 65 THEN 0 .. 8 ELSE 0 .. 14
  PROVE  /\ Eta_avx2(t) = Eta_c(t)
         /\ Eta_c(t) = IF set = 65 THEN 4 - t ELSE 2 - (t % 5)
<1>1. CASE set = 65
  BY <1>1 DEF Eta_c, Eta_avx2
<1>2. CASE set # 65
  <2>1. t \in 0 .. 4 \/ t \in 5 .. 9 \/ t \in 10 .. 14
    BY <1>2
  <2>2. (205 * t) \div 1024 = t \div 5
    BY <2>1
  <2>3. t - (t \div 5) * 5 = t % 5
    BY <2>1
  <2>4. LET d == 2 - t IN d + 5 * ((16384 - 6560 * d) \div 32768) = 2 - (t % 5)
    <3>1. CASE t \in 0 .. 4
      BY <3>1
    <3>2. CASE t \in 5 .. 9
      BY <3>2
    <3>3. CASE t \in 10 .. 14
      BY <3>3
    <3> QED BY <2>1, <3>1, <3>2, <3>3
  <2> QED BY <1>2, <2>2, <2>3, <2>4 DEF Eta_c, Eta_avx2
<1> QED BY <1>1, <1>2

LEMMA CoefficientIs ==
  ASSUME ConfigInv, NEW n, Hashable(n), NEW j \in Nat
  PROVE  /\ Coefficient(n, j, Eta_avx2(Code(n, j))) = Coefficient(n, j, Eta_c(Code(n, j)))
         /\ Coefficient(n, j, Eta_c(Code(n, j))) =
              Coefficient(n, j, IF set = 65 THEN 4 - Code(n, j)
                                            ELSE 2 - (Code(n, j) % 5))
<1>1. CASE job = "secrets"
  <2>1. n \in Nat /\ set \in {44, 65, 87}
    BY <1>1 DEF Hashable, ConfigInv
  <2>2. Code(n, j) \in IF set = 65 THEN 0 .. 8 ELSE 0 .. 14
    BY <2>1, CodeIs
  <2> QED BY <2>1, <2>2, ResidueIs
<1>2. CASE job # "secrets"
  BY <1>2 DEF Coefficient
<1> QED BY <1>1, <1>2

\* Enough candidates are accepted.
LEMMA CountEnough ==
  ASSUME RejectionsEnd, NEW n
  PROVE  Count(n, Enough) >= Coefficients /\ Enough \in Nat
<1> USE SizesAre
<1> DEFINE h == SlowHorizon + LongHorizon
           S == {x \in Nat : Count(n, h + x) >= x}
<1>1. h \in Nat
  OBVIOUS
<1>2. 0 \in S
  <2>1. Count(n, h) \in Nat
    BY <1>1, CountType
  <2> QED BY <1>1, <2>1
<1>3. ASSUME NEW x \in Nat, x \in S PROVE x + 1 \in S
  <2> HIDE DEF h
  <2>1. h + x \in Nat /\ h + (x + 1) = h + x + 1
    BY <1>1
  <2>2. ~Rejected(n, h + x + 1)
    BY <1>1, <2>1 DEF RejectionsEnd, h
  <2>3. Count(n, h + x + 1) = Count(n, h + x) + 1 /\ Count(n, h + x) \in Nat
    BY <2>1, <2>2, CountNext, CountType
  <2> QED BY <1>3, <2>1, <2>3
<1> HIDE DEF S
<1>4. Coefficients \in S
  BY <1>2, <1>3, NumbersByInduction
<1> QED BY <1>4 DEF S, Enough

LEMMA PolynomialIs ==
  ASSUME ConfigInv, NEW n, Hashable(n)
  PROVE  Polynomial(n) = [k \in 1 .. Coefficients |-> Exact(n, k)]
<1>1. Count(n, Enough) >= Coefficients /\ Enough \in Nat /\ Count(n, Enough) \in Nat
  BY CountEnough, CountType DEF ConfigInv
<1> DEFINE good == Accepted(n, 1, Enough)
           Value(t) == IF set = 65 THEN 4 - t ELSE 2 - (t % 5)
<1>2. good = [k \in 1 .. Count(n, Enough) |-> Nth(n, k)]
  BY <1>1, AcceptedFirst
<1>3. ASSUME NEW k \in 1 .. Coefficients
      PROVE  Coefficient(n, good[k], Value(Code(n, good[k]))) = Exact(n, k)
  <2>1. k \in 1 .. Count(n, Enough)
    BY <1>1, SizesAre
  <2>2. good[k] = Nth(n, k)
    BY <1>2, <2>1
  <2>3. Nth(n, k) \in Nat
    BY <1>1, <2>1, NthExists
  <2> HIDE DEF good
  <2> QED BY <2>2, <2>3, CoefficientIs DEF Exact
<1> HIDE DEF good, Value
<1>4. Polynomial(n) = [k \in 1 .. Coefficients |->
                         Coefficient(n, good[k], Value(Code(n, good[k])))]
  BY DEF Polynomial, good, Value, Enough
<1> QED BY <1>3, <1>4

-----------------------------------------------------------------------------
(* The samplers: what one more run of them adds to every lane.             *)

Lower(x, y) == IF x =< y THEN x ELSE y

\* What a lane that holds w coefficients takes from the m candidates after a.
Fits(good, w) == IF Len(good) > Coefficients - w THEN SubSeq(good, 1, Coefficients - w)
                                                 ELSE good

LEMMA FitsIs ==
  ASSUME NEW z \in Nat, NEW good, NEW g, good = [k \in 1 .. z |-> g[k]],
         NEW w \in 0 .. Coefficients
  PROVE  /\ Len(Fits(good, w)) = Lower(z, Coefficients - w)
         /\ \A k \in 1 .. Len(Fits(good, w)) : Fits(good, w)[k] = g[k]
<1> USE SizesAre
<1> DEFINE T == {g[k] : k \in 1 .. z}
<1>1. good \in [1 .. z -> T]
  <2>1. \A k \in 1 .. z : good[k] \in T
    OBVIOUS
  <2> HIDE DEF T
  <2> QED BY <2>1
<1> HIDE DEF T
<1>2. good \in Seq(T) /\ Len(good) = z
  BY <1>1
<1>3. CASE z > Coefficients - w
  <2>1. Coefficients - w \in 0 .. z
    BY <1>3
  <2>2. Fits(good, w) = SubSeq(good, 1, Coefficients - w)
    BY <1>2, <1>3 DEF Fits
  <2>3. /\ Len(SubSeq(good, 1, Coefficients - w)) = Coefficients - w
        /\ \A k \in 1 .. Coefficients - w : SubSeq(good, 1, Coefficients - w)[k] = good[k]
    <3> DEFINE v == Coefficients - w
    <3>1. v \in Nat /\ v =< Len(good)
      BY <1>2, <2>1
    <3> HIDE DEF v
    <3>2. Len(SubSeq(good, 1, v)) = v
      BY <1>2, <3>1
    <3>3. \A k \in 1 .. v : SubSeq(good, 1, v)[k] = good[k]
      BY <1>2, <3>1
    <3> QED BY <3>2, <3>3 DEF v
  <2>4. \A k \in 1 .. Coefficients - w : good[k] = g[k]
    BY <2>1
  <2> QED BY <1>3, <2>2, <2>3, <2>4 DEF Lower
<1>4. CASE ~ (z > Coefficients - w)
  BY <1>2, <1>4 DEF Fits, Lower
<1> QED BY <1>3, <1>4

LEMMA LaneTakes ==
  ASSUME NEW n, NEW a \in Nat, NEW m \in Nat, NEW w,
         w = Lower(Coefficients, Count(n, a))
  PROVE  LET kept == Fits(Accepted(n, a + 1, a + m), w)
         IN  /\ w \in 0 .. Coefficients /\ Len(kept) \in Nat
             /\ w + Len(kept) = Lower(Coefficients, Count(n, a + m))
             /\ \A k \in 1 .. Len(kept) : kept[k] = Nth(n, w + k) /\ kept[k] \in Nat
<1>a. Accepted(n, a + 1, a + m) = Numbered(n, a, a + m)
  BY AcceptedIs
<1> USE SizesAre
<1> DEFINE good == Accepted(n, a + 1, a + m)
           z == Count(n, a + m) - Count(n, a)
           g == [k \in 1 .. z |-> Nth(n, Count(n, a) + k)]
           kept == Fits(good, w)
<1>1. a + m \in Nat /\ a =< a + m
  OBVIOUS
<1>2. Count(n, a) \in Nat /\ Count(n, a + m) \in Nat /\ Count(n, a) =< Count(n, a + m)
  <2>1. \A y \in Nat : a =< y => Count(n, a) =< Count(n, y)
    BY CountGrows
  <2> QED BY <1>1, <2>1, CountType, Zenon
<1>3. z \in Nat /\ w \in 0 .. Coefficients
  BY <1>2 DEF Lower
<1>4. good = [k \in 1 .. z |-> Nth(n, Count(n, a) + k)]
  BY <1>a DEF Numbered
<1> HIDE DEF good, z
<1>5. good = [k \in 1 .. z |-> g[k]]
  BY <1>4
<1>6. /\ Len(kept) = Lower(z, Coefficients - w)
      /\ \A k \in 1 .. Len(kept) : kept[k] = g[k]
  <2> HIDE DEF g
  <2> QED BY <1>3, <1>5, FitsIs
<1> HIDE DEF kept
<1>7. Len(kept) \in Nat /\ w + Len(kept) = Lower(Coefficients, Count(n, a + m))
  BY <1>2, <1>3, <1>6, SMTT(30) DEF Lower, z
<1>8. ASSUME NEW k \in 1 .. Len(kept)
      PROVE  kept[k] = Nth(n, w + k) /\ kept[k] \in Nat
  <2>1. k \in 1 .. z /\ w = Count(n, a)
    BY <1>2, <1>3, <1>6 DEF Lower
  <2>2. kept[k] = Nth(n, Count(n, a) + k)
    BY <1>6, <2>1 DEF g
  <2>3. Count(n, a) + k \in Count(n, a) + 1 .. Count(n, a + m)
    BY <1>2, <2>1 DEF z
  <2>4. Nth(n, Count(n, a) + k) \in a + 1 .. a + m
    BY <2>3, NthAfter
  <2>5. \A y \in a + 1 .. a + m : y \in Nat
    OBVIOUS
  <2> QED BY <2>1, <2>2, <2>4, <2>5
<1> QED BY <1>3, <1>7, <1>8 DEF kept, good

LEMMA ConfigKept ==
  ASSUME UNCHANGED config
  PROVE  /\ Places' = Places /\ \A n, k : Count(n, k)' = Count(n, k)
         /\ \A n, k : Exact(n, k)' = Exact(n, k)
<1>1. UNCHANGED <<set, serial, reduceRam, job, calls, rejected>>
  BY DEF config
<1>2. \A n, y : Rejected(n, y)' = Rejected(n, y)
  BY <1>1 DEF Rejected
<1>3. \A n, k : Count(n, k)' = Count(n, k)
  BY <1>2 DEF Count, Good
<1>4. ASSUME NEW n, NEW k PROVE Exact(n, k)' = Exact(n, k)
  <2>1. Nth(n, k)' = Nth(n, k)
    BY <1>2, <1>3 DEF Nth, IsNth
  <2> DEFINE j == Nth(n, k)
             t == Code(n, j)
             v == Eta_c(t)
  <2>2. j' = j
    BY <2>1
  <2> HIDE DEF j
  <2>3. t' = t
    BY <1>1, <2>2 DEF Code
  <2> HIDE DEF t
  <2>4. v' = v
    BY <1>1, <2>3 DEF Eta_c
  <2> HIDE DEF v
  <2>5. Coefficient(n, j, v)' = Coefficient(n, j, v)
    BY <1>1, <2>2, <2>4 DEF Coefficient
  <2> QED BY <2>5, Zenon DEF Exact, j, t, v
<1>5. Places' = Places
  BY <1>1 DEF Places, K, L
<1> QED BY <1>3, <1>4, <1>5

\* The schedule of a job: a call fills different polynomials.
Scheduled ==
  /\ Len(calls) \in Nat /\ DOMAIN calls = 1 .. Len(calls)
  /\ \A b \in 1 .. Len(calls) :
       /\ DOMAIN calls[b] \subseteq FourLanes
       /\ \A l \in DOMAIN calls[b] :
            calls[b][l].to \in Places /\ Hashable(calls[b][l].nonce)
       /\ \A l, m \in DOMAIN calls[b] : calls[b][l].to = calls[b][m].to => l = m

\* A lane holds what is accepted of the candidates so far.
Holds(l) ==
  LET n == calls[batch][l].nonce
  IN  /\ ctr[l] = IF job = "y" THEN IF blocks = 0 THEN 0 ELSE Coefficients
                               ELSE Lower(Coefficients, Count(n, blocks * PerBlock))
      /\ \A k \in 1 .. ctr[l] : poly[calls[batch][l].to][k] = Exact(n, k)
LanesHold == \A l \in DOMAIN calls[batch] : Holds(l)

\* Polynomials have so many coefficients.
FullLength(r) == r = [k \in 1 .. Coefficients |-> r[k]]
PolyInv == \A p \in Places : FullLength(poly[p])

\* A step that writes to the polynomials of a call.
Elsewhere ==
  \A p \in Places : (\A l \in DOMAIN calls[batch] : calls[batch][l].to # p) =>
                      poly'[p] = poly[p]

LEMMA RejNextHolds ==
  ASSUME ConfigInv, Scheduled, batch \in 1 .. Len(calls), blocks \in Nat, PolyInv,
         LanesHold, job # "y", NEW x \in Nat, RejNext(x), UNCHANGED <<config, batch>>
  PROVE  LanesHold' /\ PolyInv' /\ Elsewhere /\ blocks' = blocks + x
<1> USE SizesAre
<1> DEFINE call == calls[batch]
           a == blocks * PerBlock
           m == x * PerBlock
           taken == [l \in DOMAIN call |->
                       Fits(Accepted(call[l].nonce, a + 1, (blocks + x) * PerBlock), ctr[l])]
           Wrote(l, k) ==
             IF k - ctr[l] \in 1 .. Len(taken[l])
               THEN LET j == taken[l][k - ctr[l]]
                    IN  Coefficient(call[l].nonce, j, Eta_c(Code(call[l].nonce, j)))
               ELSE poly[call[l].to][k]
<1>1. a \in Nat /\ m \in Nat /\ (blocks + x) * PerBlock = a + m
  <2>1. \A u, v \in Nat : u * v \in Nat
    OBVIOUS
  <2>2. \A u, v, y \in Nat : (u + v) * y = u * y + v * y
    OBVIOUS
  <2> QED BY <2>1, <2>2
<1> HIDE DEF a, m
<1>2. /\ blocks' = blocks + x
      /\ ctr' = [l \in FourLanes |-> IF l \in DOMAIN call THEN ctr[l] + Len(taken[l]) ELSE 0]
      /\ poly' = [p \in Places |->
                    IF \E l \in DOMAIN call : call[l].to = p
                      THEN LET l == CHOOSE y \in DOMAIN call : call[y].to = p
                           IN  [k \in 1 .. Coefficients |-> Wrote(l, k)]
                      ELSE poly[p]]
  BY DEF RejNext, StartOf, Room, Fits, a
<1>3. calls' = calls /\ batch' = batch /\ Places' = Places /\ job' = job
      /\ (\A n, k : Count(n, k)' = Count(n, k)) /\ \A n, k : Exact(n, k)' = Exact(n, k)
  BY ConfigKept DEF config
<1> HIDE DEF Wrote
<1>4. Elsewhere
  BY <1>2 DEF Elsewhere
<1>5. PolyInv'
  <2> SUFFICES ASSUME NEW p \in Places PROVE FullLength(poly'[p])
    BY <1>3 DEF PolyInv, FullLength
  <2>1. CASE \E l \in DOMAIN call : call[l].to = p
    <3>1. PICK l : poly'[p] = [k \in 1 .. Coefficients |-> Wrote(l, k)]
      BY <1>2, <2>1
    <3> QED BY <3>1 DEF FullLength
  <2>2. CASE ~ \E l \in DOMAIN call : call[l].to = p
    BY <1>2, <2>2 DEF PolyInv
  <2> QED BY <2>1, <2>2
<1>6. ASSUME NEW l \in DOMAIN call PROVE Holds(l)'
  <2> DEFINE n == call[l].nonce
             kept == taken[l]
             p == call[l].to
  <2>1. Hashable(n) /\ p \in Places /\ l \in FourLanes
        /\ \A y \in DOMAIN call : call[y].to = p => y = l
    BY DEF Scheduled
  <2>2. /\ ctr[l] = Lower(Coefficients, Count(n, a))
        /\ \A k \in 1 .. ctr[l] : poly[p][k] = Exact(n, k)
    BY DEF LanesHold, Holds, a
  <2>3. kept = Fits(Accepted(n, a + 1, a + m), ctr[l])
    BY <1>1
  <2> HIDE DEF taken, kept, n, p
  <2>4. /\ ctr[l] \in 0 .. Coefficients /\ Len(kept) \in Nat
        /\ ctr[l] + Len(kept) = Lower(Coefficients, Count(n, a + m))
        /\ \A k \in 1 .. Len(kept) : kept[k] = Nth(n, ctr[l] + k) /\ kept[k] \in Nat
    <3> DEFINE taking == Fits(Accepted(n, a + 1, a + m), ctr[l])
    <3>1. /\ ctr[l] \in 0 .. Coefficients /\ Len(taking) \in Nat
          /\ ctr[l] + Len(taking) = Lower(Coefficients, Count(n, a + m))
          /\ \A k \in 1 .. Len(taking) : taking[k] = Nth(n, ctr[l] + k) /\ taking[k] \in Nat
      BY <1>1, <2>2, LaneTakes
    <3> HIDE DEF taking
    <3>2. kept = taking
      BY <2>3 DEF taking
    <3> QED BY <3>1, <3>2
  <2>5. ctr'[l] = ctr[l] + Len(kept)
    BY <1>2, <2>1 DEF kept
  <2>6. poly'[p] = [k \in 1 .. Coefficients |-> Wrote(l, k)]
    <3>1. (CHOOSE y \in DOMAIN call : call[y].to = p) = l
      BY <2>1
    <3>2. call[l].to = p
      BY DEF p
    <3> QED BY <1>2, <2>1, <3>1, <3>2
  <2>7. ctr'[l] \in 0 .. Coefficients
    <3>1. a + m \in Nat
      BY <1>1
    <3>2. Count(n, a + m) \in Nat
      BY <3>1, CountType, Zenon
    <3> QED BY <2>4, <2>5, <3>2 DEF Lower
  <2>8. ASSUME NEW k \in 1 .. ctr'[l] PROVE poly'[p][k] = Exact(n, k)
    <3>1. k \in 1 .. Coefficients
      BY <2>7
    <3>2. poly'[p][k] = Wrote(l, k)
      BY <2>6, <3>1
    <3>3. CASE k =< ctr[l]
      <4>1. k \in 1 .. ctr[l] /\ k - ctr[l] \notin 1 .. Len(kept)
        BY <2>4, <3>3
      <4>2. Wrote(l, k) = poly[p][k]
        BY <4>1 DEF Wrote, kept, p
      <4> QED BY <2>2, <3>2, <4>1, <4>2
    <3>4. CASE k > ctr[l]
      <4>1. k - ctr[l] \in 1 .. Len(kept) /\ ctr[l] + (k - ctr[l]) = k
        BY <2>4, <2>5, <3>4
      <4>2. kept[k - ctr[l]] = Nth(n, k) /\ kept[k - ctr[l]] \in Nat
        BY <2>4, <4>1
      <4>3. Wrote(l, k) = Exact(n, k)
        BY <4>1, <4>2 DEF Wrote, kept, Exact, n
      <4> QED BY <3>2, <4>3
    <3> QED BY <2>4, <3>3, <3>4
  <2>9. blocks' * PerBlock = a + m
    BY <1>1, <1>2
  <2> HIDE DEF p
  <2>10. ctr'[l] = Lower(Coefficients, Count(n, blocks' * PerBlock))
    BY <2>4, <2>5, <2>9
  <2> QED BY <1>3, <2>8, <2>10 DEF Holds, n, p
<1>7. LanesHold'
  BY <1>3, <1>6 DEF LanesHold
<1> QED BY <1>2, <1>4, <1>5, <1>7

-----------------------------------------------------------------------------
(* The kernels keep what the C code keeps.                                 *)

KernelStep(n, t) ==
  IF InVectors(t) THEN Compress(n, t)
  ELSE IF t.ctr < Coefficients /\ t.pos < Buffer THEN TakeNext(n, t)
  ELSE t
KernelStart(r) == [pos |-> 0, ctr |-> 0, r |-> r, vectors |-> TRUE]
KernelRound(n, r, g, k) == IF k = 0 THEN KernelStart(r) ELSE KernelStep(n, g[k - 1])

LEMMA KernelRuns ==
  ASSUME NEW n, NEW r
  PROVE  \E g : /\ RejKernel(n, r) = g[Buffer]
                /\ \A k \in 0 .. Buffer : g[k] = KernelRound(n, r, g, k)
<1> DEFINE Is(g) == g = [k \in 0 .. Buffer |-> KernelRound(n, r, g, k)]
           Upto(g, m) == \A k \in 0 .. Buffer : k < m => g[k] = KernelRound(n, r, g, k)
           S == {m \in Nat : \E g : DOMAIN g = 0 .. Buffer /\ Upto(g, m)}
<1>0. Buffer \in Nat
  <2>1. \A u, v \in Nat : u * v \in Nat
    OBVIOUS
  <2> QED BY <2>1, SizesAre DEF Buffer
<1>1. 0 \in S
  <2> DEFINE g == [k \in 0 .. Buffer |-> 0]
  <2>1. DOMAIN g = 0 .. Buffer /\ Upto(g, 0)
    OBVIOUS
  <2> HIDE DEF Upto, g
  <2> QED BY <2>1
<1>2. ASSUME NEW m \in Nat, m \in S PROVE m + 1 \in S
  <2>1. PICK g : DOMAIN g = 0 .. Buffer /\ Upto(g, m)
    BY <1>2
  <2> DEFINE e == [k \in 0 .. Buffer |-> IF k = m THEN KernelRound(n, r, g, k) ELSE g[k]]
  <2>2. ASSUME NEW k \in 0 .. Buffer, k < m + 1
        PROVE  e[k] = KernelRound(n, r, e, k)
    <3>1. k # 0 => e[k - 1] = g[k - 1]
      BY <1>0, <2>2
    <3>2. KernelRound(n, r, e, k) = KernelRound(n, r, g, k)
      <4> HIDE DEF e
      <4> QED BY <3>1 DEF KernelRound
    <3>3. CASE k = m
      BY <3>2, <3>3
    <3>4. CASE k # m
      <4>1. k < m
        BY <1>0, <2>2, <3>4
      <4>2. g[k] = KernelRound(n, r, g, k)
        BY <2>1, <4>1
      <4> QED BY <3>2, <3>4, <4>2
    <3> QED BY <3>3, <3>4
  <2>3. DOMAIN e = 0 .. Buffer /\ Upto(e, m + 1)
    <3>1. DOMAIN e = 0 .. Buffer
      OBVIOUS
    <3> HIDE DEF e
    <3> QED BY <2>2, <3>1
  <2> HIDE DEF Upto, e
  <2> QED BY <2>3
<1>3. \E g : Is(g)
  <2> HIDE DEF S
  <2>1. Buffer + 1 \in S
    BY <1>0, <1>1, <1>2, NumbersByInduction
  <2>2. PICK g : DOMAIN g = 0 .. Buffer /\ Upto(g, Buffer + 1)
    BY <2>1 DEF S
  <2> DEFINE e == [k \in 0 .. Buffer |-> g[k]]
  <2>3. ASSUME NEW k \in 0 .. Buffer PROVE e[k] = KernelRound(n, r, e, k)
    <3>1. k # 0 => e[k - 1] = g[k - 1]
      BY <1>0
    <3>2. KernelRound(n, r, e, k) = KernelRound(n, r, g, k)
      <4> HIDE DEF e
      <4> QED BY <3>1 DEF KernelRound
    <3>3. k < Buffer + 1
      BY <1>0
    <3>4. g[k] = KernelRound(n, r, g, k)
      BY <2>2, <3>3
    <3> QED BY <3>2, <3>4
  <2>4. e = [k \in 0 .. Buffer |-> e[k]]
    OBVIOUS
  <2> HIDE DEF e, Upto
  <2>5. Is(e)
    BY <2>3, <2>4, Zenon
  <2> HIDE DEF Is
  <2> QED BY <2>5
<1> DEFINE run == CHOOSE g : Is(g)
<1>4. RejKernel(n, r) = run[Buffer]
  BY Zenon DEF RejKernel, KernelRound, KernelStart, KernelStep
<1>5. Is(run)
  <2> HIDE DEF Is
  <2> QED BY <1>3, Zenon
<1> HIDE DEF run
<1>6. ASSUME NEW k \in 0 .. Buffer PROVE run[k] = KernelRound(n, r, run, k)
  BY <1>5, Zenon
<1> QED BY <1>4, <1>6

\* The rounds of two vectors.
TwoByTwo(x) ==
  \E q \in Nat : \/ x = q * (2 * Vector) + 0
                 \/ x = q * (2 * Vector) + Vector /\ x + Vector =< Buffer

\* After m rounds: m candidates were looked at, or no more are wanted.
KernelInv(n, m, t) ==
  /\ t = [pos |-> t.pos, ctr |-> t.ctr, r |-> t.r, vectors |-> t.vectors]
  /\ t.pos \in 0 .. Buffer /\ t.ctr = Count(n, t.pos) /\ t.ctr =< Coefficients
  /\ FullLength(t.r) /\ \A k \in 1 .. t.ctr : t.r[k] = Exact(n, k)
  /\ t.vectors \in BOOLEAN
  /\ t.vectors /\ job # "matrix" => TwoByTwo(t.pos)
  /\ t.pos >= m \/ t.ctr = Coefficients

LEMMA BufferIs == Buffer \in Nat
<1>1. \A u, v \in Nat : u * v \in Nat
  OBVIOUS
<1> QED BY <1>1, SizesAre DEF Buffer

LEMMA VectorFits ==
  ASSUME NEW n, NEW m, NEW t, KernelInv(n, m, t), InVectors(t)
  PROVE  /\ t.pos + Vector =< Buffer
         /\ job # "matrix" => TwoByTwo(t.pos + Vector)
<1> USE SizesAre, BufferIs
<1>1. t.pos \in Nat /\ t.vectors
  BY DEF KernelInv, InVectors
<1>2. CASE job = "matrix"
  BY <1>1, <1>2 DEF InVectors, LoadsAt, Loaded
<1>3. CASE job # "matrix"
  <2>1. PICK q \in Nat : \/ t.pos = q * (2 * Vector) + 0
                         \/ t.pos = q * (2 * Vector) + Vector /\ t.pos + Vector =< Buffer
    BY <1>1, <1>3 DEF KernelInv, TwoByTwo
  <2>2. CASE t.pos = q * (2 * Vector) + 0
    <3>1. 2 * Vector \in Nat \ {0} /\ 0 \in 0 .. 2 * Vector - 1
      OBVIOUS
    <3>2. t.pos % (2 * Vector) = 0
      BY <2>2, <3>1, Quotient
    <3>3. t.pos + 2 * Vector =< Buffer
      BY <1>3, <3>2 DEF InVectors, LoadsAt, Loaded
    <3>4. t.pos + Vector = q * (2 * Vector) + Vector
      <4>1. q * (2 * Vector) \in Nat
        BY <3>1, Quotient
      <4> QED BY <2>2, <4>1
    <3>5. t.pos + Vector + Vector =< Buffer
      BY <1>1, <3>3
    <3> QED BY <1>1, <3>4, <3>5 DEF TwoByTwo
  <2>3. CASE t.pos = q * (2 * Vector) + Vector /\ t.pos + Vector =< Buffer
    <3>1. \A u, v \in Nat : (u + 1) * (2 * v) = u * (2 * v) + 2 * v /\ u * (2 * v) \in Nat
      OBVIOUS
    <3>2. t.pos + Vector = (q + 1) * (2 * Vector) + 0
      BY <2>3, <3>1
    <3>3. q + 1 \in Nat
      OBVIOUS
    <3> QED BY <2>3, <3>2, <3>3 DEF TwoByTwo
  <2> QED BY <2>1, <2>2, <2>3
<1> QED BY <1>2, <1>3

LEMMA CompressKeeps ==
  ASSUME ConfigInv, NEW n, Hashable(n), NEW m \in Nat, NEW t, KernelInv(n, m, t),
         InVectors(t)
  PROVE  KernelInv(n, m + 1, Compress(n, t))
<1> USE SizesAre, BufferIs
<1> DEFINE good == {x \in 1 .. Vector : ~Rejected(n, t.pos + x)}
           row == mld_rej_uniform_table(good)
           z == t.ctr
           Stored(k) == LET j == t.pos + row[k - z]
                        IN  Coefficient(n, j, Eta_avx2(Code(n, j)))
           after == [k \in (DOMAIN t.r) \cup (z + 1 .. z + Vector) |->
                       IF k > z /\ k =< z + Vector THEN Stored(k) ELSE t.r[k]]
           u == Compress(n, t)
<1>1. /\ t = [pos |-> t.pos, ctr |-> t.ctr, r |-> t.r, vectors |-> t.vectors]
      /\ t.pos \in 0 .. Buffer /\ z = Count(n, t.pos) /\ z =< Coefficients
      /\ FullLength(t.r) /\ (\A k \in 1 .. z : t.r[k] = Exact(n, k))
      /\ t.vectors \in BOOLEAN /\ t.vectors /\ z =< Coefficients - Vector
  BY DEF KernelInv, InVectors
<1>2. u = [pos |-> t.pos + Vector, ctr |-> z + Cardinality(good), vectors |-> TRUE,
           r |-> after]
  BY Zenon DEF Compress
<1> DEFINE a == t.pos
<1>3. a \in Nat /\ a + Vector \in Nat /\ Count(n, a) \in Nat /\ Count(n, a + Vector) \in Nat
      /\ z = Count(n, a) /\ Count(n, a) =< Count(n, a + Vector)
  <2>1. a \in Nat /\ a + Vector \in Nat /\ a =< a + Vector /\ z = Count(n, a)
    BY <1>1
  <2>2. \A y \in Nat : a =< y => Count(n, a) =< Count(n, y)
    BY <2>1, CountGrows
  <2> HIDE DEF a, z
  <2> QED BY <2>1, <2>2, CountType, Zenon
<1>4. good = GoodAfter(n, a, Vector)
  BY DEF GoodAfter
<1> HIDE DEF good, a
<1>5. Cardinality(good) = Count(n, a + Vector) - Count(n, a)
  BY <1>3, <1>4, GoodAfterCount
<1>6. Cardinality(good) =< Vector
  <2>1. Cardinality(1 .. Vector) = Vector /\ IsFiniteSet(1 .. Vector)
    BY FS_Interval
  <2>2. good \in SUBSET (1 .. Vector)
    BY DEF good
  <2> QED BY <2>1, <2>2, FS_Subset
<1>7. u.ctr = Count(n, a + Vector) /\ u.ctr =< Coefficients /\ u.pos = a + Vector
      /\ u.r = after /\ u.vectors = TRUE
  <2> HIDE DEF z, after, u
  <2>1. z + Cardinality(good) = Count(n, a + Vector)
    BY <1>3, <1>5
  <2>2. z + Cardinality(good) =< Coefficients
    BY <1>1, <1>3, <1>5, <1>6
  <2> QED BY <1>2, <2>1, <2>2 DEF a
<1>8. DOMAIN t.r = 1 .. Coefficients
  BY <1>1 DEF FullLength
<1>9. FullLength(after)
  <2>1. (DOMAIN t.r) \cup (z + 1 .. z + Vector) = 1 .. Coefficients
    BY <1>1, <1>3, <1>8, SMTT(30)
  <2> HIDE DEF Stored
  <2> QED BY <2>1 DEF FullLength
<1>10. ASSUME NEW k \in 1 .. Count(n, a + Vector) PROVE after[k] = Exact(n, k)
  <2>1. k \in (DOMAIN t.r) \cup (z + 1 .. z + Vector)
    <3>1. k \in 1 .. Coefficients
      BY <1>3, <1>7
    <3> QED BY <1>8, <3>1
  <2>2. CASE k =< z
    <3>1. k \in 1 .. z /\ ~ (k > z)
      BY <1>3, <2>2
    <3>2. after[k] = t.r[k]
      <4> HIDE DEF Stored, z
      <4> QED BY <2>1, <3>1
    <3> QED BY <1>1, <3>1, <3>2
  <2>3. CASE k > z
    <3> DEFINE d == k - z
    <3>1. d \in 1 .. Cardinality(good) /\ d \in 1 .. Vector /\ z + d = k /\ k =< z + Vector
      BY <1>3, <1>5, <1>6, <2>3
    <3> HIDE DEF d
    <3>2. row[d] = InOrder(good)[d]
      <4>1. d \in 1 .. Vector /\ d =< Cardinality(good)
        BY <3>1
      <4> QED BY <4>1 DEF mld_rej_uniform_table
    <3>3. a + InOrder(good)[d] = Nth(n, k)
      <4>1. d \in 1 .. Count(n, a + Vector) - Count(n, a)
        BY <1>5, <3>1
      <4>2. a + InOrder(GoodAfter(n, a, Vector))[d] = Nth(n, Count(n, a) + d)
        BY <1>3, <4>1, TableIs
      <4>3. Count(n, a) + d = k
        BY <1>3, <3>1
      <4> QED BY <1>4, <4>2, <4>3
    <3>4. Nth(n, k) \in Nat
      <4>1. Nth(n, k) \in 1 .. a + Vector
        BY <1>3, NthExists
      <4> QED BY <1>3, <4>1
    <3>5. Stored(k) = Coefficient(n, Nth(n, k), Eta_avx2(Code(n, Nth(n, k))))
      <4>1. t.pos + row[k - z] = Nth(n, k)
        <5> HIDE DEF row
        <5> QED BY <3>2, <3>3 DEF a, d
      <4> HIDE DEF row
      <4> QED BY <4>1
    <3>6. after[k] = Stored(k)
      <4> HIDE DEF Stored, z
      <4> QED BY <2>1, <2>3, <3>1
    <3>7. Coefficient(n, Nth(n, k), Eta_avx2(Code(n, Nth(n, k)))) = Exact(n, k)
      BY <3>4, CoefficientIs DEF Exact
    <3> HIDE DEF after, Stored
    <3> QED BY <3>5, <3>6, <3>7
  <2> QED BY <1>3, <2>2, <2>3
<1>11. a + Vector =< Buffer /\ (job # "matrix" => TwoByTwo(a + Vector))
  BY VectorFits DEF a
<1>12. a + Vector >= m + 1
  <2>1. z # Coefficients
    BY <1>1, <1>3
  <2>2. a >= m
    BY <2>1 DEF KernelInv, a
  <2> QED BY <1>3, <2>2
<1>13. u = [pos |-> u.pos, ctr |-> u.ctr, r |-> u.r, vectors |-> u.vectors]
  <2> HIDE DEF after, z
  <2>1. \A w1, w2, w3, w4 :
          LET v == [pos |-> w1, ctr |-> w2, vectors |-> w4, r |-> w3]
          IN  v = [pos |-> v.pos, ctr |-> v.ctr, r |-> v.r, vectors |-> v.vectors]
    OBVIOUS
  <2> HIDE DEF u
  <2> QED BY <1>2, <2>1
<1> HIDE DEF after, u, z
<1>14. /\ u.pos \in 0 .. Buffer /\ u.ctr = Count(n, u.pos) /\ u.ctr =< Coefficients
       /\ FullLength(u.r) /\ (\A k \in 1 .. u.ctr : u.r[k] = Exact(n, k))
       /\ u.vectors \in BOOLEAN /\ (u.vectors /\ job # "matrix" => TwoByTwo(u.pos))
       /\ u.pos >= m + 1
  <2>1. u.ctr = Count(n, u.pos) /\ FullLength(u.r) /\ u.vectors \in BOOLEAN
        /\ (job # "matrix" => TwoByTwo(u.pos)) /\ u.pos >= m + 1 /\ u.ctr =< Coefficients
    BY <1>7, <1>9, <1>11, <1>12
  <2>2. u.pos \in 0 .. Buffer
    BY <1>3, <1>7, <1>11
  <2>3. \A k \in 1 .. u.ctr : u.r[k] = Exact(n, k)
    BY <1>7, <1>10
  <2> QED BY <2>1, <2>2, <2>3, Zenon
<1>15. KernelInv(n, m + 1, u)
  BY <1>13, <1>14, Zenon DEF KernelInv
<1> QED BY <1>15 DEF u

LEMMA TakeNextKeeps ==
  ASSUME ConfigInv, NEW n, Hashable(n), NEW m \in Nat, NEW t, KernelInv(n, m, t),
         t.ctr < Coefficients, t.pos < Buffer
  PROVE  KernelInv(n, m + 1, TakeNext(n, t))
<1> USE SizesAre, BufferIs
<1> DEFINE j == t.pos + 1
           z == t.ctr
           v == Coefficient(n, j, Eta_c(Code(n, j)))
           u == TakeNext(n, t)
<1>1. /\ t = [pos |-> t.pos, ctr |-> t.ctr, r |-> t.r, vectors |-> t.vectors]
      /\ t.pos \in Nat /\ z = Count(n, t.pos) /\ z < Coefficients /\ z \in Nat
      /\ FullLength(t.r) /\ (\A k \in 1 .. z : t.r[k] = Exact(n, k))
      /\ t.pos >= m /\ j \in 1 .. Buffer /\ j >= m + 1
  BY CountType DEF KernelInv
<1>2. Count(n, j) = IF Rejected(n, j) THEN z ELSE z + 1
  BY <1>1, CountNext
<1>3. \A w1, w2, w3, w4 :
        LET e == [pos |-> w1, ctr |-> w2, vectors |-> w3, r |-> w4]
        IN  e = [pos |-> e.pos, ctr |-> e.ctr, r |-> e.r, vectors |-> e.vectors]
  OBVIOUS
<1>4. CASE Rejected(n, j)
  <2>3. u = [pos |-> j, ctr |-> z, vectors |-> FALSE, r |-> t.r]
    BY <1>4, Zenon DEF TakeNext
  <2>4. u = [pos |-> u.pos, ctr |-> u.ctr, r |-> u.r, vectors |-> u.vectors]
    <3> HIDE DEF u
    <3> QED BY <1>3, <2>3
  <2> HIDE DEF u, v
  <2>5. u.pos = j /\ u.ctr = z /\ u.r = t.r /\ u.vectors = FALSE
    BY <2>3
  <2> HIDE DEF j, z
  <2>6. /\ u.pos \in 0 .. Buffer /\ u.ctr = Count(n, u.pos) /\ u.ctr =< Coefficients
        /\ FullLength(u.r) /\ u.vectors = FALSE /\ u.pos >= m + 1
    BY <1>1, <1>2, <1>4, <2>5
  <2>7. \A k \in 1 .. u.ctr : u.r[k] = Exact(n, k)
    BY <1>1, <2>5
  <2>8. KernelInv(n, m + 1, u)
    BY <2>4, <2>6, <2>7, Zenon DEF KernelInv
  <2> QED BY <2>8 DEF u
<1>5. CASE ~Rejected(n, j)
  <2> DEFINE after == [t.r EXCEPT ![z + 1] = v]
  <2>3. u = [pos |-> j, ctr |-> z + 1, vectors |-> FALSE, r |-> after]
    BY <1>5, Zenon DEF TakeNext
  <2> HIDE DEF v
  <2>4. u = [pos |-> u.pos, ctr |-> u.ctr, r |-> u.r, vectors |-> u.vectors]
    <3> HIDE DEF u, after
    <3> QED BY <1>3, <2>3
  <2> HIDE DEF u
  <2>5. u.pos = j /\ u.ctr = z + 1 /\ u.r = after /\ u.vectors = FALSE
    <3> HIDE DEF after
    <3> QED BY <2>3
  <2>6. z + 1 \in 1 .. Coefficients
    BY <1>1
  <2>7. FullLength(after)
    BY <1>1, <2>6 DEF FullLength
  <2>8. v = Exact(n, z + 1)
    <3>1. IsNth(n, z + 1, j)
      BY <1>1, <1>2, <1>5 DEF IsNth
    <3>2. Nth(n, z + 1) = j
      BY <3>1, NthIs
    <3> QED BY <3>2 DEF Exact, v
  <2>9. ASSUME NEW k \in 1 .. z + 1 PROVE after[k] = Exact(n, k)
    <3>1. DOMAIN t.r = 1 .. Coefficients
      BY <1>1 DEF FullLength
    <3>2. k \in DOMAIN t.r
      BY <1>1, <3>1
    <3>3. CASE k = z + 1
      BY <2>8, <3>2, <3>3
    <3>4. CASE k # z + 1
      <4>1. k \in 1 .. z
        BY <1>1, <3>4
      <4> QED BY <1>1, <3>2, <3>4, <4>1
    <3> QED BY <3>3, <3>4
  <2> HIDE DEF j, z, after
  <2>10. /\ u.pos \in 0 .. Buffer /\ u.ctr = Count(n, u.pos) /\ u.ctr =< Coefficients
         /\ FullLength(u.r) /\ u.vectors = FALSE
         /\ u.pos >= m + 1
    BY <1>1, <1>2, <1>5, <2>5, <2>6, <2>7
  <2>11. \A k \in 1 .. u.ctr : u.r[k] = Exact(n, k)
    BY <2>5, <2>9
  <2>12. KernelInv(n, m + 1, u)
    BY <2>4, <2>10, <2>11, Zenon DEF KernelInv
  <2> QED BY <2>12 DEF u
<1> QED BY <1>4, <1>5

LEMMA KernelIs ==
  ASSUME ConfigInv, NEW n, Hashable(n), NEW r, FullLength(r)
  PROVE  LET t == RejKernel(n, r)
         IN  /\ t.ctr = Lower(Coefficients, Count(n, Buffer)) /\ FullLength(t.r)
             /\ \A k \in 1 .. t.ctr : t.r[k] = Exact(n, k)
<1> USE SizesAre, BufferIs
<1>1. PICK g : /\ RejKernel(n, r) = g[Buffer]
               /\ \A k \in 0 .. Buffer : g[k] = KernelRound(n, r, g, k)
  BY KernelRuns
<1> DEFINE S == {m \in Nat : m =< Buffer => KernelInv(n, m, g[m])}
<1>2. 0 \in S
  <2> DEFINE t == g[0]
  <2>1. t = [pos |-> 0, ctr |-> 0, r |-> r, vectors |-> TRUE]
    <3>1. 0 \in 0 .. Buffer
      OBVIOUS
    <3>2. g[0] = KernelRound(n, r, g, 0)
      BY <1>1, <3>1
    <3>3. KernelRound(n, r, g, 0) = KernelStart(r)
      BY DEF KernelRound
    <3> QED BY <3>2, <3>3 DEF KernelStart
  <2> HIDE DEF t
  <2>2. /\ t = [pos |-> t.pos, ctr |-> t.ctr, r |-> t.r, vectors |-> t.vectors]
        /\ t.pos = 0 /\ t.ctr = 0 /\ t.r = r /\ t.vectors = TRUE
    BY <2>1
  <2>3. Count(n, 0) = 0
    BY CountZero
  <2>4. TwoByTwo(0)
    <3>1. 0 = 0 * (2 * Vector) + 0
      OBVIOUS
    <3> QED BY <3>1 DEF TwoByTwo
  <2>5. /\ t.pos \in 0 .. Buffer /\ t.ctr = Count(n, t.pos) /\ t.ctr =< Coefficients
        /\ FullLength(t.r) /\ (\A k \in 1 .. t.ctr : t.r[k] = Exact(n, k))
        /\ t.vectors \in BOOLEAN /\ TwoByTwo(t.pos) /\ t.pos >= 0
    <3>1. t.ctr = Count(n, t.pos)
      BY <2>2, <2>3
    <3>2. \A k \in 1 .. t.ctr : t.r[k] = Exact(n, k)
      BY <2>2
    <3>3. TwoByTwo(t.pos) /\ FullLength(t.r)
      BY <2>2, <2>4
    <3>4. t.pos \in 0 .. Buffer /\ t.ctr =< Coefficients /\ t.vectors \in BOOLEAN /\ t.pos >= 0
      <4>1. t.pos = 0 /\ t.ctr = 0
        BY <2>2
      <4>2. t.vectors \in BOOLEAN
        BY <2>2, Zenon
      <4>3. t.pos \in 0 .. Buffer /\ t.ctr =< Coefficients /\ t.pos >= 0
        BY <4>1
      <4> QED BY <4>2, <4>3
    <3> QED BY <3>1, <3>2, <3>3, <3>4, Zenon
  <2>6. KernelInv(n, 0, t)
    BY <2>2, <2>5, Zenon DEF KernelInv
  <2> QED BY <2>6 DEF t
<1>3. ASSUME NEW m \in Nat, m \in S PROVE m + 1 \in S
  <2> SUFFICES ASSUME m + 1 =< Buffer PROVE KernelInv(n, m + 1, g[m + 1])
    OBVIOUS
  <2> DEFINE t == g[m]
  <2>1. KernelInv(n, m, t)
    BY <1>3
  <2>2. g[m + 1] = KernelStep(n, t)
    BY <1>1 DEF KernelRound
  <2> HIDE DEF t, S
  <2>3. CASE InVectors(t)
    <3>1. KernelInv(n, m + 1, Compress(n, t))
      BY <2>1, <2>3, CompressKeeps
    <3> QED BY <2>2, <2>3, <3>1, Zenon DEF KernelStep
  <2>4. CASE ~InVectors(t) /\ t.ctr < Coefficients /\ t.pos < Buffer
    <3>1. KernelInv(n, m + 1, TakeNext(n, t))
      BY <2>1, <2>4, TakeNextKeeps
    <3> QED BY <2>2, <2>4, <3>1, Zenon DEF KernelStep
  <2>5. CASE ~InVectors(t) /\ ~ (t.ctr < Coefficients /\ t.pos < Buffer)
    <3>1. g[m + 1] = t
      BY <2>2, <2>5, Zenon DEF KernelStep
    <3>2. t.pos \in 0 .. Buffer /\ t.ctr = Count(n, t.pos) /\ t.ctr =< Coefficients
      BY <2>1 DEF KernelInv
    <3>3. t.ctr \in Nat
      BY <3>2, CountType
    <3>4. t.pos >= m + 1 \/ t.ctr = Coefficients
      BY <2>5, <3>2, <3>3
    <3>5. KernelInv(n, m + 1, t)
      BY <2>1, <3>4, Zenon DEF KernelInv
    <3> QED BY <3>1, <3>5
  <2> QED BY <2>3, <2>4, <2>5
<1> DEFINE t == g[Buffer]
<1>4. KernelInv(n, Buffer, t)
  <2> HIDE DEF S
  <2>1. Buffer \in S
    BY <1>2, <1>3, NumbersByInduction
  <2> QED BY <2>1 DEF S
<1> HIDE DEF t, S
<1>5. /\ t.pos \in 0 .. Buffer /\ t.ctr = Count(n, t.pos) /\ t.ctr =< Coefficients
      /\ FullLength(t.r) /\ (\A k \in 1 .. t.ctr : t.r[k] = Exact(n, k))
      /\ t.pos >= Buffer \/ t.ctr = Coefficients
  BY <1>4 DEF KernelInv
<1>6. t.ctr \in Nat /\ Count(n, Buffer) \in Nat /\ t.ctr =< Count(n, Buffer)
  <2>1. t.pos \in Nat /\ t.pos =< Buffer
    BY <1>5
  <2>2. Count(n, t.pos) =< Count(n, Buffer)
    BY <2>1, CountGrows
  <2> QED BY <1>5, <2>1, <2>2, CountType
<1>7. t.ctr = Lower(Coefficients, Count(n, Buffer))
  <2>1. t.pos = Buffer \/ t.ctr = Coefficients
    BY <1>5
  <2> QED BY <1>5, <1>6, <2>1 DEF Lower
<1> QED BY <1>1, <1>5, <1>7 DEF t

LEMMA NativeHolds ==
  ASSUME ConfigInv, Scheduled, batch \in 1 .. Len(calls), PolyInv, FirstBlocksNative
  PROVE  LanesHold' /\ PolyInv' /\ Elsewhere /\ blocks' = NBLOCKS
<1> USE SizesAre
<1> DEFINE call == calls[batch]
           done == [l \in DOMAIN call |-> RejKernel(call[l].nonce, poly[call[l].to])]
<1>1. /\ job # "y" /\ blocks' = NBLOCKS /\ UNCHANGED config /\ batch' = batch
      /\ ctr' = [l \in FourLanes |-> IF l \in DOMAIN call THEN done[l].ctr ELSE 0]
      /\ poly' = [p \in Places |->
                    IF \E l \in DOMAIN call : call[l].to = p
                      THEN done[CHOOSE l \in DOMAIN call : call[l].to = p].r
                      ELSE poly[p]]
  BY DEF FirstBlocksNative
<1>2. calls' = calls /\ Places' = Places /\ job' = job
      /\ (\A n, k : Count(n, k)' = Count(n, k)) /\ \A n, k : Exact(n, k)' = Exact(n, k)
  BY <1>1, ConfigKept DEF config
<1>3. ASSUME NEW l \in DOMAIN call
      PROVE  LET n == call[l].nonce
             IN  /\ l \in FourLanes /\ call[l].to \in Places
                 /\ \A y \in DOMAIN call : call[y].to = call[l].to => y = l
                 /\ done[l].ctr = Lower(Coefficients, Count(n, Buffer))
                 /\ FullLength(done[l].r)
                 /\ \A k \in 1 .. done[l].ctr : done[l].r[k] = Exact(n, k)
  <2> DEFINE n == call[l].nonce
             r == poly[call[l].to]
  <2>1. /\ Hashable(n) /\ call[l].to \in Places /\ l \in FourLanes
        /\ \A y \in DOMAIN call : call[y].to = call[l].to => y = l
    BY DEF Scheduled
  <2>2. FullLength(r)
    BY <2>1 DEF PolyInv
  <2>3. done[l] = RejKernel(n, r)
    OBVIOUS
  <2> HIDE DEF done, n, r
  <2>4. /\ done[l].ctr = Lower(Coefficients, Count(n, Buffer)) /\ FullLength(done[l].r)
        /\ \A k \in 1 .. done[l].ctr : done[l].r[k] = Exact(n, k)
    BY <2>1, <2>2, <2>3, KernelIs
  <2> QED BY <2>1, <2>4 DEF n
<1> HIDE DEF done
<1>4. ASSUME NEW l \in DOMAIN call
      PROVE  ctr'[l] = done[l].ctr /\ poly'[call[l].to] = done[l].r
  <2>1. l \in FourLanes /\ call[l].to \in Places
        /\ \A y \in DOMAIN call : call[y].to = call[l].to => y = l
    BY <1>3
  <2> DEFINE p == call[l].to
  <2>2. (CHOOSE y \in DOMAIN call : call[y].to = p) = l
    BY <2>1
  <2>3. call[l].to = p
    OBVIOUS
  <2> HIDE DEF p
  <2>4. poly'[p] = done[l].r
    BY <1>1, <2>1, <2>2, <2>3
  <2>5. ctr'[l] = done[l].ctr
    BY <1>1, <2>1
  <2> QED BY <2>4, <2>5 DEF p
<1>5. Elsewhere
  BY <1>1 DEF Elsewhere
<1>6. PolyInv'
  <2> SUFFICES ASSUME NEW p \in Places PROVE FullLength(poly'[p])
    BY <1>2 DEF PolyInv, FullLength
  <2>1. CASE \E l \in DOMAIN call : call[l].to = p
    BY <1>3, <1>4, <2>1
  <2>2. CASE ~ \E l \in DOMAIN call : call[l].to = p
    BY <1>1, <2>2 DEF PolyInv
  <2> QED BY <2>1, <2>2
<1>7. ASSUME NEW l \in DOMAIN call PROVE Holds(l)'
  <2>1. blocks' * PerBlock = Buffer
    BY <1>1 DEF Buffer
  <2>2. ctr'[l] = Lower(Coefficients, Count(call[l].nonce, blocks' * PerBlock))
    BY <1>3, <1>4, <2>1
  <2>3. \A k \in 1 .. ctr'[l] : poly'[call[l].to][k] = Exact(call[l].nonce, k)
    BY <1>3, <1>4
  <2> QED BY <1>1, <1>2, <2>2, <2>3 DEF Holds
<1>8. LanesHold'
  BY <1>1, <1>2, <1>7 DEF LanesHold
<1> QED BY <1>1, <1>5, <1>6, <1>8

\* No candidate of the mask is rejected.
LEMMA MaskExact ==
  ASSUME ConfigInv, job = "y", NEW n, NEW k \in Nat \ {0}
  PROVE  Exact(n, k) = <<n, k>>
<1>1. \A x : ~Rejected(n, x)
  BY DEF Rejected, ConfigInv
<1> DEFINE S == {x \in Nat : Count(n, x) = x}
<1>2. 0 \in S
  BY CountZero
<1>3. ASSUME NEW x \in Nat, x \in S PROVE x + 1 \in S
  BY <1>1, <1>3, CountNext
<1> HIDE DEF S
<1>4. k \in S
  BY <1>2, <1>3, NumbersByInduction
<1>5. IsNth(n, k, k)
  BY <1>1, <1>4 DEF S, IsNth
<1>6. Nth(n, k) = k
  BY <1>5, NthIs
<1> QED BY <1>6 DEF Exact, Coefficient

LEMMA MaskHolds ==
  ASSUME ConfigInv, Scheduled, batch \in 1 .. Len(calls), PolyInv, UnpackMask
  PROVE  LanesHold' /\ PolyInv' /\ Elsewhere /\ blocks' = NBLOCKS
<1> USE SizesAre
<1> DEFINE call == calls[batch]
           Mask(l) == [k \in 1 .. Coefficients |-> <<call[l].nonce, k>>]
<1>1. /\ job = "y" /\ blocks' = NBLOCKS /\ UNCHANGED config /\ batch' = batch
      /\ ctr' = [l \in FourLanes |-> IF l \in DOMAIN call THEN Coefficients ELSE 0]
      /\ poly' = [p \in Places |->
                    IF \E l \in DOMAIN call : call[l].to = p
                      THEN LET l == CHOOSE m \in DOMAIN call : call[m].to = p IN Mask(l)
                      ELSE poly[p]]
  BY DEF UnpackMask
<1>2. calls' = calls /\ Places' = Places /\ job' = job
      /\ (\A n, k : Count(n, k)' = Count(n, k)) /\ \A n, k : Exact(n, k)' = Exact(n, k)
  BY <1>1, ConfigKept DEF config
<1>3. \A l : FullLength(Mask(l)) /\ \A k \in 1 .. Coefficients : Mask(l)[k] = Exact(call[l].nonce, k)
  <2>1. ASSUME NEW l, NEW k \in 1 .. Coefficients PROVE Exact(call[l].nonce, k) = <<call[l].nonce, k>>
    BY <1>1, MaskExact
  <2> QED BY <2>1 DEF FullLength
<1> HIDE DEF Mask
<1>4. ASSUME NEW l \in DOMAIN call
      PROVE  ctr'[l] = Coefficients /\ poly'[call[l].to] = Mask(l)
  <2>1. l \in FourLanes /\ call[l].to \in Places
        /\ \A y \in DOMAIN call : call[y].to = call[l].to => y = l
    BY DEF Scheduled
  <2> DEFINE p == call[l].to
  <2>2. (CHOOSE y \in DOMAIN call : call[y].to = p) = l
    BY <2>1
  <2>3. call[l].to = p
    OBVIOUS
  <2> HIDE DEF p
  <2>4. poly'[p] = Mask(l)
    BY <1>1, <2>1, <2>2, <2>3
  <2>5. ctr'[l] = Coefficients
    BY <1>1, <2>1
  <2> QED BY <2>4, <2>5 DEF p
<1>5. Elsewhere
  BY <1>1 DEF Elsewhere
<1>6. PolyInv'
  <2> SUFFICES ASSUME NEW p \in Places PROVE FullLength(poly'[p])
    BY <1>2 DEF PolyInv, FullLength
  <2>1. CASE \E l \in DOMAIN call : call[l].to = p
    BY <1>3, <1>4, <2>1
  <2>2. CASE ~ \E l \in DOMAIN call : call[l].to = p
    BY <1>1, <2>2 DEF PolyInv
  <2> QED BY <2>1, <2>2
<1>7. ASSUME NEW l \in DOMAIN call PROVE Holds(l)'
  <2>1. blocks' # 0
    BY <1>1
  <2>2. \A k \in 1 .. ctr'[l] : poly'[call[l].to][k] = Exact(call[l].nonce, k)
    BY <1>3, <1>4
  <2> QED BY <1>1, <1>2, <1>4, <2>1, <2>2, ZenonT(60) DEF Holds
<1>8. LanesHold'
  BY <1>1, <1>2, <1>7 DEF LanesHold
<1> QED BY <1>1, <1>5, <1>6, <1>8

-----------------------------------------------------------------------------
(* The schedules: which call fills which polynomial last.                  *)

LEMMA ConcatIs ==
  ASSUME NEW a \in Nat, NEW b \in Nat, NEW u, NEW v,
         u = [x \in 1 .. a |-> u[x]], v = [x \in 1 .. b |-> v[x]]
  PROVE  /\ Len(u) = a /\ Len(u \o v) = a + b /\ DOMAIN (u \o v) = 1 .. a + b
         /\ \A x \in 1 .. a : (u \o v)[x] = u[x]
         /\ \A x \in a + 1 .. a + b : (u \o v)[x] = v[x - a]
<1> DEFINE T == {u[x] : x \in 1 .. a} \cup {v[x] : x \in 1 .. b}
<1>1. u \in [1 .. a -> T] /\ v \in [1 .. b -> T]
  <2>1. (\A x \in 1 .. a : u[x] \in T) /\ \A x \in 1 .. b : v[x] \in T
    OBVIOUS
  <2> HIDE DEF T
  <2> QED BY <2>1
<1> HIDE DEF T
<1>2. u \in Seq(T) /\ v \in Seq(T) /\ Len(u) = a /\ Len(v) = b
  BY <1>1
<1>3. Len(u \o v) = a + b /\ u \o v \in Seq(T)
  BY <1>2
<1>4. DOMAIN (u \o v) = 1 .. a + b
  BY <1>3
<1>5. \A x \in 1 .. a + b : (u \o v)[x] = IF x =< a THEN u[x] ELSE v[x - a]
  BY <1>2
<1> QED BY <1>2, <1>3, <1>4, <1>5

LEMMA LengthIs ==
  ASSUME NEW a \in Nat, NEW u, u = [x \in 1 .. a |-> u[x]]
  PROVE  Len(u) = a
<1> DEFINE v == [x \in 1 .. 0 |-> u[x]]
<1>1. v = [x \in 1 .. 0 |-> v[x]]
  OBVIOUS
<1> QED BY <1>1, ConcatIs

\* A list of lanes, one by one.
LEMMA OneByOneIs ==
  ASSUME NEW z \in Nat, NEW u, u = [x \in 1 .. z |-> u[x]]
  PROVE  /\ DOMAIN OneByOne(u) = 1 .. z /\ Len(OneByOne(u)) = z
         /\ OneByOne(u) = [x \in 1 .. z |-> OneByOne(u)[x]]
         /\ \A x \in 1 .. z : OneByOne(u)[x] = <<u[x]>>
<1>1. Len(u) = z
  BY LengthIs
<1>2. OneByOne(u) = [x \in 1 .. z |-> <<u[x]>>]
  BY <1>1 DEF OneByOne
<1> DEFINE v == OneByOne(u)
<1>3. v = [x \in 1 .. z |-> v[x]] /\ DOMAIN v = 1 .. z /\ \A x \in 1 .. z : v[x] = <<u[x]>>
  BY <1>2
<1> HIDE DEF v
<1>4. Len(v) = z
  BY <1>3, LengthIs
<1> QED BY <1>3, <1>4 DEF v

\* A polynomial is filled by a call that has its nonce, and by none after it.
Assigned(p) ==
  \E b \in 1 .. Len(calls) :
    /\ \E l \in DOMAIN calls[b] : calls[b][l].to = p /\ calls[b][l].nonce = NonceOf(p)
    /\ \A d \in b + 1 .. Len(calls) : \A l \in DOMAIN calls[d] : calls[d][l].to # p

LEMMA ShapeIs ==
  ASSUME set \in {44, 65, 87}
  PROVE  /\ set = 44 => K = 4 /\ L = 4
         /\ set = 65 => K = 6 /\ L = 5
         /\ set = 87 => K = 8 /\ L = 7
         /\ K \in Nat \ {0} /\ L \in Nat \ {0}
BY DEF K, L

\* One call for each lane of a list, and the last one for a polynomial.
LEMMA SingleCalls ==
  ASSUME NEW z \in Nat, NEW u, u = [x \in 1 .. z |-> u[x]], calls = OneByOne(u),
         \A x \in 1 .. z : u[x].to \in Places /\ Hashable(u[x].nonce)
  PROVE  Scheduled /\ Len(calls) = z /\ \A x \in 1 .. z : calls[x] = <<u[x]>>
<1>1. /\ DOMAIN calls = 1 .. z /\ Len(calls) = z
      /\ \A x \in 1 .. z : calls[x] = <<u[x]>>
  <2>1. /\ DOMAIN OneByOne(u) = 1 .. z /\ Len(OneByOne(u)) = z
        /\ \A x \in 1 .. z : OneByOne(u)[x] = <<u[x]>>
    BY OneByOneIs
  <2> QED BY <2>1
<1>2. \A w : DOMAIN <<w>> = {1} /\ <<w>>[1] = w
  OBVIOUS
<1>3. \A x \in 1 .. z : DOMAIN calls[x] = {1} /\ calls[x][1] = u[x]
  BY <1>1, <1>2
<1>4. ASSUME NEW b \in 1 .. z, NEW l \in DOMAIN calls[b]
      PROVE  l = 1 /\ calls[b][l].to \in Places /\ Hashable(calls[b][l].nonce)
  <2>1. l = 1 /\ calls[b][1] = u[b]
    BY <1>3
  <2> QED BY <2>1
<1>5. Scheduled
  <2>1. \A b \in 1 .. z : DOMAIN calls[b] \subseteq FourLanes
    BY <1>3 DEF FourLanes
  <2>2. \A b \in 1 .. z : \A l, m \in DOMAIN calls[b] :
          calls[b][l].to = calls[b][m].to => l = m
    BY <1>4
  <2> QED BY <1>1, <1>4, <2>1, <2>2 DEF Scheduled
<1> QED BY <1>1, <1>5

Singles(u, z) == z \in Nat /\ Len(calls) = z /\ \A y \in 1 .. z : calls[y] = <<u[y]>>
LastOf(u, z, x, p) ==
  /\ x \in 1 .. z /\ u[x].to = p /\ u[x].nonce = NonceOf(p)
  /\ \A y \in x + 1 .. z : u[y].to # p

LEMMA LastSingle ==
  ASSUME NEW u, NEW z, NEW x, NEW p, Singles(u, z), LastOf(u, z, x, p)
  PROVE  Assigned(p)
<1> USE DEF Singles, LastOf
<1>1. \A w : DOMAIN <<w>> = {1} /\ <<w>>[1] = w
  OBVIOUS
<1>2. \A y \in 1 .. z : DOMAIN calls[y] = {1} /\ calls[y][1] = u[y]
  BY <1>1
<1>3. ASSUME NEW d \in x + 1 .. Len(calls), NEW l \in DOMAIN calls[d]
      PROVE  calls[d][l].to # p
  <2>1. d \in 1 .. z /\ d \in x + 1 .. z
    OBVIOUS
  <2>2. DOMAIN calls[d] = {1} /\ calls[d][1] = u[d]
    BY <1>2, <2>1
  <2>3. l = 1
    BY <2>2
  <2> QED BY <2>1, <2>2, <2>3
<1>4. \E l \in DOMAIN calls[x] : calls[x][l].to = p /\ calls[x][l].nonce = NonceOf(p)
  BY <1>2
<1> QED BY <1>3, <1>4 DEF Assigned

LEMMA SerialShort ==
  ASSUME ConfigInv, job = "secrets", serial = TRUE
  PROVE  Scheduled /\ \A p \in Places : Assigned(p)
<1> DEFINE s1 == Run("s1", 0, L - 1, 0)
           s2 == Run("s2", 0, K - 1, L)
           u == s1 \o s2
           z == L + K
<1>1. K \in Nat \ {0} /\ L \in Nat \ {0} /\ z \in Nat
  BY ShapeIs DEF ConfigInv
<1>2. /\ s1 = [x \in 1 .. L |-> s1[x]]
      /\ \A x \in 1 .. L : s1[x] = Lane(<<"s1", x - 1>>, x - 1)
  <2>1. s1 = [x \in 1 .. L |-> Lane(<<"s1", x - 1>>, x - 1)]
    <3>1. (L - 1) - 0 + 1 = L /\ \A x \in Int : 0 + x - 1 = x - 1
      BY <1>1
    <3> QED BY <3>1 DEF Run
  <2> HIDE DEF s1
  <2> QED BY <2>1
<1>3. /\ s2 = [x \in 1 .. K |-> s2[x]]
      /\ \A x \in 1 .. K : s2[x] = Lane(<<"s2", x - 1>>, L + x - 1)
  <2>1. s2 = [x \in 1 .. K |-> Lane(<<"s2", x - 1>>, L + x - 1)]
    <3>1. (K - 1) - 0 + 1 = K /\ \A x \in Int : 0 + x - 1 = x - 1
      BY <1>1
    <3> QED BY <3>1 DEF Run
  <2> HIDE DEF s2
  <2> QED BY <2>1
<1> HIDE DEF s1, s2
<1>4. /\ DOMAIN u = 1 .. z /\ (\A x \in 1 .. L : u[x] = s1[x])
      /\ \A x \in L + 1 .. z : u[x] = s2[x - L]
  BY <1>1, <1>2, <1>3, ConcatIs
<1>5. u = [x \in 1 .. z |-> u[x]]
  <2> DEFINE T == {s1[x] : x \in 1 .. L} \cup {s2[x] : x \in 1 .. K}
  <2>1. (\A x \in 1 .. L : s1[x] \in T) /\ \A x \in 1 .. K : s2[x] \in T
    OBVIOUS
  <2> HIDE DEF T
  <2>2. s1 \in [1 .. L -> T] /\ s2 \in [1 .. K -> T]
    BY <1>2, <1>3, <2>1
  <2>3. s1 \in Seq(T) /\ s2 \in Seq(T) /\ Len(s1) = L /\ Len(s2) = K
    BY <1>1, <2>2
  <2>4. u \in Seq(T)
    BY <2>3
  <2> HIDE DEF u, z
  <2> QED BY <1>4, <2>4
<1> HIDE DEF u
<1>6. calls = OneByOne(u)
  BY DEF ConfigInv, Calls, ShortCalls, u, s1, s2
<1>7. ASSUME NEW x \in 1 .. z
      PROVE  u[x] = IF x =< L THEN Lane(<<"s1", x - 1>>, x - 1)
                              ELSE Lane(<<"s2", x - L - 1>>, x - 1)
  <2>1. CASE x =< L
    <3>1. x \in 1 .. L
      BY <1>1, <2>1
    <3> QED BY <1>2, <1>4, <2>1, <3>1
  <2>2. CASE ~ (x =< L)
    <3>1. x - L \in 1 .. K /\ x \in L + 1 .. z
          /\ L + (x - L) - 1 = x - 1
      BY <1>1, <2>2
    <3> QED BY <1>3, <1>4, <2>2, <3>1
  <2> QED BY <2>1, <2>2
<1>8. Places = ({"s1"} \X (0 .. L - 1)) \cup ({"s2"} \X (0 .. K - 1))
  BY DEF Places
<1>a. \A w, n : Lane(w, n).to = w /\ Lane(w, n).nonce = n
  BY DEF Lane
<1>9. ASSUME NEW x \in 1 .. z
      PROVE  /\ u[x].to \in Places /\ Hashable(u[x].nonce) /\ u[x].nonce = x - 1
             /\ u[x].to = IF x =< L THEN <<"s1", x - 1>> ELSE <<"s2", x - L - 1>>
  <2>1. /\ u[x].nonce = x - 1
        /\ u[x].to = IF x =< L THEN <<"s1", x - 1>> ELSE <<"s2", x - L - 1>>
    BY <1>7, <1>a
  <2>2. x - 1 \in Nat /\ (x =< L => x - 1 \in 0 .. L - 1)
        /\ (~ (x =< L) => x - L - 1 \in 0 .. K - 1)
    BY <1>1
  <2> QED BY <1>8, <2>1, <2>2 DEF Hashable
<1>10. Scheduled /\ Len(calls) = z /\ \A x \in 1 .. z : calls[x] = <<u[x]>>
  <2>1. \A x \in 1 .. z : u[x].to \in Places /\ Hashable(u[x].nonce)
    BY <1>9
  <2> HIDE DEF z
  <2> QED BY <1>1, <1>5, <1>6, <2>1, SingleCalls
<1> HIDE DEF z
<1>b. Singles(u, z)
  BY <1>1, <1>10 DEF Singles
<1>11. ASSUME NEW p \in Places PROVE Assigned(p)
  <2>0. \A x, e1, e2 : <<x, e1>> = <<x, e2>> => e1 = e2
    OBVIOUS
  <2>a. \A e1, e2 : <<"s1", e1>> # <<"s2", e2>>
    OBVIOUS
  <2>1. ASSUME NEW e \in 0 .. L - 1, p = <<"s1", e>> PROVE Assigned(p)
    <3>1. e + 1 \in 1 .. z /\ e + 1 =< L /\ e + 1 - 1 = e
      BY <1>1 DEF z
    <3> DEFINE x == e + 1
    <3> HIDE DEF x
    <3>2. u[x].to = p /\ u[x].nonce = e
      <4>1. x \in 1 .. z /\ x =< L /\ x - 1 = e
        BY <3>1 DEF x
      <4> QED BY <1>9, <2>1, <4>1
    <3>3. NonceOf(p) = e
      BY <2>1 DEF NonceOf
    <3>4. ASSUME NEW y \in x + 1 .. z PROVE u[y].to # p
      <4>1. y \in 1 .. z /\ y - 1 # e
        BY <1>1, <3>1 DEF x, z
      <4> QED BY <1>9, <2>0, <2>a, <2>1, <4>1
    <3>5. x \in 1 .. z
      BY <3>1 DEF x
    <3>6. LastOf(u, z, x, p)
      BY <3>2, <3>3, <3>4, <3>5 DEF LastOf
    <3> QED BY <1>b, <3>6, LastSingle
  <2>2. ASSUME NEW e \in 0 .. K - 1, p = <<"s2", e>> PROVE Assigned(p)
    <3> DEFINE x == L + e + 1
    <3>1. x \in 1 .. z /\ ~ (x =< L) /\ x - L - 1 = e /\ x - 1 = L + e
      BY <1>1 DEF z
    <3>2. u[x].to = p /\ u[x].nonce = L + e
      BY <1>9, <2>2, <3>1
    <3>3. NonceOf(p) = L + e
      BY <2>2 DEF NonceOf
    <3>4. ASSUME NEW y \in x + 1 .. z PROVE u[y].to # p
      <4>1. y \in 1 .. z /\ ~ (y =< L) /\ y - L - 1 # e
        BY <1>1 DEF z
      <4> QED BY <1>9, <2>0, <2>2, <4>1
    <3> HIDE DEF x
    <3>5. u[x].to = p /\ u[x].nonce = NonceOf(p) /\ x \in 1 .. z
      BY <3>1, <3>2, <3>3
    <3>6. LastOf(u, z, x, p)
      BY <3>4, <3>5 DEF LastOf
    <3> QED BY <1>b, <3>6, LastSingle
  <2> QED BY <1>8, <2>1, <2>2
<1> QED BY <1>10, <1>11

LEMMA SerialMask ==
  ASSUME ConfigInv, job = "y", serial = TRUE
  PROVE  Scheduled /\ \A p \in Places : Assigned(p)
<1> DEFINE u == Run("y", 0, L - 1, 0)
           z == L
<1>1. z \in Nat \ {0}
  BY ShapeIs DEF ConfigInv
<1>2. u = [x \in 1 .. z |-> Lane(<<"y", x - 1>>, x - 1)]
  <2>1. (L - 1) - 0 + 1 = z /\ \A x \in Int : 0 + x - 1 = x - 1
    BY <1>1
  <2> QED BY <2>1 DEF Run
<1>3. calls = OneByOne(u)
  BY DEF ConfigInv, Calls, MaskCalls
<1>4. Places = {"y"} \X (0 .. z - 1)
  BY DEF Places
<1>5. \A w, n : Lane(w, n).to = w /\ Lane(w, n).nonce = n
  BY DEF Lane
<1> HIDE DEF u, z
<1>6. \A x \in 1 .. z : u[x].to = <<"y", x - 1>> /\ u[x].nonce = x - 1
  BY <1>2, <1>5
<1>7. u = [x \in 1 .. z |-> u[x]]
  BY <1>2
<1>8. Scheduled /\ Len(calls) = z /\ \A x \in 1 .. z : calls[x] = <<u[x]>>
  <2>1. ASSUME NEW x \in 1 .. z PROVE u[x].to \in Places /\ Hashable(u[x].nonce)
    <3>1. x - 1 \in 0 .. z - 1
      BY <1>1
    <3>2. u[x].to \in Places
      <4>1. <<"y", x - 1>> \in {"y"} \X (0 .. z - 1)
        BY <3>1
      <4> QED BY <1>4, <1>6, <4>1
    <3> QED BY <3>2 DEF Hashable
  <2> QED BY <1>1, <1>3, <1>7, <2>1, SingleCalls
<1>9. ASSUME NEW p \in Places PROVE Assigned(p)
  <2>1. PICK e \in 0 .. z - 1 : p = <<"y", e>>
    BY <1>4
  <2> DEFINE x == e + 1
  <2>2. x \in 1 .. z /\ x - 1 = e
    BY <1>1
  <2> HIDE DEF x
  <2>3. u[x].to = p /\ u[x].nonce = NonceOf(p)
    BY <1>6, <2>1, <2>2 DEF NonceOf
  <2>4. ASSUME NEW y \in x + 1 .. z PROVE u[y].to # p
    <3>1. y \in 1 .. z /\ y - 1 # e
      BY <1>1, <2>2
    <3>2. \A e1, e2 : <<"y", e1>> = <<"y", e2>> => e1 = e2
      OBVIOUS
    <3> QED BY <1>6, <2>1, <3>1, <3>2
  <2>5. Singles(u, z) /\ LastOf(u, z, x, p)
    BY <1>1, <1>8, <2>2, <2>3, <2>4 DEF Singles, LastOf
  <2> QED BY <2>5, LastSingle
<1> QED BY <1>8, <1>9

\* What a lane is, and lanes of one run after another.
LEMMA LaneIs == \A w, n : Lane(w, n).to = w /\ Lane(w, n).nonce = n
BY DEF Lane

LEMMA ConcatFull ==
  ASSUME NEW a \in Nat, NEW b \in Nat, NEW u, NEW v,
         u = [x \in 1 .. a |-> u[x]], v = [x \in 1 .. b |-> v[x]]
  PROVE  u \o v = [x \in 1 .. a + b |-> (u \o v)[x]]
<1> DEFINE T == {u[x] : x \in 1 .. a} \cup {v[x] : x \in 1 .. b}
<1>1. u \in [1 .. a -> T] /\ v \in [1 .. b -> T]
  <2>1. (\A x \in 1 .. a : u[x] \in T) /\ \A x \in 1 .. b : v[x] \in T
    OBVIOUS
  <2> HIDE DEF T
  <2> QED BY <2>1
<1> HIDE DEF T
<1>2. u \in Seq(T) /\ v \in Seq(T)
  BY <1>1
<1> DEFINE w == u \o v
<1>3. w \in Seq(T) /\ DOMAIN w = 1 .. a + b
  BY <1>2, ConcatIs
<1> HIDE DEF w
<1>4. w = [x \in 1 .. a + b |-> w[x]]
  BY <1>3
<1> QED BY <1>4 DEF w

\* A call whose lanes fill different polynomials from sensible nonces.
Sound(call) ==
  /\ DOMAIN call \subseteq FourLanes
  /\ \A l \in DOMAIN call : call[l].to \in Places /\ Hashable(call[l].nonce)
  /\ \A l, m \in DOMAIN call : call[l].to = call[m].to => l = m

LEMMA SoundCalls ==
  ASSUME Len(calls) \in Nat, DOMAIN calls = 1 .. Len(calls),
         \A b \in 1 .. Len(calls) : Sound(calls[b])
  PROVE  Scheduled
BY DEF Scheduled, Sound

\* The places of runs of lanes.
LEMMA PlacesAre ==
  ASSUME ConfigInv
  PROVE  /\ job = "y" => Places = {"y"} \X (0 .. L - 1)
         /\ job = "secrets" => Places = ({"s1"} \X (0 .. L - 1)) \cup ({"s2"} \X (0 .. K - 1))
         /\ \A e : job = "secrets" => NonceOf(<<"s1", e>>) = e /\ NonceOf(<<"s2", e>>) = L + e
         /\ \A e : job = "y" => NonceOf(<<"y", e>>) = e
<1>1. \A e : \A v : <<v, e>>[1] = v /\ <<v, e>>[2] = e
  OBVIOUS
<1> QED BY <1>1 DEF Places, NonceOf

LEMMA MaskFour ==
  ASSUME ConfigInv, job = "y", serial = FALSE, set = 44
  PROVE  Scheduled /\ \A p \in Places : Assigned(p)
<1> DEFINE u == Run("y", 0, 3, 0)
<1>1. K = 4 /\ L = 4
  BY ShapeIs DEF ConfigInv
<1>2. calls = <<u>>
  BY <1>1 DEF ConfigInv, Calls, MaskCalls
<1>3. u = [x \in 1 .. 4 |-> Lane(<<"y", x - 1>>, x - 1)]
  BY DEF Run
<1> HIDE DEF u
<1>a. DOMAIN u = 1 .. 4 /\ \A x \in 1 .. 4 : u[x].to = <<"y", x - 1>> /\ u[x].nonce = x - 1
  BY <1>3, LaneIs
<1>4. DOMAIN calls = 1 .. 1 /\ Len(calls) = 1 /\ calls[1] = u
  BY <1>2
<1>5. Places = {"y"} \X (0 .. 3)
  BY <1>1, PlacesAre
<1>6. Sound(u)
  BY <1>a, <1>5 DEF Sound, FourLanes, Hashable
<1>7. Scheduled
  BY <1>4, <1>6, SoundCalls
<1>8. ASSUME NEW p \in Places PROVE Assigned(p)
  <2>1. PICK e \in 0 .. 3 : p = <<"y", e>>
    BY <1>5
  <2>2. e + 1 \in DOMAIN u /\ u[e + 1].to = p /\ u[e + 1].nonce = NonceOf(p)
    BY <1>a, <2>1, PlacesAre
  <2> QED BY <1>4, <2>2 DEF Assigned
<1> QED BY <1>7, <1>8

LEMMA MaskFive ==
  ASSUME ConfigInv, job = "y", serial = FALSE, set = 65
  PROVE  Scheduled /\ \A p \in Places : Assigned(p)
<1> DEFINE u == Run("y", 0, 3, 0)
           v == Run("y", 4, 4, 4)
<1>1. K = 6 /\ L = 5
  BY ShapeIs DEF ConfigInv
<1>2. calls = <<u, v>>
  BY <1>1 DEF ConfigInv, Calls, MaskCalls
<1>3. /\ u = [x \in 1 .. 4 |-> Lane(<<"y", x - 1>>, x - 1)]
      /\ v = [x \in 1 .. 1 |-> Lane(<<"y", x + 3>>, x + 3)]
  BY DEF Run
<1> HIDE DEF u, v
<1>4. /\ DOMAIN u = 1 .. 4 /\ \A x \in 1 .. 4 : u[x].to = <<"y", x - 1>> /\ u[x].nonce = x - 1
      /\ DOMAIN v = 1 .. 1 /\ \A x \in 1 .. 1 : v[x].to = <<"y", 4>> /\ v[x].nonce = 4
  BY <1>3, LaneIs
<1>5. DOMAIN calls = 1 .. 2 /\ Len(calls) = 2 /\ calls[1] = u /\ calls[2] = v
  BY <1>2
<1>6. Places = {"y"} \X (0 .. 4)
  BY <1>1, PlacesAre
<1>7. Sound(u) /\ Sound(v)
  <2>1. \A e \in 0 .. 4 : <<"y", e>> \in Places
    BY <1>6
  <2> QED BY <1>4, <2>1 DEF Sound, FourLanes, Hashable
<1>8. Scheduled
  BY <1>5, <1>7, SoundCalls
<1>9. ASSUME NEW p \in Places PROVE Assigned(p)
  <2>1. PICK e \in 0 .. 4 : p = <<"y", e>>
    BY <1>6
  <2>2. NonceOf(p) = e
    BY <2>1, PlacesAre
  <2>3. CASE e \in 0 .. 3
    <3>1. e + 1 \in DOMAIN u /\ u[e + 1].to = p /\ u[e + 1].nonce = NonceOf(p)
      BY <1>4, <2>1, <2>2, <2>3
    <3>2. \A l \in DOMAIN v : v[l].to # p
      BY <1>4, <2>1, <2>3
    <3> QED BY <1>5, <3>1, <3>2 DEF Assigned
  <2>4. CASE e = 4
    <3>1. 1 \in DOMAIN v /\ v[1].to = p /\ v[1].nonce = NonceOf(p)
      BY <1>4, <2>1, <2>2, <2>4
    <3> QED BY <1>5, <3>1 DEF Assigned
  <2> QED BY <2>3, <2>4
<1> QED BY <1>8, <1>9

\* Three lanes and one more.
LEMMA ThreeAndOne ==
  ASSUME NEW u, NEW v, u = [x \in 1 .. 3 |-> u[x]], v = [x \in 1 .. 1 |-> v[x]]
  PROVE  /\ DOMAIN (u \o v) = 1 .. 4 /\ (u \o v)[4] = v[1]
         /\ \A x \in 1 .. 3 : (u \o v)[x] = u[x]
<1> DEFINE a == 3
           b == 1
<1>1. a \in Nat /\ b \in Nat /\ a + b = 4 /\ 4 - a = 1 /\ a + 1 = 4 /\ a = 3
      /\ u = [x \in 1 .. a |-> u[x]] /\ v = [x \in 1 .. b |-> v[x]]
  OBVIOUS
<1> HIDE DEF a, b
<1>2. /\ DOMAIN (u \o v) = 1 .. a + b /\ (\A x \in 1 .. a : (u \o v)[x] = u[x])
      /\ \A x \in a + 1 .. a + b : (u \o v)[x] = v[x - a]
  BY <1>1, ConcatIs
<1>3. (u \o v)[4] = v[4 - a]
  BY <1>1, <1>2
<1> QED BY <1>1, <1>2, <1>3

LEMMA MaskSeven ==
  ASSUME ConfigInv, job = "y", serial = FALSE, set = 87
  PROVE  Scheduled /\ \A p \in Places : Assigned(p)
<1> DEFINE u1 == Run("y", 0, 2, 0)
           u2 == Run("y", 3, 3, Irrelevant)
           u == u1 \o u2
           v == Run("y", 3, 6, 3)
<1>1. K = 8 /\ L = 7
  BY ShapeIs DEF ConfigInv
<1>2. calls = <<u, v>>
  BY <1>1 DEF ConfigInv, Calls, MaskCalls
<1>3. /\ u1 = [x \in 1 .. 3 |-> Lane(<<"y", x - 1>>, x - 1)]
      /\ u2 = [x \in 1 .. 1 |-> Lane(<<"y", x + 2>>, x + 254)]
      /\ v = [x \in 1 .. 4 |-> Lane(<<"y", x + 2>>, x + 2)]
  BY DEF Run, Irrelevant
<1> HIDE DEF u1, u2
<1>4. /\ DOMAIN u = 1 .. 4 /\ u[4] = u2[1]
      /\ \A x \in 1 .. 3 : u[x] = u1[x]
  <2>1. u1 = [x \in 1 .. 3 |-> u1[x]] /\ u2 = [x \in 1 .. 1 |-> u2[x]]
    BY <1>3
  <2> QED BY <2>1, ThreeAndOne
<1> HIDE DEF u, v
<1>5. /\ DOMAIN u = 1 .. 4 /\ \A x \in 1 .. 4 : u[x].to = <<"y", x - 1>>
      /\ \A x \in 1 .. 3 : u[x].nonce = x - 1
      /\ DOMAIN v = 1 .. 4 /\ \A x \in 1 .. 4 : v[x].to = <<"y", x + 2>> /\ v[x].nonce = x + 2
  <2>1. u[4].to = <<"y", 3>>
    BY <1>3, <1>4, LaneIs
  <2>2. \A x \in 1 .. 3 : u[x].to = <<"y", x - 1>> /\ u[x].nonce = x - 1
    BY <1>3, <1>4, LaneIs
  <2>3. DOMAIN v = 1 .. 4 /\ \A x \in 1 .. 4 : v[x].to = <<"y", x + 2>> /\ v[x].nonce = x + 2
    BY <1>3, LaneIs
  <2>4. \A x \in 1 .. 4 : x \in 1 .. 3 \/ x = 4
    OBVIOUS
  <2> QED BY <1>4, <2>1, <2>2, <2>3, <2>4
<1>6. DOMAIN calls = 1 .. 2 /\ Len(calls) = 2 /\ calls[1] = u /\ calls[2] = v
  BY <1>2
<1>7. Places = {"y"} \X (0 .. 6)
  BY <1>1, PlacesAre
<1>8. Sound(u) /\ Sound(v)
  <2>1. \A e \in 0 .. 6 : <<"y", e>> \in Places
    BY <1>7
  <2> QED BY <1>5, <2>1 DEF Sound, FourLanes, Hashable
<1>9. Scheduled
  BY <1>6, <1>8, SoundCalls
<1>10. ASSUME NEW p \in Places PROVE Assigned(p)
  <2>1. PICK e \in 0 .. 6 : p = <<"y", e>>
    BY <1>7
  <2>2. NonceOf(p) = e
    BY <2>1, PlacesAre
  <2>3. CASE e \in 0 .. 2
    <3>1. e + 1 \in DOMAIN u /\ u[e + 1].to = p /\ u[e + 1].nonce = NonceOf(p)
      BY <1>5, <2>1, <2>2, <2>3
    <3>2. \A l \in DOMAIN v : v[l].to # p
      BY <1>5, <2>1, <2>3
    <3> QED BY <1>6, <3>1, <3>2 DEF Assigned
  <2>4. CASE e \in 3 .. 6
    <3>1. e - 2 \in DOMAIN v /\ v[e - 2].to = p /\ v[e - 2].nonce = NonceOf(p)
      BY <1>5, <2>1, <2>2, <2>4
    <3> QED BY <1>6, <3>1 DEF Assigned
  <2> QED BY <2>3, <2>4
<1> QED BY <1>9, <1>10

LEMMA ShortFour ==
  ASSUME ConfigInv, job = "secrets", serial = FALSE, set = 44
  PROVE  Scheduled /\ \A p \in Places : Assigned(p)
<1> DEFINE u == Run("s1", 0, 3, 0)
           v == Run("s2", 0, 3, 4)
<1>1. K = 4 /\ L = 4
  BY ShapeIs DEF ConfigInv
<1>2. calls = <<u, v>>
  BY <1>1, SMTT(30) DEF ConfigInv, Calls, ShortCalls
<1>3. /\ u = [x \in 1 .. 4 |-> Lane(<<"s1", x - 1>>, x - 1)]
      /\ v = [x \in 1 .. 4 |-> Lane(<<"s2", x - 1>>, x + 3)]
  BY DEF Run
<1> HIDE DEF u, v
<1>4. /\ DOMAIN u = 1 .. 4 /\ \A x \in 1 .. 4 : u[x].to = <<"s1", x - 1>> /\ u[x].nonce = x - 1
      /\ DOMAIN v = 1 .. 4 /\ \A x \in 1 .. 4 : v[x].to = <<"s2", x - 1>> /\ v[x].nonce = x + 3
  BY <1>3, LaneIs
<1>5. DOMAIN calls = 1 .. 2 /\ Len(calls) = 2 /\ calls[1] = u /\ calls[2] = v
  BY <1>2
<1>6. Places = ({"s1"} \X (0 .. 3)) \cup ({"s2"} \X (0 .. 3))
  BY <1>1, PlacesAre
<1>7. Sound(u) /\ Sound(v)
  <2>1. \A e \in 0 .. 3 : <<"s1", e>> \in Places /\ <<"s2", e>> \in Places
    BY <1>6
  <2> QED BY <1>4, <2>1 DEF Sound, FourLanes, Hashable
<1>8. Scheduled
  BY <1>5, <1>7, SoundCalls
<1>9. ASSUME NEW p \in Places PROVE Assigned(p)
  <2>1. PICK e \in 0 .. 3 : p = <<"s1", e>> \/ p = <<"s2", e>>
    BY <1>6
  <2>2. CASE p = <<"s1", e>>
    <3>1. e + 1 \in DOMAIN u /\ u[e + 1].to = p /\ u[e + 1].nonce = NonceOf(p)
      BY <1>4, <2>2, PlacesAre
    <3>2. \A l \in DOMAIN v : v[l].to # p
      BY <1>4, <2>2
    <3> QED BY <1>5, <3>1, <3>2 DEF Assigned
  <2>3. CASE p = <<"s2", e>>
    <3>1. NonceOf(p) = 4 + e
      BY <1>1, <2>3, PlacesAre
    <3>2. e + 1 \in DOMAIN v /\ v[e + 1].to = p /\ v[e + 1].nonce = NonceOf(p)
      BY <1>4, <2>3, <3>1
    <3> QED BY <1>5, <3>2 DEF Assigned
  <2> QED BY <2>1, <2>2, <2>3
<1> QED BY <1>8, <1>9

\* One lane, two and one more.
LEMMA OneTwoAndOne ==
  ASSUME NEW t, NEW u, NEW v, t = [x \in 1 .. 1 |-> t[x]], u = [x \in 1 .. 2 |-> u[x]],
         v = [x \in 1 .. 1 |-> v[x]]
  PROVE  /\ DOMAIN (t \o u \o v) = 1 .. 4
         /\ (t \o u \o v)[1] = t[1] /\ (t \o u \o v)[2] = u[1]
         /\ (t \o u \o v)[3] = u[2] /\ (t \o u \o v)[4] = v[1]
<1> DEFINE a == 1
           b == 2
           c3 == 3
           w == t \o u
<1>1. a \in Nat /\ b \in Nat /\ a + b = c3 /\ 2 - a = 1 /\ 3 - a = 2 /\ a = 1 /\ b = 2
      /\ t = [x \in 1 .. a |-> t[x]] /\ u = [x \in 1 .. b |-> u[x]] /\ c3 = 3
  OBVIOUS
<1> HIDE DEF a, b, c3, w
<1>2. /\ DOMAIN w = 1 .. a + b /\ (\A x \in 1 .. a : w[x] = t[x])
      /\ \A x \in a + 1 .. a + b : w[x] = u[x - a]
  BY <1>1, ConcatIs DEF w
<1>3. w = [x \in 1 .. a + b |-> w[x]]
  BY <1>1, ConcatFull DEF w
<1>4. w[1] = t[1] /\ w[2] = u[2 - a] /\ w[3] = u[3 - a]
  BY <1>1, <1>2
<1>5. w = [x \in 1 .. 3 |-> w[x]]
  BY <1>1, <1>3
<1>6. DOMAIN (w \o v) = 1 .. 4 /\ (w \o v)[4] = v[1] /\ \A x \in 1 .. 3 : (w \o v)[x] = w[x]
  BY <1>5, ThreeAndOne
<1>7. 1 \in 1 .. 3 /\ 2 \in 1 .. 3 /\ 3 \in 1 .. 3
  OBVIOUS
<1> QED BY <1>1, <1>4, <1>6, <1>7 DEF w

LEMMA ShortSix ==
  ASSUME ConfigInv, job = "secrets", serial = FALSE, set = 65
  PROVE  Scheduled /\ \A p \in Places : Assigned(p)
<1> DEFINE t == Run("s1", 0, 3, 0)
           u1 == Run("s1", 4, 4, 4)
           u2 == Run("s2", 0, 1, 5)
           u3 == Run("s2", 2, 2, Irrelevant)
           u == u1 \o u2 \o u3
           v == Run("s2", 2, 5, 7)
<1>1. K = 6 /\ L = 5
  BY ShapeIs DEF ConfigInv
<1>2. calls = <<t, u, v>>
  BY <1>1, SMTT(30) DEF ConfigInv, Calls, ShortCalls
<1>3. /\ t = [x \in 1 .. 4 |-> Lane(<<"s1", x - 1>>, x - 1)]
      /\ u1 = [x \in 1 .. 1 |-> Lane(<<"s1", x + 3>>, x + 3)]
      /\ u2 = [x \in 1 .. 2 |-> Lane(<<"s2", x - 1>>, x + 4)]
      /\ u3 = [x \in 1 .. 1 |-> Lane(<<"s2", x + 1>>, x + 254)]
      /\ v = [x \in 1 .. 4 |-> Lane(<<"s2", x + 1>>, x + 6)]
  BY DEF Run, Irrelevant
<1> HIDE DEF t, u1, u2, u3
<1>4. DOMAIN u = 1 .. 4 /\ u[1] = u1[1] /\ u[2] = u2[1] /\ u[3] = u2[2] /\ u[4] = u3[1]
  <2>1. u1 = [x \in 1 .. 1 |-> u1[x]] /\ u2 = [x \in 1 .. 2 |-> u2[x]]
        /\ u3 = [x \in 1 .. 1 |-> u3[x]]
    BY <1>3
  <2> QED BY <2>1, OneTwoAndOne
<1> HIDE DEF u, v
<1>5. /\ DOMAIN t = 1 .. 4 /\ \A x \in 1 .. 4 : t[x].to = <<"s1", x - 1>> /\ t[x].nonce = x - 1
      /\ DOMAIN v = 1 .. 4 /\ \A x \in 1 .. 4 : v[x].to = <<"s2", x + 1>> /\ v[x].nonce = x + 6
  BY <1>3, LaneIs
<1>6. /\ u[1].to = <<"s1", 4>> /\ u[1].nonce = 4
      /\ u[2].to = <<"s2", 0>> /\ u[2].nonce = 5
      /\ u[3].to = <<"s2", 1>> /\ u[3].nonce = 6
      /\ u[4].to = <<"s2", 2>> /\ u[4].nonce = 255
  <2>1. u[1] = Lane(<<"s1", 4>>, 4) /\ u[2] = Lane(<<"s2", 0>>, 5)
        /\ u[3] = Lane(<<"s2", 1>>, 6) /\ u[4] = Lane(<<"s2", 2>>, 255)
    BY <1>3, <1>4
  <2> QED BY <2>1, LaneIs
<1>7. DOMAIN calls = 1 .. 3 /\ Len(calls) = 3
      /\ calls[1] = t /\ calls[2] = u /\ calls[3] = v
  BY <1>2
<1>8. Places = ({"s1"} \X (0 .. 4)) \cup ({"s2"} \X (0 .. 5))
  BY <1>1, PlacesAre
<1>a. (\A e \in 0 .. 4 : <<"s1", e>> \in Places) /\ \A e \in 0 .. 5 : <<"s2", e>> \in Places
  BY <1>8
<1>9. Sound(t) /\ Sound(v)
  <2>1. ASSUME NEW l \in 1 .. 4 PROVE t[l].to \in Places /\ Hashable(t[l].nonce)
    <3>1. l - 1 \in 0 .. 4 /\ l - 1 \in Nat
      OBVIOUS
    <3> QED BY <1>5, <1>a, <3>1 DEF Hashable
  <2>2. ASSUME NEW l \in 1 .. 4 PROVE v[l].to \in Places /\ Hashable(v[l].nonce)
    <3>1. l + 1 \in 0 .. 5 /\ l + 6 \in Nat
      OBVIOUS
    <3> QED BY <1>5, <1>a, <3>1 DEF Hashable
  <2>3. \A l, m \in 1 .. 4 : (t[l].to = t[m].to => l = m) /\ (v[l].to = v[m].to => l = m)
    BY <1>5
  <2> QED BY <1>5, <2>1, <2>2, <2>3 DEF Sound, FourLanes
<1>10. Sound(u)
  <2>1. \A l \in 1 .. 4 : l = 1 \/ l = 2 \/ l = 3 \/ l = 4
    OBVIOUS
  <2>2. \A l \in 1 .. 4 : u[l].to \in Places /\ u[l].nonce \in Nat
    <3>1. /\ <<"s1", 4>> \in Places /\ <<"s2", 0>> \in Places
          /\ <<"s2", 1>> \in Places /\ <<"s2", 2>> \in Places
      BY <1>8
    <3> QED BY <1>6, <2>1, <3>1
  <2>3. \A l, m \in 1 .. 4 : u[l].to = u[m].to => l = m
    BY <1>6, <2>1
  <2> QED BY <1>4, <2>2, <2>3 DEF Sound, FourLanes, Hashable
<1>11. Scheduled
  <2>1. \A b \in 1 .. 3 : Sound(calls[b])
    <3>1. \A b \in 1 .. 3 : b = 1 \/ b = 2 \/ b = 3
      OBVIOUS
    <3> QED BY <1>7, <1>9, <1>10, <3>1
  <2> QED BY <1>7, <2>1, SoundCalls
<1>12. \A p : /\ (\E l \in DOMAIN t : t[l].to = p /\ t[l].nonce = NonceOf(p))
              /\ (\A l \in DOMAIN u : u[l].to # p) /\ (\A l \in DOMAIN v : v[l].to # p)
              => Assigned(p)
  BY <1>7 DEF Assigned
<1>13. \A p : /\ (\E l \in DOMAIN u : u[l].to = p /\ u[l].nonce = NonceOf(p))
              /\ (\A l \in DOMAIN v : v[l].to # p)
              => Assigned(p)
  BY <1>7 DEF Assigned
<1>14. \A p : (\E l \in DOMAIN v : v[l].to = p /\ v[l].nonce = NonceOf(p)) => Assigned(p)
  BY <1>7 DEF Assigned
<1>15. ASSUME NEW e \in 0 .. 4 PROVE Assigned(<<"s1", e>>)
  <2> DEFINE p == <<"s1", e>>
  <2>1. NonceOf(p) = e /\ \A l \in DOMAIN v : v[l].to # p
    <3>1. NonceOf(p) = e
      BY PlacesAre
    <3>2. \A l \in DOMAIN v : v[l].to # p
      BY <1>5
    <3> QED BY <3>1, <3>2
  <2>2. CASE e \in 0 .. 3
    <3>1. e + 1 \in DOMAIN t /\ t[e + 1].to = p /\ t[e + 1].nonce = e
      BY <1>5, <2>2
    <3>2. \A l \in DOMAIN u : u[l].to # p
      <4>1. \A l \in 1 .. 4 : l = 1 \/ l = 2 \/ l = 3 \/ l = 4
        OBVIOUS
      <4> QED BY <1>4, <1>6, <2>2, <4>1
    <3> QED BY <1>12, <2>1, <3>1, <3>2
  <2>3. CASE e = 4
    <3>1. 1 \in DOMAIN u /\ u[1].to = p /\ u[1].nonce = e
      BY <1>4, <1>6, <2>3
    <3> QED BY <1>13, <2>1, <3>1
  <2> QED BY <2>2, <2>3
<1>16. ASSUME NEW e \in 0 .. 5 PROVE Assigned(<<"s2", e>>)
  <2> DEFINE p == <<"s2", e>>
  <2>1. NonceOf(p) = 5 + e
    BY <1>1, PlacesAre
  <2>2. CASE e \in 0 .. 1
    <3>1. e + 2 \in DOMAIN u /\ u[e + 2].to = p /\ u[e + 2].nonce = 5 + e
      <4>1. e = 0 \/ e = 1
        BY <2>2
      <4> QED BY <1>4, <1>6, <4>1
    <3>2. \A l \in DOMAIN v : v[l].to # p
      BY <1>5, <2>2
    <3> QED BY <1>13, <2>1, <3>1, <3>2
  <2>3. CASE e \in 2 .. 5
    <3>1. e - 1 \in DOMAIN v /\ v[e - 1].to = p /\ v[e - 1].nonce = 5 + e
      BY <1>5, <2>3
    <3> QED BY <1>14, <2>1, <3>1
  <2> QED BY <2>2, <2>3
<1> QED BY <1>8, <1>11, <1>15, <1>16

LEMMA ShortEight ==
  ASSUME ConfigInv, job = "secrets", serial = FALSE, set = 87
  PROVE  Scheduled /\ \A p \in Places : Assigned(p)
<1> DEFINE t == Run("s1", 0, 3, 0)
           u1 == Run("s1", 4, 6, 4)
           u2 == Run("s2", 0, 0, Irrelevant)
           u == u1 \o u2
           v == Run("s2", 0, 3, 7)
           w == Run("s2", 4, 7, 11)
<1>1. K = 8 /\ L = 7
  BY ShapeIs DEF ConfigInv
<1>2. calls = <<t, u, v, w>>
  BY <1>1, SMTT(30) DEF ConfigInv, Calls, ShortCalls
<1>3. /\ t = [x \in 1 .. 4 |-> Lane(<<"s1", x - 1>>, x - 1)]
      /\ u1 = [x \in 1 .. 3 |-> Lane(<<"s1", x + 3>>, x + 3)]
      /\ u2 = [x \in 1 .. 1 |-> Lane(<<"s2", x - 1>>, x + 254)]
      /\ v = [x \in 1 .. 4 |-> Lane(<<"s2", x - 1>>, x + 6)]
      /\ w = [x \in 1 .. 4 |-> Lane(<<"s2", x + 3>>, x + 10)]
  BY DEF Run, Irrelevant
<1> HIDE DEF t, u1, u2, v, w
<1>4. DOMAIN u = 1 .. 4 /\ u[4] = u2[1] /\ \A x \in 1 .. 3 : u[x] = u1[x]
  <2>1. u1 = [x \in 1 .. 3 |-> u1[x]] /\ u2 = [x \in 1 .. 1 |-> u2[x]]
    BY <1>3
  <2> QED BY <2>1, ThreeAndOne
<1> HIDE DEF u
<1>5. /\ DOMAIN t = 1 .. 4 /\ \A x \in 1 .. 4 : t[x].to = <<"s1", x - 1>> /\ t[x].nonce = x - 1
      /\ DOMAIN v = 1 .. 4 /\ \A x \in 1 .. 4 : v[x].to = <<"s2", x - 1>> /\ v[x].nonce = x + 6
      /\ DOMAIN w = 1 .. 4 /\ \A x \in 1 .. 4 : w[x].to = <<"s2", x + 3>> /\ w[x].nonce = x + 10
  BY <1>3, LaneIs
<1>6. /\ u[4].to = <<"s2", 0>> /\ u[4].nonce = 255
      /\ \A x \in 1 .. 3 : u[x].to = <<"s1", x + 3>> /\ u[x].nonce = x + 3
  <2>1. u[4] = Lane(<<"s2", 0>>, 255)
    BY <1>3, <1>4
  <2>2. \A x \in 1 .. 3 : u[x] = Lane(<<"s1", x + 3>>, x + 3)
    BY <1>3, <1>4
  <2> QED BY <2>1, <2>2, LaneIs
<1>7. DOMAIN calls = 1 .. 4 /\ Len(calls) = 4
      /\ calls[1] = t /\ calls[2] = u /\ calls[3] = v /\ calls[4] = w
  BY <1>2
<1>8. Places = ({"s1"} \X (0 .. 6)) \cup ({"s2"} \X (0 .. 7))
  BY <1>1, PlacesAre
<1>9. (\A e \in 0 .. 6 : <<"s1", e>> \in Places) /\ \A e \in 0 .. 7 : <<"s2", e>> \in Places
  BY <1>8
<1>10. Sound(t) /\ Sound(v) /\ Sound(w)
  <2>1. ASSUME NEW l \in 1 .. 4 PROVE t[l].to \in Places /\ Hashable(t[l].nonce)
    <3>1. l - 1 \in 0 .. 6 /\ l - 1 \in Nat
      OBVIOUS
    <3> QED BY <1>5, <1>9, <3>1 DEF Hashable
  <2>2. ASSUME NEW l \in 1 .. 4 PROVE v[l].to \in Places /\ Hashable(v[l].nonce)
    <3>1. l - 1 \in 0 .. 7 /\ l + 6 \in Nat
      OBVIOUS
    <3> QED BY <1>5, <1>9, <3>1 DEF Hashable
  <2>3. ASSUME NEW l \in 1 .. 4 PROVE w[l].to \in Places /\ Hashable(w[l].nonce)
    <3>1. l + 3 \in 0 .. 7 /\ l + 10 \in Nat
      OBVIOUS
    <3> QED BY <1>5, <1>9, <3>1 DEF Hashable
  <2>4. \A l, m \in 1 .. 4 : /\ t[l].to = t[m].to => l = m
                             /\ v[l].to = v[m].to => l = m
                             /\ w[l].to = w[m].to => l = m
    BY <1>5
  <2> QED BY <1>5, <2>1, <2>2, <2>3, <2>4 DEF Sound, FourLanes
<1>11. Sound(u)
  <2>1. \A l \in 1 .. 4 : l \in 1 .. 3 \/ l = 4
    OBVIOUS
  <2>2. ASSUME NEW l \in 1 .. 4 PROVE u[l].to \in Places /\ u[l].nonce \in Nat
    <3>1. CASE l \in 1 .. 3
      <4>1. l + 3 \in 0 .. 6 /\ l + 3 \in Nat
        BY <3>1
      <4> QED BY <1>6, <1>9, <3>1, <4>1, SMTT(30)
    <3>2. CASE l = 4
      <4>1. <<"s2", 0>> \in Places
        BY <1>8
      <4> QED BY <1>6, <3>2, <4>1
    <3> QED BY <2>1, <3>1, <3>2
  <2>3. \A l, m \in 1 .. 4 : u[l].to = u[m].to => l = m
    BY <1>6, <2>1
  <2> QED BY <1>4, <2>2, <2>3 DEF Sound, FourLanes, Hashable
<1>12. Scheduled
  <2>1. \A b \in 1 .. 4 : Sound(calls[b])
    <3>1. \A b \in 1 .. 4 : b = 1 \/ b = 2 \/ b = 3 \/ b = 4
      OBVIOUS
    <3> QED BY <1>7, <1>10, <1>11, <3>1
  <2> QED BY <1>7, <2>1, SoundCalls
<1>13. \A p : /\ (\E l \in DOMAIN t : t[l].to = p /\ t[l].nonce = NonceOf(p))
              /\ (\A l \in DOMAIN u : u[l].to # p) /\ (\A l \in DOMAIN v : v[l].to # p)
              /\ (\A l \in DOMAIN w : w[l].to # p)
              => Assigned(p)
  BY <1>7 DEF Assigned
<1>14. \A p : /\ (\E l \in DOMAIN u : u[l].to = p /\ u[l].nonce = NonceOf(p))
              /\ (\A l \in DOMAIN v : v[l].to # p) /\ (\A l \in DOMAIN w : w[l].to # p)
              => Assigned(p)
  BY <1>7 DEF Assigned
<1>15. \A p : /\ (\E l \in DOMAIN v : v[l].to = p /\ v[l].nonce = NonceOf(p))
              /\ (\A l \in DOMAIN w : w[l].to # p)
              => Assigned(p)
  BY <1>7 DEF Assigned
<1>16. \A p : (\E l \in DOMAIN w : w[l].to = p /\ w[l].nonce = NonceOf(p)) => Assigned(p)
  BY <1>7 DEF Assigned
<1>17. ASSUME NEW e \in 0 .. 6 PROVE Assigned(<<"s1", e>>)
  <2> DEFINE p == <<"s1", e>>
  <2>1. NonceOf(p) = e
    BY PlacesAre
  <2>2. (\A l \in DOMAIN v : v[l].to # p) /\ \A l \in DOMAIN w : w[l].to # p
    BY <1>5
  <2>3. CASE e \in 0 .. 3
    <3>1. e + 1 \in DOMAIN t /\ t[e + 1].to = p /\ t[e + 1].nonce = e
      BY <1>5, <2>3
    <3>2. \A l \in DOMAIN u : u[l].to # p
      <4>1. \A l \in 1 .. 4 : l \in 1 .. 3 \/ l = 4
        OBVIOUS
      <4> QED BY <1>4, <1>6, <2>3, <4>1
    <3> QED BY <1>13, <2>1, <2>2, <3>1, <3>2
  <2>4. CASE e \in 4 .. 6
    <3>1. e - 3 \in DOMAIN u /\ u[e - 3].to = p /\ u[e - 3].nonce = e
      BY <1>4, <1>6, <2>4
    <3> QED BY <1>14, <2>1, <2>2, <3>1
  <2> QED BY <2>3, <2>4
<1>18. ASSUME NEW e \in 0 .. 7 PROVE Assigned(<<"s2", e>>)
  <2> DEFINE p == <<"s2", e>>
  <2>1. NonceOf(p) = 7 + e
    BY <1>1, PlacesAre
  <2>2. CASE e \in 0 .. 3
    <3>1. e + 1 \in DOMAIN v /\ v[e + 1].to = p /\ v[e + 1].nonce = 7 + e
      BY <1>5, <2>2
    <3>2. \A l \in DOMAIN w : w[l].to # p
      BY <1>5, <2>2
    <3> QED BY <1>15, <2>1, <3>1, <3>2
  <2>3. CASE e \in 4 .. 7
    <3>1. e - 3 \in DOMAIN w /\ w[e - 3].to = p /\ w[e - 3].nonce = 7 + e
      BY <1>5, <2>3
    <3> QED BY <1>16, <2>1, <3>1
  <2> QED BY <2>2, <2>3
<1> QED BY <1>8, <1>12, <1>17, <1>18

\* The entries of the matrix: where each goes, and that no two go there.
Total == K * L

LEMMA TotalIs ==
  ASSUME ConfigInv
  PROVE  /\ Total \in Nat /\ L \in Nat \ {0} /\ K \in Nat \ {0}
         /\ \A at \in 0 .. Total - 1 :
              /\ at \div L \in 0 .. K - 1 /\ at % L \in 0 .. L - 1
              /\ at = (at \div L) * L + (at % L)
         /\ \A e \in 0 .. K - 1, j \in 0 .. L - 1 :
              /\ e * L + j \in 0 .. Total - 1
              /\ (e * L + j) \div L = e /\ (e * L + j) % L = j
<1>1. CASE set = 44
  <2>1. K = 4 /\ L = 4
    BY <1>1, ShapeIs
  <2>2. Total = 16
    BY <2>1 DEF Total
  <2>3. \A at \in 0 .. 15 : at \div 4 \in 0 .. 3 /\ at % 4 \in 0 .. 3
                              /\ at = (at \div 4) * 4 + (at % 4)
    OBVIOUS
  <2>4. \A e \in 0 .. 3, j \in 0 .. 3 :
          e * 4 + j \in 0 .. 15 /\ (e * 4 + j) \div 4 = e /\ (e * 4 + j) % 4 = j
    OBVIOUS
  <2> QED BY <2>1, <2>2, <2>3, <2>4
<1>2. CASE set = 65
  <2>1. K = 6 /\ L = 5
    BY <1>2, ShapeIs
  <2>2. Total = 30
    BY <2>1 DEF Total
  <2>3. \A at \in 0 .. 29 : at \div 5 \in 0 .. 5 /\ at % 5 \in 0 .. 4
                              /\ at = (at \div 5) * 5 + (at % 5)
    OBVIOUS
  <2>4. \A e \in 0 .. 5, j \in 0 .. 4 :
          e * 5 + j \in 0 .. 29 /\ (e * 5 + j) \div 5 = e /\ (e * 5 + j) % 5 = j
    OBVIOUS
  <2> QED BY <2>1, <2>2, <2>3, <2>4
<1>3. CASE set = 87
  <2>1. K = 8 /\ L = 7
    BY <1>3, ShapeIs
  <2>2. Total = 56
    BY <2>1 DEF Total
  <2>3. \A at \in 0 .. 55 : at \div 7 \in 0 .. 7 /\ at % 7 \in 0 .. 6
                              /\ at = (at \div 7) * 7 + (at % 7)
    OBVIOUS
  <2>4. \A e \in 0 .. 7, j \in 0 .. 6 :
          e * 7 + j \in 0 .. 55 /\ (e * 7 + j) \div 7 = e /\ (e * 7 + j) % 7 = j
    OBVIOUS
  <2> QED BY <2>1, <2>2, <2>3, <2>4
<1> QED BY <1>1, <1>2, <1>3 DEF ConfigInv

LEMMA EntryIs ==
  \A at : /\ Entry(at).to = <<IF reduceRam THEN "row" ELSE at \div L, at % L>>
         /\ Entry(at).nonce = <<at % L, at \div L>>
BY LaneIs DEF Entry

LEMMA EntryPlaced ==
  ASSUME ConfigInv, job = "matrix", NEW at \in 0 .. Total - 1
  PROVE  Entry(at).to \in Places /\ Hashable(Entry(at).nonce)
<1>1. at \div L \in 0 .. K - 1 /\ at % L \in 0 .. L - 1
  BY TotalIs
<1> DEFINE q == at \div L
           m == at % L
<1>2. CASE reduceRam
  <2>1. Entry(at).to = <<"row", m>> /\ Places = {"row"} \X (0 .. L - 1)
    BY <1>2, EntryIs DEF Places
  <2> HIDE DEF m
  <2> QED BY <1>1, <2>1 DEF Hashable, m
<1>3. CASE ~reduceRam
  <2>1. Entry(at).to = <<q, m>> /\ Places = (0 .. K - 1) \X (0 .. L - 1)
    BY <1>3, EntryIs DEF Places
  <2> HIDE DEF m, q
  <2> QED BY <1>1, <2>1 DEF Hashable, m, q
<1> QED BY <1>2, <1>3

LEMMA EntriesDiffer ==
  ASSUME ConfigInv, job = "matrix", ~reduceRam, NEW at \in 0 .. Total - 1,
         NEW d \in 0 .. Total - 1, Entry(at).to = Entry(d).to
  PROVE  at = d
<1>1. at \div L = d \div L /\ at % L = d % L
  BY EntryIs
<1>2. at = (at \div L) * L + (at % L) /\ d = (d \div L) * L + (d % L)
  BY TotalIs
<1> QED BY <1>1, <1>2

\* The first F calls fill four lanes each, the rest one.
InFours(F) ==
  /\ F \in Nat /\ 4 * F =< Total /\ (reduceRam => F = 0)
  /\ Len(calls) = Total - 3 * F /\ DOMAIN calls = 1 .. Len(calls)
  /\ \A b \in 1 .. F : DOMAIN calls[b] = 1 .. 4
                       /\ \A l \in 1 .. 4 : calls[b][l] = Entry(4 * (b - 1) + l - 1)
  /\ \A b \in F + 1 .. Len(calls) : DOMAIN calls[b] = {1} /\ calls[b][1] = Entry(3 * F + b - 1)

LEMMA MatrixIs ==
  ASSUME ConfigInv, job = "matrix"
  PROVE  \E F : InFours(F)
<1> DEFINE F == IF serial \/ reduceRam THEN 0 ELSE (K * L) \div 4
           z == Total - 4 * F
           u == [b \in 1 .. F |-> Entries(4 * (b - 1), 4 * b - 1)]
           w == Entries(4 * F, Total - 1)
           v == OneByOne(w)
<1>1. F \in Nat /\ 4 * F =< Total /\ z \in Nat /\ (reduceRam => F = 0)
  BY TotalIs DEF Total
<1>2. calls = u \o v
  BY DEF ConfigInv, Calls, MatrixCalls, Total
<1> HIDE DEF F
<1>3. w = [x \in 1 .. z |-> Entry(4 * F + x - 1)]
  <2>1. (Total - 1) - 4 * F + 1 = z
    BY <1>1, TotalIs
  <2> QED BY <2>1 DEF Entries
<1> HIDE DEF w, z
<1>4. /\ v = [x \in 1 .. z |-> v[x]] /\ DOMAIN v = 1 .. z
      /\ \A x \in 1 .. z : v[x] = <<Entry(4 * F + x - 1)>>
  <2>1. w = [x \in 1 .. z |-> w[x]] /\ \A x \in 1 .. z : w[x] = Entry(4 * F + x - 1)
    BY <1>3
  <2>2. /\ DOMAIN OneByOne(w) = 1 .. z
        /\ OneByOne(w) = [x \in 1 .. z |-> OneByOne(w)[x]]
        /\ \A x \in 1 .. z : OneByOne(w)[x] = <<w[x]>>
    BY <1>1, <2>1, OneByOneIs
  <2> QED BY <2>1, <2>2
<1> HIDE DEF v
<1>5. u = [b \in 1 .. F |-> u[b]] /\ \A b \in 1 .. F : u[b] = Entries(4 * (b - 1), 4 * b - 1)
  OBVIOUS
<1> HIDE DEF u
<1>6. \A b \in 1 .. F : DOMAIN u[b] = 1 .. 4
                        /\ \A l \in 1 .. 4 : u[b][l] = Entry(4 * (b - 1) + l - 1)
  <2> SUFFICES ASSUME NEW b \in 1 .. F
               PROVE  DOMAIN u[b] = 1 .. 4
                      /\ \A l \in 1 .. 4 : u[b][l] = Entry(4 * (b - 1) + l - 1)
    OBVIOUS
  <2>1. b \in Int /\ (4 * b - 1) - 4 * (b - 1) + 1 = 4
    BY <1>1
  <2>2. u[b] = [x \in 1 .. 4 |-> Entry(4 * (b - 1) + x - 1)]
    BY <1>5, <2>1 DEF Entries
  <2> QED BY <2>2
<1>7. /\ Len(calls) = F + z /\ DOMAIN calls = 1 .. F + z
      /\ \A x \in 1 .. F : calls[x] = u[x]
      /\ \A x \in F + 1 .. F + z : calls[x] = v[x - F]
  <2>1. Len(u) = F
    BY <1>1, <1>5, LengthIs
  <2>2. /\ DOMAIN (u \o v) = 1 .. F + z
        /\ \A x \in 1 .. F : (u \o v)[x] = u[x]
        /\ \A x \in F + 1 .. F + z : (u \o v)[x] = v[x - F]
    BY <1>1, <1>4, <1>5, ConcatIs
  <2>3. Len(u \o v) = F + z
    BY <1>1, <1>4, <1>5, ConcatIs
  <2> QED BY <1>2, <2>2, <2>3
<1>8. F + z = Total - 3 * F
  BY <1>1, TotalIs DEF z
<1>9. ASSUME NEW b \in F + 1 .. F + z
      PROVE  DOMAIN calls[b] = {1} /\ calls[b][1] = Entry(3 * F + b - 1)
  <2>1. b - F \in 1 .. z /\ 4 * F + (b - F) - 1 = 3 * F + b - 1
    BY <1>1
  <2>2. calls[b] = <<Entry(3 * F + b - 1)>>
    BY <1>4, <1>7, <2>1
  <2> QED BY <2>2
<1>10. \A b \in 1 .. F : DOMAIN calls[b] = 1 .. 4
                         /\ \A l \in 1 .. 4 : calls[b][l] = Entry(4 * (b - 1) + l - 1)
  BY <1>6, <1>7
<1>11. InFours(F)
  BY <1>1, <1>7, <1>8, <1>9, <1>10 DEF InFours
<1> QED BY <1>11

LEMMA MatrixScheduled ==
  ASSUME ConfigInv, job = "matrix"
  PROVE  Scheduled
<1>1. PICK F : InFours(F)
  BY MatrixIs
<1>2. F \in Nat /\ 4 * F =< Total /\ Total \in Nat /\ Len(calls) = Total - 3 * F
      /\ DOMAIN calls = 1 .. Len(calls) /\ (reduceRam => F = 0)
  BY <1>1, TotalIs DEF InFours
<1>3. ASSUME NEW b \in 1 .. Len(calls) PROVE Sound(calls[b])
  <2>1. CASE b =< F
    <3>1. b \in 1 .. F /\ b \in Int /\ ~reduceRam
      BY <1>2, <2>1
    <3>2. DOMAIN calls[b] = 1 .. 4 /\ \A l \in 1 .. 4 : calls[b][l] = Entry(4 * (b - 1) + l - 1)
      BY <1>1, <3>1 DEF InFours
    <3>3. \A l \in 1 .. 4 : 4 * (b - 1) + l - 1 \in 0 .. Total - 1
      BY <1>2, <3>1
    <3>4. ASSUME NEW l \in 1 .. 4
          PROVE  calls[b][l].to \in Places /\ Hashable(calls[b][l].nonce)
      BY <3>2, <3>3, EntryPlaced
    <3>5. ASSUME NEW l \in 1 .. 4, NEW m \in 1 .. 4, calls[b][l].to = calls[b][m].to
          PROVE  l = m
      <4> DEFINE i1 == 4 * (b - 1) + l - 1
                 i2 == 4 * (b - 1) + m - 1
      <4>1. i1 \in 0 .. Total - 1 /\ i2 \in 0 .. Total - 1 /\ (i1 = i2 => l = m)
        BY <3>1, <3>3
      <4>2. Entry(i1).to = Entry(i2).to
        BY <3>2, <3>5
      <4> HIDE DEF i1, i2
      <4> QED BY <3>1, <4>1, <4>2, EntriesDiffer
    <3> QED BY <3>2, <3>4, <3>5 DEF Sound, FourLanes
  <2>2. CASE ~ (b =< F)
    <3>1. b \in F + 1 .. Len(calls) /\ 3 * F + b - 1 \in 0 .. Total - 1
      BY <1>2, <2>2
    <3>2. DOMAIN calls[b] = {1} /\ calls[b][1] = Entry(3 * F + b - 1)
      BY <1>1, <3>1 DEF InFours
    <3>3. calls[b][1].to \in Places /\ Hashable(calls[b][1].nonce)
      BY <3>1, <3>2, EntryPlaced
    <3> QED BY <3>2, <3>3 DEF Sound, FourLanes
  <2> QED BY <2>1, <2>2
<1>4. Len(calls) \in Nat
  BY <1>2
<1> QED BY <1>2, <1>3, <1>4, SoundCalls

LEMMA MatrixAssigned ==
  ASSUME ConfigInv, job = "matrix", ~reduceRam, NEW p \in Places
  PROVE  Assigned(p)
<1>1. PICK F : InFours(F)
  BY MatrixIs
<1>2. F \in Nat /\ 4 * F =< Total /\ Total \in Nat /\ Len(calls) = Total - 3 * F
      /\ DOMAIN calls = 1 .. Len(calls)
  BY <1>1, TotalIs DEF InFours
<1>3. PICK e \in 0 .. K - 1, j \in 0 .. L - 1 : p = <<e, j>>
  BY DEF Places
<1> DEFINE at == e * L + j
<1>4. at \in 0 .. Total - 1 /\ at \div L = e /\ at % L = j
  BY TotalIs
<1> HIDE DEF at
<1>5. Entry(at).to = p /\ Entry(at).nonce = NonceOf(p)
  <2>1. Entry(at).to = <<e, j>> /\ Entry(at).nonce = <<j, e>>
    BY <1>4, EntryIs
  <2>2. NonceOf(<<e, j>>) = <<j, e>>
    BY DEF NonceOf
  <2> QED BY <1>3, <2>1, <2>2
<1>6. ASSUME NEW d \in 0 .. Total - 1, d > at PROVE Entry(d).to # p
  BY <1>4, <1>5, <1>6, EntriesDiffer
\* No later call fills it.
<1>7. ASSUME NEW b \in 1 .. Len(calls), NEW d \in b + 1 .. Len(calls),
             NEW l \in DOMAIN calls[d],
             at = IF b =< F THEN at ELSE 3 * F + b - 1, b =< F => at =< 4 * b - 1
      PROVE  calls[d][l].to # p
  <2>1. CASE d =< F
    <3>1. d \in 1 .. F /\ d \in Int
      BY <1>2, <2>1
    <3>2. l \in 1 .. 4 /\ calls[d][l] = Entry(4 * (d - 1) + l - 1)
      BY <1>1, <3>1 DEF InFours
    <3>3. 4 * (d - 1) + l - 1 \in 0 .. Total - 1 /\ 4 * (d - 1) + l - 1 > at
      BY <1>2, <1>4, <1>7, <3>1, <3>2
    <3> QED BY <1>6, <3>2, <3>3
  <2>2. CASE ~ (d =< F)
    <3>1. d \in F + 1 .. Len(calls) /\ d \in Int
      BY <1>2, <2>2
    <3>2. l = 1 /\ calls[d][l] = Entry(3 * F + d - 1)
      BY <1>1, <3>1 DEF InFours
    <3>3. 3 * F + d - 1 \in 0 .. Total - 1 /\ 3 * F + d - 1 > at
      BY <1>2, <1>4, <1>7, <3>1
    <3> QED BY <1>6, <3>2, <3>3
  <2> QED BY <2>1, <2>2
<1>8. CASE at < 4 * F
  <2> DEFINE b == (at \div 4) + 1
             l == (at % 4) + 1
  <2>1. b \in 1 .. F /\ l \in 1 .. 4 /\ 4 * (b - 1) + l - 1 = at /\ at =< 4 * b - 1
        /\ b \in 1 .. Len(calls)
    BY <1>2, <1>4, <1>8
  <2> HIDE DEF b, l
  <2>2. l \in DOMAIN calls[b] /\ calls[b][l] = Entry(4 * (b - 1) + l - 1)
    BY <1>1, <2>1 DEF InFours
  <2>3. calls[b][l].to = p /\ calls[b][l].nonce = NonceOf(p)
    BY <1>5, <2>1, <2>2
  <2>4. ASSUME NEW d \in b + 1 .. Len(calls), NEW m \in DOMAIN calls[d]
        PROVE  calls[d][m].to # p
    BY <1>7, <2>1
  <2> QED BY <2>1, <2>2, <2>3, <2>4 DEF Assigned
<1>9. CASE ~ (at < 4 * F)
  <2> DEFINE b == at - 3 * F + 1
  <2>1. b \in F + 1 .. Len(calls) /\ 3 * F + b - 1 = at /\ b \in 1 .. Len(calls) /\ ~ (b =< F)
    BY <1>2, <1>4, <1>9
  <2> HIDE DEF b
  <2>2. 1 \in DOMAIN calls[b] /\ calls[b][1] = Entry(3 * F + b - 1)
    BY <1>1, <2>1 DEF InFours
  <2>3. calls[b][1].to = p /\ calls[b][1].nonce = NonceOf(p)
    BY <1>5, <2>1, <2>2
  <2>4. ASSUME NEW d \in b + 1 .. Len(calls), NEW m \in DOMAIN calls[d]
        PROVE  calls[d][m].to # p
    BY <1>7, <2>1
  <2> QED BY <2>1, <2>2, <2>3, <2>4 DEF Assigned
<1> QED BY <1>8, <1>9

\* With a row buffer: call i fills the next place of it.
LEMMA RowCalls ==
  ASSUME ConfigInv, job = "matrix", reduceRam
  PROVE  /\ Len(calls) = Total
         /\ \A b \in 1 .. Total : DOMAIN calls[b] = {1} /\ calls[b][1] = Entry(b - 1)
<1>1. PICK F : InFours(F)
  BY MatrixIs
<1>2. F = 0 /\ Total \in Nat
  BY <1>1, TotalIs DEF InFours
<1>3. Len(calls) = Total
  BY <1>1, <1>2 DEF InFours
<1>4. ASSUME NEW b \in 1 .. Total PROVE DOMAIN calls[b] = {1} /\ calls[b][1] = Entry(b - 1)
  <2>1. b \in F + 1 .. Len(calls) /\ 3 * F + b - 1 = b - 1
    BY <1>2, <1>3
  <2>2. DOMAIN calls[b] = {1} /\ calls[b][1] = Entry(3 * F + b - 1)
    BY <1>1, <2>1 DEF InFours
  <2> QED BY <2>1, <2>2
<1> QED BY <1>3, <1>4

\* What follows for every job.
LEMMA Schedules ==
  ASSUME ConfigInv
  PROVE  Scheduled /\ (~reduceRam => \A p \in Places : Assigned(p))
<1>1. CASE job = "matrix"
  BY <1>1, MatrixScheduled, MatrixAssigned
<1>2. CASE job = "secrets"
  BY <1>2, SerialShort, ShortFour, ShortSix, ShortEight DEF ConfigInv
<1>3. CASE job = "y"
  BY <1>3, SerialMask, MaskFour, MaskFive, MaskSeven DEF ConfigInv
<1> QED BY <1>1, <1>2, <1>3 DEF ConfigInv

-----------------------------------------------------------------------------
(* The invariant: the lanes of the call hold what was accepted so far, a   *)
(* polynomial no later call has touched is complete, and the rows used are *)
(* exact.                                                                  *)

Whole(p, n) == poly[p] = [k \in 1 .. Coefficients |-> Exact(n, k)]
Begun == IF blocks > 0 THEN batch ELSE batch - 1
Untouched(p, b) ==
  \A d \in b + 1 .. Begun : \A l \in DOMAIN calls[d] : calls[d][l].to # p
DoneInv ==
  \A b \in 1 .. batch - 1 : \A l \in DOMAIN calls[b] :
    Untouched(calls[b][l].to, b) => Whole(calls[b][l].to, calls[b][l].nonce)
BatchInv ==
  /\ batch \in 1 .. Len(calls) + 1 /\ blocks \in Nat
  /\ blocks > 0 => batch =< Len(calls)
RowLimit ==
  job = "matrix" /\ reduceRam =>
    /\ batch =< (Len(rows) + 1) * L + 1
    /\ blocks > 0 => batch =< (Len(rows) + 1) * L
RowsInv ==
  /\ Len(rows) \in Nat /\ rows = [r \in 1 .. Len(rows) |-> rows[r]]
  /\ \A r \in 1 .. Len(rows), j \in 0 .. L - 1 :
       rows[r][j] = [k \in 1 .. Coefficients |-> Exact(<<j, r - 1>>, k)]
LanesInv == batch =< Len(calls) => LanesHold
SamplingInv ==
  /\ ConfigInv /\ BatchInv /\ LanesInv /\ PolyInv /\ DoneInv /\ RowLimit /\ RowsInv

LEMMA ConfigStep ==
  ASSUME ConfigInv, UNCHANGED config
  PROVE  ConfigInv' /\ L' = L /\ K' = K /\ Scheduled
<1>1. UNCHANGED <<set, serial, reduceRam, job, calls, rejected>>
  BY DEF config
<1>2. L' = L /\ K' = K
  BY <1>1 DEF L, K
<1>3. \A at : Entry(at)' = Entry(at)
  BY <1>1, <1>2 DEF Entry
<1>4. \A a, b : Entries(a, b)' = Entries(a, b)
  BY <1>3, Zenon DEF Entries
<1>5. MatrixCalls' = MatrixCalls
  BY <1>1, <1>2, <1>4, Zenon DEF MatrixCalls
<1>6. ShortCalls' = ShortCalls
  BY <1>1, <1>2, Zenon DEF ShortCalls
<1>7. MaskCalls' = MaskCalls
  BY <1>1, <1>2, Zenon DEF MaskCalls
<1>8. Calls' = Calls
  BY <1>1, <1>5, <1>6, <1>7 DEF Calls
<1>9. RejectionsEnd'
  BY <1>1 DEF ConfigInv, RejectionsEnd, Rejected
<1> QED BY <1>1, <1>2, <1>8, <1>9, Schedules DEF ConfigInv

\* What is complete or used stays so while the configuration does.
LEMMA SameExact ==
  ASSUME UNCHANGED config
  PROVE  \A n : [k \in 1 .. Coefficients |-> Exact(n, k)]'
                  = [k \in 1 .. Coefficients |-> Exact(n, k)]
BY ConfigKept

\* A step of the samplers of a call.
LEMMA WriteStep ==
  ASSUME SamplingInv, batch =< Len(calls), UNCHANGED <<config, batch, rows>>,
         LanesHold', PolyInv', Elsewhere, blocks' \in Nat \ {0},
         job = "matrix" /\ reduceRam => batch =< (Len(rows) + 1) * L
  PROVE  SamplingInv'
<1> USE DEF SamplingInv
<1>1. UNCHANGED <<set, serial, reduceRam, job, calls, rejected, batch, rows, config>>
      /\ L' = L /\ K' = K /\ Places' = Places
  BY ConfigStep, ConfigKept DEF config
<1>2. ConfigInv' /\ Scheduled
  BY ConfigStep, <1>1
<1>3. BatchInv'
  BY <1>1 DEF BatchInv
<1>4. LanesInv'
  BY DEF LanesInv
<1>5. DoneInv'
  <2> SUFFICES ASSUME NEW b \in 1 .. batch - 1, NEW l \in DOMAIN calls[b],
                      Untouched(calls[b][l].to, b)'
               PROVE  Whole(calls[b][l].to, calls[b][l].nonce)'
    BY <1>1 DEF DoneInv
  <2> DEFINE p == calls[b][l].to
             n == calls[b][l].nonce
  <2>1. batch \in Int /\ batch \in b + 1 .. batch /\ b \in 1 .. Len(calls)
    BY DEF BatchInv
  <2>2. p \in Places
    BY <1>2, <2>1 DEF Scheduled
  <2>3. Begun' = batch
    BY <1>1 DEF Begun
  <2>4. \A d \in b + 1 .. batch : \A m \in DOMAIN calls[d] : calls[d][m].to # p
    BY <1>1, <2>3 DEF Untouched
  <2>5. poly'[p] = poly[p]
    BY <2>1, <2>2, <2>4 DEF Elsewhere
  <2>6. Begun \in {batch, batch - 1}
    BY DEF Begun
  <2>7. Untouched(p, b)
    BY <2>1, <2>4, <2>6 DEF Untouched
  <2>8. Whole(p, n)
    BY <2>7 DEF DoneInv
  <2>9. poly'[p] = [k \in 1 .. Coefficients |-> Exact(n, k)]'
    BY <1>1, <2>5, <2>8, SameExact DEF Whole
  <2> QED BY <1>1, <2>9 DEF Whole
<1>6. RowLimit'
  BY <1>1 DEF RowLimit, BatchInv
<1>7. RowsInv'
  <2>1. ASSUME NEW r \in 1 .. Len(rows), NEW j \in 0 .. L - 1
        PROVE  rows[r][j] = [k \in 1 .. Coefficients |-> Exact(<<j, r - 1>>, k)]'
    BY <1>1, SameExact DEF RowsInv
  <2> QED BY <1>1, <2>1 DEF RowsInv
<1> QED BY <1>2, <1>3, <1>4, <1>5, <1>6, <1>7

LEMMA FirstBlocksStep == SamplingInv /\ FirstBlocks => SamplingInv'
<1> SUFFICES ASSUME SamplingInv, FirstBlocks PROVE SamplingInv'
  OBVIOUS
<1>1. batch \in 1 .. Len(calls) /\ blocks = 0 /\ job # "y" /\ RejNext(NBLOCKS)
      /\ UNCHANGED <<config, batch, rows>> /\ ConfigInv /\ PolyInv /\ LanesHold
      /\ Len(calls) \in Nat
  BY Schedules DEF SamplingInv, FirstBlocks, BatchInv, LanesInv, Scheduled
<1>2. Scheduled
  BY <1>1, Schedules
<1>3. NBLOCKS \in Nat \ {0}
  BY SizesAre
<1>4. LanesHold' /\ PolyInv' /\ Elsewhere /\ blocks' = 0 + NBLOCKS
  BY <1>1, <1>2, <1>3, RejNextHolds
<1>5. job = "matrix" /\ reduceRam => batch =< (Len(rows) + 1) * L
  BY DEF FirstBlocks, RowWanted
<1>6. blocks' \in Nat \ {0} /\ batch =< Len(calls)
  BY <1>1, <1>3, <1>4
<1> QED BY <1>1, <1>4, <1>5, <1>6, WriteStep

LEMMA FirstBlocksNativeStep == SamplingInv /\ FirstBlocksNative => SamplingInv'
<1> SUFFICES ASSUME SamplingInv, FirstBlocksNative PROVE SamplingInv'
  OBVIOUS
<1>1. batch \in 1 .. Len(calls) /\ UNCHANGED <<config, batch, rows>> /\ ConfigInv /\ PolyInv
      /\ Len(calls) \in Nat
  <2>1. batch =< Len(calls) /\ UNCHANGED <<config, batch, rows>>
    BY ZenonT(30) DEF FirstBlocksNative
  <2>2. Len(calls) \in Nat /\ batch \in 1 .. Len(calls) + 1 /\ ConfigInv /\ PolyInv
    BY Schedules DEF SamplingInv, BatchInv, Scheduled
  <2> QED BY <2>1, <2>2
<1>2. Scheduled
  BY <1>1, Schedules
<1>3. NBLOCKS \in Nat \ {0}
  BY SizesAre
<1>4. LanesHold' /\ PolyInv' /\ Elsewhere /\ blocks' = NBLOCKS
  BY <1>1, <1>2, NativeHolds
<1>5. job = "matrix" /\ reduceRam => batch =< (Len(rows) + 1) * L
  BY DEF FirstBlocksNative, RowWanted
<1>6. blocks' \in Nat \ {0} /\ batch =< Len(calls)
  BY <1>1, <1>3, <1>4
<1> QED BY <1>1, <1>4, <1>5, <1>6, WriteStep

LEMMA UnpackMaskStep == SamplingInv /\ UnpackMask => SamplingInv'
<1> SUFFICES ASSUME SamplingInv, UnpackMask PROVE SamplingInv'
  OBVIOUS
<1>1. batch \in 1 .. Len(calls) /\ UNCHANGED <<config, batch, rows>> /\ ConfigInv /\ PolyInv
      /\ job = "y" /\ Len(calls) \in Nat
  BY Schedules DEF SamplingInv, UnpackMask, BatchInv, Scheduled
<1>2. Scheduled
  BY <1>1, Schedules
<1>3. NBLOCKS \in Nat \ {0}
  BY SizesAre
<1>4. LanesHold' /\ PolyInv' /\ Elsewhere /\ blocks' = NBLOCKS
  BY <1>1, <1>2, MaskHolds
<1>5. blocks' \in Nat \ {0} /\ batch =< Len(calls)
  BY <1>1, <1>3, <1>4
<1>6. job = "matrix" /\ reduceRam => batch =< (Len(rows) + 1) * L
  BY <1>1
<1> QED BY <1>1, <1>4, <1>5, <1>6, WriteStep

\* The whole mask is there after one block, so NextBlock is for the others.
LEMMA NextBlockStep == SamplingInv /\ NextBlock => SamplingInv'
<1> SUFFICES ASSUME SamplingInv, NextBlock PROVE SamplingInv'
  OBVIOUS
<1>1. batch \in 1 .. Len(calls) /\ blocks \in Nat /\ blocks > 0 /\ RejNext(1)
      /\ UNCHANGED <<config, batch, rows>> /\ ConfigInv /\ PolyInv /\ LanesHold
      /\ Len(calls) \in Nat
  BY Schedules DEF SamplingInv, NextBlock, BatchInv, LanesInv, Scheduled
<1>2. Scheduled
  BY <1>1, Schedules
<1>3. job # "y"
  <2>1. PICK l \in DOMAIN calls[batch] : ctr[l] < Coefficients
    BY DEF NextBlock, Unfinished
  <2>2. Holds(l)
    BY <1>1, <2>1 DEF LanesHold
  <2> QED BY <1>1, <2>1, <2>2, SizesAre DEF Holds
<1>4. LanesHold' /\ PolyInv' /\ Elsewhere /\ blocks' = blocks + 1
  BY <1>1, <1>2, <1>3, RejNextHolds
<1>5. blocks' \in Nat \ {0} /\ batch =< Len(calls)
  BY <1>1, <1>4
<1>6. job = "matrix" /\ reduceRam => batch =< (Len(rows) + 1) * L
  BY <1>1 DEF SamplingInv, RowLimit
<1> QED BY <1>1, <1>4, <1>5, <1>6, WriteStep

LEMMA EndCallStep == SamplingInv /\ EndCall => SamplingInv'
<1> SUFFICES ASSUME SamplingInv, EndCall PROVE SamplingInv'
  OBVIOUS
<1>1. /\ blocks \in Nat /\ blocks > 0 /\ ~Unfinished /\ batch' = batch + 1 /\ blocks' = 0
      /\ ctr' = [l \in FourLanes |-> 0] /\ UNCHANGED <<config, poly, rows>>
      /\ batch \in 1 .. Len(calls) /\ Len(calls) \in Nat /\ batch \in Int
      /\ LanesHold /\ PolyInv /\ ConfigInv
  BY Schedules DEF SamplingInv, EndCall, BatchInv, LanesInv, Scheduled
<1>2. UNCHANGED <<set, serial, reduceRam, job, calls, rejected>>
      /\ L' = L /\ K' = K /\ Places' = Places /\ ConfigInv' /\ Scheduled
  BY <1>1, ConfigStep, ConfigKept DEF config
<1>3. BatchInv'
  BY <1>1, <1>2 DEF BatchInv
<1>4. ASSUME NEW l \in DOMAIN calls[batch]
      PROVE  Whole(calls[batch][l].to, calls[batch][l].nonce)
  <2> DEFINE p == calls[batch][l].to
             n == calls[batch][l].nonce
  <2>1. p \in Places /\ FullLength(poly[p])
    BY <1>1, <1>2 DEF Scheduled, PolyInv
  <2>2. ~ (ctr[l] < Coefficients)
    BY <1>1 DEF Unfinished
  <2>3. /\ ctr[l] = IF job = "y" THEN IF blocks = 0 THEN 0 ELSE Coefficients
                               ELSE Lower(Coefficients, Count(n, blocks * PerBlock))
        /\ \A k \in 1 .. ctr[l] : poly[p][k] = Exact(n, k)
    BY <1>1 DEF LanesHold, Holds
  <2> HIDE DEF p, n
  <2>4. ctr[l] = Coefficients
    <3>1. blocks * PerBlock \in Nat
      <4>1. \A u, v \in Nat : u * v \in Nat
        OBVIOUS
      <4> QED BY <1>1, <4>1, SizesAre
    <3> DEFINE a == blocks * PerBlock
    <3> HIDE DEF a
    <3>2. Count(n, a) \in Nat
      BY <3>1, CountType DEF a
    <3>3. job # "y" => ctr[l] = Lower(Coefficients, Count(n, a))
      BY <2>3 DEF a
    <3>4. job = "y" => ctr[l] = Coefficients
      BY <1>1, <2>3
    <3> QED BY <2>2, <3>2, <3>3, <3>4, SizesAre DEF Lower
  <2>5. poly[p] = [k \in 1 .. Coefficients |-> poly[p][k]]
    BY <2>1 DEF FullLength
  <2>6. poly[p] = [k \in 1 .. Coefficients |-> Exact(n, k)]
    <3>1. \A k \in 1 .. Coefficients : poly[p][k] = Exact(n, k)
      BY <2>3, <2>4
    <3> QED BY <2>5, <3>1, Zenon
  <2> QED BY <2>6 DEF Whole, p, n
<1>5. DoneInv'
  <2> SUFFICES ASSUME NEW b \in 1 .. batch, NEW l \in DOMAIN calls[b],
                      Untouched(calls[b][l].to, b)'
               PROVE  Whole(calls[b][l].to, calls[b][l].nonce)'
    BY <1>1, <1>2 DEF DoneInv
  <2> DEFINE p == calls[b][l].to
             n == calls[b][l].nonce
  <2>1. Begun' = batch /\ Begun = batch
    BY <1>1 DEF Begun
  <2>2. Whole(p, n)
    <3>1. CASE b = batch
      BY <1>4, <3>1
    <3>2. CASE b # batch
      <4>1. b \in 1 .. batch - 1
        BY <1>1, <3>2
      <4>2. Untouched(p, b)
        BY <1>2, <2>1 DEF Untouched
      <4> QED BY <4>1, <4>2 DEF SamplingInv, DoneInv
    <3> QED BY <3>1, <3>2
  <2>3. poly'[p] = [k \in 1 .. Coefficients |-> Exact(n, k)]'
    BY <1>1, <1>2, <2>2, SameExact DEF Whole
  <2> QED BY <1>2, <2>3 DEF Whole
<1>6. LanesInv'
  <2> SUFFICES ASSUME batch + 1 =< Len(calls), NEW l \in DOMAIN calls[batch + 1]
               PROVE  Holds(l)'
    BY <1>1, <1>2 DEF LanesInv, LanesHold
  <2>1. batch + 1 \in 1 .. Len(calls) /\ l \in FourLanes
    BY <1>1, <1>2 DEF Scheduled
  <2>2. ctr'[l] = 0
    BY <1>1, <2>1
  <2>3. \A n : Lower(Coefficients, Count(n, 0)') = 0
    <3>1. \A n : Count(n, 0)' = 0
      BY <1>1, CountZero, ConfigKept
    <3> QED BY <3>1, SizesAre DEF Lower
  <2>4. blocks' * PerBlock = 0
    BY <1>1, SizesAre
  <2> QED BY <1>1, <2>2, <2>3, <2>4 DEF Holds
<1>7. PolyInv'
  BY <1>1, <1>2 DEF PolyInv, FullLength
<1>8. RowLimit'
  <2>1. L \in Nat /\ Len(rows) \in Nat
    BY <1>1, TotalIs DEF SamplingInv, RowsInv
  <2>2. job = "matrix" /\ reduceRam => batch =< (Len(rows) + 1) * L
    BY <1>1 DEF SamplingInv, RowLimit
  <2>3. \A u, v \in Nat : (u + 1) * v \in Nat
    OBVIOUS
  <2>4. (Len(rows) + 1) * L \in Nat
    BY <2>1, <2>3
  <2>5. job = "matrix" /\ reduceRam => batch + 1 =< (Len(rows) + 1) * L + 1
    BY <1>1, <2>2, <2>4
  <2> QED BY <1>1, <1>2, <2>5 DEF RowLimit
<1>9. RowsInv'
  <2>1. ASSUME NEW r \in 1 .. Len(rows), NEW j \in 0 .. L - 1
        PROVE  rows[r][j] = [k \in 1 .. Coefficients |-> Exact(<<j, r - 1>>, k)]'
    BY <1>1, SameExact DEF SamplingInv, RowsInv
  <2> QED BY <1>1, <1>2, <2>1 DEF SamplingInv, RowsInv
<1> QED BY <1>2, <1>3, <1>5, <1>6, <1>7, <1>8, <1>9 DEF SamplingInv

\* When all calls are over, every polynomial is its own.
LEMMA AllDone ==
  ASSUME SamplingInv, ~reduceRam, batch = Len(calls) + 1, NEW p \in Places
  PROVE  Whole(p, NonceOf(p))
<1>1. ConfigInv /\ blocks \in Nat /\ ~ (blocks > 0) /\ Len(calls) \in Nat
  BY Schedules DEF SamplingInv, BatchInv, Scheduled
<1>2. Assigned(p)
  BY <1>1, Schedules
<1>3. PICK b \in 1 .. Len(calls) :
        /\ \E l \in DOMAIN calls[b] : calls[b][l].to = p /\ calls[b][l].nonce = NonceOf(p)
        /\ \A d \in b + 1 .. Len(calls) : \A l \in DOMAIN calls[d] : calls[d][l].to # p
  BY <1>2 DEF Assigned
<1>4. Begun = Len(calls) /\ b \in 1 .. batch - 1
  BY <1>1 DEF Begun
<1>5. Untouched(p, b)
  BY <1>3, <1>4 DEF Untouched
<1> QED BY <1>3, <1>4, <1>5 DEF SamplingInv, DoneInv

\* When the calls of a row are over, the buffer holds the row.
LEMMA RowDone ==
  ASSUME SamplingInv, job = "matrix", reduceRam, Len(rows) < K,
         batch = 1 + (Len(rows) + 1) * L, NEW j \in 0 .. L - 1
  PROVE  Whole(<<"row", j>>, <<j, Len(rows)>>)
<1> DEFINE r == Len(rows)
           at == r * L + j
           b == at + 1
<1>1. ConfigInv /\ blocks \in Nat /\ Len(calls) \in Nat /\ r \in Nat /\ batch \in Int
      /\ (blocks > 0 => batch =< (r + 1) * L)
  BY Schedules DEF SamplingInv, BatchInv, Scheduled, RowsInv, RowLimit
<1>2. r \in 0 .. K - 1 /\ L \in Nat \ {0} /\ K \in Nat \ {0} /\ Total \in Nat
  BY <1>1, TotalIs
<1>3. at \in 0 .. Total - 1 /\ at \div L = r /\ at % L = j
  BY <1>1, <1>2, TotalIs, Zenon
<1>4. r * L \in Nat /\ (r + 1) * L = r * L + L
  <2>1. \A u, v \in Nat : u * v \in Nat /\ (u + 1) * v = u * v + v
    OBVIOUS
  <2> QED BY <1>1, <1>2, <2>1
<1>5. ~ (blocks > 0) /\ Begun = r * L + L /\ b \in 1 .. batch - 1 /\ b - 1 = at /\ b \in Int
  BY <1>1, <1>2, <1>4 DEF Begun
<1>6. r * L + L =< Total
  <2>0. L - 1 \in 0 .. L - 1
    BY <1>2
  <2>1. r * L + (L - 1) \in 0 .. Total - 1
    BY <1>1, <1>2, <2>0, TotalIs, Zenon
  <2> QED BY <1>2, <1>4, <2>1
<1>7. b \in 1 .. Total
  BY <1>2, <1>3, <1>5
<1> DEFINE p == <<"row", j>>
<1>8. /\ 1 \in DOMAIN calls[b] /\ calls[b][1].to = p /\ calls[b][1].nonce = <<j, r>>
  <2>1. DOMAIN calls[b] = {1} /\ calls[b][1] = Entry(at)
    BY <1>1, <1>5, <1>7, RowCalls
  <2> QED BY <1>3, <2>1, EntryIs
<1> HIDE DEF b
<1>9. ASSUME NEW d \in b + 1 .. Begun, NEW l \in DOMAIN calls[d] PROVE calls[d][l].to # p
  <2>1. d \in 1 .. Total /\ d - 1 \in 0 .. Total - 1 /\ d \in Int
    BY <1>2, <1>4, <1>5, <1>6, <1>7
  <2>2. l = 1 /\ calls[d][l] = Entry(d - 1)
    BY <1>1, <2>1, RowCalls
  <2> DEFINE x == d - 1 - r * L
  <2>3. x \in 0 .. L - 1 /\ x # j /\ r * L + x = d - 1
    BY <1>2, <1>4, <1>5
  <2>4. (d - 1) % L = x
    <3> HIDE DEF x
    <3>1. (r * L + x) % L = x
      BY <1>1, <1>2, <2>3, TotalIs, Zenon
    <3> QED BY <2>3, <3>1
  <2> HIDE DEF x
  <2>5. Entry(d - 1).to = <<"row", x>>
    BY <2>4, EntryIs
  <2> QED BY <2>2, <2>3, <2>5
<1>10. Untouched(p, b)
  BY <1>9 DEF Untouched
<1> HIDE DEF p
<1>11. Whole(p, <<j, r>>)
  BY <1>5, <1>8, <1>10 DEF SamplingInv, DoneInv
<1> QED BY <1>11 DEF p

LEMMA GetRowStep == SamplingInv /\ GetRow => SamplingInv'
<1> SUFFICES ASSUME SamplingInv, GetRow PROVE SamplingInv'
  OBVIOUS
<1> DEFINE r == Len(rows)
           new == [j \in 0 .. L - 1 |-> poly[<<IF reduceRam THEN "row" ELSE r, j>>]]
           T == {rows[x] : x \in 1 .. r} \cup {new}
<1>1. /\ job = "matrix" /\ r < K /\ rows' = Append(rows, new)
      /\ batch = 1 + IF reduceRam THEN (r + 1) * L ELSE Len(calls)
      /\ UNCHANGED <<config, batch, blocks, ctr, poly>>
      /\ ConfigInv /\ r \in Nat /\ rows = [x \in 1 .. r |-> rows[x]] /\ Len(calls) \in Nat
  BY Schedules DEF SamplingInv, GetRow, RowsInv, Scheduled
<1>2. UNCHANGED <<set, serial, reduceRam, job, calls, rejected>>
      /\ L' = L /\ K' = K /\ Places' = Places /\ ConfigInv'
  BY <1>1, ConfigStep, ConfigKept DEF config
<1>3. ASSUME NEW j \in 0 .. L - 1
      PROVE  new[j] = [k \in 1 .. Coefficients |-> Exact(<<j, r>>, k)]
  <2>1. CASE reduceRam
    <3>1. batch = 1 + (r + 1) * L
      BY <1>1, <2>1
    <3>2. Whole(<<"row", j>>, <<j, r>>)
      BY <1>1, <2>1, <3>1, RowDone
    <3>3. new[j] = poly[<<"row", j>>]
      BY <2>1
    <3> QED BY <3>2, <3>3 DEF Whole
  <2>2. CASE ~reduceRam
    <3>1. batch = Len(calls) + 1
      BY <1>1, <2>2
    <3>2. K \in Nat
      BY <1>1, TotalIs
    <3>3. r \in 0 .. K - 1
      BY <1>1, <3>2
    <3>4. <<r, j>> \in Places
      BY <1>1, <2>2, <3>3 DEF Places
    <3>5. Whole(<<r, j>>, NonceOf(<<r, j>>))
      BY <2>2, <3>1, <3>4, AllDone
    <3>6. NonceOf(<<r, j>>) = <<j, r>>
      BY <1>1 DEF NonceOf
    <3>7. new[j] = poly[<<r, j>>]
      BY <2>2
    <3> QED BY <3>5, <3>6, <3>7 DEF Whole
  <2> QED BY <2>1, <2>2
<1> HIDE DEF new
<1>4. rows \in Seq(T) /\ new \in T
  <2>1. \A x \in 1 .. r : rows[x] \in T
    OBVIOUS
  <2>2. new \in T
    OBVIOUS
  <2> HIDE DEF T
  <2>3. rows \in [1 .. r -> T]
    BY <1>1, <2>1
  <2> QED BY <1>1, <2>2, <2>3
<1> HIDE DEF T
<1>5. /\ rows' \in Seq(T) /\ Len(rows') = r + 1
      /\ \A x \in 1 .. r + 1 : rows'[x] = IF x =< r THEN rows[x] ELSE new
  <2>1. Append(rows, new) \in Seq(T) /\ Len(Append(rows, new)) = Len(rows) + 1
    BY <1>4
  <2>2. \A x \in 1 .. Len(rows) + 1 :
          Append(rows, new)[x] = IF x =< Len(rows) THEN rows[x] ELSE new
    BY <1>4
  <2> QED BY <1>1, <2>1, <2>2
<1>6. RowsInv'
  <2>1. Len(rows)' \in Nat /\ (rows = [x \in 1 .. Len(rows) |-> rows[x]])'
    <3>1. rows' \in Seq(T) /\ Len(rows') \in Nat
      BY <1>1, <1>5
    <3> QED BY <3>1
  <2>2. ASSUME NEW x \in 1 .. r + 1, NEW j \in 0 .. L - 1
        PROVE  rows'[x][j] = [k \in 1 .. Coefficients |-> Exact(<<j, x - 1>>, k)]'
    <3>1. [k \in 1 .. Coefficients |-> Exact(<<j, x - 1>>, k)]'
            = [k \in 1 .. Coefficients |-> Exact(<<j, x - 1>>, k)]
      BY <1>1, SameExact
    <3>2. CASE x =< r
      <4>1. x \in 1 .. r
        BY <1>1, <3>2
      <4>2. rows[x][j] = [k \in 1 .. Coefficients |-> Exact(<<j, x - 1>>, k)]
        BY <4>1 DEF SamplingInv, RowsInv
      <4> QED BY <1>5, <3>1, <3>2, <4>2
    <3>3. CASE ~ (x =< r)
      <4>1. x - 1 = r /\ rows'[x] = new
        BY <1>1, <1>5, <3>3
      <4> QED BY <1>3, <3>1, <4>1
    <3> QED BY <3>2, <3>3
  <2> QED BY <1>2, <1>5, <2>1, <2>2 DEF RowsInv
<1>7. RowLimit'
  <2>1. job = "matrix" /\ reduceRam => batch =< (r + 1) * L + 1 /\ (blocks > 0 => batch =< (r + 1) * L)
    BY DEF SamplingInv, RowLimit
  <2>2. L \in Nat
    BY <1>1, TotalIs
  <2>3. \A u, v \in Nat : (u + 1) * v \in Nat /\ (u + 1 + 1) * v = (u + 1) * v + v
    OBVIOUS
  <2>4. (r + 1) * L \in Nat /\ (r + 1 + 1) * L = (r + 1) * L + L
    BY <1>1, <2>2, <2>3
  <2>5. batch \in Int
    BY Schedules DEF SamplingInv, BatchInv, Scheduled
  <2> DEFINE a == (r + 1) * L
             b == (r + 1 + 1) * L
  <2>6. a \in Nat /\ b = a + L /\ (job = "matrix" /\ reduceRam => batch =< a + 1 /\ (blocks > 0 => batch =< a))
    BY <2>1, <2>4
  <2> HIDE DEF a, b
  <2>7. job = "matrix" /\ reduceRam => batch =< b + 1 /\ (blocks > 0 => batch =< b)
    BY <2>2, <2>5, <2>6
  <2> QED BY <1>1, <1>2, <1>5, <2>7 DEF RowLimit, b
<1>8. BatchInv' /\ LanesInv' /\ PolyInv' /\ DoneInv'
  <2>1. \A n, k : Exact(n, k)' = Exact(n, k) /\ Count(n, k)' = Count(n, k)
    BY <1>1, ConfigKept
  <2>2. BatchInv' /\ PolyInv'
    BY <1>1, <1>2 DEF SamplingInv, BatchInv, PolyInv, FullLength
  <2>3. LanesInv'
    BY <1>1, <1>2, <2>1 DEF SamplingInv, LanesInv, LanesHold, Holds
  <2>4. \A p, n : Whole(p, n)' = Whole(p, n)
    BY <1>1, SameExact DEF Whole
  <2>5. \A p, b : Untouched(p, b)' = Untouched(p, b)
    BY <1>1, <1>2 DEF Untouched, Begun
  <2>6. DoneInv'
    BY <1>1, <1>2, <2>4, <2>5 DEF SamplingInv, DoneInv
  <2> QED BY <2>2, <2>3, <2>6
<1> QED BY <1>2, <1>6, <1>7, <1>8 DEF SamplingInv

LEMMA SamplingInitInv == SamplingInit => SamplingInv
<1> SUFFICES ASSUME SamplingInit PROVE SamplingInv
  OBVIOUS
<1>1. /\ set \in {44, 65, 87} /\ serial \in BOOLEAN /\ reduceRam \in BOOLEAN
      /\ job \in {"matrix", "secrets", "y"} /\ (job # "matrix" => ~reduceRam)
      /\ calls = Calls /\ batch = 1 /\ blocks = 0 /\ ctr = [l \in FourLanes |-> 0]
      /\ poly = [p \in Places |-> NoPolynomial] /\ rows = <<>>
  BY SamplingAssumption DEF SamplingInit
\* The candidates rejected are within the horizons.
<1>2. ASSUME NEW n, NEW x, Rejected(n, x)
      PROVE  x \in 1 .. SlowHorizon \/ x \in 1 .. LongHorizon
  <2>1. n \in DOMAIN rejected /\ x \in rejected[n]
    BY <1>2 DEF Rejected
  <2>2. job # "y"
    <3>1. DOMAIN <<>> = {}
      OBVIOUS
    <3> QED BY <2>1, <3>1 DEF SamplingInit
  <2>3. PICK b \in DOMAIN calls : rejected \in SlowStreams(calls[b])
    BY <2>2 DEF SamplingInit
  <2>4. \E S : \/ rejected \in [S -> (SUBSET (1 .. SlowHorizon)) \ {{}}]
               \/ rejected \in [S -> (SUBSET (1 .. LongHorizon)) \ {{}}]
    <3> DEFINE call == calls[b]
               nonces == {call[l].nonce : l \in DOMAIN call}
               M == {y \in SUBSET nonces : Cardinality(y) =< MaxSlow}
               X == (SUBSET (1 .. SlowHorizon)) \ {{}}
               Y == (SUBSET (1 .. LongHorizon)) \ {{}}
               A == UNION {[S -> X] : S \in M}
               B == UNION {[{m} -> Y] : m \in nonces}
    <3>1. rejected \in A \cup B
      BY <2>3, Zenon DEF SlowStreams
    <3>2. CASE rejected \in A
      BY <3>2, Zenon
    <3>3. CASE rejected \in B
      BY <3>3, Zenon
    <3> HIDE DEF A, B
    <3> QED BY <3>1, <3>2, <3>3
  <2> QED BY <2>1, <2>4
<1>3. RejectionsEnd
  <2> SUFFICES ASSUME NEW n, NEW x \in Nat, x > SlowHorizon + LongHorizon, Rejected(n, x)
               PROVE  FALSE
    BY DEF RejectionsEnd
  <2> QED BY <1>2, SizesAre
<1>4. ConfigInv
  BY <1>1, <1>3 DEF ConfigInv, SamplingInit
<1>5. Scheduled /\ Len(calls) \in Nat
  BY <1>4, Schedules DEF Scheduled
<1>6. BatchInv
  BY <1>1, <1>5 DEF BatchInv
<1>7. PolyInv
  BY <1>1 DEF PolyInv, FullLength, NoPolynomial
<1>8. LanesInv
  <2> SUFFICES ASSUME 1 =< Len(calls), NEW l \in DOMAIN calls[1] PROVE Holds(l)
    BY <1>1 DEF LanesInv, LanesHold
  <2>1. 1 \in 1 .. Len(calls)
    BY <1>5
  <2>2. l \in FourLanes
    BY <1>5, <2>1 DEF Scheduled
  <2>3. ctr[l] = 0
    BY <1>1, <2>2
  <2>4. blocks * PerBlock = 0
    BY <1>1, SizesAre
  <2>5. \A n : Lower(Coefficients, Count(n, 0)) = 0
    BY CountZero, SizesAre DEF Lower
  <2> QED BY <1>1, <2>3, <2>4, <2>5 DEF Holds
<1>9. DoneInv
  BY <1>1 DEF DoneInv
<1>10. RowLimit
  <2>1. Len(rows) = 0 /\ L \in Nat
    BY <1>1, <1>4, TotalIs
  <2> QED BY <1>1, <2>1 DEF RowLimit
<1>11. RowsInv
  BY <1>1 DEF RowsInv
<1> QED BY <1>4, <1>6, <1>7, <1>8, <1>9, <1>10, <1>11 DEF SamplingInv

LEMMA SamplingStutter == SamplingInv /\ UNCHANGED samplingVars => SamplingInv'
<1> SUFFICES ASSUME SamplingInv, UNCHANGED samplingVars PROVE SamplingInv'
  OBVIOUS
<1>1. UNCHANGED <<config, set, serial, reduceRam, job, calls, rejected, batch, blocks, ctr,
                  poly, rows>>
  BY DEF samplingVars, config
<1>2. ConfigInv' /\ L' = L /\ K' = K /\ Places' = Places
      /\ \A n, k : Exact(n, k)' = Exact(n, k) /\ Count(n, k)' = Count(n, k)
  BY <1>1, ConfigStep, ConfigKept DEF SamplingInv
<1>3. BatchInv' /\ PolyInv' /\ RowLimit'
  BY <1>1, <1>2 DEF SamplingInv, BatchInv, PolyInv, FullLength, RowLimit
<1>4. LanesInv'
  BY <1>1, <1>2 DEF SamplingInv, LanesInv, LanesHold, Holds
<1>5. DoneInv'
  <2>1. \A p, n : Whole(p, n)' = Whole(p, n)
    BY <1>1, SameExact DEF Whole
  <2>2. \A p, b : Untouched(p, b)' = Untouched(p, b)
    BY <1>1 DEF Untouched, Begun
  <2> QED BY <1>1, <2>1, <2>2 DEF SamplingInv, DoneInv
<1>6. RowsInv'
  <2>1. ASSUME NEW r \in 1 .. Len(rows), NEW j \in 0 .. L - 1
        PROVE  rows[r][j] = [k \in 1 .. Coefficients |-> Exact(<<j, r - 1>>, k)]'
    BY <1>1, SameExact DEF SamplingInv, RowsInv
  <2> QED BY <1>1, <1>2, <2>1 DEF SamplingInv, RowsInv
<1> QED BY <1>2, <1>3, <1>4, <1>5, <1>6 DEF SamplingInv

LEMMA SamplingInvImplies == SamplingInv => SampledAsSpecified
<1> SUFFICES ASSUME SamplingInv PROVE SampledAsSpecified
  OBVIOUS
<1>1. ConfigInv /\ batch \in 1 .. Len(calls) + 1 /\ Len(calls) \in Nat
  BY Schedules DEF SamplingInv, BatchInv, Scheduled
<1>2. CASE job = "matrix"
  <2> SUFFICES ASSUME NEW r \in 1 .. Len(rows), NEW j \in 0 .. L - 1
               PROVE  rows[r][j] = Polynomial(NonceOf(<<r - 1, j>>))
    BY <1>2 DEF SampledAsSpecified
  <2>1. NonceOf(<<r - 1, j>>) = <<j, r - 1>>
    BY <1>2 DEF NonceOf
  <2>2. Hashable(<<j, r - 1>>)
    BY <1>2 DEF Hashable
  <2>3. Polynomial(<<j, r - 1>>) = [k \in 1 .. Coefficients |-> Exact(<<j, r - 1>>, k)]
    BY <1>1, <2>2, PolynomialIs
  <2>4. rows[r][j] = [k \in 1 .. Coefficients |-> Exact(<<j, r - 1>>, k)]
    BY DEF SamplingInv, RowsInv
  <2> QED BY <2>1, <2>3, <2>4
<1>3. CASE job # "matrix"
  <2> SUFFICES ASSUME batch > Len(calls), NEW p \in Places
               PROVE  poly[p] = Polynomial(NonceOf(p))
    BY <1>3 DEF SampledAsSpecified
  <2>1. ~reduceRam /\ batch = Len(calls) + 1
    BY <1>1, <1>3 DEF ConfigInv
  <2>2. Whole(p, NonceOf(p))
    BY <2>1, AllDone
  <2>3. Hashable(NonceOf(p))
    <3>1. ASSUME job = "secrets" PROVE NonceOf(p) \in Nat
      <4>1. L \in Nat
        BY <1>1, TotalIs
      <4>2. p[2] \in Nat
        BY <1>1, <3>1, PlacesAre
      <4> QED BY <3>1, <4>1, <4>2 DEF NonceOf
    <3> QED BY <3>1 DEF Hashable
  <2>4. Polynomial(NonceOf(p)) = [k \in 1 .. Coefficients |-> Exact(NonceOf(p), k)]
    BY <1>1, <2>3, PolynomialIs
  <2> QED BY <2>2, <2>4 DEF Whole
<1> QED BY <1>2, <1>3

\* In every parameter set and configuration, for any numbers of coefficients,
\* of blocks and of candidates in them, and whatever is rejected up to the
\* bounds on rejections: each polynomial of the matrix, of the secrets and of
\* the mask is the one of its own nonce, whichever lanes, blocks, buffers or
\* kernels it went through.
THEOREM SamplingExact == SamplingSpec => []SampledAsSpecified
<1>1. SamplingInv /\ [SamplingNext]_samplingVars => SamplingInv'
  BY FirstBlocksStep, FirstBlocksNativeStep, UnpackMaskStep, NextBlockStep, EndCallStep,
     GetRowStep, SamplingStutter DEF SamplingNext
<1> QED
  BY <1>1, SamplingInitInv, SamplingInvImplies, PTL DEF SamplingSpec

-----------------------------------------------------------------------------
(* Words.                                                                  *)

Words == SUBSET (0 .. 255)

LEMMA XorAssociates ==
  ASSUME NEW a, NEW b, NEW rc
  PROVE  (a \oplus b) \oplus rc = a \oplus (b \oplus rc)
BY DEF \oplus

LEMMA XorWord ==
  ASSUME NEW a \in Words, NEW b \in Words
  PROVE  a \oplus b \in Words
BY DEF \oplus, Words

LEMMA RolWord ==
  ASSUME NEW a \in Words, NEW n \in Nat
  PROVE  Rol(a, n) \in Words
<1>1. ASSUME NEW b \in 0 .. 255 PROVE 64 * (b \div 64) + ((b + n) % 64) \in 0 .. 255
  <2>1. b \div 64 \in 0 .. 3
    OBVIOUS
  <2>2. (b + n) % 64 \in 0 .. 63
    OBVIOUS
  <2> QED BY <2>1, <2>2
<1> QED BY <1>1 DEF Rol, Words

LEMMA QuotientRemainder ==
  ASSUME NEW x \in Nat, NEW p \in {5, 8, 64}
  PROVE  x \div p \in Nat /\ x % p \in 0 .. p - 1 /\ x = p * (x \div p) + (x % p)
<1>1. x \in Int /\ p \in Nat \ {0}
  OBVIOUS
<1>2. x \div p \in Int /\ 0 =< x \div p
  BY <1>1
<1>3. x % p \in Int /\ 0 =< x % p /\ x % p < p
  BY <1>1
<1>4. x % p = x - p * (x \div p)
  BY <1>1
<1> DEFINE q == x \div p
           y == x % p
<1>5. q \in Nat /\ y \in 0 .. p - 1 /\ y = x - p * q
  BY <1>2, <1>3, <1>4
<1> HIDE DEF q, y
<1>6. p * q \in Int
  BY <1>5
<1>7. x = p * q + y
  BY <1>1, <1>5, <1>6
<1> QED BY <1>5, <1>7 DEF q, y

LEMMA RolByNone ==
  ASSUME NEW a \in Words
  PROVE  Rol(a, 0) = a
<1>1. ASSUME NEW b \in 0 .. 255 PROVE 64 * (b \div 64) + ((b + 0) % 64) = b
  <2> DEFINE g(rc) == 64 * (b \div 64) + (rc % 64)
  <2>1. b + 0 = b
    OBVIOUS
  <2>2. g(b) = b
    BY QuotientRemainder
  <2> HIDE DEF g
  <2>3. g(b + 0) = b
    BY <2>1, <2>2
  <2> QED BY <2>3 DEF g
<1> DEFINE Target(b) == 64 * (b \div 64) + ((b + 0) % 64)
<1>2. Rol(a, 0) = {Target(b) : b \in a}
  BY DEF Rol
<1>3. \A b \in a : Target(b) = b
  BY <1>1 DEF Words
<1> HIDE DEF Target
<1> QED BY <1>2, <1>3

\* The state, the byte of the lane and the bit of a byte that a bit is.
LEMMA BitOfByte ==
  ASSUME NEW b \in 0 .. 255
  PROVE  \E k \in 0 .. 3, m \in 0 .. 7, z \in 0 .. 7 : b = 64 * k + 8 * m + z
<1>1. PICK k \in 0 .. 3, w \in 0 .. 63 : b = 64 * k + w
  <2>1. b \div 64 \in Nat /\ b % 64 \in 0 .. 63 /\ b = 64 * (b \div 64) + (b % 64)
    BY QuotientRemainder
  <2> QED BY <2>1
<1>2. PICK m \in 0 .. 7, z \in 0 .. 7 : w = 8 * m + z
  <2>1. w \div 8 \in Nat /\ w % 8 \in 0 .. 7 /\ w = 8 * (w \div 8) + (w % 8)
    BY QuotientRemainder
  <2> QED BY <2>1
<1> QED BY <1>1, <1>2

\* A shuffle of bytes is a rotation by as many bits.
LEMMA ShuffleIsRol ==
  ASSUME NEW a \in Words, NEW n \in {8, 56},
         NEW from, from = IF n = 8 THEN rho8 ELSE rho56
  PROVE  Shuffle(a, from) = Rol(a, n)
<1> DEFINE Source(b) == 64 * (b \div 64) + 8 * from[((b % 64) \div 8) + 1] + (b % 8)
           Target(b) == 64 * (b \div 64) + ((b + n) % 64)
<1>1. ASSUME NEW b \in 0 .. 255
      PROVE  /\ Source(b) \in 0 .. 255 /\ Target(Source(b)) = b
  <2>1. PICK k \in 0 .. 3, m \in 0 .. 7, z \in 0 .. 7 : b = 64 * k + 8 * m + z
    BY BitOfByte
  <2>2. b \div 64 = k /\ b % 64 = 8 * m + z /\ (b % 64) \div 8 = m /\ b % 8 = z
    BY <2>1
  <2>3. from[m + 1] = IF n = 8 THEN (IF m = 0 THEN 7 ELSE m - 1)
                               ELSE (IF m = 7 THEN 0 ELSE m + 1)
    BY DEF rho8, rho56
  <2>4. from[m + 1] \in 0 .. 7
    BY <2>3
  <2>5. Source(b) = 64 * k + 8 * from[m + 1] + z
    BY <2>2
  <2> DEFINE w == 8 * from[m + 1] + z
  <2>6. w \in 0 .. 63 /\ Source(b) = 64 * k + w
    BY <2>4, <2>5
  <2>7. (w + n) % 64 = 8 * m + z
    BY <2>3
  <2> HIDE DEF w, Source
  <2>8. Source(b) \div 64 = k /\ (Source(b) + n) % 64 = (w + n) % 64 /\ Source(b) \in 0 .. 255
    BY <2>6
  <2> QED BY <2>1, <2>7, <2>8
<1>2. ASSUME NEW b \in 0 .. 255
      PROVE  /\ Target(b) \in 0 .. 255 /\ Source(Target(b)) = b
  <2>1. PICK k \in 0 .. 3, m \in 0 .. 7, z \in 0 .. 7 : b = 64 * k + 8 * m + z
    BY BitOfByte
  <2> DEFINE l == IF n = 8 THEN (IF m = 7 THEN 0 ELSE m + 1) ELSE (IF m = 0 THEN 7 ELSE m - 1)
  <2>2. l \in 0 .. 7
    OBVIOUS
  <2>3. Target(b) = 64 * k + 8 * l + z
    <3>1. b \div 64 = k
      BY <2>1
    <3>2. (b + n) % 64 = 8 * l + z
      BY <2>1
    <3> QED BY <3>1, <3>2
  <2>4. from[l + 1] = m
    BY DEF rho8, rho56
  <2> HIDE DEF l, Target
  <2>5. /\ Target(b) \div 64 = k /\ (Target(b) % 64) \div 8 = l /\ Target(b) % 8 = z
        /\ Target(b) \in 0 .. 255
    BY <2>2, <2>3
  <2> QED BY <2>1, <2>4, <2>5
<1>3. Shuffle(a, from) = {b \in 0 .. 255 : Source(b) \in a}
  BY DEF Shuffle
<1>4. Rol(a, n) = {Target(b) : b \in a}
  BY DEF Rol
<1>5. a \subseteq 0 .. 255
  BY DEF Words
<1> HIDE DEF Source, Target
<1>6. ASSUME NEW b \in Shuffle(a, from) PROVE b \in Rol(a, n)
  <2>1. b \in 0 .. 255 /\ Source(b) \in a
    BY <1>3
  <2>2. Target(Source(b)) = b
    BY <2>1, <1>1
  <2> QED BY <2>1, <2>2, <1>4
<1>7. ASSUME NEW b \in Rol(a, n) PROVE b \in Shuffle(a, from)
  <2>1. PICK y \in a : b = Target(y)
    BY <1>4
  <2>2. y \in 0 .. 255
    BY <1>5
  <2> QED BY <2>1, <2>2, <1>2, <1>3
<1> QED BY <1>6, <1>7

-----------------------------------------------------------------------------
(* Recursion over an interval of numbers.                                  *)

\* g starts at start and takes m steps.
Iterates(g, X, move, start, m) ==
  /\ g \in [0 .. m -> X] /\ g[0] = start
  /\ \A t \in 1 .. m : g[t] = move[g[t - 1]]

LEMMA Iterated ==
  ASSUME NEW X, NEW move \in [X -> X], NEW start \in X, NEW m \in Nat
  PROVE  \E g : Iterates(g, X, move, start, m)
<1> DEFINE Upto(g, n) == g[0] = start /\ \A t \in 1 .. n : g[t] = move[g[t - 1]]
           S == {n \in Nat : \E g \in [0 .. n -> X] : Upto(g, n)}
<1>1. 0 \in S
  <2> DEFINE g == [t \in 0 .. 0 |-> start]
  <2>1. g \in [0 .. 0 -> X] /\ Upto(g, 0)
    OBVIOUS
  <2> QED BY <2>1
<1>2. ASSUME NEW n \in Nat, n \in S PROVE n + 1 \in S
  <2>1. PICK g \in [0 .. n -> X] : Upto(g, n)
    BY <1>2
  <2> DEFINE h == [t \in 0 .. n + 1 |-> IF t = n + 1 THEN move[g[n]] ELSE g[t]]
  <2>2. h \in [0 .. n + 1 -> X]
    BY <2>1
  <2>3. ASSUME NEW t \in 1 .. n + 1 PROVE h[t] = move[h[t - 1]]
    <3>1. h[t - 1] = g[t - 1]
      OBVIOUS
    <3>2. CASE t = n + 1
      BY <3>1, <3>2
    <3>3. CASE t # n + 1
      <4>1. t \in 1 .. n /\ h[t] = g[t]
        BY <3>3
      <4> QED BY <2>1, <3>1, <4>1
    <3> QED BY <3>2, <3>3
  <2>4. h[0] = start
    BY <2>1
  <2> HIDE DEF h
  <2>5. Upto(h, n + 1)
    BY <2>3, <2>4
  <2> QED BY <2>2, <2>5
<1> HIDE DEF S
<1>3. m \in S
  BY <1>1, <1>2, NumbersByInduction
<1> QED BY <1>3 DEF S, Iterates

LEMMA SubsetsOfInterval ==
  ASSUME NEW n \in Nat
  PROVE  IsFiniteSet(SUBSET (1 .. n)) /\ Cardinality(SUBSET (1 .. n)) = 2 ^ n
<1>1. IsFiniteSet(1 .. n) /\ Cardinality(1 .. n) = IF 1 > n THEN 0 ELSE n - 1 + 1
  BY FS_Interval
<1>2. Cardinality(1 .. n) = n
  BY <1>1
<1>3. Cardinality(SUBSET (1 .. n)) = 2 ^ Cardinality(1 .. n)
  BY <1>1, FS_SUBSET
<1>4. IsFiniteSet(SUBSET (1 .. n))
  BY <1>1, FS_SUBSET
<1> QED BY <1>2, <1>3, <1>4

LEMMA PowerType ==
  ASSUME NEW n \in Nat
  PROVE  2 ^ n \in Nat \ {0}
<1> DEFINE S == SUBSET (1 .. n)
<1>1. IsFiniteSet(S) /\ Cardinality(S) = 2 ^ n
  BY SubsetsOfInterval
<1>2. S # {}
  OBVIOUS
<1> HIDE DEF S
<1>3. Cardinality(S) \in Nat
  BY <1>1, FS_CardinalityType
<1>4. Cardinality(S) # 0
  BY <1>1, <1>2, FS_EmptySet
<1> QED BY <1>1, <1>3, <1>4

\* Half of the subsets of a set with one more element have it.
LEMMA SubsetsWith ==
  ASSUME NEW A, NEW e, e \notin A
  PROVE  /\ SUBSET (A \cup {e}) = (SUBSET A) \cup ((SUBSET (A \cup {e})) \ (SUBSET A))
         /\ ExistsBijection(SUBSET A, (SUBSET (A \cup {e})) \ (SUBSET A))
<1> DEFINE S == SUBSET A
           T == (SUBSET (A \cup {e})) \ (SUBSET A)
           With(x) == x \cup {e}
           g == [x \in S |-> With(x)]
<1>1. SUBSET (A \cup {e}) = S \cup T
  OBVIOUS
<1>2. \A x \in S : With(x) \in T
  OBVIOUS
<1>3. \A x \in S, y \in S : With(x) = With(y) => x = y
  OBVIOUS
<1>4. \A y \in T : \E x \in S : With(x) = y
  <2> SUFFICES ASSUME NEW y \in T PROVE \E x \in S : With(x) = y
    OBVIOUS
  <2>1. e \in y
    OBVIOUS
  <2>2. y \ {e} \in S /\ With(y \ {e}) = y
    BY <2>1
  <2> QED BY <2>2
<1>5. g \in [S -> T]
  BY <1>2
<1>6. \A x \in S : g[x] = With(x)
  OBVIOUS
<1> HIDE DEF g, With, S, T
<1>7. g \in Injection(S, T)
  BY <1>3, <1>5, <1>6 DEF Injection, IsInjective
<1>8. g \in Surjection(S, T)
  BY <1>4, <1>5, <1>6 DEF Surjection
<1>9. ExistsBijection(S, T)
  BY <1>7, <1>8 DEF ExistsBijection, Bijection
<1> QED BY <1>1, <1>9 DEF S, T

LEMMA PowerDoubles ==
  ASSUME NEW n \in Nat
  PROVE  2 ^ (n + 1) = 2 * 2 ^ n
<1> DEFINE S == SUBSET (1 .. n)
           T == (SUBSET (1 .. n + 1)) \ (SUBSET (1 .. n))
<1>1. IsFiniteSet(S) /\ Cardinality(S) = 2 ^ n
  BY SubsetsOfInterval
<1>2. IsFiniteSet(SUBSET (1 .. n + 1)) /\ Cardinality(SUBSET (1 .. n + 1)) = 2 ^ (n + 1)
  BY SubsetsOfInterval
<1>3. 1 .. n + 1 = (1 .. n) \cup {n + 1} /\ n + 1 \notin 1 .. n
  OBVIOUS
<1>4. SUBSET (1 .. n + 1) = S \cup T /\ ExistsBijection(S, T)
  BY <1>3, SubsetsWith, Zenon
<1>5. S \cap T = {}
  OBVIOUS
<1> HIDE DEF S, T
<1>6. IsFiniteSet(T) /\ Cardinality(T) = Cardinality(S)
  BY <1>1, <1>4, FS_Bijection
<1>7. Cardinality(S \cup T) = Cardinality(S) + Cardinality(T) - Cardinality(S \cap T)
  BY <1>1, <1>6, FS_Union
<1>8. Cardinality(S \cap T) = 0
  BY <1>5, FS_EmptySet
<1>9. 2 ^ n \in Nat
  BY PowerType
<1>10. 2 ^ (n + 1) = 2 ^ n + 2 ^ n - 0
  BY <1>1, <1>2, <1>4, <1>6, <1>7, <1>8
<1> QED BY <1>9, <1>10

LEMMA SmallPowers ==
  /\ 2 ^ 0 = 1 /\ 2 ^ 1 = 2 /\ 2 ^ 2 = 4 /\ 2 ^ 3 = 8 /\ 2 ^ 4 = 16 /\ 2 ^ 5 = 32 /\ 2 ^ 6 = 64
<1> DEFINE p(n) == 2 ^ n
<1>1. \A n \in Nat : p(n) \in Nat /\ p(n + 1) = 2 * p(n)
  BY PowerDoubles, PowerType
<1>2. p(0) = 1
  <2>1. Cardinality(SUBSET (1 .. 0)) = p(0)
    BY SubsetsOfInterval
  <2>2. SUBSET (1 .. 0) = {{}}
    OBVIOUS
  <2> QED BY <2>1, <2>2, FS_Singleton
<1> HIDE DEF p
<1>3. /\ p(0 + 1) = 2 * p(0) /\ p(1 + 1) = 2 * p(1) /\ p(2 + 1) = 2 * p(2)
      /\ p(3 + 1) = 2 * p(3) /\ p(4 + 1) = 2 * p(4) /\ p(5 + 1) = 2 * p(5)
  BY <1>1, SMT
<1>4. p(1) = 2 /\ p(2) = 4 /\ p(3) = 8 /\ p(4) = 16 /\ p(5) = 32 /\ p(6) = 64
  BY <1>2, <1>3, SMT
<1> QED BY <1>2, <1>4, SMT DEF p

-----------------------------------------------------------------------------
(* The constants of the rounds.                                            *)

\* The shift register moves on, and what falls out is fed back.
Feedback == {0, 4, 5, 6}
Clocked(r) ==
  LET R == {b + 1 : b \in r} IN (IF 8 \in R THEN R \oplus Feedback ELSE R) \ {8}

LEMMA ClockedIs ==
  ASSUME NEW r \in SUBSET (0 .. 7)
  PROVE  /\ Clocked(r) \in SUBSET (0 .. 7)
         /\ \A j \in 0 .. 7 :
              j \in Clocked(r) <=> \/ j \in 1 .. 7 \ Feedback /\ j - 1 \in r
                                   \/ j = 0 /\ 7 \in r
                                   \/ j \in {4, 5, 6} /\ ~ (j - 1 \in r <=> 7 \in r)
<1> DEFINE R == {b + 1 : b \in r}
<1>1. R \subseteq 1 .. 8 /\ \A j \in 0 .. 8 : j \in R <=> j >= 1 /\ j - 1 \in r
  OBVIOUS
<1>2. 8 \in R <=> 7 \in r
  BY <1>1
<1> HIDE DEF R
<1>3. Clocked(r) = (IF 8 \in R THEN R \oplus Feedback ELSE R) \ {8}
  BY DEF Clocked, R
<1>4. ASSUME NEW j \in 0 .. 7
      PROVE  j \in Clocked(r) <=> IF 7 \in r THEN ~ (j \in R <=> j \in Feedback) ELSE j \in R
  BY <1>2, <1>3 DEF \oplus
<1>5. Clocked(r) \subseteq 0 .. 7
  BY <1>1, <1>3 DEF \oplus, Feedback
<1> QED BY <1>1, <1>4, <1>5 DEF Feedback

LEMMA RegisterIs ==
  /\ Register[0] = {0}
  /\ \A t \in 1 .. 254 : Register[t] = Clocked(Register[t - 1])
  /\ \A t \in 0 .. 254 : Register[t] \in SUBSET (0 .. 7)
<1> DEFINE Is(g) == g = [t \in 0 .. 254 |-> IF t = 0 THEN {0} ELSE Clocked(g[t - 1])]
           X == SUBSET (0 .. 7)
           move == [r \in X |-> Clocked(r)]
<1>1. \E g : Is(g)
  <2>1. move \in [X -> X]
    BY ClockedIs
  <2>2. {0} \in X /\ 254 \in Nat
    OBVIOUS
  <2> HIDE DEF move, X
  <2>3. \E g : Iterates(g, X, move, {0}, 254)
    BY <2>1, <2>2, Iterated
  <2>4. PICK g \in [0 .. 254 -> X] :
          g[0] = {0} /\ \A t \in 1 .. 254 : g[t] = move[g[t - 1]]
    BY <2>3 DEF Iterates
  <2>5. ASSUME NEW t \in 0 .. 254 PROVE g[t] = IF t = 0 THEN {0} ELSE Clocked(g[t - 1])
    <3>1. CASE t = 0
      BY <2>4, <3>1
    <3>2. CASE t # 0
      <4>1. t \in 1 .. 254 /\ t - 1 \in 0 .. 254
        BY <3>2
      <4>2. g[t - 1] \in X
        BY <2>4, <4>1
      <4> QED BY <2>4, <4>1, <4>2 DEF move
    <3> QED BY <3>1, <3>2
  <2>6. g = [t \in 0 .. 254 |-> IF t = 0 THEN {0} ELSE Clocked(g[t - 1])]
    BY <2>4, <2>5
  <2> QED BY <2>6
<1>2. Register = CHOOSE g : Is(g)
  BY Zenon DEF Register, Clocked, Feedback
<1> HIDE DEF Is
<1>3. Is(Register)
  BY <1>1, <1>2, Zenon
<1> USE DEF Is
<1>4. Register[0] = {0}
  BY <1>3
<1>5. ASSUME NEW t \in 1 .. 254 PROVE Register[t] = Clocked(Register[t - 1])
  <2>1. t \in 0 .. 254 /\ t # 0
    OBVIOUS
  <2> QED BY <1>3, <2>1
<1> DEFINE S == {n \in Nat : n =< 254 => Register[n] \in SUBSET (0 .. 7)}
<1>6. 0 \in S
  BY <1>4
<1>7. ASSUME NEW n \in Nat, n \in S PROVE n + 1 \in S
  <2>1. CASE n + 1 =< 254
    <3>1. Register[n + 1] = Clocked(Register[n])
      BY <1>5, <2>1
    <3>2. Register[n] \in SUBSET (0 .. 7)
      BY <1>7, <2>1
    <3> QED BY <3>1, <3>2, ClockedIs
  <2> QED BY <2>1
<1>8. \A n \in Nat : n \in S
  <2> HIDE DEF S
  <2> QED BY <1>6, <1>7, NumbersByInduction
<1> QED BY <1>4, <1>5, <1>8

Either(a, b) == ~ (a <=> b)

\* The register seven steps later.
Later(r) ==
  {j \in 0 .. 7 :
     \/ j = 0 /\ Either(1 \in r, Either(3 \in r, 4 \in r))
     \/ j = 1 /\ Either(2 \in r, Either(4 \in r, 5 \in r))
     \/ j = 2 /\ Either(3 \in r, Either(5 \in r, 6 \in r))
     \/ j = 3 /\ Either(4 \in r, Either(6 \in r, 7 \in r))
     \/ j = 4 /\ Either(1 \in r, Either(3 \in r, Either(4 \in r, Either(5 \in r, 7 \in r))))
     \/ j = 5 /\ Either(1 \in r, Either(2 \in r, Either(3 \in r, Either(5 \in r, 6 \in r))))
     \/ j = 6 /\ Either(1 \in r, Either(2 \in r, Either(6 \in r, 7 \in r)))
     \/ j = 7 /\ Either(0 \in r, Either(2 \in r, Either(3 \in r, 7 \in r)))}

\* What the register gives and holds in the seven steps of a round.
LEMMA SevenSteps ==
  ASSUME NEW t \in 0 .. 247, NEW r, r = Register[t]
  PROVE  /\ r \in SUBSET (0 .. 7)
         /\ 0 \in Register[t + 1] <=> 7 \in r
         /\ 0 \in Register[t + 2] <=> 6 \in r
         /\ 0 \in Register[t + 3] <=> Either(5 \in r, 7 \in r)
         /\ 0 \in Register[t + 4] <=> Either(4 \in r, Either(6 \in r, 7 \in r))
         /\ 0 \in Register[t + 5] <=> Either(3 \in r, Either(5 \in r, 6 \in r))
         /\ 0 \in Register[t + 6] <=> Either(2 \in r, Either(4 \in r, 5 \in r))
         /\ Register[t + 7] = Later(r)
<1> DEFINE Shifts(x, y) ==
             /\ 0 \in y <=> 7 \in x
             /\ 1 \in y <=> 0 \in x
             /\ 2 \in y <=> 1 \in x
             /\ 3 \in y <=> 2 \in x
             /\ 4 \in y <=> Either(3 \in x, 7 \in x)
             /\ 5 \in y <=> Either(4 \in x, 7 \in x)
             /\ 6 \in y <=> Either(5 \in x, 7 \in x)
             /\ 7 \in y <=> 6 \in x
<1>1. ASSUME NEW u \in 1 .. 254
      PROVE  Shifts(Register[u - 1], Register[u])
  <2>1. Register[u] = Clocked(Register[u - 1]) /\ Register[u - 1] \in SUBSET (0 .. 7)
    BY RegisterIs
  <2> QED BY <2>1, ClockedIs DEF Feedback, Either
<1>2. \A u \in 1 .. 7 : t + u \in 1 .. 254 /\ t + u - 1 = t + (u - 1)
  OBVIOUS
<1> HIDE DEF Shifts
<1>3. /\ Shifts(r, Register[t + 1]) /\ Shifts(Register[t + 1], Register[t + 2])
      /\ Shifts(Register[t + 2], Register[t + 3]) /\ Shifts(Register[t + 3], Register[t + 4])
      /\ Shifts(Register[t + 4], Register[t + 5]) /\ Shifts(Register[t + 5], Register[t + 6])
      /\ Shifts(Register[t + 6], Register[t + 7])
  <2>1. ASSUME NEW u \in 1 .. 7 PROVE Shifts(Register[t + (u - 1)], Register[t + u])
    <3>1. t + u \in 1 .. 254 /\ (t + u) - 1 = t + (u - 1)
      BY <1>2
    <3>2. Shifts(Register[(t + u) - 1], Register[t + u])
      BY <1>1, <3>1
    <3> QED BY <3>1, <3>2
  <2>2. t + 0 = t
    OBVIOUS
  <2> QED BY <2>1, <2>2
<1>4. r \in SUBSET (0 .. 7) /\ Register[t + 7] \in SUBSET (0 .. 7)
  BY RegisterIs
<1>5. Register[t + 7] = Later(r)
  BY <1>3, <1>4 DEF Shifts, Either, Later
<1> QED BY <1>3, <1>4, <1>5 DEF Shifts, Either

\* The registers before the rounds.
Registers ==
  << {0}, {7}, {3, 4, 6, 7}, {1, 3, 4},
     {0, 1, 2, 3, 4, 6, 7}, {0, 3}, {0, 2, 4, 5}, {0, 1, 2, 3, 6},
     {1, 3, 6, 7}, {4, 5, 6}, {0, 6}, {2, 3, 5, 6, 7},
     {0, 2, 4, 6, 7}, {0, 2, 3, 6, 7}, {0, 1, 5, 6}, {0, 1, 3, 5, 7},
     {1, 3, 5, 7}, {1, 3, 5}, {1, 4, 5, 6, 7}, {3, 5, 6, 7},
     {0, 1, 2, 4, 5}, {1, 2, 3, 4, 5}, {0, 1, 3}, {2, 6} >>

LEMMA RegistersFollow == \A l \in 1 .. 23 : Registers[l + 1] = Later(Registers[l])
<1>1. Registers[2] = Later(Registers[1])
  BY DEF Registers, Later, Either
<1>2. Registers[3] = Later(Registers[2])
  BY DEF Registers, Later, Either
<1>3. Registers[4] = Later(Registers[3])
  BY DEF Registers, Later, Either
<1>4. Registers[5] = Later(Registers[4])
  BY DEF Registers, Later, Either
<1>5. Registers[6] = Later(Registers[5])
  BY DEF Registers, Later, Either
<1>6. Registers[7] = Later(Registers[6])
  BY DEF Registers, Later, Either
<1>7. Registers[8] = Later(Registers[7])
  BY DEF Registers, Later, Either
<1>8. Registers[9] = Later(Registers[8])
  BY DEF Registers, Later, Either
<1>9. Registers[10] = Later(Registers[9])
  BY DEF Registers, Later, Either
<1>10. Registers[11] = Later(Registers[10])
  BY DEF Registers, Later, Either
<1>11. Registers[12] = Later(Registers[11])
  BY DEF Registers, Later, Either
<1>12. Registers[13] = Later(Registers[12])
  BY DEF Registers, Later, Either
<1>13. Registers[14] = Later(Registers[13])
  BY DEF Registers, Later, Either
<1>14. Registers[15] = Later(Registers[14])
  BY DEF Registers, Later, Either
<1>15. Registers[16] = Later(Registers[15])
  BY DEF Registers, Later, Either
<1>16. Registers[17] = Later(Registers[16])
  BY DEF Registers, Later, Either
<1>17. Registers[18] = Later(Registers[17])
  BY DEF Registers, Later, Either
<1>18. Registers[19] = Later(Registers[18])
  BY DEF Registers, Later, Either
<1>19. Registers[20] = Later(Registers[19])
  BY DEF Registers, Later, Either
<1>20. Registers[21] = Later(Registers[20])
  BY DEF Registers, Later, Either
<1>21. Registers[22] = Later(Registers[21])
  BY DEF Registers, Later, Either
<1>22. Registers[23] = Later(Registers[22])
  BY DEF Registers, Later, Either
<1>23. Registers[24] = Later(Registers[23])
  BY DEF Registers, Later, Either
<1> QED BY <1>1, <1>2, <1>3, <1>4, <1>5, <1>6, <1>7, <1>8, <1>9, <1>10, <1>11,
         <1>12, <1>13, <1>14, <1>15, <1>16, <1>17, <1>18, <1>19, <1>20, <1>21, <1>22, <1>23

LEMMA RegistersAre == \A ir \in 0 .. 23 : Register[7 * ir] = Registers[ir + 1]
<1> DEFINE S == {n \in Nat : n =< 23 => Register[7 * n] = Registers[n + 1]}
<1>1. 0 \in S
  <2>1. 7 * 0 = 0 /\ 0 + 1 = 1
    OBVIOUS
  <2>2. Register[7 * 0] = Registers[0 + 1]
    BY <2>1, RegisterIs DEF Registers
  <2> QED BY <2>2
<1>2. ASSUME NEW n \in Nat, n \in S PROVE n + 1 \in S
  <2> SUFFICES ASSUME n + 1 =< 23 PROVE Register[7 * (n + 1)] = Registers[(n + 1) + 1]
    OBVIOUS
  <2>1. 7 * n \in 0 .. 247 /\ 7 * n + 7 = 7 * (n + 1) /\ n + 1 \in 1 .. 23
    OBVIOUS
  <2>2. Register[7 * (n + 1)] = Later(Register[7 * n])
    BY <2>1, SevenSteps
  <2>3. Registers[(n + 1) + 1] = Later(Registers[n + 1])
    BY <2>1, RegistersFollow
  <2>4. Register[7 * n] = Registers[n + 1]
    BY <1>2, <2>1
  <2> QED BY <2>2, <2>3, <2>4
<1> HIDE DEF S
<1>3. \A n \in Nat : n \in S
  BY <1>1, <1>2, NumbersByInduction
<1> QED BY <1>3 DEF S

LEMMA ConstantIs ==
  ASSUME NEW ir \in 0 .. 23, NEW r, r = Register[7 * ir], NEW rc
  PROVE  rc \in StandardConstant(ir) <=>
           \/ rc = 0 /\ 0 \in r
           \/ rc = 1 /\ 7 \in r
           \/ rc = 3 /\ 6 \in r
           \/ rc = 7 /\ Either(5 \in r, 7 \in r)
           \/ rc = 15 /\ Either(4 \in r, Either(6 \in r, 7 \in r))
           \/ rc = 31 /\ Either(3 \in r, Either(5 \in r, 6 \in r))
           \/ rc = 63 /\ Either(2 \in r, Either(4 \in r, 5 \in r))
<1>1. \A n \in 0 .. 6 : (n + 7 * ir) % 255 = 7 * ir + n
  OBVIOUS
<1>2. rc \in StandardConstant(ir) <=> \E j \in 0 .. 6 : 0 \in Register[7 * ir + j] /\ rc = 2 ^ j - 1
  BY <1>1 DEF StandardConstant
<1>3. rc \in StandardConstant(ir) <=>
        \/ 0 \in Register[7 * ir + 0] /\ rc = 0
        \/ 0 \in Register[7 * ir + 1] /\ rc = 1
        \/ 0 \in Register[7 * ir + 2] /\ rc = 3
        \/ 0 \in Register[7 * ir + 3] /\ rc = 7
        \/ 0 \in Register[7 * ir + 4] /\ rc = 15
        \/ 0 \in Register[7 * ir + 5] /\ rc = 31
        \/ 0 \in Register[7 * ir + 6] /\ rc = 63
  BY <1>2, SmallPowers
<1>4. 7 * ir \in 0 .. 247
  OBVIOUS
<1> DEFINE t == 7 * ir
<1>5. t \in 0 .. 247 /\ r = Register[t]
  BY <1>4
<1> HIDE DEF t
<1>6. t + 0 = t
  BY <1>5
<1>7. /\ 0 \in Register[t + 0] <=> 0 \in r
      /\ 0 \in Register[t + 1] <=> 7 \in r
      /\ 0 \in Register[t + 2] <=> 6 \in r
      /\ 0 \in Register[t + 3] <=> Either(5 \in r, 7 \in r)
      /\ 0 \in Register[t + 4] <=> Either(4 \in r, Either(6 \in r, 7 \in r))
      /\ 0 \in Register[t + 5] <=> Either(3 \in r, Either(5 \in r, 6 \in r))
      /\ 0 \in Register[t + 6] <=> Either(2 \in r, Either(4 \in r, 5 \in r))
  BY <1>5, <1>6, SevenSteps
<1> QED BY <1>3, <1>7, Zenon DEF t

\* The table of every code is the standard's.
LEMMA ConstantsAre == \A ir \in 0 .. 23 : StandardConstant(ir) = RoundConstants[ir + 1]
<1> SUFFICES ASSUME NEW ir \in 0 .. 23 PROVE StandardConstant(ir) = RoundConstants[ir + 1]
  OBVIOUS
<1>1. Register[7 * ir] = Registers[ir + 1]
  BY RegistersAre
<1>2. CASE ir = 0
  BY <1>1, <1>2, ConstantIs DEF Registers, RoundConstants, Either
<1>3. CASE ir = 1
  BY <1>1, <1>3, ConstantIs DEF Registers, RoundConstants, Either
<1>4. CASE ir = 2
  BY <1>1, <1>4, ConstantIs DEF Registers, RoundConstants, Either
<1>5. CASE ir = 3
  BY <1>1, <1>5, ConstantIs DEF Registers, RoundConstants, Either
<1>6. CASE ir = 4
  BY <1>1, <1>6, ConstantIs DEF Registers, RoundConstants, Either
<1>7. CASE ir = 5
  BY <1>1, <1>7, ConstantIs DEF Registers, RoundConstants, Either
<1>8. CASE ir = 6
  BY <1>1, <1>8, ConstantIs DEF Registers, RoundConstants, Either
<1>9. CASE ir = 7
  BY <1>1, <1>9, ConstantIs DEF Registers, RoundConstants, Either
<1>10. CASE ir = 8
  BY <1>1, <1>10, ConstantIs DEF Registers, RoundConstants, Either
<1>11. CASE ir = 9
  BY <1>1, <1>11, ConstantIs DEF Registers, RoundConstants, Either
<1>12. CASE ir = 10
  BY <1>1, <1>12, ConstantIs DEF Registers, RoundConstants, Either
<1>13. CASE ir = 11
  BY <1>1, <1>13, ConstantIs DEF Registers, RoundConstants, Either
<1>14. CASE ir = 12
  BY <1>1, <1>14, ConstantIs DEF Registers, RoundConstants, Either
<1>15. CASE ir = 13
  BY <1>1, <1>15, ConstantIs DEF Registers, RoundConstants, Either
<1>16. CASE ir = 14
  BY <1>1, <1>16, ConstantIs DEF Registers, RoundConstants, Either
<1>17. CASE ir = 15
  BY <1>1, <1>17, ConstantIs DEF Registers, RoundConstants, Either
<1>18. CASE ir = 16
  BY <1>1, <1>18, ConstantIs DEF Registers, RoundConstants, Either
<1>19. CASE ir = 17
  BY <1>1, <1>19, ConstantIs DEF Registers, RoundConstants, Either
<1>20. CASE ir = 18
  BY <1>1, <1>20, ConstantIs DEF Registers, RoundConstants, Either
<1>21. CASE ir = 19
  BY <1>1, <1>21, ConstantIs DEF Registers, RoundConstants, Either
<1>22. CASE ir = 20
  BY <1>1, <1>22, ConstantIs DEF Registers, RoundConstants, Either
<1>23. CASE ir = 21
  BY <1>1, <1>23, ConstantIs DEF Registers, RoundConstants, Either
<1>24. CASE ir = 22
  BY <1>1, <1>24, ConstantIs DEF Registers, RoundConstants, Either
<1>25. CASE ir = 23
  BY <1>1, <1>25, ConstantIs DEF Registers, RoundConstants, Either
<1> QED BY <1>2, <1>3, <1>4, <1>5, <1>6, <1>7, <1>8, <1>9, <1>10, <1>11, <1>12, <1>13,
         <1>14, <1>15, <1>16, <1>17, <1>18, <1>19, <1>20, <1>21, <1>22, <1>23, <1>24, <1>25

-----------------------------------------------------------------------------
(* The walk of rho, and the tables of lanes and rotations.                 *)

Corner == [x : 0 .. 4, y : 0 .. 4]
Beside(p) == [x |-> p.y, y |-> (2 * p.x + 3 * p.y) % 5]

LEMMA BesideType ==
  ASSUME NEW p \in Corner
  PROVE  Beside(p) \in Corner
BY DEF Beside, Corner

LEMMA WalkIs ==
  /\ Walk[0] = [x |-> 1, y |-> 0]
  /\ \A t \in 1 .. 23 : Walk[t] = Beside(Walk[t - 1])
<1> DEFINE Is(g) == g = [t \in 0 .. 23 |-> IF t = 0 THEN [x |-> 1, y |-> 0] ELSE Beside(g[t - 1])]
           move == [p \in Corner |-> Beside(p)]
           start == [x |-> 1, y |-> 0]
<1>1. \E g : Is(g)
  <2>1. move \in [Corner -> Corner]
    BY BesideType
  <2>2. start \in Corner /\ 23 \in Nat
    BY DEF Corner
  <2> HIDE DEF move, start
  <2>3. \E g : Iterates(g, Corner, move, start, 23)
    BY <2>1, <2>2, Iterated
  <2>4. PICK g \in [0 .. 23 -> Corner] :
          g[0] = start /\ \A t \in 1 .. 23 : g[t] = move[g[t - 1]]
    BY <2>3 DEF Iterates
  <2>5. ASSUME NEW t \in 0 .. 23 PROVE g[t] = IF t = 0 THEN start ELSE Beside(g[t - 1])
    <3>1. CASE t = 0
      BY <2>4, <3>1
    <3>2. CASE t # 0
      <4>1. t \in 1 .. 23 /\ t - 1 \in 0 .. 23
        BY <3>2
      <4>2. g[t - 1] \in Corner
        BY <2>4, <4>1
      <4> QED BY <2>4, <4>1, <4>2, <3>2 DEF move
    <3> QED BY <3>1, <3>2
  <2>6. g = [t \in 0 .. 23 |-> IF t = 0 THEN start ELSE Beside(g[t - 1])]
    BY <2>4, <2>5
  <2> QED BY <2>6 DEF start
<1>2. Walk = CHOOSE g : Is(g)
  BY Zenon DEF Walk, Beside
<1> HIDE DEF Is
<1>3. Is(Walk)
  BY <1>1, <1>2, Zenon
<1> USE DEF Is
<1>4. Walk[0] = [x |-> 1, y |-> 0]
  BY <1>3
<1>5. ASSUME NEW t \in 1 .. 23 PROVE Walk[t] = Beside(Walk[t - 1])
  <2>1. t \in 0 .. 23 /\ t # 0
    OBVIOUS
  <2> QED BY <1>3, <2>1
<1> QED BY <1>4, <1>5

\* Where the walk is, and when it is at lane (x, y): WalkNumber[y + 1][x + 1].
WalkX == <<1, 0, 2, 1, 2, 3, 3, 0, 1, 3, 1, 4, 4, 0, 3, 4, 3, 2, 2, 0, 4, 2, 4, 1>>
WalkY == <<0, 2, 1, 2, 3, 3, 0, 1, 3, 1, 4, 4, 0, 3, 4, 3, 2, 2, 0, 4, 2, 4, 1, 1>>
WalkNumber ==
  << <<0, 0, 18, 6, 12>>,
     <<7, 23, 2, 9, 22>>,
     <<1, 3, 17, 16, 20>>,
     <<13, 8, 4, 5, 15>>,
     <<19, 10, 21, 14, 11>> >>

LEMMA WalkTable ==
  \A t \in 0 .. 23 : Walk[t] = [x |-> WalkX[t + 1], y |-> WalkY[t + 1]]
<1>0. Walk[0] = [x |-> 1, y |-> 0]
  BY WalkIs
<1>1. Walk[1] = [x |-> 0, y |-> 2]
  BY <1>0, WalkIs DEF Beside
<1>2. Walk[2] = [x |-> 2, y |-> 1]
  BY <1>1, WalkIs DEF Beside
<1>3. Walk[3] = [x |-> 1, y |-> 2]
  BY <1>2, WalkIs DEF Beside
<1>4. Walk[4] = [x |-> 2, y |-> 3]
  BY <1>3, WalkIs DEF Beside
<1>5. Walk[5] = [x |-> 3, y |-> 3]
  BY <1>4, WalkIs DEF Beside
<1>6. Walk[6] = [x |-> 3, y |-> 0]
  BY <1>5, WalkIs DEF Beside
<1>7. Walk[7] = [x |-> 0, y |-> 1]
  BY <1>6, WalkIs DEF Beside
<1>8. Walk[8] = [x |-> 1, y |-> 3]
  BY <1>7, WalkIs DEF Beside
<1>9. Walk[9] = [x |-> 3, y |-> 1]
  BY <1>8, WalkIs DEF Beside
<1>10. Walk[10] = [x |-> 1, y |-> 4]
  BY <1>9, WalkIs DEF Beside
<1>11. Walk[11] = [x |-> 4, y |-> 4]
  BY <1>10, WalkIs DEF Beside
<1>12. Walk[12] = [x |-> 4, y |-> 0]
  BY <1>11, WalkIs DEF Beside
<1>13. Walk[13] = [x |-> 0, y |-> 3]
  BY <1>12, WalkIs DEF Beside
<1>14. Walk[14] = [x |-> 3, y |-> 4]
  BY <1>13, WalkIs DEF Beside
<1>15. Walk[15] = [x |-> 4, y |-> 3]
  BY <1>14, WalkIs DEF Beside
<1>16. Walk[16] = [x |-> 3, y |-> 2]
  BY <1>15, WalkIs DEF Beside
<1>17. Walk[17] = [x |-> 2, y |-> 2]
  BY <1>16, WalkIs DEF Beside
<1>18. Walk[18] = [x |-> 2, y |-> 0]
  BY <1>17, WalkIs DEF Beside
<1>19. Walk[19] = [x |-> 0, y |-> 4]
  BY <1>18, WalkIs DEF Beside
<1>20. Walk[20] = [x |-> 4, y |-> 2]
  BY <1>19, WalkIs DEF Beside
<1>21. Walk[21] = [x |-> 2, y |-> 4]
  BY <1>20, WalkIs DEF Beside
<1>22. Walk[22] = [x |-> 4, y |-> 1]
  BY <1>21, WalkIs DEF Beside
<1>23. Walk[23] = [x |-> 1, y |-> 1]
  BY <1>22, WalkIs DEF Beside
<1> QED BY <1>0, <1>1, <1>2, <1>3, <1>4, <1>5, <1>6, <1>7, <1>8, <1>9, <1>10, <1>11,
         <1>12, <1>13, <1>14, <1>15, <1>16, <1>17, <1>18, <1>19, <1>20, <1>21, <1>22, <1>23 DEF WalkX, WalkY

LEMMA WalkNumbers ==
  ASSUME NEW t \in 0 .. 23
  PROVE  WalkNumber[WalkY[t + 1] + 1][WalkX[t + 1] + 1] = t
BY DEF WalkX, WalkY, WalkNumber

LEMMA OffsetIs ==
  ASSUME NEW t \in 0 .. 23, NEW x, NEW y, x = WalkX[t + 1], y = WalkY[t + 1]
  PROVE  Offset(x, y) = (((t + 1) * (t + 2)) \div 2) % 64
<1>1. ~ (x = 0 /\ y = 0)
  BY DEF WalkX, WalkY
<1>2. Walk[t] = [x |-> x, y |-> y]
  BY WalkTable
<1>3. ASSUME NEW n \in 0 .. 23, Walk[n] = [x |-> x, y |-> y] PROVE n = t
  <2>1. WalkX[n + 1] = x /\ WalkY[n + 1] = y
    BY <1>3, WalkTable
  <2> QED BY <2>1, WalkNumbers
<1>4. (CHOOSE n \in 0 .. 23 : Walk[n] = [x |-> x, y |-> y]) = t
  BY <1>2, <1>3
<1> QED BY <1>1, <1>4 DEF Offset

\* Which lane comes to (x, y), and how far it is rotated.
LEMMA TablesAre ==
  ASSUME NEW y \in 0 .. 4, NEW x \in 0 .. 4
  PROVE  /\ From[y + 1][x + 1] = 5 * x + ((x + 3 * y) % 5)
         /\ By[y + 1][x + 1] = Offset((x + 3 * y) % 5, x)
<1>1. From[y + 1][x + 1] = 5 * x + ((x + 3 * y) % 5)
  BY DEF From
<1>2. /\ Offset(0, 0) = 0
      /\ Offset(0, 1) = 36
      /\ Offset(0, 2) = 3
      /\ Offset(0, 3) = 41
      /\ Offset(0, 4) = 18
      /\ Offset(1, 0) = 1
      /\ Offset(1, 1) = 44
      /\ Offset(1, 2) = 10
      /\ Offset(1, 3) = 45
      /\ Offset(1, 4) = 2
      /\ Offset(2, 0) = 62
      /\ Offset(2, 1) = 6
      /\ Offset(2, 2) = 43
      /\ Offset(2, 3) = 15
      /\ Offset(2, 4) = 61
      /\ Offset(3, 0) = 28
      /\ Offset(3, 1) = 55
      /\ Offset(3, 2) = 25
      /\ Offset(3, 3) = 21
      /\ Offset(3, 4) = 56
      /\ Offset(4, 0) = 27
      /\ Offset(4, 1) = 20
      /\ Offset(4, 2) = 39
      /\ Offset(4, 3) = 8
      /\ Offset(4, 4) = 14
  <2>1. Offset(1, 0) = 1
    <3>1. WalkX[1] = 1 /\ WalkY[1] = 0
      BY DEF WalkX, WalkY
    <3> QED BY <3>1, OffsetIs
  <2>2. Offset(0, 2) = 3
    <3>1. WalkX[2] = 0 /\ WalkY[2] = 2
      BY DEF WalkX, WalkY
    <3> QED BY <3>1, OffsetIs
  <2>3. Offset(2, 1) = 6
    <3>1. WalkX[3] = 2 /\ WalkY[3] = 1
      BY DEF WalkX, WalkY
    <3> QED BY <3>1, OffsetIs
  <2>4. Offset(1, 2) = 10
    <3>1. WalkX[4] = 1 /\ WalkY[4] = 2
      BY DEF WalkX, WalkY
    <3> QED BY <3>1, OffsetIs
  <2>5. Offset(2, 3) = 15
    <3>1. WalkX[5] = 2 /\ WalkY[5] = 3
      BY DEF WalkX, WalkY
    <3> QED BY <3>1, OffsetIs
  <2>6. Offset(3, 3) = 21
    <3>1. WalkX[6] = 3 /\ WalkY[6] = 3
      BY DEF WalkX, WalkY
    <3> QED BY <3>1, OffsetIs
  <2>7. Offset(3, 0) = 28
    <3>1. WalkX[7] = 3 /\ WalkY[7] = 0
      BY DEF WalkX, WalkY
    <3> QED BY <3>1, OffsetIs
  <2>8. Offset(0, 1) = 36
    <3>1. WalkX[8] = 0 /\ WalkY[8] = 1
      BY DEF WalkX, WalkY
    <3> QED BY <3>1, OffsetIs
  <2>9. Offset(1, 3) = 45
    <3>1. WalkX[9] = 1 /\ WalkY[9] = 3
      BY DEF WalkX, WalkY
    <3> QED BY <3>1, OffsetIs
  <2>10. Offset(3, 1) = 55
    <3>1. WalkX[10] = 3 /\ WalkY[10] = 1
      BY DEF WalkX, WalkY
    <3> QED BY <3>1, OffsetIs
  <2>11. Offset(1, 4) = 2
    <3>1. WalkX[11] = 1 /\ WalkY[11] = 4
      BY DEF WalkX, WalkY
    <3> QED BY <3>1, OffsetIs
  <2>12. Offset(4, 4) = 14
    <3>1. WalkX[12] = 4 /\ WalkY[12] = 4
      BY DEF WalkX, WalkY
    <3> QED BY <3>1, OffsetIs
  <2>13. Offset(4, 0) = 27
    <3>1. WalkX[13] = 4 /\ WalkY[13] = 0
      BY DEF WalkX, WalkY
    <3> QED BY <3>1, OffsetIs
  <2>14. Offset(0, 3) = 41
    <3>1. WalkX[14] = 0 /\ WalkY[14] = 3
      BY DEF WalkX, WalkY
    <3> QED BY <3>1, OffsetIs
  <2>15. Offset(3, 4) = 56
    <3>1. WalkX[15] = 3 /\ WalkY[15] = 4
      BY DEF WalkX, WalkY
    <3> QED BY <3>1, OffsetIs
  <2>16. Offset(4, 3) = 8
    <3>1. WalkX[16] = 4 /\ WalkY[16] = 3
      BY DEF WalkX, WalkY
    <3> QED BY <3>1, OffsetIs
  <2>17. Offset(3, 2) = 25
    <3>1. WalkX[17] = 3 /\ WalkY[17] = 2
      BY DEF WalkX, WalkY
    <3> QED BY <3>1, OffsetIs
  <2>18. Offset(2, 2) = 43
    <3>1. WalkX[18] = 2 /\ WalkY[18] = 2
      BY DEF WalkX, WalkY
    <3> QED BY <3>1, OffsetIs
  <2>19. Offset(2, 0) = 62
    <3>1. WalkX[19] = 2 /\ WalkY[19] = 0
      BY DEF WalkX, WalkY
    <3> QED BY <3>1, OffsetIs
  <2>20. Offset(0, 4) = 18
    <3>1. WalkX[20] = 0 /\ WalkY[20] = 4
      BY DEF WalkX, WalkY
    <3> QED BY <3>1, OffsetIs
  <2>21. Offset(4, 2) = 39
    <3>1. WalkX[21] = 4 /\ WalkY[21] = 2
      BY DEF WalkX, WalkY
    <3> QED BY <3>1, OffsetIs
  <2>22. Offset(2, 4) = 61
    <3>1. WalkX[22] = 2 /\ WalkY[22] = 4
      BY DEF WalkX, WalkY
    <3> QED BY <3>1, OffsetIs
  <2>23. Offset(4, 1) = 20
    <3>1. WalkX[23] = 4 /\ WalkY[23] = 1
      BY DEF WalkX, WalkY
    <3> QED BY <3>1, OffsetIs
  <2>24. Offset(1, 1) = 44
    <3>1. WalkX[24] = 1 /\ WalkY[24] = 1
      BY DEF WalkX, WalkY
    <3> QED BY <3>1, OffsetIs
  <2>25. Offset(0, 0) = 0
    BY DEF Offset
  <2> QED BY <2>1, <2>2, <2>3, <2>4, <2>5, <2>6, <2>7, <2>8, <2>9, <2>10, <2>11, <2>12,
             <2>13, <2>14, <2>15, <2>16, <2>17, <2>18, <2>19, <2>20, <2>21, <2>22, <2>23, <2>24, <2>25
<1>3. By[y + 1][x + 1] = Offset((x + 3 * y) % 5, x)
  <2>1. CASE y = 0
    BY <1>2, <2>1 DEF By
  <2>2. CASE y = 1
    BY <1>2, <2>2 DEF By
  <2>3. CASE y = 2
    BY <1>2, <2>3 DEF By
  <2>4. CASE y = 3
    BY <1>2, <2>4 DEF By
  <2>5. CASE y = 4
    BY <1>2, <2>5 DEF By
  <2> QED BY <2>1, <2>2, <2>3, <2>4, <2>5
<1> QED BY <1>1, <1>3

-----------------------------------------------------------------------------
(* One round, the same for all codes.                                      *)

LaneArrays == [Lanes -> Words]

\* The lane that comes to (x, y), and the round without its constant.
Turned(A, y, x) ==
  LET l == From[y + 1][x + 1] IN Rol(A[l] \oplus D(ColumnsOf(A))[l % 5], By[y + 1][x + 1])
Mixed(A, y, x) ==
  Turned(A, y, x) \oplus (Turned(A, y, (x + 2) % 5) \ Turned(A, y, (x + 1) % 5))
Rounded(A, rc) ==
  [l \in Lanes |-> IF l = 0 THEN Mixed(A, 0, 0) \oplus Broadcast(rc) ELSE Mixed(A, l \div 5, l % 5)]

LEMMA LaneSplit ==
  ASSUME NEW l \in Lanes
  PROVE  l \div 5 \in 0 .. 4 /\ l % 5 \in 0 .. 4 /\ l = 5 * (l \div 5) + (l % 5)
<1>1. l \div 5 \in Nat /\ l % 5 \in 0 .. 4 /\ l = 5 * (l \div 5) + (l % 5) /\ l \in 0 .. 24
  BY QuotientRemainder DEF Lanes
<1> QED BY <1>1

LEMMA FromIs ==
  ASSUME NEW y \in 0 .. 4, NEW x \in 0 .. 4
  PROVE  /\ From[y + 1][x + 1] \in Lanes /\ By[y + 1][x + 1] \in Nat
         /\ From[y + 1][x + 1] % 5 = (x + 3 * y) % 5 /\ (x + 3 * y) % 5 \in 0 .. 4
<1> DEFINE w == (x + 3 * y) % 5
<1>1. w \in 0 .. 4
  OBVIOUS
<1>2. From[y + 1][x + 1] = 5 * x + w
  BY TablesAre
<1> HIDE DEF w
<1>3. 5 * x + w \in Lanes /\ (5 * x + w) % 5 = w
  BY <1>1 DEF Lanes
<1>4. By[y + 1][x + 1] \in Nat
  BY DEF By
<1> QED BY <1>1, <1>2, <1>3, <1>4 DEF w

LEMMA ColumnsWord ==
  ASSUME NEW A \in LaneArrays
  PROVE  /\ ColumnsOf(A) \in [Columns -> Words]
         /\ \A x \in 0 .. 4 : D(ColumnsOf(A))[x] \in Words
<1>1. ASSUME NEW x \in Columns PROVE ColumnsOf(A)[x] \in Words
  <2>1. A[x] \in Words /\ A[x + 5] \in Words /\ A[x + 10] \in Words /\ A[x + 15] \in Words
        /\ A[x + 20] \in Words
    BY DEF LaneArrays, Lanes, Columns
  <2> QED BY <2>1, XorWord DEF ColumnsOf
<1>2. ColumnsOf(A) \in [Columns -> Words]
  BY <1>1 DEF ColumnsOf
<1>3. ASSUME NEW x \in 0 .. 4 PROVE D(ColumnsOf(A))[x] \in Words
  <2> DEFINE C == ColumnsOf(A)
  <2>1. (x + 4) % 5 \in Columns /\ (x + 1) % 5 \in Columns /\ x \in Columns
    BY DEF Columns
  <2> HIDE DEF C
  <2>2. C[(x + 4) % 5] \in Words /\ C[(x + 1) % 5] \in Words
    BY <1>2, <2>1 DEF C
  <2>3. C[(x + 4) % 5] \oplus Rol(C[(x + 1) % 5], 1) \in Words
    BY <2>2, RolWord, XorWord
  <2>4. D(C)[x] = C[(x + 4) % 5] \oplus Rol(C[(x + 1) % 5], 1)
    BY <2>1 DEF D
  <2> QED BY <2>3, <2>4 DEF C
<1> QED BY <1>2, <1>3

LEMMA TurnedWord ==
  ASSUME NEW A \in LaneArrays, NEW y \in 0 .. 4, NEW x \in 0 .. 4
  PROVE  /\ A[From[y + 1][x + 1]] \oplus D(ColumnsOf(A))[From[y + 1][x + 1] % 5] \in Words
         /\ Turned(A, y, x) \in Words
<1> DEFINE l == From[y + 1][x + 1]
           a == A[l] \oplus D(ColumnsOf(A))[l % 5]
<1>1. l \in Lanes /\ l % 5 \in 0 .. 4 /\ By[y + 1][x + 1] \in Nat
  BY FromIs
<1>2. a \in Words
  <2> HIDE DEF l
  <2>1. A[l] \in Words
    BY <1>1 DEF LaneArrays
  <2> QED BY <1>1, <2>1, ColumnsWord, XorWord
<1>3. Turned(A, y, x) = Rol(a, By[y + 1][x + 1])
  BY DEF Turned
<1> HIDE DEF a
<1>4. Rol(a, By[y + 1][x + 1]) \in Words
  BY <1>1, <1>2, RolWord
<1> QED BY <1>2, <1>3, <1>4 DEF a

LEMMA RoundedType ==
  ASSUME NEW A \in LaneArrays, NEW rc \in SUBSET (0 .. 63)
  PROVE  Rounded(A, rc) \in LaneArrays
<1>1. ASSUME NEW y \in 0 .. 4, NEW x \in 0 .. 4 PROVE Mixed(A, y, x) \in Words
  <2>1. (x + 2) % 5 \in 0 .. 4 /\ (x + 1) % 5 \in 0 .. 4
    OBVIOUS
  <2> DEFINE a == Turned(A, y, x)
             b == Turned(A, y, (x + 2) % 5)
             d == Turned(A, y, (x + 1) % 5)
  <2>2. a \in Words /\ b \in Words
    BY <2>1, TurnedWord
  <2>3. Mixed(A, y, x) = a \oplus (b \ d)
    BY DEF Mixed
  <2> HIDE DEF a, b, d
  <2>4. b \ d \in Words
    BY <2>2 DEF Words
  <2> QED BY <2>2, <2>3, <2>4, XorWord
<1>2. Broadcast(rc) \in Words
  BY DEF Broadcast, Words, States
<1>3. ASSUME NEW l \in Lanes PROVE Rounded(A, rc)[l] \in Words
  <2>1. l \div 5 \in 0 .. 4 /\ l % 5 \in 0 .. 4
    BY LaneSplit
  <2>2. Mixed(A, l \div 5, l % 5) \in Words /\ Mixed(A, 0, 0) \in Words
    BY <1>1, <2>1
  <2>3. Mixed(A, 0, 0) \oplus Broadcast(rc) \in Words
    BY <1>2, <2>2, XorWord
  <2> QED BY <2>2, <2>3 DEF Rounded
<1> QED BY <1>3 DEF Rounded, LaneArrays

\* The standard's round.
LEMMA StandardRoundIs ==
  ASSUME NEW A \in LaneArrays, NEW ir \in 0 .. 23
  PROVE  StandardRound(A, ir) = Rounded(A, RoundConstants[ir + 1])
<1> DEFINE C == [x \in Columns |-> A[x] \oplus A[x + 5] \oplus A[x + 10] \oplus A[x + 15] \oplus A[x + 20]]
           Theta1(x, y) == A[5 * y + x] \oplus C[(x + 4) % 5] \oplus Rol(C[(x + 1) % 5], 1)
           Rho(x, y) == Rol(Theta1(x, y), Offset(x, y))
           Pi(x, y) == Rho((x + 3 * y) % 5, x)
           Chi1(x, y) == Pi(x, y) \oplus (Pi((x + 2) % 5, y) \ Pi((x + 1) % 5, y))
<1>1. StandardRound(A, ir) =
        [l \in Lanes |-> IF l = 0 THEN Chi1(0, 0) \oplus Broadcast(StandardConstant(ir))
                                  ELSE Chi1(l % 5, l \div 5)]
  BY DEF StandardRound
<1>2. C = ColumnsOf(A)
  BY DEF ColumnsOf
<1>3. ASSUME NEW y \in 0 .. 4, NEW x \in 0 .. 4 PROVE Pi(x, y) = Turned(A, y, x)
  <2> DEFINE w == (x + 3 * y) % 5
             l == 5 * x + w
  <2>1. From[y + 1][x + 1] = l /\ By[y + 1][x + 1] = Offset(w, x)
    BY TablesAre
  <2>2. l % 5 = w /\ w \in Columns
    BY <2>1, FromIs DEF Columns
  <2> HIDE DEF l, w, C
  <2>3. D(C)[w] = C[(w + 4) % 5] \oplus Rol(C[(w + 1) % 5], 1)
    BY <2>2 DEF D
  <2>4. A[l] \oplus C[(w + 4) % 5] \oplus Rol(C[(w + 1) % 5], 1) = A[l] \oplus D(C)[w]
    BY <2>3, XorAssociates
  <2>5. Turned(A, y, x) = Rol(A[l] \oplus D(C)[w], Offset(w, x))
    BY <1>2, <2>1, <2>2 DEF Turned
  <2>6. Pi(x, y) = Rol(A[l] \oplus C[(w + 4) % 5] \oplus Rol(C[(w + 1) % 5], 1), Offset(w, x))
    BY DEF w, l
  <2> QED BY <2>4, <2>5, <2>6
<1> HIDE DEF Pi
<1>4. ASSUME NEW y \in 0 .. 4, NEW x \in 0 .. 4 PROVE Chi1(x, y) = Mixed(A, y, x)
  <2>1. (x + 2) % 5 \in 0 .. 4 /\ (x + 1) % 5 \in 0 .. 4
    OBVIOUS
  <2>2. /\ Pi(x, y) = Turned(A, y, x)
        /\ Pi((x + 2) % 5, y) = Turned(A, y, (x + 2) % 5)
        /\ Pi((x + 1) % 5, y) = Turned(A, y, (x + 1) % 5)
    BY <1>3, <2>1
  <2> QED BY <2>2 DEF Mixed
<1> HIDE DEF Chi1
<1>5. ASSUME NEW l \in Lanes PROVE Chi1(l % 5, l \div 5) = Mixed(A, l \div 5, l % 5)
  BY <1>4, LaneSplit
<1>6. Chi1(0, 0) = Mixed(A, 0, 0)
  BY <1>4
<1>7. StandardConstant(ir) = RoundConstants[ir + 1]
  BY ConstantsAre
<1> QED BY <1>1, <1>5, <1>6, <1>7 DEF Rounded

\* The unrolled round of keccakf1600.c and of the AVX2 code.
LEMMA UnrolledRoundIs ==
  ASSUME NEW A \in LaneArrays, NEW rc
  PROVE  UnrolledRound(A, ColumnsOf(A), rc) = Rounded(A, rc)
<1> DEFINE d == D(ColumnsOf(A))
           B(r, x) == LET l == From[r + 1][(x % 5) + 1]
                      IN  Turn(A[l] \oplus d[l % 5], By[r + 1][(x % 5) + 1])
           E(r, x) == B(r, x) \oplus AndNot(B(r, x + 1), B(r, x + 2))
<1>1. UnrolledRound(A, ColumnsOf(A), rc) =
        [l \in Lanes |-> IF l = 0 THEN E(0, 0) \oplus Broadcast(rc) ELSE E(l \div 5, l % 5)]
  BY DEF UnrolledRound
<1>2. ASSUME NEW a \in Words, NEW n \in Nat PROVE Turn(a, n) = Rol(a, n)
  <2>1. CASE n = 8
    BY <2>1, ShuffleIsRol DEF Turn
  <2>2. CASE n = 56
    BY <2>2, ShuffleIsRol DEF Turn
  <2>3. CASE n \notin {8, 56}
    BY <2>3 DEF Turn
  <2> QED BY <2>1, <2>2, <2>3
<1>3. ASSUME NEW r \in 0 .. 4, NEW x \in Nat PROVE B(r, x) = Turned(A, r, x % 5)
  <2> DEFINE w == x % 5
             l == From[r + 1][w + 1]
             a == A[l] \oplus d[l % 5]
  <2>1. w \in 0 .. 4
    OBVIOUS
  <2> HIDE DEF w
  <2>2. a \in Words
    BY <2>1, TurnedWord
  <2>3. By[r + 1][w + 1] \in Nat
    BY <2>1, FromIs
  <2>4. Turned(A, r, w) = Rol(a, By[r + 1][w + 1])
    BY DEF Turned
  <2>5. B(r, x) = Turn(a, By[r + 1][w + 1])
    BY DEF w
  <2> HIDE DEF a
  <2>6. Turn(a, By[r + 1][w + 1]) = Rol(a, By[r + 1][w + 1])
    BY <1>2, <2>2, <2>3
  <2> QED BY <2>4, <2>5, <2>6 DEF w
<1> HIDE DEF B
<1>4. ASSUME NEW r \in 0 .. 4, NEW x \in 0 .. 4 PROVE E(r, x) = Mixed(A, r, x)
  <2>1. x % 5 = x
    OBVIOUS
  <2>2. /\ B(r, x) = Turned(A, r, x)
        /\ B(r, x + 1) = Turned(A, r, (x + 1) % 5)
        /\ B(r, x + 2) = Turned(A, r, (x + 2) % 5)
    BY <1>3, <2>1
  <2> QED BY <2>2 DEF Mixed, AndNot
<1> HIDE DEF E
<1>5. ASSUME NEW l \in Lanes PROVE E(l \div 5, l % 5) = Mixed(A, l \div 5, l % 5)
  BY <1>4, LaneSplit
<1>6. E(0, 0) = Mixed(A, 0, 0)
  BY <1>4
<1> QED BY <1>1, <1>5, <1>6 DEF Rounded

\* Where lane j is in the table of tiny_sha3.
Numbering ==
  <<24, 18, 6, 12, 7, 23, 2, 9, 22, 1, 3, 17,
    16, 20, 13, 8, 4, 5, 15, 19, 10, 21, 14, 11>>

LEMMA PilnNumbers ==
  ASSUME NEW n \in 1 .. 24
  PROVE  keccakf_piln[n] \in 1 .. 24 /\ Numbering[keccakf_piln[n]] = n
BY DEF keccakf_piln, Numbering

LEMMA NumberedPiln ==
  ASSUME NEW j \in 1 .. 24
  PROVE  Numbering[j] \in 1 .. 24 /\ keccakf_piln[Numbering[j]] = j
BY DEF keccakf_piln, Numbering

\* The chain of tiny_sha3 takes the same lanes, rotated by as much.
LEMMA ChainIs ==
  ASSUME NEW y \in 0 .. 4, NEW x \in 0 .. 4, NEW j, j = 5 * y + x, j # 0,
         NEW n, n = Numbering[j]
  PROVE  /\ (IF n = 1 THEN 1 ELSE keccakf_piln[n - 1]) = From[y + 1][x + 1]
         /\ keccakf_rotc[n] = By[y + 1][x + 1]
<1>1. CASE y = 0
  BY <1>1 DEF Numbering, keccakf_piln, keccakf_rotc, From, By
<1>2. CASE y = 1
  BY <1>2 DEF Numbering, keccakf_piln, keccakf_rotc, From, By
<1>3. CASE y = 2
  BY <1>3 DEF Numbering, keccakf_piln, keccakf_rotc, From, By
<1>4. CASE y = 3
  BY <1>4 DEF Numbering, keccakf_piln, keccakf_rotc, From, By
<1>5. CASE y = 4
  BY <1>5 DEF Numbering, keccakf_piln, keccakf_rotc, From, By
<1> QED BY <1>1, <1>2, <1>3, <1>4, <1>5

\* The round of tiny_sha3.
LEMMA TinyRoundIs ==
  ASSUME NEW A \in LaneArrays, NEW ir \in 0 .. 23
  PROVE  Iota(Chi(RhoPi(Theta(A))), ir) = Rounded(A, keccakf_rndc[ir + 1])
<1> DEFINE st == Theta(A)
           bc == RhoPi(st)
<1>1. ASSUME NEW l \in Lanes PROVE st[l] = A[l] \oplus D(ColumnsOf(A))[l % 5]
  BY DEF Theta
<1>2. ASSUME NEW y \in 0 .. 4, NEW x \in 0 .. 4 PROVE bc[5 * y + x] = Turned(A, y, x)
  <2> DEFINE j == 5 * y + x
             l == From[y + 1][x + 1]
  <2>1. j \in Lanes
    BY DEF Lanes
  <2>2. l \in Lanes
    BY FromIs
  <2>3. Turned(A, y, x) = Rol(st[l], By[y + 1][x + 1])
    <3> HIDE DEF st
    <3> QED BY <1>1, <2>2 DEF Turned
  <2>4. CASE j = 0
    <3>1. y = 0 /\ x = 0
      BY <2>4
    <3>2. l = 0 /\ By[y + 1][x + 1] = 0
      BY <3>1 DEF From, By
    <3>3. A[l] \oplus D(ColumnsOf(A))[l % 5] \in Words
      BY TurnedWord
    <3>4. st[0] \in Words
      BY <1>1, <2>2, <3>2, <3>3
    <3>5. bc[j] = st[0]
      BY <2>1, <2>4 DEF RhoPi
    <3> QED BY <2>3, <3>2, <3>4, <3>5, RolByNone
  <2>5. CASE j # 0
    <3> DEFINE n == Numbering[j]
    <3>1. j \in 1 .. 24
      BY <2>1, <2>5 DEF Lanes
    <3> HIDE DEF j
    <3>2. n \in 1 .. 24 /\ keccakf_piln[n] = j
      BY <3>1, NumberedPiln
    <3>3. \A m \in 1 .. 24 : keccakf_piln[m] = j => m = n
      BY PilnNumbers
    <3> HIDE DEF n
    <3>4. (CHOOSE m \in 1 .. 24 : keccakf_piln[m] = j) = n
      BY <3>2, <3>3
    <3>5. bc[j] = Rol(st[IF n = 1 THEN 1 ELSE keccakf_piln[n - 1]], keccakf_rotc[n])
      <4> DEFINE k == CHOOSE m \in 1 .. 24 : keccakf_piln[m] = j
      <4>1. bc[j] = IF j = 0 THEN st[0]
                    ELSE Rol(st[IF k = 1 THEN 1 ELSE keccakf_piln[k - 1]], keccakf_rotc[k])
        BY <2>1, Zenon DEF RhoPi
      <4>2. k = n
        BY <3>4
      <4> HIDE DEF k
      <4> QED BY <2>5, <4>1, <4>2
    <3>6. /\ (IF n = 1 THEN 1 ELSE keccakf_piln[n - 1]) = l
          /\ keccakf_rotc[n] = By[y + 1][x + 1]
      BY <2>5, ChainIs DEF j, n
    <3> QED BY <2>3, <3>5, <3>6 DEF j
  <2> QED BY <2>4, <2>5
<1> HIDE DEF bc
<1>3. ASSUME NEW l \in Lanes PROVE Chi(bc)[l] = Mixed(A, l \div 5, l % 5)
  <2> DEFINE y == l \div 5
             x == l % 5
  <2>1. y \in 0 .. 4 /\ x \in 0 .. 4 /\ l = 5 * y + x
    BY LaneSplit
  <2>2. Chi(bc)[l] = bc[l] \oplus AndNot(bc[5 * y + ((x + 1) % 5)], bc[5 * y + ((x + 2) % 5)])
    BY DEF Chi
  <2> HIDE DEF x, y
  <2>3. (x + 1) % 5 \in 0 .. 4 /\ (x + 2) % 5 \in 0 .. 4
    BY <2>1
  <2>4. /\ bc[l] = Turned(A, y, x)
        /\ bc[5 * y + ((x + 1) % 5)] = Turned(A, y, (x + 1) % 5)
        /\ bc[5 * y + ((x + 2) % 5)] = Turned(A, y, (x + 2) % 5)
    BY <1>2, <2>1, <2>3
  <2>5. Chi(bc)[l] = Mixed(A, y, x)
    BY <2>2, <2>4 DEF AndNot, Mixed
  <2> QED BY <2>5 DEF x, y
<1>4. Chi(bc) = [l \in Lanes |-> Chi(bc)[l]]
  BY DEF Chi
<1>5. 0 \in Lanes /\ 0 \div 5 = 0 /\ 0 % 5 = 0
  BY DEF Lanes
<1> DEFINE e == Chi(bc)
<1> HIDE DEF e
<1>6. Iota(e, ir) = Rounded(A, keccakf_rndc[ir + 1])
  <2>1. Iota(e, ir) = [l \in Lanes |-> IF l = 0 THEN e[0] \oplus Broadcast(keccakf_rndc[ir + 1]) ELSE e[l]]
    BY <1>4, <1>5 DEF Iota, e
  <2>2. e[0] = Mixed(A, 0, 0)
    BY <1>3, <1>5 DEF e
  <2>3. \A l \in Lanes : e[l] = Mixed(A, l \div 5, l % 5)
    BY <1>3 DEF e
  <2> QED BY <2>1, <2>2, <2>3 DEF Rounded
<1> QED BY <1>6 DEF e, bc

-----------------------------------------------------------------------------
(* Bytes of memory and words.                                              *)

LEMMA PlaceIs ==
  ASSUME NEW l \in Lanes, NEW m \in 0 .. 7
  PROVE  /\ 8 * l + m \in Bytes /\ (8 * l + m) \div 8 = l /\ (8 * l + m) % 8 = m
         /\ Significance(m) \in 0 .. 7 /\ Significance(Significance(m)) = m
         /\ Place(8 * l + m) = 8 * l + Significance(m)
<1>1. 8 * l + m \in Bytes /\ (8 * l + m) \div 8 = l /\ (8 * l + m) % 8 = m
  BY DEF Lanes, Bytes
<1>2. Significance(m) \in 0 .. 7 /\ Significance(Significance(m)) = m
  BY DEF Significance
<1> DEFINE q == 8 * l + m
<1>3. l \in Nat /\ q \in Nat
  BY DEF Lanes
<1> HIDE DEF q
<1>4. Place(q) = 8 * l + Significance(m)
  <2>1. CASE Swapped
    <3>1. Place(q) = 8 * (q \div 8) + 7 - (q % 8)
      BY <2>1 DEF Place, Swapped
    <3>2. Place(q) = 8 * l + 7 - m
      BY <1>1, <3>1 DEF q
    <3> QED BY <1>3, <2>1, <3>2 DEF Significance
  <2>2. CASE ~ Swapped
    BY <2>2 DEF Place, Swapped, Significance, q
  <2> QED BY <2>1, <2>2
<1> QED BY <1>1, <1>2, <1>4 DEF q

LEMMA ByteIs ==
  ASSUME NEW q \in Bytes
  PROVE  \E l \in Lanes, m \in 0 .. 7 : q = 8 * l + m
<1>1. q \in Nat /\ q =< 199
  BY DEF Bytes
<1>2. q \div 8 \in Nat /\ q % 8 \in 0 .. 7 /\ q = 8 * (q \div 8) + (q % 8)
  BY <1>1, QuotientRemainder
<1>3. q \div 8 \in Lanes
  BY <1>1, <1>2 DEF Lanes
<1> QED BY <1>2, <1>3

\* What was added to the empty states is loaded as the standard's lanes.
LEMMA LoadedAsAdded ==
  ASSUME NEW l \in Lanes, NEW bytes \in [States -> [Bytes -> SUBSET (0 .. 7)]], NEW mem,
         \A k \in States, p \in Bytes : mem[k][p] = bytes[k][Place(p)]
  PROVE  LaneOf(mem, l) = StandardLanes(bytes)[l]
<1>1. ASSUME NEW k \in States, NEW m \in 0 .. 7
      PROVE  mem[k][8 * l + m] = bytes[k][8 * l + Significance(m)]
  <2>1. 8 * l + m \in Bytes /\ Place(8 * l + m) = 8 * l + Significance(m)
    BY PlaceIs
  <2> DEFINE p == 8 * l + m
  <2> HIDE DEF p
  <2>2. mem[k][p] = bytes[k][Place(p)]
    BY <2>1 DEF p
  <2> QED BY <2>1, <2>2, Zenon DEF p
<1> DEFINE Here(k, m, b) == \E z \in bytes[k][8 * l + m] : b = 64 * k + 8 * m + z
<1>2. ASSUME NEW b PROVE b \in LaneOf(mem, l) <=>
                           \E k \in States, m \in 0 .. 7 : Here(k, Significance(m), b)
  <2> DEFINE Piece(k, m) == {64 * k + 8 * Significance(m) + z : z \in mem[k][8 * l + m]}
  <2>1. LaneOf(mem, l) = UNION {Piece(k, m) : k \in States, m \in 0 .. 7}
    BY DEF LaneOf
  <2>2. ASSUME NEW k \in States, NEW m \in 0 .. 7
        PROVE  b \in Piece(k, m) <=> Here(k, Significance(m), b)
    BY <1>1
  <2> HIDE DEF Piece, Here
  <2>3. b \in LaneOf(mem, l) <=> \E k \in States, m \in 0 .. 7 : b \in Piece(k, m)
    BY <2>1
  <2> QED BY <2>2, <2>3
<1>3. ASSUME NEW b PROVE b \in StandardLanes(bytes)[l] <=>
                           \E k \in States, m \in 0 .. 7 : Here(k, m, b)
  <2> DEFINE Piece(k, m) == {64 * k + 8 * m + z : z \in bytes[k][8 * l + m]}
  <2>1. StandardLanes(bytes)[l] = UNION {Piece(k, m) : k \in States, m \in 0 .. 7}
    BY DEF StandardLanes
  <2>2. ASSUME NEW k \in States, NEW m \in 0 .. 7 PROVE b \in Piece(k, m) <=> Here(k, m, b)
    OBVIOUS
  <2> HIDE DEF Piece, Here
  <2>3. b \in StandardLanes(bytes)[l] <=> \E k \in States, m \in 0 .. 7 : b \in Piece(k, m)
    BY <2>1
  <2> QED BY <2>2, <2>3
<1> HIDE DEF Here
<1>4. ASSUME NEW b PROVE b \in LaneOf(mem, l) <=> b \in StandardLanes(bytes)[l]
  <2>1. ASSUME NEW k \in States, NEW m \in 0 .. 7, Here(k, Significance(m), b)
        PROVE  b \in StandardLanes(bytes)[l]
    BY <1>3, <2>1, PlaceIs
  <2>2. ASSUME NEW k \in States, NEW m \in 0 .. 7, Here(k, m, b)
        PROVE  b \in LaneOf(mem, l)
    <3>1. Significance(m) \in 0 .. 7 /\ Here(k, Significance(Significance(m)), b)
      BY <2>2, PlaceIs
    <3> QED BY <1>2, <3>1
  <2> QED BY <1>2, <1>3, <2>1, <2>2
<1> QED BY <1>4

LEMMA StandardLanesType ==
  ASSUME NEW bytes \in [States -> [Bytes -> SUBSET (0 .. 7)]]
  PROVE  StandardLanes(bytes) \in LaneArrays
<1>1. ASSUME NEW l \in Lanes, NEW k \in States, NEW m \in 0 .. 7, NEW z \in bytes[k][8 * l + m]
      PROVE  64 * k + 8 * m + z \in 0 .. 255
  <2>1. 8 * l + m \in Bytes
    BY PlaceIs
  <2>2. z \in 0 .. 7
    BY <2>1
  <2> QED BY <2>2 DEF States
<1>2. ASSUME NEW l \in Lanes PROVE StandardLanes(bytes)[l] \in Words
  BY <1>1 DEF StandardLanes, Words
<1>3. StandardLanes(bytes) = [l \in Lanes |-> StandardLanes(bytes)[l]]
  BY DEF StandardLanes
<1> QED BY <1>2, <1>3 DEF LaneArrays

\* A byte of the result is found where it was added.
LEMMA ReadAsStored ==
  ASSUME NEW words, NEW mem, mem = BytesOf(words), NEW k \in States, NEW q \in Bytes
  PROVE  mem[k][Place(q)] = {z \in 0 .. 7 : 64 * k + 8 * (q % 8) + z \in words[q \div 8]}
<1>1. PICK l \in Lanes, m \in 0 .. 7 : q = 8 * l + m
  BY ByteIs
<1> DEFINE n == Significance(m)
           p == 8 * l + n
<1>2. q % 8 = m /\ q \div 8 = l /\ Place(q) = p /\ n \in 0 .. 7 /\ Significance(n) = m
  BY <1>1, PlaceIs
<1> HIDE DEF n
<1>3. p \in Bytes /\ p % 8 = n /\ p \div 8 = l
  BY <1>2, PlaceIs
<1> HIDE DEF p
<1>4. mem[k][p] = {z \in 0 .. 7 : 64 * k + 8 * Significance(p % 8) + z \in words[p \div 8]}
  BY <1>3 DEF BytesOf
<1> QED BY <1>2, <1>3, <1>4

-----------------------------------------------------------------------------
(* Every code, from the bytes added to the bytes read.                     *)

\* The lanes are the standard's from loading to storing, the sums of columns
\* belong to them where the AVX2 code carries them on, and memory holds the
\* bytes added before and the result after.
PermuteInv ==
  /\ code = "avx2" => endian = "little"
  /\ stage \in {"xor", "load", "prepare", "rounds", "store", "extract", "done"}
  /\ stage = "xor" => memory = Empty /\ input \in Inputs
  /\ stage \in {"xor", "load", "prepare"} => round = 0
  /\ stage = "load" => \A l \in Lanes : LaneOf(memory, l) = standard[l]
  /\ stage # "xor" => standard \in LaneArrays
  /\ stage \in {"prepare", "rounds", "store"} => lanes = standard
  /\ stage = "rounds" => /\ round \in 0 .. 23
                         /\ code = "avx2" => columns = ColumnsOf(lanes)
  /\ stage = "extract" => memory = BytesOf(standard)
  /\ stage = "done" =>
       \A k \in States, q \in Bytes :
         extracted[k][q] = {z \in 0 .. 7 : 64 * k + 8 * (q % 8) + z \in standard[q \div 8]}

LEMMA AddBytesPermutes ==
  ASSUME PermuteInv, AddBytes
  PROVE  PermuteInv'
<1>1. memory = Empty /\ input \in [States -> [Bytes -> SUBSET (0 .. 7)]] /\ round = 0
  BY InputsAssumption DEF PermuteInv, AddBytes
<1>2. ASSUME NEW k \in States, NEW p \in Bytes PROVE memory'[k][p] = input[k][Place(p)]
  <2>1. memory'[k][p] = memory[k][p] \oplus input[k][Place(p)] /\ memory[k][p] = {}
    BY <1>1 DEF AddBytes, Empty
  <2> QED BY <2>1 DEF \oplus
<1>3. ASSUME NEW l \in Lanes PROVE LaneOf(memory', l) = standard'[l]
  BY <1>1, <1>2, LoadedAsAdded DEF AddBytes
<1>4. ASSUME NEW l \in Lanes PROVE LaneOf(memory, l)' = standard'[l]
  <2>1. code' = code /\ endian' = endian
    BY DEF AddBytes
  <2>2. LaneOf(memory, l)' = LaneOf(memory', l)
    BY <2>1 DEF LaneOf, Significance, Swapped
  <2> QED BY <1>3, <2>2
<1>5. standard' \in LaneArrays
  BY <1>1, StandardLanesType DEF AddBytes
<1> QED BY <1>1, <1>4, <1>5 DEF AddBytes, PermuteInv

LEMMA DeclinePermutes ==
  ASSUME PermuteInv, Decline
  PROVE  PermuteInv'
<1>1. endian = "little"
  BY DEF PermuteInv, Decline
<1>2. ASSUME NEW l \in Lanes PROVE LaneOf(memory, l)' = LaneOf(memory, l)
  BY <1>1 DEF Decline, LaneOf, Significance, Swapped
<1> QED BY <1>1, <1>2 DEF Decline, PermuteInv

LEMMA LoadPermutes ==
  ASSUME PermuteInv, Load
  PROVE  PermuteInv'
<1>1. lanes' = standard
  <2>1. standard \in LaneArrays /\ \A l \in Lanes : lanes'[l] = standard[l]
    BY DEF PermuteInv, Load
  <2>2. standard = [l \in Lanes |-> standard[l]] /\ lanes' = [l \in Lanes |-> lanes'[l]]
    BY <2>1 DEF LaneArrays, Load
  <2> QED BY <2>1, <2>2
<1> QED BY <1>1 DEF Load, PermuteInv

LEMMA PreparePermutes ==
  ASSUME PermuteInv, PrepareTheta
  PROVE  PermuteInv'
<1>1. columns' = ColumnsOf(lanes')
  BY DEF PrepareTheta
<1> QED BY <1>1 DEF PrepareTheta, PermuteInv, ColumnsOf

LEMMA RoundPermutes ==
  ASSUME PermuteInv, RoundC \/ RoundAVX2 \/ RoundTiny
  PROVE  PermuteInv'
<1>1. /\ round \in 0 .. 23 /\ lanes = standard /\ lanes \in LaneArrays
      /\ code = "avx2" => columns = ColumnsOf(lanes) /\ endian = "little"
      /\ NextRound
  BY DEF PermuteInv, RoundC, RoundAVX2, RoundTiny, NextRound
<1> DEFINE rc == RoundConstants[round + 1]
<1>2. rc \in SUBSET (0 .. 63)
  BY <1>1 DEF RoundConstants
<1>3. keccakf_rndc[round + 1] = rc /\ keccakf1600RoundConstants[round + 1] = rc
  BY DEF keccakf_rndc, keccakf1600RoundConstants
<1> HIDE DEF rc
<1>4. standard' = Rounded(lanes, rc)
  BY <1>1, StandardRoundIs DEF NextRound, rc
<1>5. lanes' = Rounded(lanes, rc)
  <2>1. CASE RoundC
    BY <1>1, <2>1, UnrolledRoundIs DEF RoundC, rc
  <2>2. CASE RoundAVX2
    <3>1. lanes' = UnrolledRound(lanes, ColumnsOf(lanes), rc)
      BY <1>1, <1>3, <2>2 DEF RoundAVX2
    <3> QED BY <1>1, <3>1, UnrolledRoundIs
  <2>3. CASE RoundTiny
    <3>1. lanes' = Iota(Chi(RhoPi(Theta(lanes))), round)
      BY <2>3 DEF RoundTiny
    <3> QED BY <1>1, <1>3, <3>1, TinyRoundIs
  <2> QED BY <2>1, <2>2, <2>3
<1>6. standard' \in LaneArrays
  BY <1>1, <1>2, <1>4, RoundedType
<1>7. /\ code' = code /\ endian' = endian /\ round' = round + 1
      /\ stage' = IF round' = 24 THEN "store" ELSE "rounds"
  BY <1>1 DEF NextRound, NROUNDS
<1>8. stage' = "rounds" => round' \in 0 .. 23 /\ round # 23
  BY <1>1, <1>7
<1>9. stage' = "rounds" /\ code' = "avx2" => columns' = ColumnsOf(lanes')
  BY <1>7, <1>8 DEF RoundC, RoundAVX2, RoundTiny
<1>10. stage' = "rounds" /\ code' = "avx2" => columns' = ColumnsOf(lanes)'
  BY <1>9 DEF ColumnsOf
<1> QED BY <1>1, <1>4, <1>5, <1>6, <1>7, <1>8, <1>10 DEF PermuteInv

LEMMA StorePermutes ==
  ASSUME PermuteInv, Store
  PROVE  PermuteInv'
<1>1. memory' = BytesOf(standard)
  BY DEF PermuteInv, Store
<1>2. BytesOf(standard)' = BytesOf(standard)
  BY DEF Store, BytesOf, Significance, Swapped
<1> QED BY <1>1, <1>2 DEF Store, PermuteInv

LEMMA ExtractPermutes ==
  ASSUME PermuteInv, Extract
  PROVE  PermuteInv'
<1>1. memory = BytesOf(standard)
  BY DEF PermuteInv, Extract
<1>2. ASSUME NEW k \in States, NEW q \in Bytes
      PROVE  extracted'[k][q] = {z \in 0 .. 7 : 64 * k + 8 * (q % 8) + z \in standard[q \div 8]}
  <2>1. extracted'[k][q] = memory[k][Place(q)]
    BY DEF Extract
  <2> QED BY <1>1, <2>1, ReadAsStored
<1> QED BY <1>2 DEF Extract, PermuteInv

LEMMA StutterPermutes ==
  ASSUME PermuteInv, UNCHANGED keccakVars
  PROVE  PermuteInv'
<1>1. /\ code' = code /\ endian' = endian /\ input' = input /\ stage' = stage
      /\ memory' = memory /\ lanes' = lanes /\ columns' = columns /\ round' = round
      /\ extracted' = extracted /\ standard' = standard
  BY DEF keccakVars
<1>2. \A l \in Lanes : LaneOf(memory, l)' = LaneOf(memory, l)
  BY <1>1 DEF LaneOf, Significance, Swapped
<1>3. BytesOf(standard)' = BytesOf(standard)
  BY <1>1 DEF BytesOf, Significance, Swapped
<1>4. ColumnsOf(lanes)' = ColumnsOf(lanes)
  BY <1>1 DEF ColumnsOf
<1> QED BY <1>1, <1>2, <1>3, <1>4 DEF PermuteInv

LEMMA PermuteInvariance == KeccakSpec => []PermuteInv
<1>1. KeccakInit => PermuteInv
  BY DEF KeccakInit, PermuteInv
<1>2. PermuteInv /\ [KeccakNext]_keccakVars => PermuteInv'
  <2> SUFFICES ASSUME PermuteInv, [KeccakNext]_keccakVars PROVE PermuteInv'
    OBVIOUS
  <2>1. CASE AddBytes
    BY <2>1, AddBytesPermutes
  <2>2. CASE Decline
    BY <2>2, DeclinePermutes
  <2>3. CASE Load
    BY <2>3, LoadPermutes
  <2>4. CASE PrepareTheta
    BY <2>4, PreparePermutes
  <2>5. CASE RoundC \/ RoundAVX2 \/ RoundTiny
    BY <2>5, RoundPermutes
  <2>6. CASE Store
    BY <2>6, StorePermutes
  <2>7. CASE Extract
    BY <2>7, ExtractPermutes
  <2>8. CASE UNCHANGED keccakVars
    BY <2>8, StutterPermutes
  <2> QED BY <2>1, <2>2, <2>3, <2>4, <2>5, <2>6, <2>7, <2>8 DEF KeccakNext
<1> QED BY <1>1, <1>2, PTL DEF KeccakSpec

\* The portable code, the AVX2 code and tiny_sha3 compute Keccak-f[1600] of
\* FIPS 202 on the bytes of a state, for every input and on machines of either
\* byte order, and a byte of the result is read where it belongs.
THEOREM PermutesAsSpecified == KeccakSpec => []PermutationAsSpecified
<1>1. PermuteInv => PermutationAsSpecified
  BY DEF PermuteInv, PermutationAsSpecified
<1> QED BY <1>1, PermuteInvariance, PTL
=============================================================================
