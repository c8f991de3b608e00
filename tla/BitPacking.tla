---------------------------- MODULE BitPacking ----------------------------
(***************************************************************************)
(* Polynomials packed into bytes and back: the vectors of public and       *)
(* secret keys, the response z of a signature, and the high bits of w as   *)
(* they are hashed (mld_polyt1_*, mld_polyt0_* in poly.c; mld_polyeta_*,   *)
(* mld_polyz_*, mld_polyw1_pack in poly_kl.c).                             *)
(*                                                                         *)
(* Each function treats a polynomial group by group, a group of            *)
(* coefficients being the smallest that fills whole bytes.  The code       *)
(* writes out every shift of a group; Format holds the same shifts as      *)
(* tables.  A byte, or a coefficient on its way, is the set of its bits.   *)
(***************************************************************************)
EXTENDS Integers, Sequences

CONSTANTS
  Groups,           \* groups of a polynomial: MLDSA_N by the size of a group
  Formats,          \* formats to check
  Polys, Strings    \* of each format, polynomials to pack, bytes to unpack

\* x >> s, or x << -s when s is negative
Shift(x, s) == {b - s : b \in {c \in x : c >= s}}

\* Fault: one bit too narrow.
MaskNarrow(x, width) == x \cap 0 .. width - 2

Mask(x, width) == x \cap 0 .. width - 1

Bits(n) == {b \in 0 .. 19 : (n \div 2 ^ b) % 2 = 1}

Value(bits) ==
  LET sum[b \in 0 .. 20] ==
        IF b = 0 THEN 0
        ELSE sum[b - 1] + (IF b - 1 \in bits THEN 2 ^ (b - 1) ELSE 0)
  IN sum[20]

-----------------------------------------------------------------------------
(* The formats.  pack[b]: the pairs <<coefficient, shift>> whose union is  *)
(* byte b of a group.  unpack[j]: the pairs <<byte, shift>> of coefficient *)
(* j, masked to mask[j] bits.  A coefficient a is held as offset - a; the  *)
(* contract of packing takes it from low .. high, that of unpacking        *)
(* promises least .. high.                                                 *)

T1 ==
  [pack |-> <<{<<0, 0>>}, {<<0, 8>>, <<1, -2>>}, {<<1, 6>>, <<2, -4>>},
              {<<2, 4>>, <<3, -6>>}, {<<3, 2>>}>>,
   unpack |-> <<{<<0, 0>>, <<1, -8>>}, {<<1, 2>>, <<2, -6>>},
                {<<2, 4>>, <<3, -4>>}, {<<3, 6>>, <<4, -2>>}>>,
   mask |-> <<10, 10, 10, 10>>,
   bits |-> 10, negate |-> FALSE, offset |-> 0,
   low |-> 0, high |-> 1023, least |-> 0]

T0 ==
  [pack |-> <<{<<0, 0>>}, {<<0, 8>>, <<1, -5>>}, {<<1, 3>>},
              {<<1, 11>>, <<2, -2>>}, {<<2, 6>>, <<3, -7>>}, {<<3, 1>>},
              {<<3, 9>>, <<4, -4>>}, {<<4, 4>>}, {<<4, 12>>, <<5, -1>>},
              {<<5, 7>>, <<6, -6>>}, {<<6, 2>>}, {<<6, 10>>, <<7, -3>>},
              {<<7, 5>>}>>,
   unpack |-> <<{<<0, 0>>, <<1, -8>>}, {<<1, 5>>, <<2, -3>>, <<3, -11>>},
                {<<3, 2>>, <<4, -6>>}, {<<4, 7>>, <<5, -1>>, <<6, -9>>},
                {<<6, 4>>, <<7, -4>>, <<8, -12>>}, {<<8, 1>>, <<9, -7>>},
                {<<9, 6>>, <<10, -2>>, <<11, -10>>}, {<<11, 3>>, <<12, -5>>}>>,
   mask |-> <<13, 13, 13, 13, 13, 13, 13, 13>>,
   bits |-> 13, negate |-> TRUE, offset |-> 4096,
   low |-> -4095, high |-> 4096, least |-> -4095]

\* MLDSA_ETA = 2: parameter sets 44 and 87
Eta2 ==
  [pack |-> <<{<<0, 0>>, <<1, -3>>, <<2, -6>>},
              {<<2, 2>>, <<3, -1>>, <<4, -4>>, <<5, -7>>},
              {<<5, 1>>, <<6, -2>>, <<7, -5>>}>>,
   unpack |-> <<{<<0, 0>>}, {<<0, 3>>}, {<<0, 6>>, <<1, -2>>}, {<<1, 1>>},
                {<<1, 4>>}, {<<1, 7>>, <<2, -1>>}, {<<2, 2>>}, {<<2, 5>>}>>,
   mask |-> <<3, 3, 3, 3, 3, 3, 3, 3>>,
   bits |-> 3, negate |-> TRUE, offset |-> 2,
   low |-> -2, high |-> 2, least |-> -5]

\* MLDSA_ETA = 4: parameter set 65; the high nibble is not masked
Eta4 ==
  [pack |-> <<{<<0, 0>>, <<1, -4>>}>>,
   unpack |-> <<{<<0, 0>>}, {<<0, 4>>}>>, mask |-> <<4, 8>>,
   bits |-> 4, negate |-> TRUE, offset |-> 4,
   low |-> -4, high |-> 4, least |-> -11]

\* MLDSA_GAMMA1 = 2^17: parameter set 44
Z17 ==
  [pack |-> <<{<<0, 0>>}, {<<0, 8>>}, {<<0, 16>>, <<1, -2>>}, {<<1, 6>>},
              {<<1, 14>>, <<2, -4>>}, {<<2, 4>>}, {<<2, 12>>, <<3, -6>>},
              {<<3, 2>>}, {<<3, 10>>}>>,
   unpack |-> <<{<<0, 0>>, <<1, -8>>, <<2, -16>>},
                {<<2, 2>>, <<3, -6>>, <<4, -14>>},
                {<<4, 4>>, <<5, -4>>, <<6, -12>>},
                {<<6, 6>>, <<7, -2>>, <<8, -10>>}>>,
   mask |-> <<18, 18, 18, 18>>,
   bits |-> 18, negate |-> TRUE, offset |-> 131072,
   low |-> -131071, high |-> 131072, least |-> -131071]

\* MLDSA_GAMMA1 = 2^19: parameter sets 65 and 87; one mask is left out
Z19 ==
  [pack |-> <<{<<0, 0>>}, {<<0, 8>>}, {<<0, 16>>, <<1, -4>>}, {<<1, 4>>},
              {<<1, 12>>}>>,
   unpack |-> <<{<<0, 0>>, <<1, -8>>, <<2, -16>>},
                {<<2, 4>>, <<3, -4>>, <<4, -12>>}>>,
   mask |-> <<20, 32>>,
   bits |-> 20, negate |-> TRUE, offset |-> 524288,
   low |-> -524287, high |-> 524288, least |-> -524287]

\* Fault: one coefficient is shifted too far.
W1Pack44Shifted ==
  <<{<<0, 0>>, <<1, -6>>}, {<<1, 2>>, <<2, -5>>}, {<<2, 4>>, <<3, -2>>}>>

W1Pack44 ==
  <<{<<0, 0>>, <<1, -6>>}, {<<1, 2>>, <<2, -4>>}, {<<2, 4>>, <<3, -2>>}>>

\* High bits of w: below 44, or below 16; never unpacked
W1Of44 ==
  [pack |-> W1Pack44, unpack |-> <<>>, mask |-> <<6, 6, 6, 6>>,
   bits |-> 6, negate |-> FALSE, offset |-> 0,
   low |-> 0, high |-> 43, least |-> 0]

W1Of16 ==
  [pack |-> <<{<<0, 0>>, <<1, -4>>}>>, unpack |-> <<>>, mask |-> <<4, 4>>,
   bits |-> 4, negate |-> FALSE, offset |-> 0,
   low |-> 0, high |-> 15, least |-> 0]

Format ==
  [t1 |-> T1, t0 |-> T0, eta2 |-> Eta2, eta4 |-> Eta4, z17 |-> Z17,
   z19 |-> Z19, w1_44 |-> W1Of44, w1_16 |-> W1Of16]

\* Coefficients and bytes of a group
Coefficients(fm) == Len(fm.mask)
Bytes(fm) == Len(fm.pack)

Encode(fm, x) == IF fm.negate THEN fm.offset - x ELSE x
Decode(fm, n) == IF fm.negate THEN fm.offset - n ELSE n

\* The union of the parts of the table's row, taken from parts x.
Gather(row, x) == UNION {Shift(x[t[1]], t[2]) : t \in row}

-----------------------------------------------------------------------------

VARIABLES
  format, todo,      \* functions still to run: "pack" or "unpack"
  group,             \* groups the running one has done
  a, r,              \* coefficients and bytes of the polynomial
  start              \* history: the coefficients or the bytes at the start

packingVars == <<format, todo, group, a, r, start>>

fmt == Format[format]
FromPoly == DOMAIN start = {"poly"}
CoefficientIndex(fm) == 0 .. Groups * Coefficients(fm) - 1
ByteIndex(fm) == 0 .. Groups * Bytes(fm) - 1

\* Memory before it is written: nothing may be left of it.
StaleBytes(fm) == [b \in ByteIndex(fm) |-> 0 .. 7]
StalePoly(fm) == [j \in CoefficientIndex(fm) |-> fm.low]

\* Packing is given coefficients in the range, unpacking any bytes.
ASSUME PackingAssumption ==
  /\ Groups \in Nat \ {0}
  /\ Formats \subseteq DOMAIN Format
  /\ \A name \in Formats :
       LET fm == Format[name]
       IN  /\ Polys[name] \subseteq [CoefficientIndex(fm) -> fm.low .. fm.high]
           /\ Strings[name] \subseteq [ByteIndex(fm) -> SUBSET (0 .. 7)]

\* Unpacked secret vectors are not packed again: they may be out of range.
InitBytes(fm) ==
  /\ fm.unpack # <<>>
  /\ r \in Strings[format] /\ start = [bytes |-> r] /\ a = StalePoly(fm)
  /\ todo = IF fm.least = fm.low THEN <<"unpack", "pack">> ELSE <<"unpack">>

InitPoly(fm) ==
  /\ a \in Polys[format] /\ start = [poly |-> a] /\ r = StaleBytes(fm)
  /\ todo = IF fm.unpack = <<>> THEN <<"pack">> ELSE <<"pack", "unpack">>

PackingInit ==
  /\ format \in Formats /\ group = 0
  /\ InitBytes(fmt) \/ InitPoly(fmt)

\* The next function starts with its output unwritten.
Advance ==
  IF group + 1 < Groups THEN group' = group + 1 /\ UNCHANGED todo
                    ELSE group' = 0 /\ todo' = Tail(todo)

\* One round of a packing loop
PackGroup ==
  /\ todo # <<>> /\ Head(todo) = "pack"
  /\ LET x == [j \in 0 .. Coefficients(fmt) - 1 |->
                 Bits(Encode(fmt, a[Coefficients(fmt) * group + j]))]
         first == Bytes(fmt) * group
     IN r' = [b \in ByteIndex(fmt) |->
                IF b \in first .. first + Bytes(fmt) - 1
                  THEN Mask(Gather(fmt.pack[b - first + 1], x), 8)
                  ELSE r[b]]
  /\ a' = IF group + 1 = Groups /\ Len(todo) > 1 THEN StalePoly(fmt) ELSE a
  /\ Advance
  /\ UNCHANGED <<format, start>>

\* One round of an unpacking loop
UnpackGroup ==
  /\ todo # <<>> /\ Head(todo) = "unpack"
  /\ LET y == [b \in 0 .. Bytes(fmt) - 1 |-> r[Bytes(fmt) * group + b]]
         first == Coefficients(fmt) * group
     IN a' = [j \in CoefficientIndex(fmt) |->
                IF j \in first .. first + Coefficients(fmt) - 1
                  THEN Decode(fmt, Value(Mask(Gather(fmt.unpack[j - first + 1], y),
                                              fmt.mask[j - first + 1])))
                  ELSE a[j]]
  /\ r' = IF group + 1 = Groups /\ Len(todo) > 1 THEN StaleBytes(fmt) ELSE r
  /\ Advance
  /\ UNCHANGED <<format, start>>

PackingNext == PackGroup \/ UnpackGroup

PackingSpec == PackingInit /\ [][PackingNext]_packingVars

-----------------------------------------------------------------------------
(* Properties.                                                             *)

\* Bit b of coefficient j is bit bits * j + b of the string of bytes, low
\* bits first, as the standard's packing has it: keys and signatures are
\* exchanged with other implementations, and w1 is hashed on both sides.
StandardBits ==
  todo = <<>> =>
    \A j \in CoefficientIndex(fmt), b \in 0 .. fmt.bits - 1 :
      LET at == fmt.bits * j + b
          x == IF FromPoly THEN start.poly ELSE a
      IN (b \in Bits(Encode(fmt, x[j]))) = (at % 8 \in r[at \div 8])

\* Coefficients come back as they were packed, whatever was in memory; and
\* bytes that were unpacked are the only ones that unpack to the same, so
\* that nobody can write z of a signature in another way.
ReadBack ==
  todo = <<>> =>
    IF FromPoly THEN fmt.unpack # <<>> => a = start.poly
                ELSE r = start.bytes

\* Whatever the bytes, coefficients are in the range that the arithmetic
\* after them counts on; those of the secret vectors may lie below -ETA,
\* but no further than MLD_POLYETA_UNPACK_LOWER_BOUND.
UnpackedInRange ==
  todo = <<>> \/ Head(todo) = "pack" =>
    \A j \in CoefficientIndex(fmt) : a[j] \in fmt.least .. fmt.high

\* A polynomial survives its encoding, and no bytes decode to one that the
\* arithmetic cannot take.
PolynomialRoundTrip == ReadBack /\ UnpackedInRange
=============================================================================
