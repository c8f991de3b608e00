----------------------------- MODULE MCEncoding -----------------------------
(* Polynomials and bytes in which a bit that is lost or goes to a wrong    *)
(* place shows: it is different from all the others.                       *)
EXTENDS Encoding

\* Codes with one bit set or one bit clear between codes with none or all.
MCCodes(fm) ==
  LET all == 0 .. fm.bits - 1
      codes == {{b} : b \in all} \cup {all \ {b} : b \in all} \cup {{}, all}
  IN {[n \in CoefficientIndex(fm) |-> IF n = at THEN c ELSE rest] :
        at \in CoefficientIndex(fm), c \in codes, rest \in {{}, all}}

\* Those that are coefficients in the range, the others clipped to it.
MCPolysOf(fm) ==
  {[n \in CoefficientIndex(fm) |->
      LET x == Decode(fm, Value(p[n])) IN
      IF x < fm.low THEN fm.low ELSE IF x > fm.high THEN fm.high ELSE x] :
     p \in MCCodes(fm)}

\* One bit set or clear in bytes that are otherwise all zeros or all ones.
MCStringsOf(fm) ==
  {[b \in ByteIndex(fm) |-> IF b = at THEN c ELSE rest] :
     at \in ByteIndex(fm), rest \in {{}, 0 .. 7},
     c \in {{x} : x \in 0 .. 7} \cup {(0 .. 7) \ {x} : x \in 0 .. 7}}

MCPolys == [name \in Formats |-> MCPolysOf(Format[name])]
MCStrings == [name \in Formats |-> MCStringsOf(Format[name])]
=============================================================================
