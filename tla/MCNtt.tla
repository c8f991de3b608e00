------------------------------- MODULE MCNtt -------------------------------
(* Polynomials with eight coefficients modulo 241, a prime with a root of *)
(* unity of order 16 just below a power of two.  RangeAssumption leaves    *)
(* little room: the product of two transforms is below 16 * 241 * 241, and *)
(* Montgomery's reduction takes what is below 241 * 2^12.                  *)
EXTENDS Ntt

MCF == -120

Centered(x) == IF x % Q < Half THEN x % Q ELSE (x % Q) - Q

MCZetas ==
  [i \in 0 .. 7 |-> IF i = 0 THEN 0 ELSE Centered(R * Power(Root, BitRev(i)))]

\* Polynomials: the largest coefficients of either sign, all or one or two.
MCPoly(shape, x) ==
  [j \in 0 .. 7 |->
     CASE shape = "all" -> x
       [] shape = "alternating" -> IF j % 2 = 0 THEN x ELSE -x
       [] shape = "first" -> IF j = 0 THEN x ELSE 0
       [] shape = "last" -> IF j = 7 THEN x ELSE 0
       [] shape = "mixed" -> ((j * j + 3 * j + 1) * x) % (Abs(x) + 1)
       [] shape = "zero" -> 0]

\* A matrix, and the transforms it is sampled as.
MCMatrix(m) == [ring |-> m, ntt |-> [i \in 1 .. 2 |-> Values(m[i])]]

MCInput(m, c, t, v1, v2, e) ==
  [matrix |-> m.ring, mat |-> m.ntt,
   poly |-> [p \in Names |->
               CASE p = Single("c") -> c
                 [] p = Single("t") -> t
                 [] p = Vector(1) -> v1
                 [] p = Vector(2) -> v2
                 [] p = Single("e") -> e
                 [] OTHER -> MCPoly("zero", 0)]]

MCMatrices ==
  {MCMatrix(<<MCPoly("mixed", Q - 1), MCPoly("last", Q - 1)>>),
   MCMatrix(<<MCPoly("all", Q - 1), MCPoly("all", Q - 1)>>)}
MCLong == {MCPoly(s, Q - 1) : s \in {"all", "alternating", "first", "last", "mixed"}}
MCShort == {MCPoly(s, 2) : s \in {"all", "alternating", "last"}}
MCHigh == {MCPoly("all", 30), MCPoly("mixed", 29)}
MCChallenges == {MCPoly(s, 1) : s \in {"all", "alternating", "last", "zero"}}

\* Of all constant polynomials, those whose products differ most.
MCExtreme ==
  MCInput(MCMatrix(<<MCPoly("first", 235), MCPoly("first", 235)>>),
          MCPoly("first", 1), MCPoly("first", 30), MCPoly("first", 223), MCPoly("first", 223),
          MCPoly("last", 2))

MCInputs ==
  {MCInput(m, c, t, v1, v2, e) :
     m \in MCMatrices, c \in MCChallenges, t \in MCHigh, v1 \in MCLong,
     v2 \in {MCPoly("alternating", Q - 1), MCPoly("mixed", 1 - Q)},
     e \in MCShort}
  \cup {MCExtreme}
=============================================================================
