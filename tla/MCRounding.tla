----------------------------- MODULE MCRounding -----------------------------
(***************************************************************************)
(* Rounding on coefficients around every multiple of GAMMA2, where the     *)
(* high bits change, and on products around the limits.                    *)
(***************************************************************************)
EXTENDS Rounding

CONSTANT Near      \* distance from the limits that is covered

Around(S) == {x + d : x \in S, d \in -Near .. Near}

Multiples == {95232 * k : k \in 0 .. 88} \cup {261888 * k : k \in 0 .. 32}

\* Around the multiples, and where low bits are GAMMA2 - BETA.
MCWs == {x \in Around({m + d : m \in Multiples, d \in {-196, -78, 0, 78, 120}}) :
           0 =< x /\ x < Q}
MCCS2s == {-196, -78, -1, 0, 1, 78, 120}
MCCT0s == Around({-261888, -95232, 0, 95232, 261888}) \cup {-159744, 245760}
=============================================================================
