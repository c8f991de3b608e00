------------------------------ MODULE MCKeyGen ------------------------------
(* Key generation on vectors of one and two coefficients.                  *)
EXTENDS KeyGen

MCRow == 1 .. 2
MCCol == 1 .. 1
MCRho == 0 .. 1
\* A(rho) = (rho + 1, rho + 3)
MCProduct == [<<rho, s>> \in MCRho \X [MCCol -> Unpacked] |->
                [r \in MCRow |-> ((rho + 2 * r - 1) * s[1]) % Q]]
MCFlipped == [rho \in MCRho |-> 1 - rho]
\* Without collisions: the hash of a key is the key.
MCHash == [p \in PublicKey |-> p]
=============================================================================
