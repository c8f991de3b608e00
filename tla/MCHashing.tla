----------------------------- MODULE MCHashing ------------------------------
(* One input of the permutation, whose bytes are all different from those  *)
(* around them.                                                            *)
EXTENDS Hashing

MCByte(n) == {z \in 0 .. 7 : (n \div 2^z) % 2 = 1}

MCInputs ==
  {[k \in States |-> [q \in Bytes |-> MCByte((5 * (q + 7) * (2 * k + 1) + q * q) % 251)]]}
=============================================================================
