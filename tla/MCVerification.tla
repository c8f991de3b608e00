--------------------------- MODULE MCVerification ---------------------------
(***************************************************************************)
(* A small instance of Verification.  Contexts and messages share bytes,   *)
(* so that they can be split in different places; one pure message spells  *)
(* out an object identifier and a digest.                                  *)
(***************************************************************************)
EXTENDS Verification

MCShake256(m) == [j \in 1 .. 64 |-> IF j =< Len(m) THEN m[j] ELSE 255]

Digest32 == [j \in 1 .. 32 |-> 7]
Contexts == {<<>>, <<7>>, <<7, 8>>, <<7, 8, 9>>}
Texts == {<<>>, <<7>>, <<8, 9>>, <<7, 8, 9>>, HashOid(2) \o Digest32}

Ask(entries, algs, ctxs, ms) ==
  [entry : entries, alg : algs, ctx : ctxs, m : ms]

MCRequests ==
  Ask({"pure"}, {0}, Contexts, Texts)
    \cup Ask({"pre_hash_internal"}, {2, 8, 11, 13}, {<<>>, <<7>>, <<7, 8, 9>>},
             {<<>>, Digest32})
    \cup Ask({"pre_hash_internal"}, {4, 12}, {<<>>, <<7>>}, {MCShake256(<<7>>)})
    \cup Ask({"pre_hash_shake256"}, {0}, {<<>>, <<7>>, <<7, 8, 9>>}, {<<>>, <<7>>})
    \cup Ask({"extmu"}, {0}, {<<>>},
             {<<3>>, <<1, 1>> \o Prefix(<<>>, <<7>>, 0) \o <<8, 9>>})

\* Also the constant for no pre-hash, where an algorithm is asked for.
MCRequestsNone ==
  Ask({"pure"}, {0}, {<<>>, <<7>>}, {<<>>, <<7>>})
    \cup Ask({"pre_hash_internal"}, {0, 2}, {<<>>, <<7>>}, {<<>>, Digest32})
=============================================================================
