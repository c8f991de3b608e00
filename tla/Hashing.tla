------------------------------ MODULE Hashing -------------------------------
(***************************************************************************)
(* The permutation under the sponge (Keccak), and what is drawn from SHAKE *)
(* over it: the challenge polynomial, over the sponge itself (Challenge),  *)
(* and the matrix, secrets and mask, over streams of candidates            *)
(* (Sampling).  A behaviour follows one of the three.                      *)
(***************************************************************************)
EXTENDS Challenge, Sampling, Keccak

VARIABLE drawing     \* "challenge", "polynomials" or "nothing"

spongeAndChallenge == <<spongeVars, challengeVars>>

NothingSampled ==
  /\ set = 0 /\ serial = FALSE /\ reduceRam = FALSE /\ job = "y"
  /\ calls = <<>> /\ rejected = <<>> /\ batch = 0 /\ blocks = 0
  /\ ctr = <<>> /\ poly = <<>> /\ rows = <<>>

NothingPermuted ==
  /\ code = "none" /\ endian = "little" /\ input = <<>> /\ stage = "none" /\ round = 0
  /\ memory = <<>> /\ lanes = <<>> /\ columns = <<>> /\ extracted = <<>>
  /\ standard = <<>>

HashingInit ==
  \/ drawing = "challenge" /\ ChallengeInit /\ NothingSampled /\ NothingPermuted
  \/ drawing = "polynomials" /\ ChallengeInit /\ SamplingInit /\ NothingPermuted
  \/ drawing = "nothing" /\ ChallengeInit /\ NothingSampled /\ KeccakInit

HashingNext ==
  /\ UNCHANGED drawing
  /\ \/ /\ drawing = "challenge" /\ ChallengeNext
        /\ UNCHANGED <<samplingVars, keccakVars>>
     \/ /\ drawing = "polynomials" /\ SamplingNext
        /\ UNCHANGED <<spongeAndChallenge, keccakVars>>
     \/ /\ drawing = "nothing" /\ KeccakNext
        /\ UNCHANGED <<spongeAndChallenge, samplingVars>>

HashingSpec ==
  HashingInit /\ [][HashingNext]_<<drawing, spongeAndChallenge, samplingVars, keccakVars>>
=============================================================================
