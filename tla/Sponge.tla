------------------------------- MODULE Sponge -------------------------------
(***************************************************************************)
(* SHAKE as fips202.c and fips202x4.c compute it: absorbing in pieces of   *)
(* any size and squeezing in pieces of any size over one Keccak state, and *)
(* the batched variant that absorbs once and squeezes whole blocks.  The   *)
(* four states of a batch take the same steps on inputs of one length; the *)
(* module follows one of them.  A build may bring its own FIPS 202 in      *)
(* place of these: tiny_sha3, behind the functions of custom_fips202.      *)
(*                                                                         *)
(* Keccak itself is not computed.  A state is written down as the blocks   *)
(* that were added before each permutation so far, and the block added     *)
(* since; an output byte as the state it was read from and its position.   *)
(* A byte is the set of the symbols added (exclusive-or) into it.          *)
(***************************************************************************)
EXTENDS Integers, Sequences

CONSTANTS
  Rate,                  \* SHAKE128_RATE or SHAKE256_RATE: bytes per block
  Byte,                  \* values of an input byte
  MaxInput, MaxOutput    \* bounds on what one computation absorbs, squeezes

Suffix == "0x1F"
Last == "0x80"

ASSUME SpongeAssumption ==
  /\ Rate \in Nat \ {0}
  /\ MaxInput \in Nat /\ MaxOutput \in Nat
  /\ Suffix \notin Byte /\ Last \notin Byte

Position == 0 .. Rate - 1
Symbols == SUBSET (Byte \cup {Suffix, Last})
Block == [Position -> Symbols]
Zero == [i \in Position |-> {}]

Xor(a, b) == (a \ b) \cup (b \ a)

\* mld_keccakf1600_xor_bytes: bytes[0], bytes[1] ... from offset on.
XorBytes(s, bytes, offset, length) ==
  [s EXCEPT !.block =
     [i \in Position |-> IF i \in offset .. offset + length - 1
                           THEN Xor(s.block[i], bytes[i - offset])
                           ELSE s.block[i]]]

Permute(s) == [past |-> Append(s.past, s.block), block |-> Zero]

\* mld_keccakf1600_extract_bytes
ExtractBytes(s, offset, length) ==
  [k \in 1 .. length |-> [state |-> s, at |-> offset + k - 1]]

-----------------------------------------------------------------------------

VARIABLES
  phase,       \* of the context: "released", "absorb" or "squeeze", of which code
  pc,          \* "ready", or the loop that runs
  s, pos,      \* the context; a batch has no pos
  inlen,       \* bytes of the input left to absorb: the last of message
  togo,        \* bytes (of a batch: blocks) left to squeeze
  message,     \* all that was absorbed, the input of this call included
  out          \* all that was squeezed

spongeVars == <<phase, pc, s, pos, inlen, togo, message, out>>

Init ==
  /\ phase = "released" /\ pc = "ready"
  /\ s = [past |-> <<>>, block |-> Zero] /\ pos = 0
  /\ inlen = 0 /\ togo = 0 /\ message = <<>> /\ out = <<>>

\* The next bytes of the input.
In == [j \in 0 .. inlen - 1 |-> {message[Len(message) - inlen + j + 1]}]

Begin ==
  /\ phase = "released" /\ pc = "ready"
  /\ s' = [past |-> <<>>, block |-> Zero] /\ pos' = 0 /\ out' = <<>>

\* mld_shake128_init, mld_shake256_init
ShakeInit ==
  /\ Begin
  /\ phase' = "absorb" /\ message' = <<>>
  /\ UNCHANGED <<pc, inlen, togo>>

Input == UNION {[1 .. n -> Byte] : n \in 0 .. MaxInput}

\* Calls of mld_shake128_absorb, mld_shake256_absorb.
Absorb(in) ==
  /\ phase = "absorb" /\ pc = "ready"
  /\ Len(message) + Len(in) =< MaxInput
  /\ pc' = "absorbing" /\ message' = message \o in /\ inlen' = Len(in)
  /\ UNCHANGED <<phase, s, pos, togo, out>>

\* The loop condition of keccak_absorb.
FillsBlock == inlen >= Rate - pos

AbsorbBlock ==
  /\ pc = "absorbing" /\ FillsBlock
  /\ s' = Permute(XorBytes(s, In, pos, Rate - pos))
  /\ inlen' = inlen - (Rate - pos) /\ pos' = 0
  /\ UNCHANGED <<phase, pc, togo, message, out>>

AbsorbTail ==
  /\ pc = "absorbing" /\ ~FillsBlock
  /\ s' = XorBytes(s, In, pos, inlen)
  /\ pos' = pos + inlen /\ inlen' = 0 /\ pc' = "ready"
  /\ UNCHANGED <<phase, togo, message, out>>

\* One byte, at the given place.
XorByte(t, b, at) == XorBytes(t, [j \in {0} |-> b], at, 1)

\* Fault: squeezing starts where absorbing ended.
FinalizeInPlace ==
  /\ phase = "absorb" /\ pc = "ready" /\ phase' = "squeeze"
  /\ s' = XorByte(XorByte(s, {Suffix}, pos), {Last}, Rate - 1)
  /\ UNCHANGED <<pc, pos, inlen, togo, message, out>>

\* keccak_finalize, mld_shake128_finalize, mld_shake256_finalize
Finalize ==
  /\ phase = "absorb" /\ pc = "ready" /\ phase' = "squeeze"
  /\ s' = XorByte(XorByte(s, {Suffix}, pos), {Last}, Rate - 1) /\ pos' = Rate
  /\ UNCHANGED <<pc, inlen, togo, message, out>>

\* Calls of mld_shake128_squeeze, mld_shake256_squeeze.
Squeeze(n) ==
  /\ phase = "squeeze" /\ pc = "ready"
  /\ Len(out) + n =< MaxOutput
  /\ pc' = "squeezing" /\ togo' = n
  /\ UNCHANGED <<phase, s, pos, inlen, message, out>>

\* keccak_squeeze, one round of its loop.
SqueezeSome ==
  /\ pc = "squeezing" /\ togo > 0
  /\ s' = IF pos = Rate THEN Permute(s) ELSE s
  /\ LET from == IF pos = Rate THEN 0 ELSE pos
         i == IF togo < Rate - from THEN togo ELSE Rate - from
     IN  /\ out' = out \o ExtractBytes(s', from, i)
         /\ togo' = togo - i /\ pos' = from + i
  /\ UNCHANGED <<phase, pc, inlen, message>>

SqueezeDone ==
  /\ pc \in {"squeezing", "squeezing_x4"} /\ togo = 0 /\ pc' = "ready"
  /\ UNCHANGED <<phase, s, pos, inlen, togo, message, out>>

\* mld_shake128_release, mld_shake256_release and those of a batch
Release ==
  /\ phase \in {"squeeze", "squeeze_x4", "squeeze_tiny"} /\ pc = "ready"
  /\ phase' = "released"
  /\ s' = [past |-> <<>>, block |-> Zero] /\ pos' = 0
  /\ message' = <<>> /\ out' = <<>>
  /\ UNCHANGED <<pc, inlen, togo>>

-----------------------------------------------------------------------------
(* The batch: mld_shake128x4_absorb_once, mld_shake256x4_absorb_once and   *)
(* mld_shake128x4_squeezeblocks, mld_shake256x4_squeezeblocks.             *)

AbsorbOnceX4(in) ==
  /\ Begin
  /\ pc' = "absorbing_x4" /\ phase' = "absorb_x4"
  /\ message' = in /\ inlen' = Len(in)
  /\ UNCHANGED togo

AbsorbBlockX4 ==
  /\ pc = "absorbing_x4" /\ inlen >= Rate
  /\ s' = Permute(XorBytes(s, In, 0, Rate))
  /\ inlen' = inlen - Rate
  /\ UNCHANGED <<phase, pc, pos, togo, message, out>>

\* The tail and the padding: one byte holds both ends of the padding when
\* it is the only one left in the block.
PadX4 ==
  /\ pc = "absorbing_x4" /\ inlen < Rate
  /\ LET t == XorBytes(s, In, 0, inlen)
     IN  s' = IF inlen = Rate - 1
                THEN XorByte(t, {Suffix, Last}, inlen)
                ELSE XorByte(XorByte(t, {Suffix}, inlen), {Last}, Rate - 1)
  /\ inlen' = 0 /\ pc' = "ready" /\ phase' = "squeeze_x4"
  /\ UNCHANGED <<pos, togo, message, out>>

SqueezeBlocksX4(nblocks) ==
  /\ phase = "squeeze_x4" /\ pc = "ready"
  /\ Len(out) + nblocks * Rate =< MaxOutput
  /\ pc' = "squeezing_x4" /\ togo' = nblocks
  /\ UNCHANGED <<phase, s, pos, inlen, message, out>>

SqueezeBlockX4 ==
  /\ pc = "squeezing_x4" /\ togo > 0
  /\ s' = Permute(s)
  /\ out' = out \o ExtractBytes(s', 0, Rate)
  /\ togo' = togo - 1
  /\ UNCHANGED <<phase, pc, pos, inlen, message>>

-----------------------------------------------------------------------------
(* tiny_sha3: sha3_update, shake_xof and shake_out go byte by byte, and     *)
(* pos (pt) never stays at the end of a block while absorbing.  The phase   *)
(* is the one custom_fips202 asserts (fips202_state_t).                     *)

TinyInit ==
  /\ Begin
  /\ phase' = "absorb_tiny" /\ message' = <<>>
  /\ UNCHANGED <<pc, inlen, togo>>

TinyAbsorb(in) ==
  /\ phase = "absorb_tiny" /\ pc = "ready"
  /\ Len(in) > 0 /\ Len(message) + Len(in) =< MaxInput
  /\ pc' = "absorbing_tiny" /\ message' = message \o in /\ inlen' = Len(in)
  /\ UNCHANGED <<phase, s, pos, togo, out>>

TinyAbsorbByte ==
  /\ pc = "absorbing_tiny"
  /\ LET t == XorByte(s, In[0], pos)
     IN  IF pos + 1 >= Rate THEN s' = Permute(t) /\ pos' = 0
                            ELSE s' = t /\ pos' = pos + 1
  /\ inlen' = inlen - 1 /\ pc' = IF inlen = 1 THEN "ready" ELSE pc
  /\ UNCHANGED <<phase, togo, message, out>>

\* shake_xof permutes at once, where keccak_finalize leaves that to squeezing.
TinyFinalize ==
  /\ phase = "absorb_tiny" /\ pc = "ready" /\ phase' = "squeeze_tiny"
  /\ s' = Permute(XorByte(XorByte(s, {Suffix}, pos), {Last}, Rate - 1)) /\ pos' = 0
  /\ UNCHANGED <<pc, inlen, togo, message, out>>

TinySqueeze(n) ==
  /\ phase = "squeeze_tiny" /\ pc = "ready"
  /\ n > 0 /\ Len(out) + n =< MaxOutput
  /\ pc' = "squeezing_tiny" /\ togo' = n
  /\ UNCHANGED <<phase, s, pos, inlen, message, out>>

TinySqueezeByte ==
  /\ pc = "squeezing_tiny"
  /\ LET full == pos >= Rate
         from == IF full THEN 0 ELSE pos
     IN  /\ s' = IF full THEN Permute(s) ELSE s
         /\ out' = out \o ExtractBytes(s', from, 1) /\ pos' = from + 1
  /\ togo' = togo - 1 /\ pc' = IF togo = 1 THEN "ready" ELSE pc
  /\ UNCHANGED <<phase, inlen, message>>

-----------------------------------------------------------------------------

Next ==
  \/ ShakeInit \/ Finalize \/ Release
  \/ \E in \in Input : Absorb(in) \/ AbsorbOnceX4(in) \/ TinyAbsorb(in)
  \/ AbsorbBlock \/ AbsorbTail
  \/ \E n \in 0 .. MaxOutput : Squeeze(n) \/ SqueezeBlocksX4(n) \/ TinySqueeze(n)
  \/ SqueezeSome \/ SqueezeDone
  \/ AbsorbBlockX4 \/ PadX4 \/ SqueezeBlockX4
  \/ TinyInit \/ TinyAbsorbByte \/ TinyFinalize \/ TinySqueezeByte

Spec == Init /\ [][Next]_spongeVars

-----------------------------------------------------------------------------
(* The specification: the message is padded to whole blocks, which are     *)
(* absorbed one by one; then the output is read, a permutation apart.      *)

\* Byte j of a message with its padding, up to the end of the block.
Padded(m, j) ==
  IF j < Len(m) THEN {m[j + 1]}
  ELSE (IF j = Len(m) THEN {Suffix} ELSE {})
         \cup (IF j % Rate = Rate - 1 THEN {Last} ELSE {})

LastBlock(m) == Len(m) \div Rate
BlockOf(m, k) ==
  IF k =< LastBlock(m) THEN [i \in Position |-> Padded(m, k * Rate + i)]
                       ELSE Zero

\* Byte q of SHAKE of m.
Shake(m, q) ==
  [state |-> [past |-> [k \in 1 .. LastBlock(m) + 1 + q \div Rate
                          |-> BlockOf(m, k - 1)],
              block |-> Zero],
   at |-> q % Rate]

\* However a message is cut for absorbing and its hash for squeezing, and
\* serial or batched, the output is SHAKE of the whole message.
OutputIsShake ==
  \A q \in 1 .. Len(out) : out[q] = Shake(message, q - 1)

=============================================================================
