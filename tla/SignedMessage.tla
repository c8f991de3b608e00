--------------------------- MODULE SignedMessage ---------------------------
(***************************************************************************)
(* The combined API: mld_sign puts a signature in front of a message,      *)
(* mld_sign_open takes it off again if it verifies.  Both may work in      *)
(* place, m and sm being the same buffer (mldsa_native.h:412, 558), so the *)
(* byte order of their copy loops matters.                                 *)
(*                                                                         *)
(* One client signs a message, the signed message travels and may change,  *)
(* and a second call opens it.  Memory is one array of cells.  The signed  *)
(* message starts at address 0, the message buffer at base, which is 0     *)
(* when the call is in place and beyond the signed message otherwise.      *)
(***************************************************************************)
EXTENDS ReturnCodes

CONSTANTS
  CRYPTO_BYTES,   \* bytes of a signature
  MaxMessage,     \* bound on the length of a message
  Bytes,          \* values of a message byte
  Garbage         \* content of a cell nothing has written

ASSUME SignedMessageAssumption ==
  /\ CRYPTO_BYTES \in Nat \ {0}
  /\ MaxMessage \in Nat

MaxSigned == CRYPTO_BYTES + MaxMessage
Apart == MaxSigned                  \* base of a separate message buffer
Cell == 0 .. 2 * MaxSigned - 1

\* Cells hold a byte, a byte of the signature, zero, or garbage.
ByteCell(b) == [kind |-> "byte", val |-> b]
SigCell(i) == [kind |-> "sig", val |-> i]
Zero == [kind |-> "zero", val |-> 0]
Junk == [kind |-> "junk", val |-> Garbage]

VARIABLES
  pc,        \* "start", "copyin", "travel", "open", "copyout", "end",
             \* or "unsigned" when signing failed
  mem,       \* [Cell -> cells]
  base,      \* address of the message buffer of the current call
  text,      \* history: the message the client signs, a function on 0 .. n-1
  n,         \* its length, mlen of mld_sign
  i,         \* index of the copy loop
  smlen,     \* length of the signed message
  mlen,      \* *mlen of mld_sign_open
  ret        \* return code of the last call

vars == <<pc, mem, base, text, n, i, smlen, mlen, ret>>

\* What a signed message of length len holds behind the signature.
Behind(len) == [j \in 0 .. len - CRYPTO_BYTES - 1 |-> mem[CRYPTO_BYTES + j]]

Init ==
  /\ pc = "start"
  /\ n \in 0 .. MaxMessage
  /\ text \in [0 .. n - 1 -> Bytes]
  /\ base \in {0, Apart}
  /\ mem = [a \in Cell |-> IF a - base \in 0 .. n - 1
                              THEN ByteCell(text[a - base]) ELSE Junk]
  /\ i = 0 /\ smlen = 0 /\ mlen = 0 /\ ret = Unset

-----------------------------------------------------------------------------
(* mld_sign                                                                *)

\* Fault: the message is copied upwards.
CopyInUpwards ==
  /\ pc \in {"start", "copyin"} /\ i < n
  /\ mem' = [mem EXCEPT ![CRYPTO_BYTES + i] = mem[base + i]]
  /\ i' = i + 1 /\ pc' = "copyin"
  /\ UNCHANGED <<base, text, n, smlen, mlen, ret>>

\* sm[CRYPTO_BYTES + mlen - 1 - i] = m[mlen - 1 - i], downwards
CopyIn ==
  /\ pc \in {"start", "copyin"} /\ i < n
  /\ mem' = [mem EXCEPT ![CRYPTO_BYTES + n - 1 - i] = mem[base + n - 1 - i]]
  /\ i' = i + 1 /\ pc' = "copyin"
  /\ UNCHANGED <<base, text, n, smlen, mlen, ret>>

\* mld_sign_signature on the copy: a signature of length len, or zeros and
\* an error.
SignOf(len) ==
  /\ pc \in {"start", "copyin"} /\ i = n
  /\ ret' \in {0, FAIL, OUT_OF_MEMORY, RNG_FAIL}
  /\ mem' = [a \in Cell |-> IF a >= CRYPTO_BYTES THEN mem[a]
                            ELSE IF ret' = 0 THEN SigCell(a) ELSE Zero]
  /\ smlen' = (IF ret' = 0 THEN len ELSE 0) + n
  /\ pc' = IF ret' = 0 THEN "travel" ELSE "unsigned"
  /\ UNCHANGED <<base, text, n, i, mlen>>

Sign == SignOf(CRYPTO_BYTES)

-----------------------------------------------------------------------------

\* The signed message reaches the receiver, whole, cut short or with one
\* cell changed; he opens it in place or into a separate buffer.
Travel ==
  /\ pc = "travel" /\ pc' = "open"
  /\ \/ UNCHANGED <<mem, smlen>>
     \/ smlen' \in 0 .. smlen - 1 /\ UNCHANGED mem
     \/ /\ \E a \in 0 .. smlen - 1, c \in {ByteCell(b) : b \in Bytes} \cup {Zero} :
             mem' = [mem EXCEPT ![a] = c]
        /\ UNCHANGED smlen
  /\ base' \in {0, Apart}
  /\ i' = 0
  /\ UNCHANGED <<text, n, mlen, ret>>

-----------------------------------------------------------------------------
(* mld_sign_open                                                           *)

\* The signature in front belongs to the message behind it.
Authentic ==
  /\ \A a \in 0 .. CRYPTO_BYTES - 1 : mem[a] = SigCell(a)
  /\ Behind(smlen) = [j \in 0 .. n - 1 |-> ByteCell(text[j])]

\* Too short, or verification failed (under another key or context it may do
\* so for any message) or ran out of memory: no message, and
\* len bytes from address first are zero.
FailClearing(first, len) ==
  /\ pc = "open"
  /\ ret' \in IF smlen < CRYPTO_BYTES THEN {FAIL} ELSE {FAIL, OUT_OF_MEMORY}
  /\ mlen' = 0
  /\ mem' = [a \in Cell |-> IF a - first \in 0 .. len - 1 THEN Zero ELSE mem[a]]
  /\ pc' = "end"
  /\ UNCHANGED <<base, text, n, i, smlen>>

\* Faults: only the bytes of the message are cleared; they are cleared in sm.
OpenFailsShort == FailClearing(base, smlen - CRYPTO_BYTES)
OpenFailsInSm == FailClearing(0, smlen)

OpenFails == FailClearing(base, smlen)

OpenVerifies ==
  /\ pc = "open" /\ smlen >= CRYPTO_BYTES /\ Authentic
  /\ ret' = 0 /\ mlen' = smlen - CRYPTO_BYTES
  /\ pc' = "copyout"
  /\ UNCHANGED <<mem, base, text, n, i, smlen>>

\* Fault: the message is copied out downwards.
CopyOutDownwards ==
  /\ pc = "copyout" /\ i < mlen
  /\ mem' = [mem EXCEPT ![base + mlen - 1 - i] = mem[CRYPTO_BYTES + mlen - 1 - i]]
  /\ i' = i + 1
  /\ UNCHANGED <<pc, base, text, n, smlen, mlen, ret>>

\* m[i] = sm[CRYPTO_BYTES + i], upwards
CopyOut ==
  /\ pc = "copyout" /\ i < mlen
  /\ mem' = [mem EXCEPT ![base + i] = mem[CRYPTO_BYTES + i]]
  /\ i' = i + 1
  /\ UNCHANGED <<pc, base, text, n, smlen, mlen, ret>>

OpenReturns ==
  /\ pc = "copyout" /\ i = mlen /\ pc' = "end"
  /\ UNCHANGED <<mem, base, text, n, i, smlen, mlen, ret>>

Next == CopyIn \/ Sign \/ Travel \/ OpenFails \/ OpenVerifies \/ CopyOut
          \/ OpenReturns

Spec == Init /\ [][Next]_vars

-----------------------------------------------------------------------------
(* Properties.                                                             *)

Content == {ByteCell(b) : b \in Bytes} \cup {SigCell(a) : a \in Cell}
             \cup {Zero, Junk}

\* The loop indices stay within the buffers the caller provided.
TypeOK ==
  /\ pc \in {"start", "copyin", "travel", "open", "copyout", "end", "unsigned"}
  /\ mem \in [Cell -> Content]
  /\ base \in {0, Apart}
  /\ n \in 0 .. MaxMessage /\ text \in [0 .. n - 1 -> Bytes]
  /\ i \in 0 .. MaxMessage
  /\ smlen \in 0 .. MaxSigned /\ mlen \in 0 .. MaxMessage
  /\ ret \in {0, FAIL, OUT_OF_MEMORY, RNG_FAIL, Unset}

\* What mld_sign returns is the signature followed by the client's message,
\* also when the message lay where the signature now is (sign.c:957-970).
SignedMessageWhole ==
  pc = "travel" => smlen = CRYPTO_BYTES + n /\ Authentic

\* What mld_sign_open accepts and hands out, in place or not, is the message
\* that was signed, all of it and nothing else (sign.c:1158-1171).
OpenedIsSigned ==
  pc = "end" /\ ret = 0 =>
    /\ mlen = n
    /\ \A j \in 0 .. n - 1 : mem[base + j] = ByteCell(text[j])

\* A message that does not verify is not handed out: its length is zero and
\* no cell of the smlen cells of the output keeps a byte (sign.c:1176-1181).
NothingUnverified ==
  pc = "end" /\ ret # 0 =>
    /\ mlen = 0
    /\ \A j \in 0 .. smlen - 1 : mem[base + j] = Zero

\* A call whose buffers are apart does not change its input.
InputKept ==
  [][base = Apart =>
       /\ pc \in {"start", "copyin"} =>
            \A j \in 0 .. n - 1 : mem'[base + j] = mem[base + j]
       /\ pc \in {"open", "copyout"} =>
            \A a \in 0 .. smlen - 1 : mem'[a] = mem[a]]_vars
=============================================================================
