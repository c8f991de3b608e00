---------------------------- MODULE MemoryProofs ----------------------------
(***************************************************************************)
(* The combined API keeps messages whole for every length of message and   *)
(* of signature, in place or not; and the call tree of the library needs   *)
(* exactly the memory that the documentation gives, loses none of it,      *)
(* leaves no data of its own in what it gives back and reports its         *)
(* exhaustion, for every operation, level and build and whichever          *)
(* allocations fail.                                                       *)
(***************************************************************************)
EXTENDS SignedMessage, Allocation, SequenceTheorems, TLAPS

-----------------------------------------------------------------------------
(* The combined API.                                                       *)

\* The message was moved from the end down to n - i, the rest lies untouched
\* in the caller's buffer.
CopiedIn ==
  pc \in {"start", "copyin"} =>
    /\ i =< n
    /\ \A j \in 0 .. n - 1 :
         IF j >= n - i THEN mem[CRYPTO_BYTES + j] = ByteCell(text[j])
                       ELSE mem[base + j] = ByteCell(text[j])

\* The message was moved from the start up to i, the rest still lies behind
\* the signature.
CopiedOut ==
  pc = "copyout" =>
    /\ ret = 0 /\ mlen = n /\ i =< n
    /\ \A j \in 0 .. n - 1 :
         IF j < i THEN mem[base + j] = ByteCell(text[j])
                  ELSE mem[CRYPTO_BYTES + j] = ByteCell(text[j])

\* Opening starts with the loop index at zero.
Opening == pc = "open" => i = 0

MessageInv == TypeOK /\ CopiedIn /\ CopiedOut /\ Opening /\ SignedMessageWhole
          /\ OpenedIsSigned /\ NothingUnverified

LEMMA InitMessage == Init => MessageInv
<1> SUFFICES ASSUME Init PROVE MessageInv
  OBVIOUS
<1> USE SignedMessageAssumption DEF Init, MaxSigned, Apart, Cell
<1>1. \A j \in 0 .. n - 1 : mem[base + j] = ByteCell(text[j])
  OBVIOUS
<1>2. mem \in [Cell -> Content]
  BY DEF Content, ByteCell
<1>3. TypeOK
  BY <1>2 DEF TypeOK
<1>4. CopiedIn
  BY <1>1 DEF CopiedIn
<1> QED BY <1>3, <1>4
        DEF MessageInv, CopiedOut, SignedMessageWhole, OpenedIsSigned,
            NothingUnverified, Opening

LEMMA CopyInInv == MessageInv /\ CopyIn => MessageInv'
<1> SUFFICES ASSUME MessageInv, CopyIn PROVE MessageInv'
  OBVIOUS
<1> DEFINE k == n - 1 - i
<1>1. /\ pc' = "copyin" /\ i' = i + 1
      /\ UNCHANGED <<base, text, n, smlen, mlen, ret>>
      /\ mem' = [mem EXCEPT ![CRYPTO_BYTES + k] = mem[base + k]]
  BY DEF CopyIn
<1>2. /\ CRYPTO_BYTES \in Nat \ {0} /\ MaxMessage \in Nat
      /\ n \in Nat /\ n =< MaxMessage /\ i \in Nat /\ i < n
      /\ k \in 0 .. n - 1
      /\ base \in {0, CRYPTO_BYTES + MaxMessage}
  BY SignedMessageAssumption DEF MessageInv, TypeOK, CopyIn, Apart, MaxSigned
<1>3. mem \in [Cell -> Content] /\ text \in [0 .. n - 1 -> Bytes]
  BY DEF MessageInv, TypeOK
<1>4. CRYPTO_BYTES + k \in Cell /\ base + k \in Cell
  BY <1>2 DEF Cell, MaxSigned
<1>5. TypeOK'
  BY <1>1, <1>2, <1>3, <1>4 DEF MessageInv, TypeOK
<1>6. mem[base + k] = ByteCell(text[k])
  BY <1>2 DEF MessageInv, CopiedIn, CopyIn
<1>7. ASSUME NEW j \in 0 .. n - 1
      PROVE  IF j >= n - i' THEN mem'[CRYPTO_BYTES + j] = ByteCell(text[j])
                            ELSE mem'[base + j] = ByteCell(text[j])
  <2>1. CRYPTO_BYTES + j \in Cell /\ base + j \in Cell
    BY <1>2 DEF Cell, MaxSigned
  <2>2. CASE j = k
    BY <1>1, <1>2, <1>3, <1>4, <1>6, <2>2
  <2>3. CASE j > k
    <3>1. mem[CRYPTO_BYTES + j] = ByteCell(text[j])
      BY <1>2, <2>3 DEF MessageInv, CopiedIn, CopyIn
    <3> QED BY <1>1, <1>2, <1>3, <2>1, <2>3, <3>1
  <2>4. CASE j < k
    <3>1. mem[base + j] = ByteCell(text[j])
      BY <1>2, <2>4 DEF MessageInv, CopiedIn, CopyIn
    <3>2. base + j # CRYPTO_BYTES + k
      BY <1>2, <2>4
    <3> QED BY <1>1, <1>2, <1>3, <2>1, <2>4, <3>1, <3>2
  <2> QED BY <1>2, <2>2, <2>3, <2>4
<1>8. CopiedIn'
  BY <1>1, <1>2, <1>7 DEF CopiedIn
<1> QED BY <1>1, <1>5, <1>8
        DEF MessageInv, CopiedOut, SignedMessageWhole, OpenedIsSigned,
            NothingUnverified, Opening

LEMMA SignInv == MessageInv /\ Sign => MessageInv'
<1> SUFFICES ASSUME MessageInv, Sign PROVE MessageInv'
  OBVIOUS
<1>1. /\ i = n /\ UNCHANGED <<base, text, n, i, mlen>>
      /\ ret' \in {0, FAIL, OUT_OF_MEMORY, RNG_FAIL}
      /\ smlen' = (IF ret' = 0 THEN CRYPTO_BYTES ELSE 0) + n
      /\ pc' = IF ret' = 0 THEN "travel" ELSE "unsigned"
      /\ mem' = [a \in Cell |-> IF a >= CRYPTO_BYTES THEN mem[a]
                                ELSE IF ret' = 0 THEN SigCell(a) ELSE Zero]
  BY DEF Sign, SignOf
<1>2. /\ CRYPTO_BYTES \in Nat \ {0} /\ MaxMessage \in Nat
      /\ n \in Nat /\ n =< MaxMessage
  BY SignedMessageAssumption DEF MessageInv, TypeOK
<1>3. mem' \in [Cell -> Content]
  BY <1>1 DEF MessageInv, TypeOK, Content
<1>4. TypeOK'
  BY <1>1, <1>2, <1>3 DEF MessageInv, TypeOK, MaxSigned
<1>5. \A j \in 0 .. n - 1 : mem'[CRYPTO_BYTES + j] = ByteCell(text[j])
  <2> SUFFICES ASSUME NEW j \in 0 .. n - 1
               PROVE  mem'[CRYPTO_BYTES + j] = ByteCell(text[j])
    OBVIOUS
  <2>1. CRYPTO_BYTES + j \in Cell /\ CRYPTO_BYTES + j >= CRYPTO_BYTES
    BY <1>2 DEF Cell, MaxSigned
  <2>2. mem[CRYPTO_BYTES + j] = ByteCell(text[j])
    BY <1>1, <1>2 DEF MessageInv, CopiedIn, Sign, SignOf
  <2> QED BY <1>1, <2>1, <2>2
<1>6. ret' = 0 => \A a \in 0 .. CRYPTO_BYTES - 1 : mem'[a] = SigCell(a)
  BY <1>1, <1>2 DEF Cell, MaxSigned
<1>7. SignedMessageWhole'
  <2> SUFFICES ASSUME pc' = "travel"
               PROVE  smlen' = CRYPTO_BYTES + n' /\ Authentic'
    BY DEF SignedMessageWhole
  <2>1. ret' = 0 /\ smlen' = CRYPTO_BYTES + n
    BY <1>1
  <2>2. 0 .. smlen' - CRYPTO_BYTES - 1 = 0 .. n - 1
    BY <1>2, <2>1
  <2>3. Behind(smlen)' = [j \in 0 .. n' - 1 |-> ByteCell(text'[j])]
    BY <1>1, <1>5, <2>2 DEF Behind
  <2> QED BY <1>1, <1>6, <2>1, <2>3 DEF Authentic
<1> QED BY <1>1, <1>4, <1>7
        DEF MessageInv, CopiedIn, CopiedOut, OpenedIsSigned, NothingUnverified, Opening

LEMMA TravelInv == MessageInv /\ Travel => MessageInv'
<1> SUFFICES ASSUME MessageInv, Travel PROVE MessageInv'
  OBVIOUS
<1>1. /\ pc' = "open" /\ base' \in {0, Apart} /\ i' = 0
      /\ UNCHANGED <<text, n, mlen, ret>>
  BY DEF Travel
<1>2. smlen \in 0 .. MaxSigned /\ CRYPTO_BYTES \in Nat /\ MaxMessage \in Nat
  BY SignedMessageAssumption DEF MessageInv, TypeOK
<1>3. smlen' \in 0 .. MaxSigned
  BY <1>2 DEF Travel, MaxSigned
<1>4. mem' \in [Cell -> Content]
  BY DEF Travel, MessageInv, TypeOK, Content
<1>5. TypeOK'
  BY <1>1, <1>2, <1>3, <1>4 DEF MessageInv, TypeOK
<1> QED BY <1>1, <1>5
        DEF MessageInv, CopiedIn, CopiedOut, SignedMessageWhole, OpenedIsSigned,
            NothingUnverified, Opening

LEMMA OpenFailsInv == MessageInv /\ OpenFails => MessageInv'
<1> SUFFICES ASSUME MessageInv, OpenFails PROVE MessageInv'
  OBVIOUS
<1>1. /\ pc' = "end" /\ mlen' = 0 /\ ret' \in {FAIL, OUT_OF_MEMORY}
      /\ mem' = [a \in Cell |-> IF a - base \in 0 .. smlen - 1
                                  THEN Zero ELSE mem[a]]
      /\ UNCHANGED <<base, text, n, i, smlen>>
  BY DEF OpenFails, FailClearing
<1>2. /\ smlen \in 0 .. MaxSigned /\ MaxSigned \in Nat
      /\ base \in {0, MaxSigned} /\ MaxMessage \in Nat
  BY SignedMessageAssumption DEF MessageInv, TypeOK, Apart, MaxSigned
<1>3. mem' \in [Cell -> Content]
  BY <1>1 DEF MessageInv, TypeOK, Content
<1>4. TypeOK'
  BY <1>1, <1>2, <1>3 DEF MessageInv, TypeOK
<1>5. ASSUME NEW j \in 0 .. smlen - 1 PROVE mem'[base + j] = Zero
  <2>1. base + j \in Cell /\ (base + j) - base = j
    BY <1>2 DEF Cell
  <2> QED BY <1>1, <2>1
<1>6. ret' # 0
  BY <1>1 DEF FAIL, OUT_OF_MEMORY
<1> QED BY <1>1, <1>4, <1>5, <1>6
        DEF MessageInv, CopiedIn, CopiedOut, SignedMessageWhole, OpenedIsSigned,
            NothingUnverified, Opening

LEMMA OpenVerifiesInv == MessageInv /\ OpenVerifies => MessageInv'
<1> SUFFICES ASSUME MessageInv, OpenVerifies PROVE MessageInv'
  OBVIOUS
<1>1. /\ pc = "open" /\ pc' = "copyout" /\ ret' = 0
      /\ smlen >= CRYPTO_BYTES /\ Authentic /\ mlen' = smlen - CRYPTO_BYTES
      /\ UNCHANGED <<mem, base, text, n, i, smlen>>
  BY DEF OpenVerifies
<1>2. /\ CRYPTO_BYTES \in Nat /\ MaxMessage \in Nat /\ n \in Nat
      /\ smlen \in Nat /\ smlen =< CRYPTO_BYTES + MaxMessage
  BY SignedMessageAssumption DEF MessageInv, TypeOK, MaxSigned
<1>3. DOMAIN Behind(smlen) = 0 .. n - 1
  BY <1>1 DEF Authentic
<1>4. 0 .. smlen - CRYPTO_BYTES - 1 = 0 .. n - 1
  BY <1>3 DEF Behind
<1>5. smlen - CRYPTO_BYTES = n
  <2>1. smlen - CRYPTO_BYTES \in Nat
    BY <1>1, <1>2
  <2>2. ASSUME NEW a \in Nat, NEW b \in Nat, 0 .. a - 1 = 0 .. b - 1
        PROVE  a = b
    <3>1. a > b => b \in 0 .. a - 1 /\ b \notin 0 .. b - 1
      OBVIOUS
    <3>2. b > a => a \in 0 .. b - 1 /\ a \notin 0 .. a - 1
      OBVIOUS
    <3> QED BY <2>2, <3>1, <3>2
  <2> QED BY <1>2, <1>4, <2>1, <2>2
<1>6. \A j \in 0 .. n - 1 : mem[CRYPTO_BYTES + j] = ByteCell(text[j])
  <2> SUFFICES ASSUME NEW j \in 0 .. n - 1
               PROVE  mem[CRYPTO_BYTES + j] = ByteCell(text[j])
    OBVIOUS
  <2>1. Behind(smlen)[j] = mem[CRYPTO_BYTES + j]
    BY <1>4 DEF Behind
  <2>2. Behind(smlen)[j] = ByteCell(text[j])
    BY <1>1 DEF Authentic
  <2> QED BY <2>1, <2>2
<1>7. i = 0
  BY <1>1 DEF MessageInv, Opening
<1>8. TypeOK'
  BY <1>1, <1>2, <1>5 DEF MessageInv, TypeOK
<1> QED BY <1>1, <1>2, <1>5, <1>6, <1>7, <1>8
        DEF MessageInv, CopiedIn, CopiedOut, SignedMessageWhole, OpenedIsSigned,
            NothingUnverified, Opening

LEMMA CopyOutInv == MessageInv /\ CopyOut => MessageInv'
<1> SUFFICES ASSUME MessageInv, CopyOut PROVE MessageInv'
  OBVIOUS
<1>1. /\ pc = "copyout" /\ i < mlen /\ i' = i + 1
      /\ mem' = [mem EXCEPT ![base + i] = mem[CRYPTO_BYTES + i]]
      /\ UNCHANGED <<pc, base, text, n, smlen, mlen, ret>>
  BY DEF CopyOut
<1>2. /\ CRYPTO_BYTES \in Nat \ {0} /\ MaxMessage \in Nat
      /\ n \in Nat /\ n =< MaxMessage /\ i \in Nat /\ i < n /\ mlen = n
      /\ base \in {0, CRYPTO_BYTES + MaxMessage}
  BY <1>1, SignedMessageAssumption
     DEF MessageInv, TypeOK, CopiedOut, Apart, MaxSigned
<1>3. mem \in [Cell -> Content] /\ text \in [0 .. n - 1 -> Bytes]
  BY DEF MessageInv, TypeOK
<1>4. CRYPTO_BYTES + i \in Cell /\ base + i \in Cell
  BY <1>2 DEF Cell, MaxSigned
<1>5. TypeOK'
  BY <1>1, <1>2, <1>3, <1>4 DEF MessageInv, TypeOK
<1>6. ASSUME NEW j \in 0 .. n - 1
      PROVE  IF j < i' THEN mem'[base + j] = ByteCell(text[j])
                       ELSE mem'[CRYPTO_BYTES + j] = ByteCell(text[j])
  <2>1. CRYPTO_BYTES + j \in Cell /\ base + j \in Cell
    BY <1>2 DEF Cell, MaxSigned
  <2>2. j < i => mem[base + j] = ByteCell(text[j])
    BY <1>1 DEF MessageInv, CopiedOut
  <2>3. j >= i => mem[CRYPTO_BYTES + j] = ByteCell(text[j])
    BY <1>1, <1>2 DEF MessageInv, CopiedOut
  <2>4. CASE j = i
    BY <1>1, <1>2, <1>3, <1>4, <2>3, <2>4
  <2>5. CASE j < i
    BY <1>1, <1>2, <1>3, <2>1, <2>2, <2>5
  <2>6. CASE j > i
    <3>1. base + i # CRYPTO_BYTES + j
      BY <1>2, <2>6
    <3> QED BY <1>1, <1>2, <1>3, <2>1, <2>3, <2>6, <3>1
  <2> QED BY <1>2, <2>4, <2>5, <2>6
<1>7. CopiedOut'
  BY <1>1, <1>2, <1>6 DEF MessageInv, CopiedOut
<1> QED BY <1>1, <1>5, <1>7
        DEF MessageInv, CopiedIn, SignedMessageWhole, OpenedIsSigned,
            NothingUnverified, Opening

LEMMA OpenReturnsInv == MessageInv /\ OpenReturns => MessageInv'
<1> SUFFICES ASSUME MessageInv, OpenReturns PROVE MessageInv'
  OBVIOUS
<1>1. /\ pc = "copyout" /\ pc' = "end" /\ i = mlen
      /\ UNCHANGED <<mem, base, text, n, i, smlen, mlen, ret>>
  BY DEF OpenReturns
<1>2. ret = 0 /\ mlen = n /\ n \in Nat
  BY <1>1 DEF MessageInv, CopiedOut, TypeOK
<1>3. \A j \in 0 .. n - 1 : mem[base + j] = ByteCell(text[j])
  BY <1>1, <1>2 DEF MessageInv, CopiedOut
<1>4. TypeOK'
  BY <1>1 DEF MessageInv, TypeOK
<1> QED BY <1>1, <1>2, <1>3, <1>4
        DEF MessageInv, CopiedIn, CopiedOut, SignedMessageWhole, OpenedIsSigned,
            NothingUnverified, Opening

LEMMA NextMessage == MessageInv /\ [Next]_vars => MessageInv'
<1> SUFFICES ASSUME MessageInv, [Next]_vars PROVE MessageInv'
  OBVIOUS
<1>1. CASE UNCHANGED vars
  BY <1>1 DEF vars, MessageInv, TypeOK, CopiedIn, CopiedOut, Opening,
     SignedMessageWhole, Authentic, Behind, OpenedIsSigned, NothingUnverified
<1> QED BY <1>1, CopyInInv, SignInv, TravelInv, OpenFailsInv, OpenVerifiesInv,
           CopyOutInv, OpenReturnsInv DEF Next

\* A signed message is the signature and then the message, for every length
\* and even where the two buffers are one (sign.c:957-970).
THEOREM SignedWhole == Spec => []SignedMessageWhole
<1>1. MessageInv => SignedMessageWhole
  BY DEF MessageInv
<1> QED BY <1>1, InitMessage, NextMessage, PTL DEF Spec

\* What opening hands out is exactly what was signed, for every length and
\* even in place (sign.c:1158-1171).
THEOREM OpenReturnsSigned == Spec => []OpenedIsSigned
<1>1. MessageInv => OpenedIsSigned
  BY DEF MessageInv
<1> QED BY <1>1, InitMessage, NextMessage, PTL DEF Spec

\* What a call reads, where its buffers are apart, is left alone.
LEMMA ReadOnly ==
  MessageInv /\ [Next]_vars =>
    (base = Apart =>
       /\ pc \in {"start", "copyin"} =>
            \A j \in 0 .. n - 1 : mem'[base + j] = mem[base + j]
       /\ pc \in {"open", "copyout"} =>
            \A a \in 0 .. smlen - 1 : mem'[a] = mem[a])
<1> SUFFICES ASSUME MessageInv, [Next]_vars, base = Apart
             PROVE  /\ pc \in {"start", "copyin"} =>
                         \A j \in 0 .. n - 1 : mem'[base + j] = mem[base + j]
                    /\ pc \in {"open", "copyout"} =>
                         \A a \in 0 .. smlen - 1 : mem'[a] = mem[a]
  OBVIOUS
<1>1. /\ CRYPTO_BYTES \in Nat \ {0} /\ MaxMessage \in Nat /\ MaxSigned \in Nat
      /\ MaxSigned = CRYPTO_BYTES + MaxMessage /\ base = MaxSigned
      /\ n \in 0 .. MaxMessage /\ i \in 0 .. MaxMessage /\ smlen \in 0 .. MaxSigned
      /\ mlen \in 0 .. MaxMessage /\ mem \in [Cell -> Content]
      /\ Cell = 0 .. 2 * MaxSigned - 1
  BY SignedMessageAssumption DEF MessageInv, TypeOK, MaxSigned, Apart, Cell
<1>2. /\ \A j \in 0 .. n - 1 : base + j \in Cell /\ base + j >= CRYPTO_BYTES + n
      /\ \A a \in 0 .. smlen - 1 : a \in Cell /\ a < base
  BY <1>1
<1>3. CASE CopyIn
  <2>1. /\ mem' = [mem EXCEPT ![CRYPTO_BYTES + n - 1 - i] = mem[base + n - 1 - i]]
        /\ pc \in {"start", "copyin"} /\ i < n
    BY <1>3 DEF CopyIn
  <2>2. \A j \in 0 .. n - 1 : base + j # CRYPTO_BYTES + n - 1 - i
    BY <1>1, <1>2, <2>1
  <2> QED BY <1>1, <1>2, <2>1, <2>2
<1>4. CASE Sign
  <2>1. /\ \A a \in Cell : a >= CRYPTO_BYTES => mem'[a] = mem[a]
        /\ pc \in {"start", "copyin"}
    BY <1>4 DEF Sign, SignOf
  <2>2. \A j \in 0 .. n - 1 : base + j >= CRYPTO_BYTES
    BY <1>1
  <2> QED BY <1>2, <2>1, <2>2
<1>5. CASE OpenFails
  <2>1. /\ mem' = [a \in Cell |-> IF a - base \in 0 .. smlen - 1 THEN Zero ELSE mem[a]]
        /\ pc = "open"
    BY <1>5 DEF OpenFails, FailClearing
  <2>2. \A a \in 0 .. smlen - 1 : a - base \notin 0 .. smlen - 1
    BY <1>1, <1>2
  <2> QED BY <1>2, <2>1, <2>2
<1>6. CASE CopyOut
  <2>1. /\ mem' = [mem EXCEPT ![base + i] = mem[CRYPTO_BYTES + i]]
        /\ pc = "copyout"
    BY <1>6 DEF CopyOut
  <2>2. \A a \in 0 .. smlen - 1 : a # base + i
    BY <1>1, <1>2
  <2> QED BY <1>1, <1>2, <2>1, <2>2
<1>7. CASE Travel
  BY <1>7 DEF Travel
<1>8. CASE OpenVerifies \/ OpenReturns
  BY <1>8 DEF OpenVerifies, OpenReturns
<1>9. CASE UNCHANGED vars
  BY <1>9 DEF vars
<1> QED BY <1>3, <1>4, <1>5, <1>6, <1>7, <1>8, <1>9 DEF Next

\* Neither mld_sign nor mld_sign_open changes its input, for every length,
\* where the output is a buffer of its own (sign.c:957-970, 1158-1181).
THEOREM InputIsKept == Spec => InputKept
<1>1. MessageInv /\ [Next]_vars =>
        [base = Apart =>
           /\ pc \in {"start", "copyin"} =>
                \A j \in 0 .. n - 1 : mem'[base + j] = mem[base + j]
           /\ pc \in {"open", "copyout"} =>
                \A a \in 0 .. smlen - 1 : mem'[a] = mem[a]]_vars
  BY ReadOnly
<1> QED BY <1>1, InitMessage, NextMessage, PTL DEF Spec, InputKept

\* A message that does not verify leaves nothing behind (sign.c:1176-1181).
THEOREM OpenHidesUnverified == Spec => []NothingUnverified
<1>1. MessageInv => NothingUnverified
  BY DEF MessageInv
<1> QED BY <1>1, InitMessage, NextMessage, PTL DEF Spec

-----------------------------------------------------------------------------
(* The call tree: which functions run in an operation, and where their     *)
(* buffers lie as long as no allocation failed.                            *)

Functions == {"check_pct", "compute_t0_t1_tr", "keypair_internal", "keypair",
              "attempt", "signature_internal", "signature", "signature_extmu",
              "signature_pre_hash_internal", "sign", "verify_internal",
              "verify", "verify_pre_hash_internal", "verify_extmu", "open",
              "pk_from_sk"}

BufferNames == {"signature", "pk_test", "mat", "s1hat", "t", "seedbuf", "inbuf",
                "tr", "s1", "s2", "t1", "t0", "challenge_bytes", "yh", "z",
                "w1tmp", "w0", "cp", "pre", "rnd", "buf", "rho", "mu", "c", "c2",
                "t1w1", "tmp", "h", "tr_computed", "key", "t0_computed"}
Buffer == [name : BufferNames, size : Nat \ {0}]

\* Bytes taken by the buffers of fn before the k-th; no function has more
\* than eleven.
Taken(fn, j, k) ==
  IF j < k /\ j =< Len(Allocs(fn)) THEN Aligned(Allocs(fn)[j].size) ELSE 0
Before(fn, k) ==
  Taken(fn, 1, k) + Taken(fn, 2, k) + Taken(fn, 3, k) + Taken(fn, 4, k)
    + Taken(fn, 5, k) + Taken(fn, 6, k) + Taken(fn, 7, k) + Taken(fn, 8, k)
    + Taken(fn, 9, k) + Taken(fn, 10, k) + Taken(fn, 11, k)
Total(fn) == Before(fn, Len(Allocs(fn)) + 1)

\* What may run in place of a called function: itself, or its tail call.
Runs(fn) == {fn} \cup {AfterCleanup(fn)[k] : k \in DOMAIN AfterCleanup(fn)}

KeypairOperations == {"keypair", "keypair_internal"}
Signers == {"signature", "signature_internal", "attempt"}
Verifiers == {"verify", "verify_internal"}

\* The functions that may run in the operation.
Reach ==
  {op} \cup
  CASE op \in KeypairOperations ->
         {"keypair_internal", "compute_t0_t1_tr"}
           \cup IF build.pct THEN {"check_pct"} \cup Signers \cup Verifiers ELSE {}
    [] op = "pk_from_sk" -> {"compute_t0_t1_tr"}
    [] op \in {"sign", "signature"} -> Signers
    [] op \in SignOperations \ {"sign", "signature"} -> {"signature_internal", "attempt"}
    [] op = "open" -> Verifiers
    [] op \in VerifyOperations \ {"open"} -> {"verify_internal"}

\* Where the buffers of fn start.
Prefix == IF op \in KeypairOperations THEN Total("check_pct") ELSE 0
Prepared == IF op \in KeypairOperations \cup {"sign", "signature"}
              THEN Total("signature") ELSE 0
Base(fn) ==
  CASE fn = "compute_t0_t1_tr" ->
         IF op = "pk_from_sk" THEN Total("pk_from_sk") ELSE Total("keypair_internal")
    [] fn = "signature" -> Prefix
    [] fn = "signature_internal" -> Prefix + Prepared
    [] fn = "attempt" -> Prefix + Prepared + Total("signature_internal")
    [] fn \in Verifiers -> Prefix
    [] OTHER -> 0

-----------------------------------------------------------------------------
(* The inductive invariant.                                                *)

\* Number of buffers that a frame has asked for and not yet given back.
Held(frame) ==
  CASE frame.place = "alloc" -> frame.at - 1
    [] frame.place = "body" -> Len(Allocs(frame.fn))
    [] frame.place = "cleanup" -> Len(Allocs(frame.fn)) + 1 - frame.at
FirstNames(fn, k) == {Allocs(fn)[j].name : j \in 1 .. k}

Frames ==
  [fn : Functions, place : {"alloc", "body", "cleanup"}, at : Nat \ {0},
   ptr : SUBSET BufferNames]
Blocks == [depth : Nat, name : BufferNames, addr : Nat, size : Nat]

AllocationType ==
  /\ build \in [level : Levels, reduceRam : RamModes, pct : PctModes]
  /\ stack \in Seq(Frames) /\ heap \in Seq(Blocks)
  /\ result \in {Unset, 0, FAIL, OUT_OF_MEMORY, RNG_FAIL}
  /\ op \in Operations \cup {"none"}
  /\ offset \in Nat /\ highMark \in Nat /\ failures \in Nat

\* A frame is somewhere in its function, and has no pointers but to buffers
\* it allocated and did not free.
FrameOk(frame) ==
  /\ frame.at =< Len(IF frame.place = "body" THEN Body(frame.fn)
                                             ELSE Allocs(frame.fn)) + 1
  /\ frame.ptr \subseteq FirstNames(frame.fn, Held(frame))
  /\ frame.place = "body" => frame.ptr = Names(frame.fn)

\* Every frame but the last waits for the one above it.
Waits(d) ==
  /\ stack[d].place = "body" /\ stack[d].at =< Len(Body(stack[d].fn))
  /\ Body(stack[d].fn)[stack[d].at] \notin Atomic
  /\ stack[d + 1].fn \in Runs(Body(stack[d].fn)[stack[d].at])

StackInv ==
  /\ stack # <<>> => op # "none" /\ stack[1].fn \in Runs(op)
  /\ \A d \in 1 .. Depth : FrameOk(stack[d]) /\ stack[d].fn \in Reach
  /\ \A d \in 1 .. Depth - 1 : Waits(d)

\* Block b is the j-th buffer of its frame.
IsBuffer(b, j) ==
  /\ b.depth \in 1 .. Depth /\ j \in 1 .. Len(Allocs(stack[b.depth].fn))
  /\ b.name = Allocs(stack[b.depth].fn)[j].name
  /\ b.name \in stack[b.depth].ptr
Earlier(a, b) ==
  \/ a.depth < b.depth
  \/ /\ a.depth = b.depth
     /\ \E j, k \in 1 .. Len(Allocs(stack[b.depth].fn)) :
          IsBuffer(a, j) /\ IsBuffer(b, k) /\ j < k

\* The blocks in use are those the frames point to, and they are ordered like
\* the allocations.
HeapInv ==
  /\ \A k \in DOMAIN heap : \E j \in Nat : IsBuffer(heap[k], j)
  /\ \A d \in 1 .. Depth : \A name \in stack[d].ptr :
       \E k \in DOMAIN heap : heap[k].depth = d /\ heap[k].name = name
  /\ \A k \in DOMAIN heap : \A j \in 1 .. k - 1 : Earlier(heap[j], heap[k])

\* The blocks are contiguous from the start of the buffer on.
AddressInv ==
  /\ LiveBlocksSafe
  /\ heap = <<>> => offset = 0
  /\ heap # <<>> => heap[1].addr = 0

\* Until an allocation fails all pointers are there and all buffers lie where
\* Base says.
AllThere == \A d \in 1 .. Depth : stack[d].ptr = FirstNames(stack[d].fn, Held(stack[d]))
Placed ==
  \A d \in 1 .. Depth : \A k \in DOMAIN heap :
    \A j \in 1 .. Len(Allocs(stack[d].fn)) :
      heap[k].depth = d /\ heap[k].name = Allocs(stack[d].fn)[j].name =>
        heap[k].addr = Base(stack[d].fn) + Before(stack[d].fn, j)
Filled == stack # <<>> => offset = Base(Top.fn) + Before(Top.fn, Held(Top) + 1)
NoError ==
  op # "none" /\ ~(Depth = 1 /\ Top.place = "alloc") => result # OUT_OF_MEMORY

\* A failure leads straight out of the call.
Failing ==
  IF stack # <<>> /\ Top.place = "alloc"
    THEN ~(FirstNames(Top.fn, Held(Top)) \subseteq Top.ptr)
    ELSE result = OUT_OF_MEMORY /\ (stack # <<>> => Top.place = "cleanup")

FailureInv ==
  IF failures = 0 THEN AllThere /\ Placed /\ Filled /\ NoError ELSE Failing

\* The function whose buffers fill the memory, and the item of the body of fn
\* that leads to it.
Peak == CASE op = "pk_from_sk" -> "compute_t0_t1_tr"
          [] op \in VerifyOperations -> "verify_internal"
          [] OTHER -> "attempt"
OnPath(fn) ==
  fn \in Reach \ CASE op \in KeypairOperations ->
                        {"keypair_internal", "compute_t0_t1_tr"} \cup Verifiers
                   [] OTHER -> {}
PathItem(fn) ==
  CASE fn \in {"keypair", "verify", "verify_pre_hash_internal", "open"} -> 2
    [] fn = "signature" -> 3
    [] OTHER -> 1

\* Where the peak must have been reached.
Passed(frame, res) ==
  /\ OnPath(frame.fn)
  /\ \/ frame.place = "body" /\ (frame.fn = Peak \/ frame.at > PathItem(frame.fn))
     \/ frame.place = "cleanup" /\ res = 0
MarkInv == offset =< highMark /\ (op # "none" => highMark =< Capacity)
PeakInv ==
  op \in Tight =>
    /\ \A d \in 1 .. Depth : Passed(stack[d], result) => highMark = Capacity
    /\ stack = <<>> /\ result = 0 => highMark = Capacity

MemInv ==
  /\ AllocationType /\ StackInv /\ HeapInv /\ AddressInv
  /\ FailureInv /\ MarkInv /\ PeakInv

-----------------------------------------------------------------------------
(* What the tables of the functions say.                                   *)

Building == build \in [level : Levels, reduceRam : RamModes, pct : PctModes]

LEMMA Sizes ==
  ASSUME Building
  PROVE  /\ CTILDEBYTES \in Nat \ {0} /\ MLDSA_CRYPTO_BYTES \in Nat \ {0}
         /\ MLDSA_CRYPTO_PUBLICKEYBYTES \in Nat \ {0} /\ Poly \in Nat \ {0}
         /\ Polyvecl \in Nat \ {0} /\ Polyveck \in Nat \ {0} /\ Polymat \in Nat \ {0}
         /\ Dims.k * POLYW1_PACKEDBYTES \in Nat \ {0}
         /\ UnionOrStruct(Polyvecl, Polyveck) \in Nat \ {0}
         /\ UnionOrStruct(Polyveck, Polyvecl) \in Nat \ {0}
         /\ UnionOrStruct(Polyveck, Polyveck) \in Nat \ {0}
<1>1. build.level \in {44, 65, 87}
  BY AllocationAssumption DEF Building
<1> DEFINE U(a, b) == UnionOrStruct(a, b) \in Nat \ {0}
<1>2. ASSUME NEW a \in Nat \ {0}, NEW b \in Nat \ {0} PROVE U(a, b)
  <2>1. Max({a, b}) \in {a, b}
    BY DEF Max
  <2> QED BY <2>1 DEF UnionOrStruct
<1>3. /\ Dims.k \in {4, 6, 8} /\ Dims.l \in {4, 5, 7} /\ OMEGA \in Nat
      /\ POLYZ_PACKEDBYTES \in Nat /\ POLYW1_PACKEDBYTES \in Nat \ {0}
      /\ CTILDEBYTES \in Nat \ {0} /\ build.reduceRam \in BOOLEAN
  <2>1. Dims.k \in {4, 6, 8} /\ Dims.l \in {4, 5, 7}
    BY <1>1 DEF Dims
  <2>2. OMEGA \in Nat /\ CTILDEBYTES \in Nat \ {0}
    BY <1>1 DEF OMEGA, CTILDEBYTES
  <2>3. POLYZ_PACKEDBYTES \in Nat /\ POLYW1_PACKEDBYTES \in Nat \ {0}
    BY DEF POLYZ_PACKEDBYTES, POLYW1_PACKEDBYTES
  <2>4. build.reduceRam \in BOOLEAN
    BY AllocationAssumption DEF Building
  <2> QED BY <2>1, <2>2, <2>3, <2>4
<1>4. /\ MLDSA_CRYPTO_BYTES \in Nat \ {0} /\ MLDSA_CRYPTO_PUBLICKEYBYTES \in Nat \ {0}
      /\ Poly \in Nat \ {0} /\ Polyvecl \in Nat \ {0} /\ Polyveck \in Nat \ {0}
      /\ Dims.k * POLYW1_PACKEDBYTES \in Nat \ {0}
  BY <1>3 DEF MLDSA_CRYPTO_BYTES, MLDSA_CRYPTO_PUBLICKEYBYTES, Poly, Polyvecl, Polyveck
<1>5. Polymat \in Nat \ {0}
  BY <1>3, <1>4 DEF Polymat
<1>6. U(Polyvecl, Polyveck) /\ U(Polyveck, Polyvecl) /\ U(Polyveck, Polyveck)
  <2> HIDE DEF U
  <2> QED BY <1>2, <1>4
<1> QED BY <1>3, <1>4, <1>5, <1>6

\* The buffers of a function have names of their own, are at most eleven, and
\* are freed in the opposite order.
Shape(fn) ==
  LET len == Len(Allocs(fn))
  IN  /\ Allocs(fn) \in Seq(Buffer) /\ len =< 11
      /\ \A j, k \in 1 .. len : Allocs(fn)[j].name = Allocs(fn)[k].name => j = k
      /\ Len(Frees(fn)) = len
      /\ \A k \in 1 .. len : Frees(fn)[k] = Allocs(fn)[len + 1 - k].name
      /\ Body(fn) \in Seq(Functions \cup Atomic)
      /\ AfterCleanup(fn) = IF fn = "keypair_internal" /\ build.pct
                              THEN <<"check_pct">> ELSE <<>>

LEMMA BlockType ==
  ASSUME NEW name \in BufferNames, NEW size \in Nat \ {0}
  PROVE  Block(name, size) \in Buffer
BY DEF Block, Buffer

LEMMA AlignedIs ==
  ASSUME NEW size \in Nat \ {0}
  PROVE  Aligned(size) \in Nat \ {0} /\ size =< Aligned(size)
BY DEF Aligned

LEMMA ShapeFrom ==
  ASSUME NEW fn, NEW len \in 0 .. 11,
         Allocs(fn) \in Seq(Buffer), Len(Allocs(fn)) = len,
         \A j, k \in 1 .. len : Allocs(fn)[j].name = Allocs(fn)[k].name => j = k,
         Len(Frees(fn)) = len,
         \A k \in 1 .. len : Frees(fn)[k] = Allocs(fn)[len + 1 - k].name,
         Body(fn) \in Seq(Functions \cup Atomic),
         AfterCleanup(fn) = IF fn = "keypair_internal" /\ build.pct
                              THEN <<"check_pct">> ELSE <<>>
  PROVE  Shape(fn)
BY DEF Shape

A(a, j) == Aligned(a[j].size)

LEMMA TotalIs ==
  ASSUME NEW fn, Allocs(fn) \in Seq(Buffer)
  PROVE  LET a == Allocs(fn) IN
         /\ Len(a) = 2 => Total(fn) = A(a, 1) + A(a, 2)
         /\ Len(a) = 3 => Total(fn) = A(a, 1) + A(a, 2)
                + A(a, 3)
         /\ Len(a) = 5 => Total(fn) = A(a, 1) + A(a, 2)
                + A(a, 3) + A(a, 4) + A(a, 5)
         /\ Len(a) = 7 => Total(fn) = A(a, 1) + A(a, 2)
                + A(a, 3) + A(a, 4) + A(a, 5) + A(a, 6) + A(a, 7)
         /\ Len(a) = 9 => Total(fn) = A(a, 1) + A(a, 2)
                + A(a, 3) + A(a, 4) + A(a, 5) + A(a, 6) + A(a, 7)
                + A(a, 8) + A(a, 9)
         /\ Len(a) = 11 => Total(fn) = A(a, 1) + A(a, 2)
                + A(a, 3) + A(a, 4) + A(a, 5) + A(a, 6) + A(a, 7)
                + A(a, 8) + A(a, 9) + A(a, 10) + A(a, 11)
<1> DEFINE a == Allocs(fn)
           T(j, k) == IF j < k /\ j =< Len(a) THEN A(a, j) ELSE 0
<1>1. Total(fn) =
        T(1, Len(a) + 1) + T(2, Len(a) + 1) + T(3, Len(a) + 1) + T(4, Len(a) + 1)
          + T(5, Len(a) + 1) + T(6, Len(a) + 1) + T(7, Len(a) + 1)
          + T(8, Len(a) + 1) + T(9, Len(a) + 1) + T(10, Len(a) + 1)
          + T(11, Len(a) + 1)
  BY DEF Total, Before, Taken, A
<1>2. \A j \in 1 .. Len(a) : A(a, j) \in Nat
  <2> SUFFICES ASSUME NEW j \in 1 .. Len(a) PROVE A(a, j) \in Nat
    OBVIOUS
  <2>1. a[j] \in Buffer
    OBVIOUS
  <2>2. a[j].size \in Nat \ {0}
    BY <2>1 DEF Buffer
  <2> QED BY <2>2, AlignedIs DEF A
<1>3. Len(a) \in Nat
  OBVIOUS
<1> HIDE DEF A, a
<1> DEFINE S(j) == T(j, Len(a) + 1)
<1>4. \A j \in Nat \ {0} : S(j) = IF j =< Len(a) THEN A(a, j) ELSE 0
  BY <1>3
<1>5. \A j \in Nat \ {0} : j =< Len(a) => A(a, j) \in Nat
  BY <1>2, <1>3
<1>6. Total(fn) = S(1) + S(2) + S(3) + S(4) + S(5) + S(6) + S(7) + S(8) + S(9) + S(10) + S(11)
  BY <1>1
<1> HIDE DEF T, S
<1>7. \A x, y \in Nat : x + y \in Nat
  OBVIOUS
<1>8. CASE Len(a) = 2
  BY <1>4, <1>5, <1>6, <1>8 DEF a
<1>9. CASE Len(a) = 3
  BY <1>4, <1>5, <1>6, <1>9 DEF a
<1>10. CASE Len(a) = 5
  <2> DEFINE sum == A(a, 1) + A(a, 2) + A(a, 3) + A(a, 4) + A(a, 5)
  <2>1. /\ S(1) = A(a, 1) /\ S(2) = A(a, 2) /\ S(3) = A(a, 3) /\ S(4) = A(a, 4)
        /\ S(5) = A(a, 5)
    BY <1>4, <1>10
  <2>2. S(6) = 0 /\ S(7) = 0 /\ S(8) = 0 /\ S(9) = 0 /\ S(10) = 0 /\ S(11) = 0
    BY <1>4, <1>10
  <2>3. A(a, 1) \in Nat /\ A(a, 2) \in Nat /\ A(a, 3) \in Nat /\ A(a, 4) \in Nat /\ A(a, 5) \in Nat
    BY <1>5, <1>10
  <2>4. sum \in Nat
    BY <1>7, <2>3, Zenon
  <2>5. Total(fn) = sum + 0 + 0 + 0 + 0 + 0 + 0
    BY <1>6, <2>1, <2>2
  <2>6. Total(fn) = sum
    <3> HIDE DEF sum
    <3> QED BY <2>4, <2>5
  <2> QED BY <1>10, <2>6 DEF a
<1>11. CASE Len(a) = 7
  <2> DEFINE sum == A(a, 1) + A(a, 2) + A(a, 3) + A(a, 4) + A(a, 5) + A(a, 6) + A(a, 7)
  <2>1. /\ S(1) = A(a, 1) /\ S(2) = A(a, 2) /\ S(3) = A(a, 3) /\ S(4) = A(a, 4)
        /\ S(5) = A(a, 5) /\ S(6) = A(a, 6) /\ S(7) = A(a, 7)
    BY <1>4, <1>11
  <2>2. S(8) = 0 /\ S(9) = 0 /\ S(10) = 0 /\ S(11) = 0
    BY <1>4, <1>11
  <2>3. /\ A(a, 1) \in Nat /\ A(a, 2) \in Nat /\ A(a, 3) \in Nat /\ A(a, 4) \in Nat /\ A(a, 5) \in Nat
        /\ A(a, 6) \in Nat /\ A(a, 7) \in Nat
    BY <1>5, <1>11
  <2>4. sum \in Nat
    BY <1>7, <2>3, Zenon
  <2>5. Total(fn) = sum + 0 + 0 + 0 + 0
    BY <1>6, <2>1, <2>2
  <2>6. Total(fn) = sum
    <3> HIDE DEF sum
    <3> QED BY <2>4, <2>5
  <2> QED BY <1>11, <2>6 DEF a
<1>12. CASE Len(a) = 9
  <2> DEFINE sum == A(a, 1) + A(a, 2) + A(a, 3) + A(a, 4) + A(a, 5) + A(a, 6)
                    + A(a, 7) + A(a, 8) + A(a, 9)
  <2>1. /\ S(1) = A(a, 1) /\ S(2) = A(a, 2) /\ S(3) = A(a, 3) /\ S(4) = A(a, 4)
        /\ S(5) = A(a, 5) /\ S(6) = A(a, 6) /\ S(7) = A(a, 7) /\ S(8) = A(a, 8)
        /\ S(9) = A(a, 9)
    BY <1>4, <1>12
  <2>2. S(10) = 0 /\ S(11) = 0
    BY <1>4, <1>12
  <2>3. /\ A(a, 1) \in Nat /\ A(a, 2) \in Nat /\ A(a, 3) \in Nat /\ A(a, 4) \in Nat /\ A(a, 5) \in Nat
        /\ A(a, 6) \in Nat /\ A(a, 7) \in Nat /\ A(a, 8) \in Nat /\ A(a, 9) \in Nat
    BY <1>5, <1>12
  <2>4. sum \in Nat
    BY <1>7, <2>3, Zenon
  <2>5. Total(fn) = sum + 0 + 0
    BY <1>6, <2>1, <2>2
  <2>6. Total(fn) = sum
    <3> HIDE DEF sum
    <3> QED BY <2>4, <2>5
  <2> QED BY <1>12, <2>6 DEF a
<1>13. CASE Len(a) = 11
  <2>1. /\ S(1) = A(a, 1) /\ S(2) = A(a, 2) /\ S(3) = A(a, 3) /\ S(4) = A(a, 4)
        /\ S(5) = A(a, 5) /\ S(6) = A(a, 6) /\ S(7) = A(a, 7) /\ S(8) = A(a, 8)
        /\ S(9) = A(a, 9) /\ S(10) = A(a, 10) /\ S(11) = A(a, 11)
    BY <1>4, <1>13
  <2> QED BY <1>6, <1>13, <2>1 DEF a
<1> QED BY <1>3, <1>8, <1>9, <1>10, <1>11, <1>12, <1>13 DEF a

LEMMA CheckPctShape ==
  ASSUME Building
  PROVE  /\ Shape("check_pct")
         /\ Total("check_pct") =
            Aligned(MLDSA_CRYPTO_BYTES)
              + Aligned(MLDSA_CRYPTO_PUBLICKEYBYTES)
<1>1. Code("check_pct") = CheckPct
  BY DEF Code
<1> DEFINE a == Allocs("check_pct")
           f == Frees("check_pct")
<1>2. a = <<Block("signature", MLDSA_CRYPTO_BYTES), Block("pk_test",
           MLDSA_CRYPTO_PUBLICKEYBYTES)>>
  BY <1>1 DEF CheckPct, Calls, Allocs
<1>3. f = <<"pk_test", "signature">>
  BY <1>1 DEF CheckPct, Calls, Frees
<1>4. Body("check_pct") = <<"signature", "verify">>
  BY <1>1 DEF CheckPct, Calls, Body
<1>5. AfterCleanup("check_pct") = <<>>
  BY <1>1 DEF CheckPct, Calls, AfterCleanup
<1> HIDE DEF a, f
<1>6. a \in Seq(Buffer) /\ Len(a) = 2
  BY <1>2, Sizes, BlockType DEF BufferNames
<1>7. \A j, k \in 1 .. 2 : a[j].name = a[k].name => j = k
  BY <1>2 DEF Block
<1>8. Len(f) = 2 /\ \A k \in 1 .. 2 : f[k] = a[2 + 1 - k].name
  BY <1>2, <1>3 DEF Block
<1>9. <<"signature", "verify">> \in Seq(Functions \cup Atomic)
  BY DEF Functions, Atomic
<1>10. Body("check_pct") \in Seq(Functions \cup Atomic)
  BY <1>4, <1>9, Zenon
<1>11. AfterCleanup("check_pct") = IF "check_pct" = "keypair_internal" /\ build.pct
                              THEN <<"check_pct">> ELSE <<>>
  BY <1>5
<1>12. 2 \in 0 .. 11
  OBVIOUS
<1>13. Total("check_pct") =
            Aligned(MLDSA_CRYPTO_BYTES)
              + Aligned(MLDSA_CRYPTO_PUBLICKEYBYTES)
  <2>1. /\ a[1].size = MLDSA_CRYPTO_BYTES
        /\ a[2].size = MLDSA_CRYPTO_PUBLICKEYBYTES
    BY <1>2 DEF Block
  <2>2. Total("check_pct") = A(a, 1) + A(a, 2)
    BY <1>6, TotalIs, Zenon DEF a
  <2> QED BY <2>1, <2>2, Zenon DEF A
<1> QED
  BY <1>6, <1>7, <1>8, <1>10, <1>11, <1>12, <1>13, ShapeFrom, Zenon DEF a, f

LEMMA ComputeT0T1TrShape ==
  ASSUME Building
  PROVE  /\ Shape("compute_t0_t1_tr")
         /\ Total("compute_t0_t1_tr") =
            Aligned(Polymat) + Aligned(Polyvecl)
              + Aligned(Polyveck)
<1>1. Code("compute_t0_t1_tr") = ComputeT0T1Tr
  BY DEF Code
<1> DEFINE a == Allocs("compute_t0_t1_tr")
           f == Frees("compute_t0_t1_tr")
<1>2. a = <<Block("mat", Polymat), Block("s1hat", Polyvecl), Block("t",
           Polyveck)>>
  BY <1>1 DEF ComputeT0T1Tr, Calls, Allocs
<1>3. f = <<"t", "s1hat", "mat">>
  BY <1>1 DEF ComputeT0T1Tr, Calls, Frees
<1>4. Body("compute_t0_t1_tr") = <<>>
  BY <1>1 DEF ComputeT0T1Tr, Calls, Body
<1>5. AfterCleanup("compute_t0_t1_tr") = <<>>
  BY <1>1 DEF ComputeT0T1Tr, Calls, AfterCleanup
<1> HIDE DEF a, f
<1>6. a \in Seq(Buffer) /\ Len(a) = 3
  BY <1>2, Sizes, BlockType DEF BufferNames
<1>7. \A j, k \in 1 .. 3 : a[j].name = a[k].name => j = k
  BY <1>2 DEF Block
<1>8. Len(f) = 3 /\ \A k \in 1 .. 3 : f[k] = a[3 + 1 - k].name
  BY <1>2, <1>3 DEF Block
<1>9. <<>> \in Seq(Functions \cup Atomic)
  BY DEF Functions, Atomic
<1>10. Body("compute_t0_t1_tr") \in Seq(Functions \cup Atomic)
  BY <1>4, <1>9, Zenon
<1>11. AfterCleanup("compute_t0_t1_tr") = IF "compute_t0_t1_tr" = "keypair_internal" /\ build.pct
                              THEN <<"check_pct">> ELSE <<>>
  BY <1>5
<1>12. 3 \in 0 .. 11
  OBVIOUS
<1>13. Total("compute_t0_t1_tr") =
            Aligned(Polymat) + Aligned(Polyvecl)
              + Aligned(Polyveck)
  <2>1. a[1].size = Polymat /\ a[2].size = Polyvecl /\ a[3].size = Polyveck
    BY <1>2 DEF Block
  <2>2. Total("compute_t0_t1_tr") = A(a, 1) + A(a, 2) + A(a, 3)
    BY <1>6, TotalIs, Zenon DEF a
  <2> QED BY <2>1, <2>2, Zenon DEF A
<1> QED
  BY <1>6, <1>7, <1>8, <1>10, <1>11, <1>12, <1>13, ShapeFrom, Zenon DEF a, f

LEMMA KeypairInternalShape ==
  ASSUME Building
  PROVE  /\ Shape("keypair_internal")
         /\ Total("keypair_internal") =
            Aligned(128) + Aligned(34) + Aligned(64)
              + Aligned(Polyvecl) + Aligned(Polyveck)
              + Aligned(Polyveck) + Aligned(Polyveck)
<1>1. Code("keypair_internal") = KeypairInternal
  BY DEF Code
<1> DEFINE a == Allocs("keypair_internal")
           f == Frees("keypair_internal")
<1>2. a = <<Block("seedbuf", 128), Block("inbuf", 34), Block("tr", 64),
           Block("s1", Polyvecl), Block("s2", Polyveck), Block("t1", Polyveck),
           Block("t0", Polyveck)>>
  BY <1>1 DEF KeypairInternal, Calls, Allocs
<1>3. f = <<"t0", "t1", "s2", "s1", "tr", "inbuf", "seedbuf">>
  BY <1>1 DEF KeypairInternal, Calls, Frees
<1>4. Body("keypair_internal") = <<"compute_t0_t1_tr">>
  BY <1>1 DEF KeypairInternal, Calls, Body
<1>5. AfterCleanup("keypair_internal") = IF build.pct THEN <<"check_pct">> ELSE <<>>
  BY <1>1 DEF KeypairInternal, Calls, AfterCleanup
<1> HIDE DEF a, f
<1>6. a \in Seq(Buffer) /\ Len(a) = 7
  BY <1>2, Sizes, BlockType DEF BufferNames
<1>7. \A j, k \in 1 .. 7 : a[j].name = a[k].name => j = k
  BY <1>2 DEF Block
<1>8. Len(f) = 7 /\ \A k \in 1 .. 7 : f[k] = a[7 + 1 - k].name
  BY <1>2, <1>3 DEF Block
<1>9. <<"compute_t0_t1_tr">> \in Seq(Functions \cup Atomic)
  BY DEF Functions, Atomic
<1>10. Body("keypair_internal") \in Seq(Functions \cup Atomic)
  BY <1>4, <1>9, Zenon
<1>11. AfterCleanup("keypair_internal") = IF "keypair_internal" = "keypair_internal" /\ build.pct
                              THEN <<"check_pct">> ELSE <<>>
  BY <1>5
<1>12. 7 \in 0 .. 11
  OBVIOUS
<1>13. Total("keypair_internal") =
            Aligned(128) + Aligned(34) + Aligned(64)
              + Aligned(Polyvecl) + Aligned(Polyveck)
              + Aligned(Polyveck) + Aligned(Polyveck)
  <2>1. /\ a[1].size = 128 /\ a[2].size = 34 /\ a[3].size = 64
        /\ a[4].size = Polyvecl /\ a[5].size = Polyveck
        /\ a[6].size = Polyveck /\ a[7].size = Polyveck
    BY <1>2 DEF Block
  <2>2. Total("keypair_internal") = A(a, 1) + A(a, 2) + A(a, 3) + A(a, 4) + A(a, 5)
              + A(a, 6) + A(a, 7)
    BY <1>6, TotalIs, Zenon DEF a
  <2> QED BY <2>1, <2>2, Zenon DEF A
<1> QED
  BY <1>6, <1>7, <1>8, <1>10, <1>11, <1>12, <1>13, ShapeFrom, Zenon DEF a, f

LEMMA AttemptShape ==
  ASSUME Building
  PROVE  /\ Shape("attempt")
         /\ Total("attempt") =
            Aligned(CTILDEBYTES)
              + Aligned(UnionOrStruct(Polyvecl, Polyveck))
              + Aligned(Poly)
              + Aligned(UnionOrStruct(Polyveck, Polyvecl))
              + Aligned(Polyveck) + Aligned(Poly) + Aligned(Poly)
<1>1. Code("attempt") = Attempt
  BY DEF Code
<1> DEFINE a == Allocs("attempt")
           f == Frees("attempt")
<1>2. a = <<Block("challenge_bytes", CTILDEBYTES), Block("yh",
           UnionOrStruct(Polyvecl, Polyveck)), Block("z", Poly), Block("w1tmp",
           UnionOrStruct(Polyveck, Polyvecl)), Block("w0", Polyveck),
           Block("cp", Poly), Block("t", Poly)>>
  BY <1>1 DEF Attempt, Calls, Allocs
<1>3. f = <<"t", "cp", "w0", "w1tmp", "z", "yh", "challenge_bytes">>
  BY <1>1 DEF Attempt, Calls, Frees
<1>4. Body("attempt") = <<"check">>
  BY <1>1 DEF Attempt, Calls, Body
<1>5. AfterCleanup("attempt") = <<>>
  BY <1>1 DEF Attempt, Calls, AfterCleanup
<1> HIDE DEF a, f
<1>6. a \in Seq(Buffer) /\ Len(a) = 7
  BY <1>2, Sizes, BlockType DEF BufferNames
<1>7. \A j, k \in 1 .. 7 : a[j].name = a[k].name => j = k
  BY <1>2 DEF Block
<1>8. Len(f) = 7 /\ \A k \in 1 .. 7 : f[k] = a[7 + 1 - k].name
  BY <1>2, <1>3 DEF Block
<1>9. <<"check">> \in Seq(Functions \cup Atomic)
  BY DEF Functions, Atomic
<1>10. Body("attempt") \in Seq(Functions \cup Atomic)
  BY <1>4, <1>9, Zenon
<1>11. AfterCleanup("attempt") = IF "attempt" = "keypair_internal" /\ build.pct
                              THEN <<"check_pct">> ELSE <<>>
  BY <1>5
<1>12. 7 \in 0 .. 11
  OBVIOUS
<1>13. Total("attempt") =
            Aligned(CTILDEBYTES)
              + Aligned(UnionOrStruct(Polyvecl, Polyveck))
              + Aligned(Poly)
              + Aligned(UnionOrStruct(Polyveck, Polyvecl))
              + Aligned(Polyveck) + Aligned(Poly) + Aligned(Poly)
  <2>1. /\ a[1].size = CTILDEBYTES
        /\ a[2].size = UnionOrStruct(Polyvecl, Polyveck) /\ a[3].size = Poly
        /\ a[4].size = UnionOrStruct(Polyveck, Polyvecl)
        /\ a[5].size = Polyveck /\ a[6].size = Poly /\ a[7].size = Poly
    BY <1>2 DEF Block
  <2>2. Total("attempt") = A(a, 1) + A(a, 2) + A(a, 3) + A(a, 4) + A(a, 5)
              + A(a, 6) + A(a, 7)
    BY <1>6, TotalIs, Zenon DEF a
  <2> QED BY <2>1, <2>2, Zenon DEF A
<1> QED
  BY <1>6, <1>7, <1>8, <1>10, <1>11, <1>12, <1>13, ShapeFrom, Zenon DEF a, f

LEMMA SignatureInternalShape ==
  ASSUME Building
  PROVE  /\ Shape("signature_internal")
         /\ Total("signature_internal") =
            Aligned(256) + Aligned(Polymat) + Aligned(Polyvecl)
              + Aligned(Polyveck) + Aligned(Polyveck)
<1>1. Code("signature_internal") = SignatureInternal
  BY DEF Code
<1> DEFINE a == Allocs("signature_internal")
           f == Frees("signature_internal")
<1>2. a = <<Block("seedbuf", 256), Block("mat", Polymat), Block("s1",
           Polyvecl), Block("t0", Polyveck), Block("s2", Polyveck)>>
  BY <1>1 DEF SignatureInternal, Calls, Allocs
<1>3. f = <<"s2", "t0", "s1", "mat", "seedbuf">>
  BY <1>1 DEF SignatureInternal, Calls, Frees
<1>4. Body("signature_internal") = <<"attempt">>
  BY <1>1 DEF SignatureInternal, Calls, Body
<1>5. AfterCleanup("signature_internal") = <<>>
  BY <1>1 DEF SignatureInternal, Calls, AfterCleanup
<1> HIDE DEF a, f
<1>6. a \in Seq(Buffer) /\ Len(a) = 5
  BY <1>2, Sizes, BlockType DEF BufferNames
<1>7. \A j, k \in 1 .. 5 : a[j].name = a[k].name => j = k
  BY <1>2 DEF Block
<1>8. Len(f) = 5 /\ \A k \in 1 .. 5 : f[k] = a[5 + 1 - k].name
  BY <1>2, <1>3 DEF Block
<1>9. <<"attempt">> \in Seq(Functions \cup Atomic)
  BY DEF Functions, Atomic
<1>10. Body("signature_internal") \in Seq(Functions \cup Atomic)
  BY <1>4, <1>9, Zenon
<1>11. AfterCleanup("signature_internal") = IF "signature_internal" = "keypair_internal" /\ build.pct
                              THEN <<"check_pct">> ELSE <<>>
  BY <1>5
<1>12. 5 \in 0 .. 11
  OBVIOUS
<1>13. Total("signature_internal") =
            Aligned(256) + Aligned(Polymat) + Aligned(Polyvecl)
              + Aligned(Polyveck) + Aligned(Polyveck)
  <2>1. /\ a[1].size = 256 /\ a[2].size = Polymat /\ a[3].size = Polyvecl
        /\ a[4].size = Polyveck /\ a[5].size = Polyveck
    BY <1>2 DEF Block
  <2>2. Total("signature_internal") = A(a, 1) + A(a, 2) + A(a, 3) + A(a, 4) + A(a, 5)
    BY <1>6, TotalIs, Zenon DEF a
  <2> QED BY <2>1, <2>2, Zenon DEF A
<1> QED
  BY <1>6, <1>7, <1>8, <1>10, <1>11, <1>12, <1>13, ShapeFrom, Zenon DEF a, f

LEMMA SignatureShape ==
  ASSUME Building
  PROVE  /\ Shape("signature")
         /\ Total("signature") =
            Aligned(2 + 255 + 11 + 64) + Aligned(32)
<1>1. Code("signature") = Signature
  BY DEF Code
<1> DEFINE a == Allocs("signature")
           f == Frees("signature")
<1>2. a = <<Block("pre", 2 + 255 + 11 + 64), Block("rnd", 32)>>
  BY <1>1 DEF Signature, Calls, Allocs
<1>3. f = <<"rnd", "pre">>
  BY <1>1 DEF Signature, Calls, Frees
<1>4. Body("signature") = <<"check", "rng", "signature_internal">>
  BY <1>1 DEF Signature, Calls, Body
<1>5. AfterCleanup("signature") = <<>>
  BY <1>1 DEF Signature, Calls, AfterCleanup
<1> HIDE DEF a, f
<1>6. a \in Seq(Buffer) /\ Len(a) = 2
  BY <1>2, Sizes, BlockType DEF BufferNames
<1>7. \A j, k \in 1 .. 2 : a[j].name = a[k].name => j = k
  BY <1>2 DEF Block
<1>8. Len(f) = 2 /\ \A k \in 1 .. 2 : f[k] = a[2 + 1 - k].name
  BY <1>2, <1>3 DEF Block
<1>9. <<"check", "rng", "signature_internal">> \in Seq(Functions \cup Atomic)
  BY DEF Functions, Atomic
<1>10. Body("signature") \in Seq(Functions \cup Atomic)
  BY <1>4, <1>9, Zenon
<1>11. AfterCleanup("signature") = IF "signature" = "keypair_internal" /\ build.pct
                              THEN <<"check_pct">> ELSE <<>>
  BY <1>5
<1>12. 2 \in 0 .. 11
  OBVIOUS
<1>13. Total("signature") =
            Aligned(2 + 255 + 11 + 64) + Aligned(32)
  <2>1. a[1].size = 2 + 255 + 11 + 64 /\ a[2].size = 32
    BY <1>2 DEF Block
  <2>2. Total("signature") = A(a, 1) + A(a, 2)
    BY <1>6, TotalIs, Zenon DEF a
  <2> QED BY <2>1, <2>2, Zenon DEF A
<1> QED
  BY <1>6, <1>7, <1>8, <1>10, <1>11, <1>12, <1>13, ShapeFrom, Zenon DEF a, f

LEMMA VerifyInternalShape ==
  ASSUME Building
  PROVE  /\ Shape("verify_internal")
         /\ Total("verify_internal") =
            Aligned(Dims.k * POLYW1_PACKEDBYTES) + Aligned(32)
              + Aligned(64) + Aligned(CTILDEBYTES)
              + Aligned(CTILDEBYTES) + Aligned(Poly)
              + Aligned(Polymat) + Aligned(Polyvecl)
              + Aligned(UnionOrStruct(Polyveck, Polyveck))
              + Aligned(Polyveck) + Aligned(Polyveck)
<1>1. Code("verify_internal") = VerifyInternal
  BY DEF Code
<1> DEFINE a == Allocs("verify_internal")
           f == Frees("verify_internal")
<1>2. a = <<Block("buf", Dims.k * POLYW1_PACKEDBYTES), Block("rho", 32),
           Block("mu", 64), Block("c", CTILDEBYTES), Block("c2", CTILDEBYTES),
           Block("cp", Poly), Block("mat", Polymat), Block("z", Polyvecl),
           Block("t1w1", UnionOrStruct(Polyveck, Polyveck)), Block("tmp",
           Polyveck), Block("h", Polyveck)>>
  BY <1>1 DEF VerifyInternal, Calls, Allocs
<1>3. f = <<"h", "tmp", "t1w1", "z", "mat", "cp", "c2", "c", "mu", "rho",
            "buf">>
  BY <1>1 DEF VerifyInternal, Calls, Frees
<1>4. Body("verify_internal") = <<"check">>
  BY <1>1 DEF VerifyInternal, Calls, Body
<1>5. AfterCleanup("verify_internal") = <<>>
  BY <1>1 DEF VerifyInternal, Calls, AfterCleanup
<1> HIDE DEF a, f
<1>6. a \in Seq(Buffer) /\ Len(a) = 11
  BY <1>2, Sizes, BlockType DEF BufferNames
<1>7. \A j, k \in 1 .. 11 : a[j].name = a[k].name => j = k
  BY <1>2 DEF Block
<1>8. Len(f) = 11 /\ \A k \in 1 .. 11 : f[k] = a[11 + 1 - k].name
  BY <1>2, <1>3 DEF Block
<1>9. <<"check">> \in Seq(Functions \cup Atomic)
  BY DEF Functions, Atomic
<1>10. Body("verify_internal") \in Seq(Functions \cup Atomic)
  BY <1>4, <1>9, Zenon
<1>11. AfterCleanup("verify_internal") = IF "verify_internal" = "keypair_internal" /\ build.pct
                              THEN <<"check_pct">> ELSE <<>>
  BY <1>5
<1>12. 11 \in 0 .. 11
  OBVIOUS
<1>13. Total("verify_internal") =
            Aligned(Dims.k * POLYW1_PACKEDBYTES) + Aligned(32)
              + Aligned(64) + Aligned(CTILDEBYTES)
              + Aligned(CTILDEBYTES) + Aligned(Poly)
              + Aligned(Polymat) + Aligned(Polyvecl)
              + Aligned(UnionOrStruct(Polyveck, Polyveck))
              + Aligned(Polyveck) + Aligned(Polyveck)
  <2>1. /\ a[1].size = Dims.k * POLYW1_PACKEDBYTES /\ a[2].size = 32
        /\ a[3].size = 64 /\ a[4].size = CTILDEBYTES
        /\ a[5].size = CTILDEBYTES /\ a[6].size = Poly /\ a[7].size = Polymat
        /\ a[8].size = Polyvecl
        /\ a[9].size = UnionOrStruct(Polyveck, Polyveck)
        /\ a[10].size = Polyveck /\ a[11].size = Polyveck
    BY <1>2 DEF Block
  <2>2. Total("verify_internal") = A(a, 1) + A(a, 2) + A(a, 3) + A(a, 4) + A(a, 5)
              + A(a, 6) + A(a, 7) + A(a, 8) + A(a, 9) + A(a, 10)
              + A(a, 11)
    BY <1>6, TotalIs, Zenon DEF a
  <2> QED BY <2>1, <2>2, Zenon DEF A
<1> QED
  BY <1>6, <1>7, <1>8, <1>10, <1>11, <1>12, <1>13, ShapeFrom, Zenon DEF a, f

LEMMA PkFromSkShape ==
  ASSUME Building
  PROVE  /\ Shape("pk_from_sk")
         /\ Total("pk_from_sk") =
            Aligned(32) + Aligned(64) + Aligned(64) + Aligned(32)
              + Aligned(Polyvecl) + Aligned(Polyveck)
              + Aligned(Polyveck) + Aligned(Polyveck)
              + Aligned(Polyveck)
<1>1. Code("pk_from_sk") = PkFromSk
  BY DEF Code
<1> DEFINE a == Allocs("pk_from_sk")
           f == Frees("pk_from_sk")
<1>2. a = <<Block("rho", 32), Block("tr", 64), Block("tr_computed", 64),
           Block("key", 32), Block("s1", Polyvecl), Block("s2", Polyveck),
           Block("t0", Polyveck), Block("t0_computed", Polyveck), Block("t1",
           Polyveck)>>
  BY <1>1 DEF PkFromSk, Calls, Allocs
<1>3. f = <<"t1", "t0_computed", "t0", "s2", "s1", "key", "tr_computed", "tr",
            "rho">>
  BY <1>1 DEF PkFromSk, Calls, Frees
<1>4. Body("pk_from_sk") = <<"compute_t0_t1_tr", "check">>
  BY <1>1 DEF PkFromSk, Calls, Body
<1>5. AfterCleanup("pk_from_sk") = <<>>
  BY <1>1 DEF PkFromSk, Calls, AfterCleanup
<1> HIDE DEF a, f
<1>6. a \in Seq(Buffer) /\ Len(a) = 9
  BY <1>2, Sizes, BlockType DEF BufferNames
<1>7. \A j, k \in 1 .. 9 : a[j].name = a[k].name => j = k
  BY <1>2 DEF Block
<1>8. Len(f) = 9 /\ \A k \in 1 .. 9 : f[k] = a[9 + 1 - k].name
  BY <1>2, <1>3 DEF Block
<1>9. <<"compute_t0_t1_tr", "check">> \in Seq(Functions \cup Atomic)
  BY DEF Functions, Atomic
<1>10. Body("pk_from_sk") \in Seq(Functions \cup Atomic)
  BY <1>4, <1>9, Zenon
<1>11. AfterCleanup("pk_from_sk") = IF "pk_from_sk" = "keypair_internal" /\ build.pct
                              THEN <<"check_pct">> ELSE <<>>
  BY <1>5
<1>12. 9 \in 0 .. 11
  OBVIOUS
<1>13. Total("pk_from_sk") =
            Aligned(32) + Aligned(64) + Aligned(64) + Aligned(32)
              + Aligned(Polyvecl) + Aligned(Polyveck)
              + Aligned(Polyveck) + Aligned(Polyveck)
              + Aligned(Polyveck)
  <2>1. /\ a[1].size = 32 /\ a[2].size = 64 /\ a[3].size = 64
        /\ a[4].size = 32 /\ a[5].size = Polyvecl /\ a[6].size = Polyveck
        /\ a[7].size = Polyveck /\ a[8].size = Polyveck
        /\ a[9].size = Polyveck
    BY <1>2 DEF Block
  <2>2. Total("pk_from_sk") = A(a, 1) + A(a, 2) + A(a, 3) + A(a, 4) + A(a, 5)
              + A(a, 6) + A(a, 7) + A(a, 8) + A(a, 9)
    BY <1>6, TotalIs, Zenon DEF a
  <2> QED BY <2>1, <2>2, Zenon DEF A
<1> QED
  BY <1>6, <1>7, <1>8, <1>10, <1>11, <1>12, <1>13, ShapeFrom, Zenon DEF a, f

\* The functions without buffers, and what a function calls.
Bare == {"keypair", "signature_extmu", "signature_pre_hash_internal", "sign",
         "verify", "verify_pre_hash_internal", "verify_extmu", "open"}

LEMMA Bodies ==
  /\ Body("check_pct") = <<"signature", "verify">>
  /\ Body("compute_t0_t1_tr") = <<>>
  /\ Body("keypair_internal") = <<"compute_t0_t1_tr">>
  /\ Body("keypair") = <<"rng", "keypair_internal">>
  /\ Body("attempt") = <<"check">>
  /\ Body("signature_internal") = <<"attempt">>
  /\ Body("signature") = <<"check", "rng", "signature_internal">>
  /\ Body("signature_extmu") = <<"rng", "signature_internal">>
  /\ Body("signature_pre_hash_internal") = <<"check", "signature_internal">>
  /\ Body("sign") = <<"signature">>
  /\ Body("verify_internal") = <<"check">>
  /\ Body("verify") = <<"check", "verify_internal">>
  /\ Body("verify_pre_hash_internal") = <<"check", "verify_internal">>
  /\ Body("verify_extmu") = <<"verify_internal">>
  /\ Body("open") = <<"check", "verify">>
  /\ Body("pk_from_sk") = <<"compute_t0_t1_tr", "check">>
<1>1. /\ Code("check_pct") = CheckPct /\ Code("compute_t0_t1_tr") = ComputeT0T1Tr
      /\ Code("keypair_internal") = KeypairInternal /\ Code("keypair") = Keypair
      /\ Code("attempt") = Attempt /\ Code("signature_internal") = SignatureInternal
  BY DEF Code
<1>2. /\ Code("signature") = Signature /\ Code("signature_extmu") = SignatureExtmu
      /\ Code("signature_pre_hash_internal") = SignaturePreHashInternal
      /\ Code("sign") = CombinedSign /\ Code("verify_internal") = VerifyInternal
  BY DEF Code
<1>3. /\ Code("verify") = Verify /\ Code("verify_pre_hash_internal") = Verify
      /\ Code("verify_extmu") = VerifyExtmu /\ Code("open") = Open
      /\ Code("pk_from_sk") = PkFromSk
  BY DEF Code
<1>4. /\ CheckPct.body = <<"signature", "verify">> /\ ComputeT0T1Tr.body = <<>>
      /\ KeypairInternal.body = <<"compute_t0_t1_tr">> /\ Attempt.body = <<"check">>
      /\ SignatureInternal.body = <<"attempt">>
  BY DEF CheckPct, ComputeT0T1Tr, KeypairInternal, Attempt, SignatureInternal, Calls
<1>5. /\ Signature.body = <<"check", "rng", "signature_internal">>
      /\ VerifyInternal.body = <<"check">>
      /\ PkFromSk.body = <<"compute_t0_t1_tr", "check">>
  BY DEF Signature, VerifyInternal, PkFromSk, Calls
<1> QED
  BY <1>1, <1>2, <1>3, <1>4, <1>5
     DEF Body, Calls, Keypair, SignatureExtmu, SignaturePreHashInternal,
         CombinedSign, Verify, VerifyExtmu, Open

LEMMA BareShape ==
  ASSUME NEW fn \in Bare
  PROVE  Shape(fn) /\ Allocs(fn) = <<>> /\ Total(fn) = 0
<1>1. PICK b : Code(fn) = Calls(b)
  BY DEF Bare, Code, Keypair, SignatureExtmu, SignaturePreHashInternal,
         CombinedSign, Verify, VerifyExtmu, Open
<1>2. Allocs(fn) = <<>> /\ Frees(fn) = <<>> /\ AfterCleanup(fn) = <<>>
  BY <1>1 DEF Calls, Allocs, Frees, AfterCleanup
<1>3. fn # "keypair_internal"
  BY DEF Bare
<1>4. Body(fn) \in Seq(Functions \cup Atomic)
  <2>1. /\ <<"rng", "keypair_internal">> \in Seq(Functions \cup Atomic)
        /\ <<"rng", "signature_internal">> \in Seq(Functions \cup Atomic)
        /\ <<"check", "signature_internal">> \in Seq(Functions \cup Atomic)
    BY DEF Functions, Atomic
  <2>2. /\ <<"signature">> \in Seq(Functions \cup Atomic)
        /\ <<"check", "verify_internal">> \in Seq(Functions \cup Atomic)
        /\ <<"verify_internal">> \in Seq(Functions \cup Atomic)
        /\ <<"check", "verify">> \in Seq(Functions \cup Atomic)
    BY DEF Functions, Atomic
  <2> QED BY <2>1, <2>2, Bodies DEF Bare
<1>5. <<>> \in Seq(Buffer) /\ Len(<<>>) = 0
  OBVIOUS
<1>6. Shape(fn)
  BY <1>2, <1>3, <1>4, <1>5 DEF Shape
<1>7. Total(fn) = 0
  BY <1>2 DEF Total, Before, Taken
<1> QED BY <1>2, <1>6, <1>7

LEMMA Shapes == ASSUME Building, NEW fn \in Functions PROVE Shape(fn)
<1>1. fn \in {"check_pct", "compute_t0_t1_tr", "keypair_internal", "attempt",
              "signature_internal", "signature", "verify_internal", "pk_from_sk"}
        => Shape(fn)
  BY CheckPctShape, ComputeT0T1TrShape, KeypairInternalShape, AttemptShape,
     SignatureInternalShape, SignatureShape, VerifyInternalShape, PkFromSkShape
<1>2. fn \in Bare => Shape(fn)
  BY BareShape
<1> QED BY <1>1, <1>2 DEF Functions, Bare

\* Each buffer starts where the one before it ends.
LEMMA BeforeIs ==
  ASSUME Building, NEW fn \in Functions
  PROVE  LET a == Allocs(fn) IN
         /\ Before(fn, 1) = 0 /\ Total(fn) = Before(fn, Len(a) + 1)
         /\ \A k \in 1 .. Len(a) + 1 : Before(fn, k) \in Nat /\ Before(fn, k) =< Total(fn)
         /\ \A k \in 1 .. Len(a) : Before(fn, k + 1) = Before(fn, k) + A(a, k)
<1> DEFINE a == Allocs(fn)
<1> DEFINE len == Len(a)
<1>0. Shape(fn)
  BY Shapes
<1>1. len \in 0 .. 11
  <2>1. a \in Seq(Buffer) /\ len =< 11
    BY <1>0 DEF Shape
  <2>2. len \in Nat
    BY <2>1
  <2>3. len =< 11
    BY <2>1
  <2> HIDE DEF len
  <2> QED BY <2>2, <2>3
<1>2. \A j \in 1 .. len : A(a, j) \in Nat
  <2> SUFFICES ASSUME NEW j \in 1 .. len PROVE A(a, j) \in Nat
    OBVIOUS
  <2>1. a[j] \in Buffer
    BY <1>0 DEF Shape
  <2>2. a[j].size \in Nat \ {0}
    BY <2>1 DEF Buffer
  <2> QED BY <2>2, AlignedIs DEF A
<1> DEFINE T(j, k) == Taken(fn, j, k)
<1>3. \A j, k \in 1 .. 12 : /\ T(j, k) = IF j < k /\ j =< len THEN A(a, j) ELSE 0
                            /\ T(j, k) \in Nat
  BY <1>1, <1>2 DEF Taken, A
<1> HIDE DEF A
<1>4. \A k : Before(fn, k) = T(1, k) + T(2, k) + T(3, k) + T(4, k) + T(5, k) + T(6, k)
                              + T(7, k) + T(8, k) + T(9, k) + T(10, k) + T(11, k)
  BY DEF Before
<1>5. Total(fn) = Before(fn, len + 1)
  BY DEF Total
<1> HIDE DEF len, a, T
<1>6. Before(fn, 1) = 0
  BY <1>3, <1>4
<1>7. \A k \in 1 .. 12 : Before(fn, k) \in Nat
  <2> SUFFICES ASSUME NEW k \in 1 .. 12 PROVE Before(fn, k) \in Nat
    OBVIOUS
  <2>1. \A j \in 1 .. 12 : T(j, k) \in Nat
    BY <1>3
  <2> QED BY <1>4, <2>1
<1>8. \A k \in 1 .. len + 1 : Before(fn, k) =< Total(fn)
  <2> SUFFICES ASSUME NEW k \in 1 .. len + 1 PROVE Before(fn, k) =< Total(fn)
    OBVIOUS
  <2> DEFINE m == len + 1
  <2>1. m \in 1 .. 12 /\ k \in 1 .. 12 /\ k =< m
    BY <1>1
  <2>2. \A j \in 1 .. 11 : T(j, k) \in Nat /\ T(j, m) \in Nat /\ T(j, k) =< T(j, m)
    BY <1>1, <1>2, <1>3, <2>1
  <2> HIDE DEF m
  <2> QED BY <1>4, <1>5, <2>2 DEF m
<1>9. \A k \in 1 .. len : Before(fn, k + 1) = Before(fn, k) + A(a, k)
  <2> SUFFICES ASSUME NEW k \in 1 .. len
               PROVE  Before(fn, k + 1) = Before(fn, k) + A(a, k)
    OBVIOUS
  <2>1. k \in 1 .. 11 /\ k + 1 \in 1 .. 12 /\ k \in 1 .. 12
    BY <1>1
  <2>2. \A j \in 1 .. 11 : j # k => T(j, k + 1) = T(j, k)
    BY <1>1, <1>3, <2>1
  <2>3. T(k, k + 1) = A(a, k) /\ T(k, k) = 0 /\ A(a, k) \in Nat
    BY <1>1, <1>2, <1>3, <2>1
  <2>4. \A j \in 1 .. 11 : T(j, k) \in Nat
    BY <1>3, <2>1
  <2> QED BY <1>4, <2>1, <2>2, <2>3, <2>4
<1>10. \A k \in 1 .. len + 1 : Before(fn, k) \in Nat
  BY <1>1, <1>7
<1> QED BY <1>5, <1>6, <1>8, <1>9, <1>10 DEF a, len

-----------------------------------------------------------------------------
(* The documented sizes, build by build.                                   *)

LEMMA MaxOfTwo ==
  ASSUME NEW x \in Int, NEW y \in Int
  PROVE  Max({x, y}) = IF x >= y THEN x ELSE y
BY DEF Max

\* What the buffers of an operation take together, and what is documented.
LEMMA DocumentedIs ==
  ASSUME Building
  PROVE  /\ build.pct => Total("check_pct") + (Total("signature")
                            + (Total("signature_internal") + Total("attempt"))) = DocumentedKeypair
         /\ Total("signature") + (Total("signature_internal") + Total("attempt")) = DocumentedSign
         /\ Total("verify_internal") = DocumentedVerify
         /\ Total("pk_from_sk") + Total("compute_t0_t1_tr") =< DocumentedKeypair
         /\ ~ build.pct => Total("pk_from_sk") + Total("compute_t0_t1_tr") = DocumentedKeypair
         /\ Total("keypair_internal") + Total("compute_t0_t1_tr") =< DocumentedKeypair
         /\ build.pct => Total("check_pct") + Total("verify_internal") =< DocumentedKeypair
<1> DEFINE tcp == Total("check_pct")
           tco == Total("compute_t0_t1_tr")
           tki == Total("keypair_internal")
           tat == Total("attempt")
           tsi == Total("signature_internal")
           tsg == Total("signature")
           tvi == Total("verify_internal")
           tpk == Total("pk_from_sk")
<1>1. tcp =
            Aligned(MLDSA_CRYPTO_BYTES)
              + Aligned(MLDSA_CRYPTO_PUBLICKEYBYTES)
  BY CheckPctShape
<1>2. tco =
            Aligned(Polymat) + Aligned(Polyvecl)
              + Aligned(Polyveck)
  BY ComputeT0T1TrShape
<1>3. tki =
            Aligned(128) + Aligned(34) + Aligned(64)
              + Aligned(Polyvecl) + Aligned(Polyveck)
              + Aligned(Polyveck) + Aligned(Polyveck)
  BY KeypairInternalShape
<1>4. tat =
            Aligned(CTILDEBYTES)
              + Aligned(UnionOrStruct(Polyvecl, Polyveck))
              + Aligned(Poly)
              + Aligned(UnionOrStruct(Polyveck, Polyvecl))
              + Aligned(Polyveck) + Aligned(Poly) + Aligned(Poly)
  BY AttemptShape
<1>5. tsi =
            Aligned(256) + Aligned(Polymat) + Aligned(Polyvecl)
              + Aligned(Polyveck) + Aligned(Polyveck)
  BY SignatureInternalShape
<1>6. tsg =
            Aligned(2 + 255 + 11 + 64) + Aligned(32)
  BY SignatureShape
<1>7. tvi =
            Aligned(Dims.k * POLYW1_PACKEDBYTES) + Aligned(32)
              + Aligned(64) + Aligned(CTILDEBYTES)
              + Aligned(CTILDEBYTES) + Aligned(Poly)
              + Aligned(Polymat) + Aligned(Polyvecl)
              + Aligned(UnionOrStruct(Polyveck, Polyveck))
              + Aligned(Polyveck) + Aligned(Polyveck)
  BY VerifyInternalShape
<1>8. tpk =
            Aligned(32) + Aligned(64) + Aligned(64) + Aligned(32)
              + Aligned(Polyvecl) + Aligned(Polyveck)
              + Aligned(Polyveck) + Aligned(Polyveck)
              + Aligned(Polyveck)
  BY PkFromSkShape
<1> HIDE DEF tcp, tco, tki, tat, tsi, tsg, tvi, tpk
<1>9. CASE build.level = 44 /\ build.reduceRam = TRUE
  <2>1. /\ Dims.k = 4 /\ Dims.l = 4 /\ CTILDEBYTES = 32 /\ OMEGA = 80
        /\ POLYZ_PACKEDBYTES = 576 /\ POLYW1_PACKEDBYTES = 192
    BY <1>9 DEF Dims, CTILDEBYTES, OMEGA, POLYZ_PACKEDBYTES, POLYW1_PACKEDBYTES
  <2>2. /\ Poly = 1024 /\ Polyvecl = 4096 /\ Polyveck = 4096
        /\ Polymat = 4128 /\ MLDSA_CRYPTO_BYTES = 2420
        /\ MLDSA_CRYPTO_PUBLICKEYBYTES = 1312 /\ Dims.k * POLYW1_PACKEDBYTES = 768
    BY <1>9, <2>1 DEF Poly, Polyvecl, Polyveck, Polymat, MLDSA_CRYPTO_BYTES,
          MLDSA_CRYPTO_PUBLICKEYBYTES
  <2>3. /\ UnionOrStruct(Polyvecl, Polyveck) = 4096
        /\ UnionOrStruct(Polyveck, Polyvecl) = 4096
        /\ UnionOrStruct(Polyveck, Polyveck) = 4096
    BY <1>9, <2>2, MaxOfTwo DEF UnionOrStruct
  <2>4. /\ tcp = 3744 /\ tco = 12320 /\ tki = 16640 /\ tat = 15392
        /\ tsi = 16672 /\ tsg = 384 /\ tvi = 22464 /\ tpk = 20672
    BY <1>1, <1>2, <1>3, <1>4, <1>5, <1>6, <1>7, <1>8, <2>1, <2>2, <2>3 DEF Aligned
  <2> QED
    BY <1>9, <2>4 DEF DocumentedKeypair, DocumentedSign, DocumentedVerify,
          tcp, tco, tki, tat, tsi, tsg, tvi, tpk
<1>10. CASE build.level = 44 /\ build.reduceRam = FALSE
  <2>1. /\ Dims.k = 4 /\ Dims.l = 4 /\ CTILDEBYTES = 32 /\ OMEGA = 80
        /\ POLYZ_PACKEDBYTES = 576 /\ POLYW1_PACKEDBYTES = 192
    BY <1>10 DEF Dims, CTILDEBYTES, OMEGA, POLYZ_PACKEDBYTES, POLYW1_PACKEDBYTES
  <2>2. /\ Poly = 1024 /\ Polyvecl = 4096 /\ Polyveck = 4096
        /\ Polymat = 16384 /\ MLDSA_CRYPTO_BYTES = 2420
        /\ MLDSA_CRYPTO_PUBLICKEYBYTES = 1312 /\ Dims.k * POLYW1_PACKEDBYTES = 768
    BY <1>10, <2>1 DEF Poly, Polyvecl, Polyveck, Polymat, MLDSA_CRYPTO_BYTES,
          MLDSA_CRYPTO_PUBLICKEYBYTES
  <2>3. /\ UnionOrStruct(Polyvecl, Polyveck) = 8192
        /\ UnionOrStruct(Polyveck, Polyvecl) = 8192
        /\ UnionOrStruct(Polyveck, Polyveck) = 8192
    BY <1>10, <2>2, MaxOfTwo DEF UnionOrStruct
  <2>4. /\ tcp = 3744 /\ tco = 24576 /\ tki = 16640 /\ tat = 23584
        /\ tsi = 28928 /\ tsg = 384 /\ tvi = 38816 /\ tpk = 20672
    BY <1>1, <1>2, <1>3, <1>4, <1>5, <1>6, <1>7, <1>8, <2>1, <2>2, <2>3 DEF Aligned
  <2> QED
    BY <1>10, <2>4 DEF DocumentedKeypair, DocumentedSign, DocumentedVerify,
          tcp, tco, tki, tat, tsi, tsg, tvi, tpk
<1>11. CASE build.level = 65 /\ build.reduceRam = TRUE
  <2>1. /\ Dims.k = 6 /\ Dims.l = 5 /\ CTILDEBYTES = 48 /\ OMEGA = 55
        /\ POLYZ_PACKEDBYTES = 640 /\ POLYW1_PACKEDBYTES = 128
    BY <1>11 DEF Dims, CTILDEBYTES, OMEGA, POLYZ_PACKEDBYTES, POLYW1_PACKEDBYTES
  <2>2. /\ Poly = 1024 /\ Polyvecl = 5120 /\ Polyveck = 6144
        /\ Polymat = 5152 /\ MLDSA_CRYPTO_BYTES = 3309
        /\ MLDSA_CRYPTO_PUBLICKEYBYTES = 1952 /\ Dims.k * POLYW1_PACKEDBYTES = 768
    BY <1>11, <2>1 DEF Poly, Polyvecl, Polyveck, Polymat, MLDSA_CRYPTO_BYTES,
          MLDSA_CRYPTO_PUBLICKEYBYTES
  <2>3. /\ UnionOrStruct(Polyvecl, Polyveck) = 6144
        /\ UnionOrStruct(Polyveck, Polyvecl) = 6144
        /\ UnionOrStruct(Polyveck, Polyveck) = 6144
    BY <1>11, <2>2, MaxOfTwo DEF UnionOrStruct
  <2>4. /\ tcp = 5280 /\ tco = 16416 /\ tki = 23808 /\ tat = 21568
        /\ tsi = 22816 /\ tsg = 384 /\ tvi = 30720 /\ tpk = 29888
    BY <1>1, <1>2, <1>3, <1>4, <1>5, <1>6, <1>7, <1>8, <2>1, <2>2, <2>3 DEF Aligned
  <2> QED
    BY <1>11, <2>4 DEF DocumentedKeypair, DocumentedSign, DocumentedVerify,
          tcp, tco, tki, tat, tsi, tsg, tvi, tpk
<1>12. CASE build.level = 65 /\ build.reduceRam = FALSE
  <2>1. /\ Dims.k = 6 /\ Dims.l = 5 /\ CTILDEBYTES = 48 /\ OMEGA = 55
        /\ POLYZ_PACKEDBYTES = 640 /\ POLYW1_PACKEDBYTES = 128
    BY <1>12 DEF Dims, CTILDEBYTES, OMEGA, POLYZ_PACKEDBYTES, POLYW1_PACKEDBYTES
  <2>2. /\ Poly = 1024 /\ Polyvecl = 5120 /\ Polyveck = 6144
        /\ Polymat = 30720 /\ MLDSA_CRYPTO_BYTES = 3309
        /\ MLDSA_CRYPTO_PUBLICKEYBYTES = 1952 /\ Dims.k * POLYW1_PACKEDBYTES = 768
    BY <1>12, <2>1 DEF Poly, Polyvecl, Polyveck, Polymat, MLDSA_CRYPTO_BYTES,
          MLDSA_CRYPTO_PUBLICKEYBYTES
  <2>3. /\ UnionOrStruct(Polyvecl, Polyveck) = 11264
        /\ UnionOrStruct(Polyveck, Polyvecl) = 11264
        /\ UnionOrStruct(Polyveck, Polyveck) = 12288
    BY <1>12, <2>2, MaxOfTwo DEF UnionOrStruct
  <2>4. /\ tcp = 5280 /\ tco = 41984 /\ tki = 23808 /\ tat = 31808
        /\ tsi = 48384 /\ tsg = 384 /\ tvi = 62432 /\ tpk = 29888
    BY <1>1, <1>2, <1>3, <1>4, <1>5, <1>6, <1>7, <1>8, <2>1, <2>2, <2>3 DEF Aligned
  <2> QED
    BY <1>12, <2>4 DEF DocumentedKeypair, DocumentedSign, DocumentedVerify,
          tcp, tco, tki, tat, tsi, tsg, tvi, tpk
<1>13. CASE build.level = 87 /\ build.reduceRam = TRUE
  <2>1. /\ Dims.k = 8 /\ Dims.l = 7 /\ CTILDEBYTES = 64 /\ OMEGA = 75
        /\ POLYZ_PACKEDBYTES = 640 /\ POLYW1_PACKEDBYTES = 128
    BY <1>13 DEF Dims, CTILDEBYTES, OMEGA, POLYZ_PACKEDBYTES, POLYW1_PACKEDBYTES
  <2>2. /\ Poly = 1024 /\ Polyvecl = 7168 /\ Polyveck = 8192
        /\ Polymat = 7200 /\ MLDSA_CRYPTO_BYTES = 4627
        /\ MLDSA_CRYPTO_PUBLICKEYBYTES = 2592 /\ Dims.k * POLYW1_PACKEDBYTES = 1024
    BY <1>13, <2>1 DEF Poly, Polyvecl, Polyveck, Polymat, MLDSA_CRYPTO_BYTES,
          MLDSA_CRYPTO_PUBLICKEYBYTES
  <2>3. /\ UnionOrStruct(Polyvecl, Polyveck) = 8192
        /\ UnionOrStruct(Polyveck, Polyvecl) = 8192
        /\ UnionOrStruct(Polyveck, Polyveck) = 8192
    BY <1>13, <2>2, MaxOfTwo DEF UnionOrStruct
  <2>4. /\ tcp = 7232 /\ tco = 22560 /\ tki = 32000 /\ tat = 27712
        /\ tsi = 31008 /\ tsg = 384 /\ tvi = 41216 /\ tpk = 40128
    BY <1>1, <1>2, <1>3, <1>4, <1>5, <1>6, <1>7, <1>8, <2>1, <2>2, <2>3 DEF Aligned
  <2> QED
    BY <1>13, <2>4 DEF DocumentedKeypair, DocumentedSign, DocumentedVerify,
          tcp, tco, tki, tat, tsi, tsg, tvi, tpk
<1>14. CASE build.level = 87 /\ build.reduceRam = FALSE
  <2>1. /\ Dims.k = 8 /\ Dims.l = 7 /\ CTILDEBYTES = 64 /\ OMEGA = 75
        /\ POLYZ_PACKEDBYTES = 640 /\ POLYW1_PACKEDBYTES = 128
    BY <1>14 DEF Dims, CTILDEBYTES, OMEGA, POLYZ_PACKEDBYTES, POLYW1_PACKEDBYTES
  <2>2. /\ Poly = 1024 /\ Polyvecl = 7168 /\ Polyveck = 8192
        /\ Polymat = 57344 /\ MLDSA_CRYPTO_BYTES = 4627
        /\ MLDSA_CRYPTO_PUBLICKEYBYTES = 2592 /\ Dims.k * POLYW1_PACKEDBYTES = 1024
    BY <1>14, <2>1 DEF Poly, Polyvecl, Polyveck, Polymat, MLDSA_CRYPTO_BYTES,
          MLDSA_CRYPTO_PUBLICKEYBYTES
  <2>3. /\ UnionOrStruct(Polyvecl, Polyveck) = 15360
        /\ UnionOrStruct(Polyveck, Polyvecl) = 15360
        /\ UnionOrStruct(Polyveck, Polyveck) = 16384
    BY <1>14, <2>2, MaxOfTwo DEF UnionOrStruct
  <2>4. /\ tcp = 7232 /\ tco = 72704 /\ tki = 32000 /\ tat = 42048
        /\ tsi = 81152 /\ tsg = 384 /\ tvi = 99552 /\ tpk = 40128
    BY <1>1, <1>2, <1>3, <1>4, <1>5, <1>6, <1>7, <1>8, <2>1, <2>2, <2>3 DEF Aligned
  <2> QED
    BY <1>14, <2>4 DEF DocumentedKeypair, DocumentedSign, DocumentedVerify,
          tcp, tco, tki, tat, tsi, tsg, tvi, tpk
<1> QED
  <2>1. build.level \in {44, 65, 87} /\ build.reduceRam \in BOOLEAN
    BY AllocationAssumption DEF Building
  <2> QED BY <2>1, <1>9, <1>10, <1>11, <1>12, <1>13, <1>14

-----------------------------------------------------------------------------
(* The call tree.                                                          *)

\* Item k of the body of fn calls g.
CallItems ==
  {<<"check_pct", 1, "signature">>, <<"check_pct", 2, "verify">>,
   <<"keypair_internal", 1, "compute_t0_t1_tr">>,
   <<"keypair", 2, "keypair_internal">>, <<"signature_internal", 1, "attempt">>,
   <<"signature", 3, "signature_internal">>,
   <<"signature_extmu", 2, "signature_internal">>,
   <<"signature_pre_hash_internal", 2, "signature_internal">>,
   <<"sign", 1, "signature">>, <<"verify", 2, "verify_internal">>,
   <<"verify_pre_hash_internal", 2, "verify_internal">>,
   <<"verify_extmu", 1, "verify_internal">>, <<"open", 2, "verify">>,
   <<"pk_from_sk", 1, "compute_t0_t1_tr">>}

LEMMA ItemIs ==
  ASSUME NEW fn \in Functions, NEW k \in 1 .. Len(Body(fn)), Body(fn)[k] \notin Atomic
  PROVE  <<fn, k, Body(fn)[k]>> \in CallItems
<1>1. fn \notin {"attempt", "verify_internal"}
  BY Bodies DEF Atomic
<1>2. fn \notin {"compute_t0_t1_tr"}
  BY Bodies DEF Atomic
<1>3. fn \in {"keypair_internal", "signature_internal", "sign", "verify_extmu"}
        => <<fn, k, Body(fn)[k]>> \in CallItems
  BY Bodies DEF Atomic, CallItems
<1>4. ASSUME fn = "check_pct" PROVE <<fn, k, Body(fn)[k]>> \in CallItems
  <2>1. k \in 1 .. 2 /\ Body(fn)[k] = <<"signature", "verify">>[k]
    BY <1>4, Bodies
  <2> QED BY <1>4, <2>1 DEF Atomic, CallItems
<1>5. ASSUME fn = "keypair" PROVE <<fn, k, Body(fn)[k]>> \in CallItems
  <2>1. k \in 1 .. 2 /\ Body(fn)[k] = <<"rng", "keypair_internal">>[k]
    BY <1>5, Bodies
  <2> QED BY <1>5, <2>1 DEF Atomic, CallItems
<1>6. ASSUME fn = "signature_extmu" PROVE <<fn, k, Body(fn)[k]>> \in CallItems
  <2>1. k \in 1 .. 2 /\ Body(fn)[k] = <<"rng", "signature_internal">>[k]
    BY <1>6, Bodies
  <2> QED BY <1>6, <2>1 DEF Atomic, CallItems
<1>7. ASSUME fn = "signature_pre_hash_internal" PROVE <<fn, k, Body(fn)[k]>> \in CallItems
  <2>1. k \in 1 .. 2 /\ Body(fn)[k] = <<"check", "signature_internal">>[k]
    BY <1>7, Bodies
  <2> QED BY <1>7, <2>1 DEF Atomic, CallItems
<1>8. ASSUME fn = "verify" PROVE <<fn, k, Body(fn)[k]>> \in CallItems
  <2>1. k \in 1 .. 2 /\ Body(fn)[k] = <<"check", "verify_internal">>[k]
    BY <1>8, Bodies
  <2> QED BY <1>8, <2>1 DEF Atomic, CallItems
<1>9. ASSUME fn = "verify_pre_hash_internal" PROVE <<fn, k, Body(fn)[k]>> \in CallItems
  <2>1. k \in 1 .. 2 /\ Body(fn)[k] = <<"check", "verify_internal">>[k]
    BY <1>9, Bodies
  <2> QED BY <1>9, <2>1 DEF Atomic, CallItems
<1>10. ASSUME fn = "open" PROVE <<fn, k, Body(fn)[k]>> \in CallItems
  <2>1. k \in 1 .. 2 /\ Body(fn)[k] = <<"check", "verify">>[k]
    BY <1>10, Bodies
  <2> QED BY <1>10, <2>1 DEF Atomic, CallItems
<1>11. ASSUME fn = "pk_from_sk" PROVE <<fn, k, Body(fn)[k]>> \in CallItems
  <2>1. k \in 1 .. 2 /\ Body(fn)[k] = <<"compute_t0_t1_tr", "check">>[k]
    BY <1>11, Bodies
  <2> QED BY <1>11, <2>1 DEF Atomic, CallItems
<1>12. ASSUME fn = "signature" PROVE <<fn, k, Body(fn)[k]>> \in CallItems
  <2>1. k \in 1 .. 3 /\ Body(fn)[k] = <<"check", "rng", "signature_internal">>[k]
    BY <1>12, Bodies
  <2> QED BY <1>12, <2>1 DEF Atomic, CallItems
<1> QED
  BY <1>1, <1>2, <1>3, <1>4, <1>5, <1>6, <1>7, <1>8, <1>9, <1>10, <1>11, <1>12
     DEF Functions

LEMMA RunsIs ==
  ASSUME Building, NEW fn \in Functions
  PROVE  Runs(fn) = IF fn = "keypair_internal" /\ build.pct
                      THEN {"keypair_internal", "check_pct"} ELSE {fn}
BY Shapes DEF Shape, Runs

LEMMA ReachIs ==
  /\ op \in KeypairOperations =>
       Reach = {op} \cup ({"keypair_internal", "compute_t0_t1_tr"}
                 \cup IF build.pct THEN {"check_pct"} \cup Signers \cup Verifiers ELSE {})
  /\ op \in SignOperations =>
       Reach = {op} \cup IF op \in {"sign", "signature"} THEN Signers
                            ELSE {"signature_internal", "attempt"}
  /\ op = "pk_from_sk" => Reach = {op} \cup {"compute_t0_t1_tr"}
  /\ op \in VerifyOperations =>
       Reach = {op} \cup IF op = "open" THEN Verifiers ELSE {"verify_internal"}
<1>1. op \in KeypairOperations =>
        /\ op # "pk_from_sk" /\ op \notin {"sign", "signature"}
        /\ op \notin SignOperations \ {"sign", "signature"}
        /\ op # "open" /\ op \notin VerifyOperations \ {"open"}
  BY DEF KeypairOperations, SignOperations, VerifyOperations
<1>2. op \in SignOperations =>
        /\ op \notin KeypairOperations /\ op # "pk_from_sk"
        /\ op # "open" /\ op \notin VerifyOperations \ {"open"}
        /\ op \in {"sign", "signature"} => op \notin SignOperations \ {"sign", "signature"}
        /\ op \notin {"sign", "signature"} => op \in SignOperations \ {"sign", "signature"}
  BY DEF KeypairOperations, SignOperations, VerifyOperations
<1>3. ASSUME op \in KeypairOperations
      PROVE  Reach = {op} \cup ({"keypair_internal", "compute_t0_t1_tr"}
                 \cup IF build.pct THEN {"check_pct"} \cup Signers \cup Verifiers ELSE {})
  BY <1>1, <1>3, Zenon DEF Reach
<1>4. ASSUME op \in SignOperations, op \in {"sign", "signature"}
      PROVE  Reach = {op} \cup Signers
  BY <1>2, <1>4, Zenon DEF Reach
<1>5. ASSUME op \in SignOperations, op \notin {"sign", "signature"}
      PROVE  Reach = {op} \cup {"signature_internal", "attempt"}
  BY <1>2, <1>5, Zenon DEF Reach
<1>6. ASSUME op = "pk_from_sk" PROVE Reach = {op} \cup {"compute_t0_t1_tr"}
  <2>1. op \notin KeypairOperations
    BY <1>6 DEF KeypairOperations
  <2>2. op \notin {"sign", "signature"} /\ op \notin SignOperations \ {"sign", "signature"}
        /\ op # "open" /\ op \notin VerifyOperations \ {"open"}
    BY <1>6 DEF SignOperations, VerifyOperations
  <2> QED BY <1>6, <2>1, <2>2, Zenon DEF Reach
<1>7. ASSUME op \in VerifyOperations
      PROVE  Reach = {op} \cup IF op = "open" THEN Verifiers ELSE {"verify_internal"}
  <2>1. /\ op \notin KeypairOperations /\ op # "pk_from_sk" /\ op \notin {"sign", "signature"}
        /\ op \notin SignOperations \ {"sign", "signature"}
        /\ op # "open" => op \in VerifyOperations \ {"open"}
        /\ op = "open" => op \notin VerifyOperations \ {"open"}
    BY <1>7 DEF KeypairOperations, SignOperations, VerifyOperations
  <2>2. CASE op = "open"
    BY <2>1, <2>2, Zenon DEF Reach
  <2>3. CASE op # "open"
    BY <2>1, <2>3, Zenon DEF Reach
  <2> QED BY <2>2, <2>3
<1> QED BY <1>3, <1>4, <1>5, <1>6, <1>7

LEMMA OpIs ==
  ASSUME op \in Operations
  PROVE  op \in Functions /\ Reach \subseteq Functions
BY AllocationAssumption DEF Functions, Reach, KeyOperations, SignOperations, VerifyOperations,
   KeypairOperations, Signers, Verifiers

LEMMA TotalType == ASSUME Building, NEW fn \in Functions PROVE Total(fn) \in Nat
<1>1. Len(Allocs(fn)) \in Nat
  BY Shapes DEF Shape
<1>2. Len(Allocs(fn)) + 1 \in 1 .. Len(Allocs(fn)) + 1
  BY <1>1
<1> QED BY <1>2, BeforeIs

\* A function that is called runs in the operation, and its buffers follow
\* those of its caller.
LEMMA CalleeIs ==
  ASSUME Building, op \in Operations, NEW fn \in Reach, NEW k, NEW g,
         <<fn, k, g>> \in CallItems
  PROVE  g \in Reach /\ Base(g) = Base(fn) + Total(fn)
<1> DEFINE tcp == Total("check_pct")
           tki == Total("keypair_internal")
           tsi == Total("signature_internal")
           tsg == Total("signature")
           tpk == Total("pk_from_sk")
<1>1. tcp \in Nat /\ tki \in Nat /\ tsi \in Nat /\ tsg \in Nat /\ tpk \in Nat
  BY TotalType DEF Functions
<1>2. \A f \in Bare : Total(f) = 0
  BY BareShape
<1> HIDE DEF tcp, tki, tsi, tsg, tpk
<1>3. op \in KeyOperations \cup SignOperations \cup VerifyOperations
  BY AllocationAssumption
<1>4. g \in Reach
  BY <1>3 DEF Reach, CallItems, KeypairOperations, Signers, Verifiers, KeyOperations,
              SignOperations, VerifyOperations
<1>5. CASE op \in KeypairOperations
  <2>1. /\ Base("compute_t0_t1_tr") = tki /\ Base("signature") = tcp
        /\ Base("signature_internal") = tcp + tsg
        /\ Base("attempt") = (tcp + tsg) + tsi
        /\ Base("verify") = tcp /\ Base("verify_internal") = tcp
        /\ Base("keypair") = 0 /\ Base("keypair_internal") = 0 /\ Base("check_pct") = 0
    BY <1>5, Zenon DEF Base, Prefix, Prepared, KeypairOperations, Verifiers,
          tcp, tki, tsi, tsg, tpk
  <2>2. <<fn, g>> \in {<<"check_pct", "signature">>, <<"check_pct", "verify">>,
                      <<"keypair_internal", "compute_t0_t1_tr">>,
                      <<"keypair", "keypair_internal">>,
                      <<"signature_internal", "attempt">>,
                      <<"signature", "signature_internal">>,
                      <<"verify", "verify_internal">>}
    BY <1>5 DEF Reach, CallItems, KeypairOperations, Signers, Verifiers
  <2>3. Total("keypair") = 0 /\ Total("verify") = 0
    BY <1>2 DEF Bare
  <2>4. 0 + tcp = tcp /\ 0 + tki = tki /\ 0 + 0 = 0 /\ tcp + 0 = tcp
    BY <1>1
  <2> QED BY <1>4, <2>1, <2>2, <2>3, <2>4 DEF tcp, tki, tsi, tsg, tpk
<1>6. CASE op \in {"sign", "signature"}
  <2>1. /\ Base("sign") = 0 /\ Base("signature") = 0
        /\ Base("signature_internal") = 0 + tsg /\ Base("attempt") = (0 + tsg) + tsi
    BY <1>6, Zenon DEF Base, Prefix, Prepared, KeypairOperations, Verifiers, tsi, tsg
  <2>2. <<fn, g>> \in {<<"sign", "signature">>, <<"signature", "signature_internal">>,
                      <<"signature_internal", "attempt">>}
    BY <1>6 DEF Reach, CallItems, KeypairOperations, SignOperations, Signers
  <2>3. Total("sign") = 0
    BY <1>2 DEF Bare
  <2>4. 0 + tsg = tsg /\ 0 + 0 = 0
    BY <1>1
  <2> QED BY <1>4, <2>1, <2>2, <2>3, <2>4 DEF tsi, tsg
<1>7. CASE op \in SignOperations \ {"sign", "signature"}
  <2>1. /\ Base("signature_extmu") = 0 /\ Base("signature_pre_hash_internal") = 0
        /\ Base("signature_internal") = 0 + 0 /\ Base("attempt") = (0 + 0) + tsi
    BY <1>7, Zenon DEF Base, Prefix, Prepared, KeypairOperations, SignOperations, Verifiers, tsi
  <2>2. <<fn, g>> \in {<<"signature_extmu", "signature_internal">>,
                      <<"signature_pre_hash_internal", "signature_internal">>,
                      <<"signature_internal", "attempt">>}
    BY <1>7 DEF Reach, CallItems, KeypairOperations, SignOperations
  <2>3. Total("signature_extmu") = 0 /\ Total("signature_pre_hash_internal") = 0
    BY <1>2 DEF Bare
  <2>4. 0 + tsi = tsi /\ 0 + 0 = 0
    BY <1>1
  <2> QED BY <1>4, <2>1, <2>2, <2>3, <2>4 DEF tsi
<1>8. CASE op \in VerifyOperations
  <2>1. /\ Base("open") = 0 /\ Base("verify") = 0 /\ Base("verify_internal") = 0
        /\ Base("verify_pre_hash_internal") = 0 /\ Base("verify_extmu") = 0
    BY <1>8, Zenon DEF Base, Prefix, KeypairOperations, VerifyOperations, Verifiers
  <2>2. <<fn, g>> \in {<<"open", "verify">>, <<"verify", "verify_internal">>,
                      <<"verify_pre_hash_internal", "verify_internal">>,
                      <<"verify_extmu", "verify_internal">>}
    BY <1>8 DEF Reach, CallItems, KeypairOperations, SignOperations, VerifyOperations, Verifiers
  <2>3. /\ Total("open") = 0 /\ Total("verify") = 0
        /\ Total("verify_pre_hash_internal") = 0 /\ Total("verify_extmu") = 0
    BY <1>2 DEF Bare
  <2>4. 0 + 0 = 0
    OBVIOUS
  <2> QED BY <1>4, <2>1, <2>2, <2>3, <2>4
<1>9. CASE op = "pk_from_sk"
  <2>1. Base("pk_from_sk") = 0 /\ Base("compute_t0_t1_tr") = tpk
    BY <1>9, Zenon DEF Base, Verifiers, tpk
  <2>2. fn = "pk_from_sk" /\ g = "compute_t0_t1_tr"
    <3>1. fn \in {"pk_from_sk", "compute_t0_t1_tr"}
      BY <1>9, ReachIs
    <3> QED BY <3>1 DEF CallItems
  <2>3. 0 + tpk = tpk
    BY <1>1
  <2> QED BY <1>4, <2>1, <2>2, <2>3 DEF tpk
<1> QED
  BY <1>3, <1>5, <1>6, <1>7, <1>8, <1>9 DEF KeyOperations, KeypairOperations

\* An operation starts at the start of the buffer, and so does a tail call.
LEMMA FirstIs ==
  ASSUME Building, op \in Operations
  PROVE  /\ \A fn \in Runs(op) : fn \in Reach /\ Base(fn) = 0
         /\ \A fn \in Reach : Runs(fn) \subseteq Reach /\ \A g \in Runs(fn) : Base(g) = Base(fn)
<1>1. Base("keypair_internal") = 0 /\ Base("check_pct") = 0
  BY Zenon DEF Base, Verifiers
<1>2. ASSUME NEW fn \in Reach
      PROVE  Runs(fn) \subseteq Reach /\ \A g \in Runs(fn) : Base(g) = Base(fn)
  <2>1. fn \in Functions
    BY OpIs
  <2>2. Runs(fn) = IF fn = "keypair_internal" /\ build.pct
                     THEN {"keypair_internal", "check_pct"} ELSE {fn}
    BY <2>1, RunsIs
  <2>3. fn = "keypair_internal" /\ build.pct => "check_pct" \in Reach
    BY AllocationAssumption DEF Reach, KeypairOperations, SignOperations, VerifyOperations,
       Signers, Verifiers, KeyOperations
  <2> QED BY <1>1, <2>2, <2>3
<1>3. Base(op) = 0
  <2>1. op \in KeyOperations \cup SignOperations \cup VerifyOperations
    BY AllocationAssumption
  <2>2. op \in VerifyOperations => Prefix = 0
    BY DEF Prefix, VerifyOperations, KeypairOperations
  <2>3. op \in SignOperations => Prefix = 0
    BY DEF Prefix, SignOperations, KeypairOperations
  <2>4. op \in SignOperations \ {"sign", "signature"} => Prepared = 0
    BY DEF Prepared, SignOperations, KeypairOperations
  <2>5. 0 + 0 = 0
    OBVIOUS
  <2> QED BY <2>1, <2>2, <2>3, <2>4, <2>5 DEF Base, KeyOperations, SignOperations,
             VerifyOperations, Verifiers
<1>4. op \in Reach
  BY DEF Reach
<1> QED BY <1>2, <1>3, <1>4

LEMMA CapacityIs ==
  /\ op \in KeyOperations => Capacity = DocumentedKeypair
  /\ op \in SignOperations => Capacity = DocumentedSign
  /\ op \in VerifyOperations => Capacity = DocumentedVerify
<1>1. /\ op \in KeyOperations => op \notin SignOperations /\ op \notin VerifyOperations
      /\ op \in SignOperations => op \notin VerifyOperations
  BY DEF KeyOperations, SignOperations, VerifyOperations
<1> QED BY <1>1, Zenon DEF Capacity

LEMMA BaseKeypair ==
  ASSUME Building, op \in KeypairOperations
  PROVE  /\ Base("compute_t0_t1_tr") = Total("keypair_internal")
         /\ Base("signature") = Total("check_pct")
         /\ Base("signature_internal") = Total("check_pct") + Total("signature")
         /\ Base("attempt") = (Total("check_pct") + Total("signature")) + Total("signature_internal")
         /\ Base("verify") = Total("check_pct") /\ Base("verify_internal") = Total("check_pct")
         /\ Base("keypair") = 0 /\ Base("keypair_internal") = 0 /\ Base("check_pct") = 0
BY Zenon DEF Base, Prefix, Prepared, KeypairOperations, Verifiers

LEMMA BaseSign ==
  ASSUME Building, op \in SignOperations
  PROVE  /\ Base("sign") = 0 /\ Base("signature") = 0 /\ Base("signature_extmu") = 0
         /\ Base("signature_pre_hash_internal") = 0
         /\ IF op \in {"sign", "signature"}
              THEN /\ Base("signature_internal") = 0 + Total("signature")
                   /\ Base("attempt") = (0 + Total("signature")) + Total("signature_internal")
              ELSE /\ Base("signature_internal") = 0 + 0
                   /\ Base("attempt") = (0 + 0) + Total("signature_internal")
BY Zenon DEF Base, Prefix, Prepared, KeypairOperations, SignOperations, Verifiers

LEMMA BaseVerify ==
  ASSUME Building, op \in VerifyOperations
  PROVE  /\ Base("open") = 0 /\ Base("verify") = 0 /\ Base("verify_internal") = 0
         /\ Base("verify_pre_hash_internal") = 0 /\ Base("verify_extmu") = 0
BY Zenon DEF Base, Prefix, KeypairOperations, VerifyOperations, Verifiers

\* Every function has room for its buffers, and those of the peak end where
\* the memory does.
LEMMA RoomIs ==
  ASSUME Building, op \in Operations
  PROVE  /\ \A fn \in Reach : Base(fn) \in Nat /\ Base(fn) + Total(fn) =< Capacity
         /\ op \in Tight => Peak \in Reach /\ Base(Peak) + Total(Peak) = Capacity
<1> DEFINE tcp == Total("check_pct")
           tco == Total("compute_t0_t1_tr")
           tki == Total("keypair_internal")
           tat == Total("attempt")
           tsi == Total("signature_internal")
           tsg == Total("signature")
           tvi == Total("verify_internal")
           tpk == Total("pk_from_sk")
           Room(fn) == Base(fn) \in Nat /\ Base(fn) + Total(fn) =< Capacity
<1>1. /\ tcp \in Nat /\ tco \in Nat /\ tki \in Nat /\ tat \in Nat
      /\ tsi \in Nat /\ tsg \in Nat /\ tvi \in Nat /\ tpk \in Nat
  BY TotalType DEF Functions
<1>2. \A f \in Bare : Total(f) = 0
  BY BareShape
<1>3. /\ build.pct => tcp + (tsg + (tsi + tat)) = DocumentedKeypair
      /\ tsg + (tsi + tat) = DocumentedSign /\ tvi = DocumentedVerify
      /\ tpk + tco =< DocumentedKeypair /\ (~ build.pct => tpk + tco = DocumentedKeypair)
      /\ tki + tco =< DocumentedKeypair /\ (build.pct => tcp + tvi =< DocumentedKeypair)
  BY DocumentedIs
<1>4. DocumentedKeypair \in Nat /\ DocumentedSign \in Nat /\ DocumentedVerify \in Nat
  BY <1>1, <1>3
<1>5. op \in KeyOperations \cup SignOperations \cup VerifyOperations
  BY AllocationAssumption
<1> HIDE DEF tcp, tco, tki, tat, tsi, tsg, tvi, tpk
<1>6. CASE op \in KeypairOperations
  <2>1. Capacity = DocumentedKeypair
    BY <1>6, CapacityIs DEF KeyOperations, KeypairOperations
  <2>2. Room("keypair") /\ Room("keypair_internal")
    <3>1. Total("keypair") = 0
      BY <1>2 DEF Bare
    <3>2. 0 + 0 =< DocumentedKeypair /\ 0 + tki =< DocumentedKeypair
      BY <1>1, <1>3, <1>4
    <3> QED BY <1>6, <2>1, <3>1, <3>2, BaseKeypair DEF tki
  <2>3. Room("compute_t0_t1_tr")
    BY <1>1, <1>3, <1>6, <2>1, BaseKeypair DEF tki, tco
  <2>4. ASSUME build.pct
        PROVE  /\ Room("check_pct") /\ Room("signature") /\ Room("signature_internal")
               /\ Room("attempt") /\ Room("verify") /\ Room("verify_internal")
               /\ Base("attempt") + Total("attempt") = Capacity
    <3>1. /\ 0 + tcp =< DocumentedKeypair /\ tcp + tsg =< DocumentedKeypair
          /\ tcp + tsg \in Nat /\ (tcp + tsg) + tsi =< DocumentedKeypair
          /\ (tcp + tsg) + tsi \in Nat /\ ((tcp + tsg) + tsi) + tat = DocumentedKeypair
          /\ tcp + 0 =< DocumentedKeypair /\ tcp + tvi =< DocumentedKeypair
      BY <1>1, <1>3, <2>4
    <3>2. Total("verify") = 0
      BY <1>2 DEF Bare
    <3>3. Room("check_pct") /\ Room("signature") /\ Room("verify") /\ Room("verify_internal")
      BY <1>1, <1>6, <2>1, <3>1, <3>2, BaseKeypair DEF tcp, tsg, tvi
    <3>4. Room("signature_internal") /\ Room("attempt")
      BY <1>1, <1>4, <1>6, <2>1, <3>1, BaseKeypair DEF tcp, tsg, tsi, tat
    <3> QED BY <1>6, <2>1, <3>1, <3>3, <3>4, BaseKeypair DEF tcp, tsg, tsi, tat
  <2>5. ASSUME NEW fn \in Reach PROVE Room(fn)
    <3>0. Reach = {op} \cup ({"keypair_internal", "compute_t0_t1_tr"}
                     \cup IF build.pct THEN {"check_pct"} \cup Signers \cup Verifiers ELSE {})
      BY <1>6, ReachIs
    <3>1. /\ fn \in {"keypair", "keypair_internal", "compute_t0_t1_tr", "check_pct",
                     "signature", "signature_internal", "attempt", "verify",
                     "verify_internal"}
          /\ ~ build.pct => fn \in {"keypair", "keypair_internal", "compute_t0_t1_tr"}
      BY <1>6, <3>0 DEF KeypairOperations, Signers, Verifiers
    <3> HIDE DEF Room
    <3> QED BY <2>2, <2>3, <2>4, <3>1
  <2>6. op \in Tight => build.pct
    BY <1>6 DEF Tight, KeypairOperations, VerifyOperations
  <2>7. Peak = "attempt" /\ (build.pct => Peak \in Reach)
    BY <1>6 DEF Peak, KeypairOperations, VerifyOperations, Reach, Signers
  <2> QED BY <2>4, <2>5, <2>6, <2>7
<1>7. CASE op \in SignOperations
  <2>1. Capacity = DocumentedSign
    BY <1>7, CapacityIs
  <2>2. /\ Room("sign") /\ Room("signature_extmu") /\ Room("signature_pre_hash_internal")
    <3>1. /\ Total("sign") = 0 /\ Total("signature_extmu") = 0
          /\ Total("signature_pre_hash_internal") = 0
      BY <1>2 DEF Bare
    <3>2. 0 + 0 =< DocumentedSign
      BY <1>4
    <3> QED BY <1>7, <2>1, <3>1, <3>2, BaseSign
  <2>3. op \in {"sign", "signature"} => Room("signature")
    <3>1. 0 + tsg =< DocumentedSign
      BY <1>1, <1>3
    <3> QED BY <1>7, <2>1, <3>1, BaseSign DEF tsg
  <2>4. Room("signature_internal") /\ Room("attempt")
    <3>1. /\ 0 + tsg \in Nat /\ (0 + tsg) + tsi =< DocumentedSign /\ 0 + 0 \in Nat
          /\ (0 + 0) + tsi =< DocumentedSign
          /\ (0 + tsg) + tsi \in Nat /\ ((0 + tsg) + tsi) + tat =< DocumentedSign
          /\ (0 + 0) + tsi \in Nat /\ ((0 + 0) + tsi) + tat =< DocumentedSign
      BY <1>1, <1>3
    <3> QED BY <1>7, <2>1, <3>1, BaseSign DEF tsg, tsi, tat
  <2>5. ASSUME NEW fn \in Reach PROVE Room(fn)
    <3>0. Reach = {op} \cup IF op \in {"sign", "signature"} THEN Signers
                                ELSE {"signature_internal", "attempt"}
      BY <1>7, ReachIs
    <3>1. /\ fn \in {"sign", "signature_extmu", "signature_pre_hash_internal",
                     "signature", "signature_internal", "attempt"}
          /\ fn = "signature" => op \in {"sign", "signature"}
      BY <1>7, <3>0 DEF SignOperations, Signers
    <3> HIDE DEF Room
    <3> QED BY <2>2, <2>3, <2>4, <3>1
  <2>6. op \in Tight => op \in {"sign", "signature"}
    BY <1>7 DEF Tight, SignOperations, VerifyOperations
  <2>7. Peak = "attempt" /\ Peak \in Reach
    BY <1>7 DEF Peak, KeypairOperations, SignOperations, VerifyOperations, Reach, Signers
  <2>8. op \in {"sign", "signature"} => Base("attempt") + Total("attempt") = Capacity
    <3>1. ((0 + tsg) + tsi) + tat = DocumentedSign
      BY <1>1, <1>3
    <3> QED BY <1>7, <2>1, <3>1, BaseSign DEF tsg, tsi, tat
  <2> QED BY <2>5, <2>6, <2>7, <2>8
<1>8. CASE op \in VerifyOperations
  <2>1. Capacity = DocumentedVerify
    BY <1>8, CapacityIs
  <2>2. /\ Room("open") /\ Room("verify") /\ Room("verify_pre_hash_internal")
        /\ Room("verify_extmu")
    <3>1. /\ Total("open") = 0 /\ Total("verify") = 0
          /\ Total("verify_pre_hash_internal") = 0 /\ Total("verify_extmu") = 0
      BY <1>2 DEF Bare
    <3>2. 0 + 0 =< DocumentedVerify
      BY <1>4
    <3> QED BY <1>8, <2>1, <3>1, <3>2, BaseVerify
  <2>3. Room("verify_internal") /\ Base("verify_internal") + Total("verify_internal") = Capacity
    <3>1. 0 + tvi = DocumentedVerify /\ 0 + tvi =< DocumentedVerify
      BY <1>1, <1>3
    <3> QED BY <1>8, <2>1, <3>1, BaseVerify DEF tvi
  <2>4. ASSUME NEW fn \in Reach PROVE Room(fn)
    <3> HIDE DEF Room
    <3> QED BY <1>8, <2>2, <2>3 DEF Reach, KeypairOperations, SignOperations,
               VerifyOperations, Verifiers
  <2>5. Peak = "verify_internal" /\ Peak \in Reach
    BY <1>8 DEF Peak, KeypairOperations, SignOperations, VerifyOperations, Reach, Verifiers
  <2> QED BY <2>3, <2>4, <2>5
<1>9. CASE op = "pk_from_sk"
  <2>1. Capacity = DocumentedKeypair
    BY <1>9, CapacityIs DEF KeyOperations
  <2>2. Base("pk_from_sk") = 0 /\ Base("compute_t0_t1_tr") = tpk
    BY <1>9, Zenon DEF Base, Verifiers, tpk
  <2>3. 0 + tpk =< DocumentedKeypair /\ tpk + tco =< DocumentedKeypair
    BY <1>1, <1>3
  <2>4. Room("pk_from_sk") /\ Room("compute_t0_t1_tr")
    BY <1>1, <2>1, <2>2, <2>3 DEF tpk, tco
  <2>7. Peak = "compute_t0_t1_tr" /\ Reach = {"pk_from_sk", "compute_t0_t1_tr"}
    <3>1. op \notin KeypairOperations
      BY <1>9 DEF KeypairOperations
    <3>2. op \notin VerifyOperations
      BY <1>9 DEF VerifyOperations
    <3>3. Peak = "compute_t0_t1_tr"
      BY <1>9, <3>1, <3>2, Zenon DEF Peak
    <3> QED BY <1>9, <3>3, ReachIs
  <2>5. ASSUME NEW fn \in Reach PROVE Room(fn)
    <3>1. fn \in {"pk_from_sk", "compute_t0_t1_tr"}
      BY <1>9, <2>7
    <3> HIDE DEF Room
    <3> QED BY <2>4, <3>1
  <2>6. op \in Tight => ~ build.pct
    BY <1>9 DEF Tight, VerifyOperations
  <2>8. ~ build.pct => Base("compute_t0_t1_tr") + Total("compute_t0_t1_tr") = Capacity
    BY <1>3, <2>1, <2>2 DEF tco
  <2> QED BY <2>5, <2>6, <2>7, <2>8
<1> QED
  BY <1>5, <1>6, <1>7, <1>8, <1>9 DEF KeyOperations, KeypairOperations

-----------------------------------------------------------------------------
(* What a step leaves as it is.                                            *)

SameCode ==
  /\ \A fn : /\ Allocs(fn)' = Allocs(fn) /\ Body(fn)' = Body(fn)
             /\ AfterCleanup(fn)' = AfterCleanup(fn) /\ Runs(fn)' = Runs(fn)
             /\ Names(fn)' = Names(fn)
  /\ \A fn, k : Before(fn, k)' = Before(fn, k) /\ FirstNames(fn, k)' = FirstNames(fn, k)
  /\ \A fn : Total(fn)' = Total(fn)
  /\ \A frame : Held(frame)' = Held(frame) /\ FrameOk(frame)' = FrameOk(frame)

LEMMA CodeKept == ASSUME UNCHANGED build PROVE SameCode
<1>1. \A fn : Code(fn)' = Code(fn)
  <2>1. /\ Polymat' = Polymat /\ Polyvecl' = Polyvecl /\ Polyveck' = Polyveck /\ Poly' = Poly
        /\ CTILDEBYTES' = CTILDEBYTES /\ MLDSA_CRYPTO_BYTES' = MLDSA_CRYPTO_BYTES
        /\ MLDSA_CRYPTO_PUBLICKEYBYTES' = MLDSA_CRYPTO_PUBLICKEYBYTES
        /\ Dims' = Dims /\ POLYW1_PACKEDBYTES' = POLYW1_PACKEDBYTES
        /\ \A a, b : UnionOrStruct(a, b)' = UnionOrStruct(a, b)
    BY DEF Polymat, Polyvecl, Polyveck, Poly, CTILDEBYTES, MLDSA_CRYPTO_BYTES,
           MLDSA_CRYPTO_PUBLICKEYBYTES, Dims, POLYW1_PACKEDBYTES, UnionOrStruct,
           POLYZ_PACKEDBYTES, OMEGA
  <2>2. CheckPct' = CheckPct /\ ComputeT0T1Tr' = ComputeT0T1Tr
    BY <2>1, Zenon DEF CheckPct, ComputeT0T1Tr
  <2>3. KeypairInternal' = KeypairInternal
    BY <2>1, Zenon DEF KeypairInternal
  <2>4. Attempt' = Attempt
    BY <2>1, Zenon DEF Attempt
  <2>5. SignatureInternal' = SignatureInternal /\ Signature' = Signature
    BY <2>1, Zenon DEF SignatureInternal, Signature
  <2>6. VerifyInternal' = VerifyInternal
    BY <2>1, Zenon DEF VerifyInternal
  <2>7. PkFromSk' = PkFromSk
    BY <2>1, Zenon DEF PkFromSk
  <2> QED BY <2>2, <2>3, <2>4, <2>5, <2>6, <2>7, Zenon DEF Code, Keypair, SignatureExtmu,
         SignaturePreHashInternal, CombinedSign, Verify, VerifyExtmu, Open
<1>2. \A fn : Allocs(fn)' = Allocs(fn) /\ Body(fn)' = Body(fn)
              /\ AfterCleanup(fn)' = AfterCleanup(fn)
  BY <1>1, Zenon DEF Allocs, Body, AfterCleanup
<1>3. \A fn : Runs(fn)' = Runs(fn) /\ Names(fn)' = Names(fn)
  BY <1>2, Zenon DEF Runs, Names
<1>4. \A fn, j, k : Taken(fn, j, k)' = Taken(fn, j, k)
  BY <1>2, Zenon DEF Taken
<1>5. \A fn, k : Before(fn, k)' = Before(fn, k)
  BY <1>4, Zenon DEF Before
<1>6. \A fn, k : FirstNames(fn, k)' = FirstNames(fn, k)
  BY <1>2, Zenon DEF FirstNames
<1>7. \A fn : Total(fn)' = Total(fn)
  BY <1>2, <1>5, Zenon DEF Total
<1>8. \A frame : Held(frame)' = Held(frame)
  BY <1>2, Zenon DEF Held
<1>9. \A frame : FrameOk(frame)' = FrameOk(frame)
  BY <1>2, <1>3, <1>6, <1>8 DEF FrameOk
<1> QED BY <1>2, <1>3, <1>5, <1>6, <1>7, <1>8, <1>9 DEF SameCode

SameCall ==
  /\ Reach' = Reach /\ Capacity' = Capacity /\ Peak' = Peak /\ Tight' = Tight
  /\ \A fn : Base(fn)' = Base(fn) /\ OnPath(fn)' = OnPath(fn)
  /\ \A frame, res : Passed(frame, res)' = Passed(frame, res)

LEMMA CallKept == ASSUME UNCHANGED <<build, op>> PROVE SameCall
<1>1. \A fn : Total(fn)' = Total(fn)
  BY CodeKept DEF SameCode
<1>2. Reach' = Reach
  BY Zenon DEF Reach
<1>3. DocumentedKeypair' = DocumentedKeypair /\ DocumentedSign' = DocumentedSign
      /\ DocumentedVerify' = DocumentedVerify
  BY DEF DocumentedKeypair, DocumentedSign, DocumentedVerify
<1>4. Capacity' = Capacity
  BY <1>3, Zenon DEF Capacity
<1>5. Peak' = Peak /\ Tight' = Tight
  BY Zenon DEF Peak, Tight
<1>6. Prefix' = Prefix /\ Prepared' = Prepared
  BY <1>1, Zenon DEF Prefix, Prepared
<1>7. \A fn : Base(fn)' = Base(fn)
  BY <1>1, <1>6, Zenon DEF Base
<1>8. \A fn : OnPath(fn)' = OnPath(fn)
  BY <1>2, Zenon DEF OnPath
<1>9. \A frame, res : Passed(frame, res)' = Passed(frame, res)
  BY <1>5, <1>8, Zenon DEF Passed, PathItem
<1> QED BY <1>2, <1>4, <1>5, <1>7, <1>8, <1>9 DEF SameCall

-----------------------------------------------------------------------------
(* Frames and the stack.                                                   *)

WithPtr(frame, ptr) == [frame EXCEPT !.ptr = ptr]

LEMMA FrameFields ==
  ASSUME NEW t \in Frames
  PROVE  /\ Step(t) \in Frames /\ Step(t).fn = t.fn /\ Step(t).place = t.place
         /\ Step(t).at = t.at + 1 /\ Step(t).ptr = t.ptr
         /\ \A p \in {"alloc", "body", "cleanup"} :
              /\ GoTo(t, p) \in Frames /\ GoTo(t, p).fn = t.fn /\ GoTo(t, p).place = p
              /\ GoTo(t, p).at = 1 /\ GoTo(t, p).ptr = t.ptr
         /\ \A ptr \in SUBSET BufferNames : LET f == WithPtr(t, ptr) IN
              /\ f \in Frames /\ f.fn = t.fn /\ f.place = t.place /\ f.at = t.at
              /\ f.ptr = ptr
<1>1. /\ Step(t) \in Frames /\ Step(t).fn = t.fn /\ Step(t).place = t.place
      /\ Step(t).at = t.at + 1 /\ Step(t).ptr = t.ptr
  BY DEF Frames, Step
<1>2. ASSUME NEW p \in {"alloc", "body", "cleanup"}
      PROVE  /\ GoTo(t, p) \in Frames /\ GoTo(t, p).fn = t.fn /\ GoTo(t, p).place = p
             /\ GoTo(t, p).at = 1 /\ GoTo(t, p).ptr = t.ptr
  <2>0. t.fn \in Functions /\ t.ptr \in SUBSET BufferNames /\ t.at \in Nat
    BY DEF Frames
  <2>1. GoTo(t, p) = [fn |-> t.fn, place |-> p, at |-> 1, ptr |-> t.ptr]
    <3> DEFINE u == [t EXCEPT !.place = p]
    <3>1. u = [fn |-> t.fn, place |-> p, at |-> t.at, ptr |-> t.ptr]
      BY DEF Frames
    <3>2. GoTo(t, p) = [u EXCEPT !.at = 1]
      BY DEF GoTo
    <3> QED BY <3>1, <3>2
  <2>2. 1 \in Nat \ {0}
    OBVIOUS
  <2>3. /\ GoTo(t, p).fn = t.fn /\ GoTo(t, p).place = p /\ GoTo(t, p).at = 1
        /\ GoTo(t, p).ptr = t.ptr
    BY <2>1
  <2> QED BY <2>0, <2>1, <2>2, <2>3 DEF Frames
<1>3. ASSUME NEW ptr \in SUBSET BufferNames
      PROVE  LET f == WithPtr(t, ptr) IN
             /\ f \in Frames /\ f.fn = t.fn /\ f.place = t.place /\ f.at = t.at
             /\ f.ptr = ptr
  BY DEF Frames, WithPtr
<1> QED BY <1>1, <1>2, <1>3

LEMMA NewFrame ==
  ASSUME NEW fn \in Functions
  PROVE  /\ Frame(fn) \in Frames /\ Frame(fn).fn = fn /\ Frame(fn).place = "alloc"
         /\ Frame(fn).at = 1 /\ Frame(fn).ptr = {}
BY DEF Frames, Frame

\* The names of the first k buffers grow by one name, a new one, with k.
LEMMA NamesGrow ==
  ASSUME Building, NEW fn \in Functions
  PROVE  LET a == Allocs(fn) IN
         /\ FirstNames(fn, 0) = {} /\ FirstNames(fn, Len(a)) = Names(fn)
         /\ \A k \in 1 .. Len(a) :
              /\ FirstNames(fn, k) = FirstNames(fn, k - 1) \cup {a[k].name}
              /\ a[k].name \notin FirstNames(fn, k - 1) /\ a[k].name \in BufferNames
<1> DEFINE a == Allocs(fn)
<1>1. /\ a \in Seq(Buffer)
      /\ \A j, k \in 1 .. Len(a) : a[j].name = a[k].name => j = k
  BY Shapes DEF Shape
<1>2. Len(a) \in Nat /\ DOMAIN a = 1 .. Len(a)
  BY <1>1
<1>3. \A k \in 1 .. Len(a) : a[k].name \in BufferNames
  <2>1. \A k \in 1 .. Len(a) : a[k] \in Buffer
    BY <1>1
  <2> QED BY <2>1 DEF Buffer
<1> DEFINE len == Len(a)
           nm(k) == a[k].name
<1>4. \A j, k \in 1 .. len : nm(j) = nm(k) => j = k
  BY <1>1
<1>5. \A k : FirstNames(fn, k) = {nm(j) : j \in 1 .. k}
  BY DEF FirstNames
<1>6. Names(fn) = {nm(j) : j \in 1 .. len}
  BY <1>2 DEF Names
<1>7. len \in Nat /\ \A k \in 1 .. len : nm(k) \in BufferNames
  BY <1>2, <1>3
<1> HIDE DEF len, nm
<1>8. FirstNames(fn, 0) = {}
  BY <1>5
<1>9. ASSUME NEW k \in 1 .. len
      PROVE  /\ FirstNames(fn, k) = FirstNames(fn, k - 1) \cup {nm(k)}
             /\ nm(k) \notin FirstNames(fn, k - 1)
  BY <1>4, <1>5, <1>7
<1> QED BY <1>5, <1>6, <1>7, <1>8, <1>9 DEF len, nm

\* What is known of the function that runs.
Active == MemInv /\ stack # <<>>

LEMMA ActiveInv ==
  ASSUME Active
  PROVE  /\ AllocationType /\ StackInv /\ HeapInv /\ AddressInv
         /\ FailureInv /\ MarkInv /\ PeakInv /\ stack # <<>>
BY DEF Active, MemInv

LEMMA Pointed ==
  ASSUME Active, NEW d \in 1 .. Depth, NEW name \in stack[d].ptr
  PROVE  \E k \in DOMAIN heap : heap[k].depth = d /\ heap[k].name = name
BY ActiveInv DEF HeapInv

LEMMA PlacedAt ==
  ASSUME Placed, NEW d \in 1 .. Depth, NEW k \in DOMAIN heap,
         NEW j \in 1 .. Len(Allocs(stack[d].fn)),
         heap[k].depth = d, heap[k].name = Allocs(stack[d].fn)[j].name
  PROVE  heap[k].addr = Base(stack[d].fn) + Before(stack[d].fn, j)
BY DEF Placed

LEMMA OpKnown ==
  ASSUME AllocationType, op # "none"
  PROVE  Building /\ op \in Operations /\ Capacity \in Nat /\ Reach \subseteq Functions
<1>1. Building /\ op \in Operations
  BY DEF AllocationType, Building
<1>2. op \in Reach
  BY DEF Reach
<1>3. op \in Functions /\ Reach \subseteq Functions
  BY <1>1, OpIs
<1>4. Base(op) \in Nat /\ Total(op) \in Nat /\ Base(op) + Total(op) =< Capacity
  BY <1>1, <1>2, <1>3, RoomIs, TotalType
<1>5. op \in KeyOperations \cup SignOperations \cup VerifyOperations
  BY <1>1, AllocationAssumption
<1>6. DocumentedKeypair \in Nat /\ DocumentedSign \in Nat /\ DocumentedVerify \in Nat
  <2>1. build.level \in {44, 65, 87}
    BY <1>1, AllocationAssumption DEF Building
  <2> QED BY <2>1 DEF DocumentedKeypair, DocumentedSign, DocumentedVerify
<1>7. Capacity \in Nat
  BY <1>5, <1>6, CapacityIs
<1> QED BY <1>1, <1>3, <1>7

LEMMA ActiveIs ==
  ASSUME Active
  PROVE  /\ Building /\ op \in Operations /\ op # "none" /\ Capacity \in Nat
         /\ Reach \subseteq Functions
         /\ Depth \in Nat \ {0} /\ Top = stack[Depth] /\ Top \in Frames
         /\ Top.fn \in Reach /\ Top.fn \in Functions /\ FrameOk(Top)
         /\ \A d \in 1 .. Depth : stack[d] \in Frames /\ stack[d].fn \in Reach
         /\ Top.at \in Nat \ {0} /\ Top.ptr \subseteq BufferNames
         /\ Top.place \in {"alloc", "body", "cleanup"}
<1>1. stack \in Seq(Frames) /\ stack # <<>>
  BY ActiveInv DEF AllocationType
<1>2. Depth \in Nat \ {0} /\ \A d \in 1 .. Depth : stack[d] \in Frames
  BY <1>1 DEF Depth
<1>3. op # "none"
  BY ActiveInv DEF StackInv
<1>4. /\ Building /\ op \in Operations /\ Capacity \in Nat /\ Reach \subseteq Functions
  BY <1>3, OpKnown DEF Active, MemInv
<1>5. \A d \in 1 .. Depth : FrameOk(stack[d]) /\ stack[d].fn \in Reach
  BY ActiveInv DEF StackInv
<1>6. Top = stack[Depth] /\ Depth \in 1 .. Depth
  BY <1>2 DEF Top
<1>7. Top \in Frames
  BY <1>2, <1>6
<1>8. /\ Top.at \in Nat \ {0} /\ Top.ptr \subseteq BufferNames
      /\ Top.place \in {"alloc", "body", "cleanup"}
  BY <1>7 DEF Frames
<1> QED BY <1>2, <1>3, <1>4, <1>5, <1>6, <1>7, <1>8

\* A step that replaces the top of the stack.
LEMMA StackSet ==
  ASSUME Active, UNCHANGED <<build, op>>, NEW f \in Frames, FrameOk(f), f.fn \in Reach,
         \A g \in Functions : Top.fn \in Runs(g) => f.fn \in Runs(g),
         SetTop(f)
  PROVE  /\ stack' \in Seq(Frames) /\ stack' # <<>> /\ Depth' = Depth /\ Top' = f
         /\ \A d \in 1 .. Depth : stack'[d] = IF d = Depth THEN f ELSE stack[d]
         /\ StackInv'
<1>1. Depth \in Nat \ {0} /\ stack \in Seq(Frames) /\ Depth = Len(stack)
  BY ActiveIs, ActiveInv DEF AllocationType, Depth
<1>2. stack' = [stack EXCEPT ![Depth] = f]
  BY DEF SetTop
<1>3. /\ stack' \in Seq(Frames) /\ Len(stack') = Depth
      /\ \A d \in 1 .. Depth : stack'[d] = IF d = Depth THEN f ELSE stack[d]
  BY <1>1, <1>2
<1>4. stack' # <<>> /\ Depth' = Depth
  BY <1>1, <1>3 DEF Depth
<1>5. Top' = f
  BY <1>1, <1>3, <1>4 DEF Top
<1>6. SameCode /\ SameCall
  BY CodeKept, CallKept
<1>7. Depth - 1 \in Nat /\ 1 \in 1 .. Depth
  BY <1>1
<1>8. op # "none" /\ op \in Functions /\ stack[1].fn \in Runs(op)
  BY ActiveIs, OpIs, ActiveInv DEF StackInv
<1>9. stack'[1].fn \in Runs(op)
  BY <1>3, <1>7, <1>8, ActiveIs
<1>10. ASSUME NEW d \in 1 .. Depth PROVE FrameOk(stack'[d]) /\ stack'[d].fn \in Reach
  BY <1>3, <1>10, ActiveInv DEF StackInv
<1>11. ASSUME NEW d \in 1 .. Depth - 1 PROVE Waits(d)'
  <2>1. d \in 1 .. Depth /\ d + 1 \in 1 .. Depth /\ d # Depth
    BY <1>1
  <2>2. Waits(d) /\ stack'[d] = stack[d]
    BY <1>3, <2>1, ActiveInv DEF StackInv
  <2> DEFINE g == Body(stack[d].fn)[stack[d].at]
  <2>3. stack[d + 1].fn \in Runs(g) /\ stack[d].at =< Len(Body(stack[d].fn)) /\ g \notin Atomic
    BY <2>2 DEF Waits
  <2>4. g \in Functions
    <3>1. stack[d].fn \in Functions /\ stack[d] \in Frames
      BY <2>1, ActiveIs
    <3>2. Body(stack[d].fn) \in Seq(Functions \cup Atomic)
      BY <3>1, Shapes, ActiveIs DEF Shape
    <3>3. stack[d].at \in 1 .. Len(Body(stack[d].fn))
      BY <2>3, <3>1, <3>2 DEF Frames
    <3> QED BY <2>3, <3>2, <3>3
  <2>5. stack'[d + 1].fn \in Runs(g)
    BY <1>3, <2>1, <2>3, <2>4, ActiveIs
  <2>6. /\ stack'[d].place = "body" /\ stack'[d].at =< Len(Body(stack'[d].fn))
        /\ Body(stack'[d].fn)[stack'[d].at] \notin Atomic
        /\ stack'[d + 1].fn \in Runs(Body(stack'[d].fn)[stack'[d].at])
    BY <2>2, <2>3, <2>5 DEF Waits
  <2> QED BY <1>6, <2>6 DEF Waits, SameCode
<1>12. StackInv'
  BY <1>4, <1>6, <1>8, <1>9, <1>10, <1>11 DEF StackInv, SameCode, SameCall
<1> QED BY <1>3, <1>4, <1>5, <1>12

\* A step on which every frame that points to a buffer keeps its function and
\* its pointers.
Kept(s, t) ==
  \A d \in 1 .. Len(s) :
    \/ s[d].ptr = {}
    \/ d =< Len(t) /\ t[d].fn = s[d].fn /\ t[d].ptr = s[d].ptr
SamePointers == Kept(stack, stack') /\ Kept(stack', stack)

LEMMA HeapKept ==
  ASSUME stack \in Seq(Frames), stack' \in Seq(Frames), HeapInv, SamePointers,
         UNCHANGED <<build, heap>>
  PROVE  HeapInv'
<1>1. SameCode
  BY CodeKept
<1>2. Depth = Len(stack) /\ Depth' = Len(stack') /\ Depth \in Nat /\ Depth' \in Nat
  BY DEF Depth
<1>3. ASSUME NEW b, NEW j, IsBuffer(b, j)
      PROVE  /\ b.depth =< Depth' /\ stack'[b.depth].fn = stack[b.depth].fn
             /\ stack'[b.depth].ptr = stack[b.depth].ptr /\ IsBuffer(b, j)'
  <2>1. b.depth \in 1 .. Depth /\ b.name \in stack[b.depth].ptr
    BY <1>3 DEF IsBuffer
  <2>2. /\ b.depth =< Depth' /\ stack'[b.depth].fn = stack[b.depth].fn
        /\ stack'[b.depth].ptr = stack[b.depth].ptr
    BY <1>2, <2>1 DEF SamePointers, Kept
  <2> QED BY <1>1, <1>2, <1>3, <2>1, <2>2 DEF IsBuffer, SameCode
<1>4. \A k \in DOMAIN heap : \E j \in Nat : IsBuffer(heap[k], j)'
  BY <1>3 DEF HeapInv
<1>5. ASSUME NEW d \in 1 .. Depth', NEW name \in stack'[d].ptr
      PROVE  \E k \in DOMAIN heap : heap[k].depth = d /\ heap[k].name = name
  <2>1. d \in 1 .. Depth /\ stack[d].ptr = stack'[d].ptr
    BY <1>2, <1>5 DEF SamePointers, Kept
  <2> QED BY <1>5, <2>1 DEF HeapInv
<1>6. ASSUME NEW a, NEW b, NEW w \in Nat, IsBuffer(b, w), Earlier(a, b) PROVE Earlier(a, b)'
  <2>1. CASE a.depth < b.depth
    BY <2>1 DEF Earlier
  <2>2. CASE ~(a.depth < b.depth)
    <3>1. /\ a.depth = b.depth
          /\ \E j, k \in 1 .. Len(Allocs(stack[b.depth].fn)) :
               IsBuffer(a, j) /\ IsBuffer(b, k) /\ j < k
      BY <1>6, <2>2 DEF Earlier
    <3>2. stack'[b.depth].fn = stack[b.depth].fn
      BY <1>3, <1>6
    <3>3. \E j, k \in 1 .. Len(Allocs(stack'[b.depth].fn)) :
               IsBuffer(a, j)' /\ IsBuffer(b, k)' /\ j < k
      BY <1>3, <3>1, <3>2
    <3> QED BY <1>1, <3>1, <3>3 DEF Earlier, SameCode
  <2> QED BY <2>1, <2>2
<1>7. \A k \in DOMAIN heap : \A j \in 1 .. k - 1 : Earlier(heap[j], heap[k])'
  BY <1>6 DEF HeapInv
<1> QED BY <1>2, <1>4, <1>5, <1>7 DEF HeapInv

LEMMA PlacedAfter ==
  ASSUME SameCode, SameCall,
         \A d \in 1 .. Depth' : \A k \in DOMAIN heap' :
           \A j \in 1 .. Len(Allocs(stack'[d].fn)) :
             heap'[k].depth = d /\ heap'[k].name = Allocs(stack'[d].fn)[j].name =>
               heap'[k].addr = Base(stack'[d].fn) + Before(stack'[d].fn, j)
  PROVE  Placed'
<1>1. \A fn : Allocs(fn)' = Allocs(fn)
  BY DEF SameCode
<1>2. \A fn, k : Before(fn, k)' = Before(fn, k)
  BY DEF SameCode
<1>3. \A fn : Base(fn)' = Base(fn)
  BY DEF SameCall
<1> QED BY <1>1, <1>2, <1>3 DEF Placed

LEMMA PlacedKept ==
  ASSUME stack \in Seq(Frames), stack' \in Seq(Frames), HeapInv, SamePointers,
         UNCHANGED <<build, op, heap>>, Placed
  PROVE  Placed'
<1>1. SameCode /\ SameCall
  BY CodeKept, CallKept
<1>2. Depth = Len(stack) /\ Depth' = Len(stack') /\ Depth \in Nat /\ Depth' \in Nat
  BY DEF Depth
<1>3. ASSUME NEW d \in 1 .. Depth', NEW k \in DOMAIN heap,
             NEW j \in 1 .. Len(Allocs(stack'[d].fn)), heap[k].depth = d,
             heap[k].name = Allocs(stack'[d].fn)[j].name
      PROVE  heap[k].addr = Base(stack'[d].fn) + Before(stack'[d].fn, j)
  <2>1. HeapInv'
    BY HeapKept
  <2>2. d \in 1 .. Depth /\ stack[d].ptr # {}
    BY <1>3 DEF HeapInv, IsBuffer
  <2>3. stack'[d].fn = stack[d].fn
    BY <1>2, <2>2 DEF SamePointers, Kept
  <2> QED BY <1>3, <2>2, <2>3 DEF Placed
<1> QED BY <1>1, <1>2, <1>3, PlacedAfter

LEMMA PeakKept ==
  ASSUME Active, UNCHANGED <<build, op>>, highMark = Capacity => highMark' = Capacity,
         \A d \in 1 .. Len(stack') :
           \/ d < Depth /\ stack'[d] = stack[d]
           \/ op \in Tight /\ Passed(stack'[d], result') => highMark' = Capacity,
         op \in Tight /\ stack' = <<>> /\ result' = 0 => highMark' = Capacity
  PROVE  PeakInv'
<1>1. SameCall
  BY CallKept
<1>2. Depth \in Nat \ {0}
  BY ActiveIs
<1>3. ASSUME op \in Tight, NEW d \in 1 .. Len(stack'), Passed(stack'[d], result')
      PROVE  highMark' = Capacity
  <2>1. CASE d < Depth /\ stack'[d] = stack[d]
    <3>1. d \in 1 .. Depth - 1 /\ d \in 1 .. Depth
      BY <1>2, <2>1
    <3>2. stack[d].place = "body"
      BY <3>1, ActiveInv DEF StackInv, Waits
    <3>3. Passed(stack[d], result)
      BY <1>3, <2>1, <3>2 DEF Passed
    <3> QED BY <1>3, <3>1, <3>3, ActiveInv DEF PeakInv
  <2> QED BY <1>3, <2>1
<1> QED BY <1>1, <1>3 DEF PeakInv, SameCall, Depth

LEMMA SetPointers ==
  ASSUME Active, NEW f \in Frames, Len(stack') = Depth,
         \A d \in 1 .. Depth : stack'[d] = IF d = Depth THEN f ELSE stack[d],
         (f.fn = Top.fn /\ f.ptr = Top.ptr) \/ (f.ptr = {} /\ Top.ptr = {})
  PROVE  SamePointers
BY ActiveIs DEF SamePointers, Kept, Depth

\* A step that leaves the memory alone.
LEMMA Quiet ==
  ASSUME Active, UNCHANGED <<build, op, heap, offset, highMark>>,
         result' \in {Unset, 0, FAIL, OUT_OF_MEMORY, RNG_FAIL}, failures' \in Nat,
         stack' \in Seq(Frames), SamePointers
  PROVE  /\ AllocationType' /\ HeapInv' /\ AddressInv' /\ MarkInv' /\ (Placed => Placed')
<1>1. stack \in Seq(Frames)
  BY ActiveInv DEF AllocationType
<1>2. AllocationType'
  BY ActiveInv DEF AllocationType
<1>3. HeapInv'
  BY <1>1, HeapKept DEF Active, MemInv
<1>4. AddressInv'
  BY ActiveInv DEF AddressInv, LiveBlocksSafe
<1>5. MarkInv'
  BY CallKept, ActiveInv DEF MarkInv, SameCall
<1>6. Placed => Placed'
  BY <1>1, PlacedKept DEF Active, MemInv
<1> QED BY <1>2, <1>3, <1>4, <1>5, <1>6

\* What FailureInv asks of a new top of the stack.
LEMMA FailureSet ==
  ASSUME Active, UNCHANGED <<build, op>>, NEW f \in Frames, stack' # <<>>,
         Depth' = Depth, Top' = f,
         \A d \in 1 .. Depth : stack'[d] = IF d = Depth THEN f ELSE stack[d],
         failures' = 0 => /\ failures = 0 /\ Placed'
                          /\ f.ptr = FirstNames(f.fn, Held(f))
                          /\ offset' = Base(f.fn) + Before(f.fn, Held(f) + 1)
                          /\ (Depth = 1 /\ f.place = "alloc") \/ result' # OUT_OF_MEMORY,
         failures' # 0 => IF f.place = "alloc"
                            THEN ~(FirstNames(f.fn, Held(f)) \subseteq f.ptr)
                            ELSE result' = OUT_OF_MEMORY /\ f.place = "cleanup"
  PROVE  FailureInv'
<1>1. SameCode /\ SameCall
  BY CodeKept, CallKept
<1>2. CASE failures' = 0
  <2>1. AllThere
    BY <1>2, ActiveInv DEF FailureInv
  <2>2. \A d \in 1 .. Depth :
          stack'[d].ptr = FirstNames(stack'[d].fn, Held(stack'[d]))
    BY <1>2, <2>1 DEF AllThere
  <2>3. AllThere'
    BY <1>1, <2>2 DEF AllThere, SameCode
  <2>4. Filled'
    BY <1>1, <1>2 DEF Filled, SameCode, SameCall
  <2>5. NoError'
    BY <1>2 DEF NoError
  <2> QED BY <1>2, <2>3, <2>4, <2>5 DEF FailureInv
<1>3. CASE failures' # 0
  <2>1. Failing'
    BY <1>1, <1>3 DEF Failing, SameCode
  <2> QED BY <1>3, <2>1 DEF FailureInv
<1> QED BY <1>2, <1>3

\* Where Top is.
LEMMA PlaceIs ==
  ASSUME Active
  PROVE  LET len == Len(Allocs(Top.fn)) IN
         /\ len \in Nat /\ Len(Frees(Top.fn)) = len /\ Len(Body(Top.fn)) \in Nat
         /\ Top.place = "alloc" => Top.at \in 1 .. len + 1 /\ Held(Top) = Top.at - 1
         /\ Top.place = "body" => /\ Top.at \in 1 .. Len(Body(Top.fn)) + 1 /\ Held(Top) = len
                                  /\ Top.ptr = Names(Top.fn)
         /\ Top.place = "cleanup" => Top.at \in 1 .. len + 1 /\ Held(Top) = (len + 1) - Top.at
         /\ Held(Top) \in 0 .. len /\ Top.ptr \subseteq FirstNames(Top.fn, Held(Top))
<1> DEFINE len == Len(Allocs(Top.fn))
           m == Len(Body(Top.fn))
<1>1. len \in Nat /\ Len(Frees(Top.fn)) = len
  BY ActiveIs, Shapes DEF Shape
<1>2. m \in Nat
  BY ActiveIs, Shapes DEF Shape
<1>3. Top.at \in Nat \ {0} /\ FrameOk(Top) /\ Top.place \in {"alloc", "body", "cleanup"}
  BY ActiveIs
<1>4. Top.at =< (IF Top.place = "body" THEN m ELSE len) + 1
  BY <1>3 DEF FrameOk
<1>5. /\ Top.place = "alloc" => Held(Top) = Top.at - 1
      /\ Top.place = "body" => Held(Top) = len
      /\ Top.place = "cleanup" => Held(Top) = (len + 1) - Top.at
  BY <1>3 DEF Held
<1>6. Top.ptr \subseteq FirstNames(Top.fn, Held(Top))
      /\ (Top.place = "body" => Top.ptr = Names(Top.fn))
  BY <1>3 DEF FrameOk
<1> HIDE DEF len, m
<1> QED BY <1>1, <1>2, <1>3, <1>4, <1>5, <1>6 DEF len, m

\* Every function on the way to the peak calls the next one, and its body
\* does not end before that call.
LEMMA PathIs ==
  ASSUME Building, op \in Operations, op \in Tight, NEW fn \in Functions, OnPath(fn), fn # Peak
  PROVE  /\ PathItem(fn) \in 1 .. Len(Body(fn)) /\ Body(fn)[PathItem(fn)] \notin Atomic
         /\ \A g \in Runs(Body(fn)[PathItem(fn)]) :
              OnPath(g) \/ (g = "keypair_internal" /\ build.pct)
<1>1. op \in KeypairOperations \cup {"pk_from_sk"} \cup SignOperations \cup VerifyOperations
  BY AllocationAssumption DEF KeyOperations, KeypairOperations
<1> DEFINE item == Body(fn)[PathItem(fn)]
           Goal == /\ PathItem(fn) \in 1 .. Len(Body(fn)) /\ item \notin Atomic
                   /\ \A g \in Runs(item) : OnPath(g) \/ (g = "keypair_internal" /\ build.pct)
           Leads(k, g) == PathItem(fn) = k /\ k \in 1 .. Len(Body(fn)) /\ Body(fn)[k] = g
<1>2. ASSUME NEW k, NEW g \in Functions, Leads(k, g),
             IF g = "keypair_internal" /\ build.pct THEN OnPath("check_pct") ELSE OnPath(g)
      PROVE  Goal
  <2>1. item = g /\ g \notin Atomic
    BY <1>2 DEF Functions, Atomic
  <2>2. Runs(g) = IF g = "keypair_internal" /\ build.pct
                    THEN {"keypair_internal", "check_pct"} ELSE {g}
    BY RunsIs
  <2>3. \A h \in Runs(g) : OnPath(h) \/ (h = "keypair_internal" /\ build.pct)
    <3>1. CASE g = "keypair_internal" /\ build.pct
      <4>1. Runs(g) = {"keypair_internal", "check_pct"} /\ g = "keypair_internal"
        BY <2>2, <3>1
      <4>2. OnPath("check_pct")
        BY <1>2, <3>1
      <4> QED BY <3>1, <4>1, <4>2, Zenon
    <3>2. CASE ~(g = "keypair_internal" /\ build.pct)
      <4>1. Runs(g) = {g} /\ OnPath(g)
        BY <1>2, <2>2, <3>2
      <4> QED BY <4>1
    <3> QED BY <3>1, <3>2
  <2>4. PathItem(fn) \in 1 .. Len(Body(fn))
    BY <1>2
  <2> HIDE DEF item
  <2>5. \A h \in Runs(item) : OnPath(h) \/ (h = "keypair_internal" /\ build.pct)
    BY <2>1, <2>3
  <2> QED BY <2>1, <2>4, <2>5 DEF item
<1>3. /\ fn \in {"keypair", "verify", "verify_pre_hash_internal", "open"} => PathItem(fn) = 2
      /\ fn = "signature" => PathItem(fn) = 3
      /\ fn \in {"check_pct", "signature_internal", "sign", "verify_extmu", "pk_from_sk"}
           => PathItem(fn) = 1
  BY DEF PathItem
<1>4. /\ fn = "keypair" => Leads(2, "keypair_internal")
      /\ fn \in {"verify", "verify_pre_hash_internal"} => Leads(2, "verify_internal")
      /\ fn = "open" => Leads(2, "verify")
      /\ fn = "signature" => Leads(3, "signature_internal")
  BY <1>3, Bodies
<1>5. /\ fn = "check_pct" => Leads(1, "signature")
      /\ fn = "signature_internal" => Leads(1, "attempt")
      /\ fn = "sign" => Leads(1, "signature")
      /\ fn = "verify_extmu" => Leads(1, "verify_internal")
      /\ fn = "pk_from_sk" => Leads(1, "compute_t0_t1_tr")
  BY <1>3, Bodies
<1> HIDE DEF Goal, Leads
<1>6. CASE op \in KeypairOperations
  <2>1. op \notin VerifyOperations /\ op # "pk_from_sk" /\ op \notin {"sign", "signature"}
    BY <1>6 DEF KeypairOperations, VerifyOperations
  <2>2. build.pct
    BY <2>1, <1>6 DEF Tight, KeypairOperations
  <2>3. Peak = "attempt"
    BY <2>1, Zenon DEF Peak
  <2>4. Reach = {op} \cup ({"keypair_internal", "compute_t0_t1_tr"}
                           \cup ({"check_pct"} \cup Signers \cup Verifiers))
    BY <1>6, <2>2, ReachIs
  <2>5. \A g : OnPath(g) <=> g \in Reach \ ({"keypair_internal", "compute_t0_t1_tr"}
                                             \cup Verifiers)
    BY <1>6 DEF OnPath
  <2>6. /\ OnPath("check_pct") /\ OnPath("signature") /\ OnPath("signature_internal")
        /\ OnPath("attempt")
    BY <2>4, <2>5 DEF Signers, Verifiers
  <2>7. fn \in {"keypair", "check_pct", "signature", "signature_internal"}
    BY <1>6, <2>3, <2>4, <2>5 DEF KeypairOperations, Signers, Verifiers
  <2>8. {"keypair_internal", "signature", "signature_internal", "attempt"} \subseteq Functions
    BY DEF Functions
  <2>9. Goal
    BY <1>2, <1>4, <1>5, <2>2, <2>6, <2>7, <2>8
  <2> QED BY <2>9 DEF Goal
<1>7. ASSUME op \notin KeypairOperations
      PROVE  \A g : OnPath(g) <=> g \in Reach
  BY <1>7 DEF OnPath
<1>8. CASE op = "pk_from_sk"
  <2>1. op \notin KeypairOperations /\ op \notin VerifyOperations
    BY <1>8 DEF KeypairOperations, VerifyOperations
  <2>2. Peak = "compute_t0_t1_tr" /\ Reach = {op} \cup {"compute_t0_t1_tr"}
    BY <1>8, <2>1, ReachIs DEF Peak
  <2>3. fn = "pk_from_sk" /\ OnPath("compute_t0_t1_tr") /\ "compute_t0_t1_tr" \in Functions
    BY <1>7, <1>8, <2>1, <2>2 DEF Functions
  <2>4. Goal
    BY <1>2, <1>5, <2>3
  <2> QED BY <2>4 DEF Goal
<1>9. CASE op \in SignOperations
  <2>1. /\ op \notin KeypairOperations /\ op \notin VerifyOperations /\ op # "pk_from_sk"
        /\ op \notin KeyOperations
    BY <1>9 DEF KeypairOperations, VerifyOperations, SignOperations, KeyOperations
  <2>2. op \in {"sign", "signature"}
    BY <2>1 DEF Tight, KeyOperations
  <2>3. Peak = "attempt" /\ Reach = {op} \cup Signers
    BY <1>9, <2>1, <2>2, ReachIs DEF Peak
  <2>4. /\ fn \in {"sign", "signature", "signature_internal"}
        /\ OnPath("signature") /\ OnPath("signature_internal") /\ OnPath("attempt")
    BY <1>7, <2>1, <2>2, <2>3 DEF Signers
  <2>5. {"signature", "signature_internal", "attempt"} \subseteq Functions
    BY DEF Functions
  <2>6. Goal
    BY <1>2, <1>4, <1>5, <2>4, <2>5
  <2> QED BY <2>6 DEF Goal
<1>10. CASE op \in VerifyOperations
  <2>1. op \notin KeypairOperations /\ op # "pk_from_sk"
    BY <1>10 DEF KeypairOperations, VerifyOperations
  <2>2. Peak = "verify_internal"
    BY <1>10, <2>1 DEF Peak
  <2>3. Reach = {op} \cup (IF op = "open" THEN Verifiers ELSE {"verify_internal"})
    BY <1>10, ReachIs
  <2>4. /\ fn \in VerifyOperations \ {"verify_internal"} /\ OnPath("verify_internal")
        /\ fn = "open" => OnPath("verify")
    BY <1>7, <1>10, <2>1, <2>2, <2>3 DEF Verifiers, VerifyOperations
  <2>5. {"verify", "verify_internal"} \subseteq Functions
    BY DEF Functions
  <2>6. fn \in {"open", "verify", "verify_extmu", "verify_pre_hash_internal"}
    BY <2>4 DEF VerifyOperations
  <2>7. Goal
    BY <1>2, <1>4, <1>5, <2>4, <2>5, <2>6
  <2> QED BY <2>7 DEF Goal
<1> QED BY <1>1, <1>6, <1>8, <1>9, <1>10

-----------------------------------------------------------------------------
(* The steps.                                                              *)

\* A step that moves within the function that runs.
LEMMA Moved ==
  ASSUME Active, UNCHANGED <<build, op, heap, offset, highMark>>, NEW f \in Frames,
         SetTop(f), FrameOk(f), f.fn = Top.fn, f.ptr = Top.ptr,
         result' \in {Unset, 0, FAIL, OUT_OF_MEMORY, RNG_FAIL}, failures' \in Nat,
         op \in Tight /\ Passed(f, result') => highMark = Capacity,
         failures' = 0 => /\ failures = 0 /\ Held(f) = Held(Top)
                          /\ f.place # "alloc" /\ result' # OUT_OF_MEMORY,
         failures' # 0 => IF f.place = "alloc"
                            THEN ~(FirstNames(f.fn, Held(f)) \subseteq f.ptr)
                            ELSE result' = OUT_OF_MEMORY /\ f.place = "cleanup"
  PROVE  MemInv'
<1>1. f.fn \in Reach /\ Depth \in Nat \ {0} /\ Top = stack[Depth]
  BY ActiveIs
<1>2. /\ stack' \in Seq(Frames) /\ stack' # <<>> /\ Depth' = Depth /\ Top' = f
      /\ \A d \in 1 .. Depth : stack'[d] = IF d = Depth THEN f ELSE stack[d]
      /\ StackInv'
  BY <1>1, StackSet
<1>3. Len(stack') = Depth
  BY <1>2 DEF Depth
<1>4. SamePointers
  BY <1>2, <1>3, SetPointers
<1>5. AllocationType' /\ HeapInv' /\ AddressInv' /\ MarkInv' /\ (Placed => Placed')
  BY <1>2, <1>4, Quiet
<1>6. failures' = 0 => /\ failures = 0 /\ Placed'
                       /\ f.ptr = FirstNames(f.fn, Held(f))
                       /\ offset' = Base(f.fn) + Before(f.fn, Held(f) + 1)
  <2>1. HAVE failures' = 0
  <2>2. AllThere /\ Placed /\ Filled /\ stack # <<>> /\ Depth \in 1 .. Depth
    BY <1>1, <2>1, ActiveInv DEF FailureInv
  <2>3. Top.ptr = FirstNames(Top.fn, Held(Top))
    BY <1>1, <2>2 DEF AllThere
  <2>4. offset = Base(Top.fn) + Before(Top.fn, Held(Top) + 1)
    BY <2>2 DEF Filled
  <2> QED BY <1>5, <2>1, <2>2, <2>3, <2>4
<1>7. FailureInv'
  BY <1>2, <1>6, FailureSet
<1>8. PeakInv'
  <2>1. \A d \in 1 .. Len(stack') :
          \/ d < Depth /\ stack'[d] = stack[d]
          \/ op \in Tight /\ Passed(stack'[d], result') => highMark' = Capacity
    BY <1>1, <1>2, <1>3
  <2> QED BY <1>2, <2>1, PeakKept
<1> QED BY <1>2, <1>5, <1>7, <1>8 DEF MemInv

LEMMA ActiveFailures ==
  ASSUME Active
  PROVE  /\ failures \in Nat
         /\ failures # 0 => IF Top.place = "alloc"
                              THEN ~(FirstNames(Top.fn, Held(Top)) \subseteq Top.ptr)
                              ELSE result = OUT_OF_MEMORY /\ Top.place = "cleanup"
         /\ failures = 0 =>
              /\ Top.ptr = FirstNames(Top.fn, Held(Top))
              /\ offset = Base(Top.fn) + Before(Top.fn, Held(Top) + 1)
              /\ Top.place # "alloc" => result # OUT_OF_MEMORY
         /\ result \in {Unset, 0, FAIL, OUT_OF_MEMORY, RNG_FAIL}
<1>1. Depth \in 1 .. Depth /\ Top = stack[Depth] /\ op # "none" /\ stack # <<>>
  BY ActiveIs DEF Active
<1>2. failures \in Nat /\ result \in {Unset, 0, FAIL, OUT_OF_MEMORY, RNG_FAIL}
  BY ActiveInv DEF AllocationType
<1>3. CASE failures = 0
  BY <1>1, <1>2, <1>3, ActiveInv DEF FailureInv, AllThere, Filled, NoError
<1>4. CASE failures # 0
  BY <1>1, <1>2, <1>4, ActiveInv DEF FailureInv, Failing
<1> QED BY <1>3, <1>4

\* The peak is reached when all buffers of its function are there.
LEMMA PeakReached ==
  ASSUME Active, op \in Tight, Top.fn = Peak, failures = 0, Held(Top) = Len(Allocs(Top.fn))
  PROVE  highMark = Capacity
<1>1. Building /\ op \in Operations /\ op # "none" /\ Top.fn \in Functions /\ Capacity \in Nat
  BY ActiveIs
<1>2. offset = Base(Top.fn) + Before(Top.fn, Held(Top) + 1)
  BY ActiveFailures
<1>3. offset = Base(Peak) + Total(Peak)
  BY <1>1, <1>2, BeforeIs
<1>4. offset = Capacity
  BY <1>1, <1>3, RoomIs
<1>5. offset =< highMark /\ highMark =< Capacity /\ highMark \in Nat
  BY <1>1, ActiveInv DEF MarkInv, AllocationType
<1> QED BY <1>1, <1>4, <1>5

LEMMA CheckPointersKeeps == ASSUME Active, CheckPointers PROVE MemInv'
<1> DEFINE len == Len(Allocs(Top.fn))
<1>1. Top.place = "alloc" /\ ~Allocating /\ stack # <<>>
  BY DEF CheckPointers, CheckFor
<1>2. len \in Nat /\ Top.at = len + 1 /\ Held(Top) = len /\ Top.ptr \subseteq FirstNames(Top.fn, len)
  BY <1>1, PlaceIs DEF Allocating
<1>3. FirstNames(Top.fn, len) = Names(Top.fn)
  BY ActiveIs, NamesGrow
<1>4. UNCHANGED <<build, op, heap, offset, highMark, failures>>
  BY DEF CheckPointers, CheckFor
<1>5. Top \in Frames /\ Len(Body(Top.fn)) \in Nat /\ failures \in Nat
  BY ActiveIs, PlaceIs, ActiveFailures
<1>6. CASE Names(Top.fn) \subseteq Top.ptr
  <2> DEFINE f == GoTo(Top, "body")
  <2>1. result' = 0 /\ SetTop(f)
    BY <1>6 DEF CheckPointers, CheckFor
  <2>2. f \in Frames /\ f.fn = Top.fn /\ f.place = "body" /\ f.at = 1 /\ f.ptr = Top.ptr
    BY <1>5, FrameFields
  <2>3. Top.ptr = Names(Top.fn)
    BY <1>2, <1>3, <1>6
  <2> HIDE DEF f
  <2>4. Held(f) = len
    BY <2>2 DEF Held
  <2>5. FrameOk(f)
    <3>1. f.at =< Len(Body(f.fn)) + 1
      BY <1>5, <2>2
    <3> HIDE DEF len
    <3> QED BY <1>2, <1>3, <2>2, <2>3, <2>4, <3>1 DEF FrameOk
  <2>6. failures = 0
    BY <1>1, <1>2, <1>3, <1>6, ActiveFailures
  <2>7. op \in Tight /\ Passed(f, result') => highMark = Capacity
    <3>1. ~(1 > PathItem(f.fn))
      BY DEF PathItem
    <3> QED BY <1>2, <2>2, <2>6, <3>1, PeakReached DEF Passed
  <2>8. result' # OUT_OF_MEMORY /\ result' \in {Unset, 0, FAIL, OUT_OF_MEMORY, RNG_FAIL}
    BY <2>1 DEF OUT_OF_MEMORY
  <2> QED BY <1>2, <1>4, <1>5, <2>1, <2>2, <2>4, <2>5, <2>6, <2>7, <2>8, Moved
<1>7. CASE ~(Names(Top.fn) \subseteq Top.ptr)
  <2> DEFINE f == GoTo(Top, "cleanup")
  <2>1. result' = OUT_OF_MEMORY /\ SetTop(f)
    BY <1>7 DEF CheckPointers, CheckFor
  <2>2. f \in Frames /\ f.fn = Top.fn /\ f.place = "cleanup" /\ f.at = 1 /\ f.ptr = Top.ptr
    BY <1>5, FrameFields
  <2> HIDE DEF f
  <2>3. Held(f) = len
    BY <1>2, <2>2 DEF Held
  <2>4. FrameOk(f)
    <3>1. f.at =< Len(Allocs(f.fn)) + 1
      BY <1>2, <2>2
    <3> HIDE DEF len
    <3> QED BY <1>2, <2>2, <2>3, <3>1 DEF FrameOk
  <2>5. failures # 0
    BY <1>1, <1>2, <1>3, <1>7, ActiveFailures
  <2>6. ~Passed(f, result')
    BY <2>1, <2>2 DEF Passed, OUT_OF_MEMORY
  <2> QED BY <1>4, <1>5, <2>1, <2>2, <2>4, <2>5, <2>6, Moved
<1> QED BY <1>6, <1>7

LEMMA AllocationFailsKeeps == ASSUME Active, AllocationFails PROVE MemInv'
<1> DEFINE len == Len(Allocs(Top.fn))
           k == Top.at
           f == Step(Top)
<1>1. Top.place = "alloc" /\ k =< len /\ stack # <<>>
  BY DEF AllocationFails, Allocating
<1>2. len \in Nat /\ k \in 1 .. len /\ Held(Top) = k - 1 /\ Top.ptr \subseteq FirstNames(Top.fn, k - 1)
  BY <1>1, PlaceIs
<1>3. UNCHANGED <<build, result, op, heap, offset, highMark>> /\ SetTop(f)
  BY DEF AllocationFails
<1>4. Top \in Frames /\ failures \in Nat /\ Building /\ Top.fn \in Functions
      /\ Top.fn \in Reach /\ op \in Operations
  BY ActiveIs, ActiveFailures
<1>5. f \in Frames /\ f.fn = Top.fn /\ f.place = "alloc" /\ f.at = k + 1 /\ f.ptr = Top.ptr
  BY <1>1, <1>4, FrameFields
<1> HIDE DEF f
<1>6. Held(f) = k
  BY <1>2, <1>5 DEF Held
<1>7. /\ FirstNames(Top.fn, k) = FirstNames(Top.fn, k - 1) \cup {Allocs(Top.fn)[k].name}
      /\ Allocs(Top.fn)[k].name \notin FirstNames(Top.fn, k - 1)
  BY <1>2, <1>4, NamesGrow
<1>8. FrameOk(f)
  <2>1. f.at =< Len(Allocs(f.fn)) + 1
    BY <1>2, <1>5
  <2> HIDE DEF len, k
  <2> QED BY <1>2, <1>5, <1>6, <1>7, <2>1 DEF FrameOk
<1>9. ~(FirstNames(f.fn, Held(f)) \subseteq f.ptr)
  BY <1>2, <1>5, <1>6, <1>7
<1>10. failures' \in Nat /\ failures' # 0
  <2>1. CASE Fits
    BY <1>4, <2>1 DEF AllocationFails
  <2>2. CASE ~Fits
    <3>1. failures' = failures
      BY <2>2 DEF AllocationFails
    <3>2. ASSUME failures = 0 PROVE FALSE
      <4>1. offset = Base(Top.fn) + Before(Top.fn, (k - 1) + 1)
        BY <1>2, <3>2, ActiveFailures
      <4>2. (k - 1) + 1 = k /\ k + 1 \in 1 .. len + 1 /\ k \in 1 .. len + 1
        BY <1>2
      <4>3. /\ Before(Top.fn, k) \in Nat /\ Before(Top.fn, k + 1) =< Total(Top.fn)
            /\ Before(Top.fn, k + 1) = Before(Top.fn, k) + A(Allocs(Top.fn), k)
            /\ Before(Top.fn, k + 1) \in Nat
        BY <1>2, <1>4, <4>2, BeforeIs
      <4>4. /\ Base(Top.fn) \in Nat /\ Base(Top.fn) + Total(Top.fn) =< Capacity
            /\ Total(Top.fn) \in Nat /\ Capacity \in Nat
        BY <1>4, RoomIs, TotalType, ActiveIs
      <4>5. A(Allocs(Top.fn), k) = Aligned(Wanted.size)
        BY DEF A, Wanted
      <4>6. Allocs(Top.fn)[k].size \in Nat \ {0}
        <5>1. Allocs(Top.fn) \in Seq(Buffer)
          BY <1>4, Shapes DEF Shape
        <5>2. Allocs(Top.fn)[k] \in Buffer
          BY <1>2, <5>1
        <5> QED BY <5>2 DEF Buffer
      <4>7. Aligned(Wanted.size) \in Nat
        BY <4>6, AlignedIs DEF Wanted
      <4>8. ~(Aligned(Wanted.size) =< Capacity - offset)
        BY <2>2 DEF Fits
      <4> QED BY <4>1, <4>2, <4>3, <4>4, <4>5, <4>7, <4>8
    <3> QED BY <1>4, <3>1, <3>2
  <2> QED BY <2>1, <2>2
<1>11. ~Passed(f, result')
  BY <1>5 DEF Passed
<1>12. result' \in {Unset, 0, FAIL, OUT_OF_MEMORY, RNG_FAIL}
  BY <1>3, ActiveFailures
<1> QED BY <1>3, <1>5, <1>8, <1>9, <1>10, <1>11, <1>12, Moved

LEMMA BodyStep ==
  ASSUME Active, InBody, op \in Tight, Passed(Step(Top), result), ~Passed(Top, result)
  PROVE  Top.at =< Len(Body(Top.fn)) /\ Item \notin Atomic
         /\ \A g \in Runs(Item) : OnPath(g) \/ (g = "keypair_internal" /\ build.pct)
<1>1. Top \in Frames /\ Top.place = "body" /\ Top.at \in Nat \ {0}
      /\ Building /\ op \in Operations /\ Top.fn \in Functions
  BY ActiveIs DEF InBody
<1>2. Step(Top).fn = Top.fn /\ Step(Top).at = Top.at + 1 /\ Step(Top).place = "body"
  BY <1>1, FrameFields
<1>3. PathItem(Top.fn) \in Nat
  BY DEF PathItem
<1>4. OnPath(Top.fn) /\ Top.fn # Peak /\ PathItem(Top.fn) = Top.at
  BY <1>1, <1>2, <1>3 DEF Passed
<1>5. /\ PathItem(Top.fn) \in 1 .. Len(Body(Top.fn))
      /\ Body(Top.fn)[PathItem(Top.fn)] \notin Atomic
      /\ \A g \in Runs(Body(Top.fn)[PathItem(Top.fn)]) :
           OnPath(g) \/ (g = "keypair_internal" /\ build.pct)
  BY <1>1, <1>4, PathIs
<1>6. Len(Body(Top.fn)) \in Nat
  BY PlaceIs
<1> QED BY <1>1, <1>4, <1>5, <1>6 DEF Item

LEMMA BodyFacts ==
  ASSUME Active, InBody
  PROVE  LET len == Len(Allocs(Top.fn)) IN
         /\ Top.place = "body" /\ failures = 0 /\ result # OUT_OF_MEMORY /\ Held(Top) = len
         /\ Top.at \in 1 .. Len(Body(Top.fn)) + 1 /\ Top.ptr = Names(Top.fn)
         /\ FirstNames(Top.fn, len) = Names(Top.fn) /\ len \in Nat
         /\ \A res : op \in Tight /\ Passed(Top, res) => highMark = Capacity
<1>1. Top.place = "body" /\ Depth \in 1 .. Depth /\ Top = stack[Depth]
  BY ActiveIs DEF InBody
<1>2. failures = 0 /\ result # OUT_OF_MEMORY
  BY <1>1, ActiveFailures
<1>3. op \in Tight /\ Passed(Top, result) => highMark = Capacity
  BY <1>1, ActiveInv DEF PeakInv
<1>4. \A res : op \in Tight /\ Passed(Top, res) => highMark = Capacity
  BY <1>1, <1>3 DEF Passed
<1>5. FirstNames(Top.fn, Len(Allocs(Top.fn))) = Names(Top.fn)
  BY ActiveIs, NamesGrow
<1> QED BY <1>1, <1>2, <1>4, <1>5, PlaceIs

\* A step to the cleanup label.
LEMMA ToCleanup ==
  ASSUME Active, InBody, SetTop(GoTo(Top, "cleanup")), result' # OUT_OF_MEMORY,
         UNCHANGED <<build, op, heap, offset, highMark, failures>>,
         result' \in {Unset, 0, FAIL, OUT_OF_MEMORY, RNG_FAIL},
         op \in Tight /\ OnPath(Top.fn) /\ result' = 0 => highMark = Capacity
  PROVE  MemInv'
<1> DEFINE len == Len(Allocs(Top.fn))
           f == GoTo(Top, "cleanup")
<1>1. /\ failures = 0 /\ Held(Top) = len /\ len \in Nat
      /\ Top.ptr = Names(Top.fn) /\ FirstNames(Top.fn, len) = Names(Top.fn)
  BY BodyFacts
<1>2. Top \in Frames /\ f \in Frames /\ f.fn = Top.fn /\ f.place = "cleanup" /\ f.at = 1
      /\ f.ptr = Top.ptr
  BY ActiveIs, FrameFields
<1>3. SetTop(f)
  OBVIOUS
<1> HIDE DEF f
<1>4. Held(f) = len
  BY <1>1, <1>2 DEF Held
<1>5. FrameOk(f)
  <2>1. f.at =< Len(Allocs(f.fn)) + 1
    BY <1>1, <1>2
  <2> HIDE DEF len
  <2> QED BY <1>1, <1>2, <1>4, <2>1 DEF FrameOk
<1>6. op \in Tight /\ Passed(f, result') => highMark = Capacity
  BY <1>2 DEF Passed
<1>7. failures' = 0 /\ f.place # "alloc" /\ failures' \in Nat
  BY <1>1, <1>2
<1> QED BY <1>1, <1>2, <1>3, <1>4, <1>5, <1>6, <1>7, Moved

LEMMA BodyCheckKeeps == ASSUME Active, BodyCheck PROVE MemInv'
<1> DEFINE len == Len(Allocs(Top.fn))
<1>1. InBody /\ Item \in Atomic /\ UNCHANGED <<build, op, heap, offset, highMark, failures>>
      /\ Top.at =< Len(Body(Top.fn))
  BY DEF BodyCheck
<1>2. /\ Top.place = "body" /\ failures = 0 /\ result # OUT_OF_MEMORY /\ Held(Top) = len
      /\ Top.at \in 1 .. Len(Body(Top.fn)) + 1 /\ Top.ptr = Names(Top.fn)
      /\ FirstNames(Top.fn, len) = Names(Top.fn) /\ len \in Nat
      /\ \A res : op \in Tight /\ Passed(Top, res) => highMark = Capacity
  BY <1>1, BodyFacts
<1>3. CASE UNCHANGED result /\ SetTop(Step(Top))
  <2> DEFINE f == Step(Top)
  <2>1. f \in Frames /\ f.fn = Top.fn /\ f.place = "body" /\ f.at = Top.at + 1 /\ f.ptr = Top.ptr
    BY <1>2, ActiveIs, FrameFields
  <2>2. SetTop(f)
    BY <1>3
  <2>3. op \in Tight /\ Passed(f, result') => highMark = Capacity
    BY <1>1, <1>2, <1>3, BodyStep
  <2> HIDE DEF f
  <2>4. Held(f) = len
    BY <2>1 DEF Held
  <2>5. FrameOk(f)
    <3>1. f.at =< Len(Body(f.fn)) + 1
      BY <1>1, <1>2, <2>1, PlaceIs
    <3> HIDE DEF len
    <3> QED BY <1>2, <2>1, <2>4, <3>1 DEF FrameOk
  <2>6. result' \in {Unset, 0, FAIL, OUT_OF_MEMORY, RNG_FAIL}
    BY <1>3, ActiveFailures
  <2>7. failures' = 0 /\ f.place # "alloc" /\ failures' \in Nat /\ result' # OUT_OF_MEMORY
    BY <1>1, <1>2, <1>3, <2>1
  <2> QED BY <1>1, <1>2, <2>1, <2>2, <2>3, <2>4, <2>5, <2>6, <2>7, Moved
<1>4. CASE /\ result' = IF Item = "rng" THEN RNG_FAIL ELSE FAIL
           /\ SetTop(GoTo(Top, "cleanup"))
  <2>1. result' \in {FAIL, RNG_FAIL}
    BY <1>4
  <2>2. /\ result' # OUT_OF_MEMORY /\ result' # 0
        /\ result' \in {Unset, 0, FAIL, OUT_OF_MEMORY, RNG_FAIL}
    BY <2>1 DEF FAIL, RNG_FAIL, OUT_OF_MEMORY
  <2> QED BY <1>1, <1>4, <2>2, ToCleanup
<1> QED BY <1>3, <1>4 DEF BodyCheck

LEMMA BodyEndKeeps == ASSUME Active, BodyEnd PROVE MemInv'
<1>1. InBody /\ Top.at > Len(Body(Top.fn)) /\ SetTop(GoTo(Top, "cleanup"))
      /\ UNCHANGED <<build, result, op, heap, offset, highMark, failures>>
  BY DEF BodyEnd
<1>2. /\ Top.place = "body" /\ result # OUT_OF_MEMORY
      /\ Top.at \in 1 .. Len(Body(Top.fn)) + 1
      /\ op \in Tight /\ Passed(Top, result) => highMark = Capacity
  BY <1>1, BodyFacts
<1>3. ASSUME op \in Tight, OnPath(Top.fn) PROVE highMark = Capacity
  <2>1. Top.fn # Peak => PathItem(Top.fn) \in 1 .. Len(Body(Top.fn))
    BY <1>3, ActiveIs, PathIs
  <2>2. Len(Body(Top.fn)) \in Nat
    BY PlaceIs
  <2>3. Top.fn = Peak \/ Top.at > PathItem(Top.fn)
    BY <1>1, <1>2, <2>1, <2>2
  <2>4. Passed(Top, result)
    BY <1>2, <1>3, <2>3 DEF Passed
  <2> QED BY <1>2, <1>3, <2>4
<1>4. result' \in {Unset, 0, FAIL, OUT_OF_MEMORY, RNG_FAIL} /\ result' # OUT_OF_MEMORY
  BY <1>1, <1>2, ActiveFailures
<1> QED BY <1>1, <1>3, <1>4, ToCleanup

LEMMA SizeIs ==
  ASSUME Building, NEW fn \in Functions, NEW k \in 1 .. Len(Allocs(fn))
  PROVE  /\ Allocs(fn)[k].name \in BufferNames /\ Allocs(fn)[k].size \in Nat
         /\ Aligned(Allocs(fn)[k].size) \in Nat
<1>1. Allocs(fn) \in Seq(Buffer)
  BY Shapes DEF Shape
<1>2. Allocs(fn)[k] \in Buffer
  BY <1>1
<1>3. Allocs(fn)[k].size \in Nat \ {0} /\ Allocs(fn)[k].name \in BufferNames
  BY <1>2 DEF Buffer
<1> QED BY <1>3, AlignedIs

\* The k-th buffer of the function that runs becomes the last block.
Allocated(f, k) ==
  /\ f.fn = Top.fn /\ f.place = "alloc" /\ f.at = k + 1
  /\ f.ptr = Top.ptr \cup {Wanted.name}
  /\ Top.place = "alloc" /\ Top.at = k /\ k \in 1 .. Len(Allocs(Top.fn))
  /\ Held(Top) = k - 1 /\ Held(f) = k
  /\ FirstNames(Top.fn, k) = FirstNames(Top.fn, k - 1) \cup {Wanted.name}
  /\ Wanted.name \notin FirstNames(Top.fn, k - 1) /\ Wanted.name \in BufferNames
  /\ Top.ptr \subseteq FirstNames(Top.fn, k - 1)

LEMMA AllocateSets ==
  ASSUME Active, Allocate
  PROVE  /\ Allocated(Top', Top.at) /\ FrameOk(Top') /\ Top' \in Frames
         /\ stack' \in Seq(Frames) /\ stack' # <<>> /\ Depth' = Depth
         /\ \A d \in 1 .. Depth : stack'[d] = IF d = Depth THEN Top' ELSE stack[d]
         /\ StackInv'
<1> DEFINE k == Top.at
           u == WithPtr(Step(Top), Top.ptr \cup {Wanted.name})
<1>1. Top.place = "alloc" /\ k =< Len(Allocs(Top.fn))
  BY DEF Allocate, Allocating
<1>2. /\ Top \in Frames /\ Building /\ Top.fn \in Functions /\ Top.fn \in Reach
      /\ Top.ptr \subseteq BufferNames
  BY ActiveIs
<1>3. /\ k \in 1 .. Len(Allocs(Top.fn)) /\ Held(Top) = k - 1 /\ Len(Allocs(Top.fn)) \in Nat
      /\ Top.ptr \subseteq FirstNames(Top.fn, k - 1)
  BY <1>1, PlaceIs
<1>4. /\ FirstNames(Top.fn, k) = FirstNames(Top.fn, k - 1) \cup {Wanted.name}
      /\ Wanted.name \notin FirstNames(Top.fn, k - 1) /\ Wanted.name \in BufferNames
  BY <1>2, <1>3, NamesGrow DEF Wanted
<1>5. Step(Top) \in Frames /\ Step(Top).fn = Top.fn /\ Step(Top).place = "alloc"
      /\ Step(Top).at = k + 1 /\ Step(Top).ptr = Top.ptr
  BY <1>1, <1>2, FrameFields
<1>6. /\ u \in Frames /\ u.fn = Top.fn /\ u.place = "alloc" /\ u.at = k + 1
      /\ u.ptr = Top.ptr \cup {Wanted.name}
  BY <1>2, <1>4, <1>5, FrameFields
<1>7. SetTop(u)
  <2>1. u = [Step(Top) EXCEPT !.ptr = @ \cup {Wanted.name}]
    BY <1>5 DEF WithPtr, Frames
  <2> QED BY <2>1 DEF Allocate
<1> HIDE DEF u
<1>8. Held(u) = k
  BY <1>3, <1>6 DEF Held
<1>9. FrameOk(u)
  <2>1. u.at =< Len(Allocs(u.fn)) + 1
    BY <1>3, <1>6
  <2> HIDE DEF k
  <2> QED BY <1>3, <1>4, <1>6, <1>8, <2>1 DEF FrameOk
<1>10. UNCHANGED <<build, op>>
  BY DEF Allocate
<1>11. /\ stack' \in Seq(Frames) /\ stack' # <<>> /\ Depth' = Depth /\ Top' = u
       /\ \A d \in 1 .. Depth : stack'[d] = IF d = Depth THEN u ELSE stack[d]
       /\ StackInv'
  BY <1>2, <1>6, <1>7, <1>9, <1>10, StackSet
<1>12. Allocated(u, k)
  BY <1>1, <1>3, <1>4, <1>6, <1>8 DEF Allocated
<1> QED BY <1>6, <1>9, <1>11, <1>12

LEMMA AllocateHeap ==
  ASSUME Active, Allocate
  PROVE  LET b == [depth |-> Depth, name |-> Wanted.name, addr |-> offset,
                   size |-> Wanted.size]
         IN  /\ heap \in Seq(Blocks) /\ b \in Blocks /\ heap' = Append(heap, b)
             /\ heap' \in Seq(Blocks) /\ Len(heap') = Len(heap) + 1 /\ Len(heap) \in Nat
             /\ DOMAIN heap' = 1 .. Len(heap) + 1 /\ DOMAIN heap = 1 .. Len(heap)
             /\ heap'[Len(heap) + 1] = b
             /\ \A k \in 1 .. Len(heap) : heap'[k] = heap[k]
             /\ offset \in Nat /\ Aligned(Wanted.size) \in Nat
             /\ offset' = offset + Aligned(Wanted.size)
<1> DEFINE b == [depth |-> Depth, name |-> Wanted.name, addr |-> offset,
                 size |-> Wanted.size]
<1>1. heap \in Seq(Blocks) /\ offset \in Nat
  BY ActiveInv DEF AllocationType
<1>2. Wanted.name \in BufferNames /\ Wanted.size \in Nat /\ Aligned(Wanted.size) \in Nat
  <2>1. Top.at \in 1 .. Len(Allocs(Top.fn))
    BY PlaceIs DEF Allocate, Allocating
  <2> QED BY <2>1, SizeIs, ActiveIs DEF Wanted
<1>3. b \in Blocks
  BY <1>1, <1>2, ActiveIs DEF Blocks
<1>4. heap' = Append(heap, b) /\ offset' = offset + Aligned(Wanted.size)
  BY DEF Allocate
<1> HIDE DEF b
<1>5. heap' \in Seq(Blocks) /\ Len(heap') = Len(heap) + 1 /\ heap'[Len(heap) + 1] = b
  BY <1>1, <1>3, <1>4
<1>6. \A k \in 1 .. Len(heap) : heap'[k] = heap[k]
  BY <1>1, <1>3, <1>4
<1>7. Len(heap) \in Nat /\ DOMAIN heap = 1 .. Len(heap) /\ DOMAIN heap' = 1 .. Len(heap')
  BY <1>1, <1>5
<1> QED BY <1>1, <1>2, <1>3, <1>4, <1>5, <1>6, <1>7 DEF b

LEMMA AllocateKeeps == ASSUME Active, Allocate PROVE MemInv'
<1>a. PICK k \in Nat : k = Top.at
  BY ActiveIs
<1>b. PICK len \in Nat : len = Len(heap)
  BY AllocateHeap
<1> DEFINE b == [depth |-> Depth, name |-> Wanted.name, addr |-> offset,
                 size |-> Wanted.size]
           a == Allocs(Top.fn)
<1>1. /\ Allocated(Top', k) /\ FrameOk(Top') /\ Top' \in Frames
      /\ stack' \in Seq(Frames) /\ stack' # <<>> /\ Depth' = Depth
      /\ \A d \in 1 .. Depth : stack'[d] = IF d = Depth THEN Top' ELSE stack[d]
      /\ StackInv'
  BY <1>a, AllocateSets
<1>2. PICK f \in Frames : f = Top'
  BY <1>1
<1>3. /\ f.fn = Top.fn /\ f.place = "alloc" /\ f.at = k + 1
      /\ f.ptr = Top.ptr \cup {Wanted.name}
      /\ Top.place = "alloc" /\ k \in 1 .. Len(a)
      /\ Held(Top) = k - 1 /\ Held(f) = k
      /\ FirstNames(Top.fn, k) = FirstNames(Top.fn, k - 1) \cup {Wanted.name}
      /\ Wanted.name \notin FirstNames(Top.fn, k - 1) /\ Wanted.name \in BufferNames
      /\ Top.ptr \subseteq FirstNames(Top.fn, k - 1)
  BY <1>1, <1>2 DEF Allocated
<1>4. \A d \in 1 .. Depth : stack'[d] = IF d = Depth THEN f ELSE stack[d]
  BY <1>1, <1>2
<1>5. /\ b \in Blocks /\ heap' \in Seq(Blocks) /\ len \in Nat
      /\ DOMAIN heap' = 1 .. len + 1 /\ DOMAIN heap = 1 .. len
      /\ heap'[len + 1] = b /\ \A j \in 1 .. len : heap'[j] = heap[j]
      /\ offset \in Nat /\ Aligned(Wanted.size) \in Nat
      /\ offset' = offset + Aligned(Wanted.size)
  BY <1>b, AllocateHeap
<1>6. b.depth = Depth /\ b.name = Wanted.name /\ b.addr = offset /\ b.size = Wanted.size
  OBVIOUS
<1>7. UNCHANGED <<build, op, result, failures>> /\ Fits /\ highMark' = Max({highMark, offset'})
  BY DEF Allocate
<1> HIDE DEF b, a
<1>8. SameCode /\ SameCall
  BY <1>7, CodeKept, CallKept
<1>9. /\ Building /\ op \in Operations /\ op # "none" /\ Capacity \in Nat
      /\ Depth \in Nat \ {0} /\ Top = stack[Depth] /\ Top.fn \in Functions
  BY ActiveIs
<1>10. /\ highMark \in Nat /\ highMark' \in Nat /\ highMark' >= highMark
       /\ highMark' >= offset' /\ highMark' =< Capacity
  <2>1. highMark \in Nat /\ offset' \in Nat /\ highMark =< Capacity
    BY <1>5, <1>9, ActiveInv DEF MarkInv, AllocationType
  <2>2. offset' =< Capacity
    BY <1>5, <1>7, <1>9 DEF Fits
  <2>3. highMark' \in {highMark, offset'} /\ highMark' >= highMark /\ highMark' >= offset'
    BY <1>7, <2>1 DEF Max
  <2> QED BY <2>1, <2>2, <2>3
<1>11. AllocationType'
  <2>1. build' \in [level : Levels, reduceRam : RamModes, pct : PctModes]
        /\ op' \in Operations \cup {"none"}
        /\ result' \in {Unset, 0, FAIL, OUT_OF_MEMORY, RNG_FAIL} /\ failures' \in Nat
    BY <1>7, ActiveInv DEF AllocationType
  <2>2. offset' \in Nat
    BY <1>5
  <2> QED BY <1>1, <1>5, <1>10, <2>1, <2>2 DEF AllocationType
<1>12. a[k] = Wanted /\ (\A w, j \in 1 .. Len(a) : a[w].name = a[j].name => w = j)
       /\ Len(a) \in Nat
  <2>1. a[k] = Wanted
    BY <1>a DEF Wanted, a
  <2>2. Shape(Top.fn) /\ Len(a) \in Nat
    BY <1>9, Shapes, PlaceIs DEF a
  <2>3. \A w, j \in 1 .. Len(a) : a[w].name = a[j].name => w = j
    BY <2>2 DEF Shape, a
  <2> QED BY <2>1, <2>2, <2>3
<1>13. ASSUME NEW j \in 1 .. len, NEW w, IsBuffer(heap[j], w)
       PROVE  IsBuffer(heap[j], w)' /\ stack'[heap[j].depth].fn = stack[heap[j].depth].fn
  <2>1. heap[j].depth \in 1 .. Depth
    BY <1>13 DEF IsBuffer
  <2>2. /\ stack'[heap[j].depth].fn = stack[heap[j].depth].fn
        /\ stack[heap[j].depth].ptr \subseteq stack'[heap[j].depth].ptr
    BY <1>3, <1>4, <1>9, <2>1
  <2> QED BY <1>1, <1>5, <1>8, <1>13, <2>1, <2>2 DEF IsBuffer, SameCode
<1>14. IsBuffer(heap[len + 1], k)'
  <2>1. stack'[Depth] = f /\ Depth \in 1 .. Depth
    BY <1>4, <1>9
  <2>2. heap'[len + 1] = b /\ k \in 1 .. Len(a) /\ f.fn = Top.fn /\ Wanted.name \in f.ptr
    BY <1>3, <1>5
  <2>3. /\ b.depth \in 1 .. Depth' /\ k \in 1 .. Len(Allocs(stack'[b.depth].fn))
        /\ b.name = Allocs(stack'[b.depth].fn)[k].name
        /\ b.name \in stack'[b.depth].ptr
    BY <1>1, <1>6, <1>12, <2>1, <2>2 DEF a
  <2> QED BY <1>8, <2>2, <2>3 DEF IsBuffer, SameCode
<1>15. \A j \in DOMAIN heap' : \E w \in Nat : IsBuffer(heap[j], w)'
  <2> SUFFICES ASSUME NEW j \in 1 .. len + 1 PROVE \E w \in Nat : IsBuffer(heap[j], w)'
    BY <1>5
  <2>1. CASE j = len + 1
    BY <1>a, <1>14, <2>1
  <2>2. CASE j # len + 1
    <3>1. j \in 1 .. len
      BY <1>b, <2>2
    <3>2. PICK w \in Nat : IsBuffer(heap[j], w)
      BY <1>5, <3>1, ActiveInv DEF HeapInv
    <3> QED BY <1>5, <1>13, <3>1, <3>2
  <2> QED BY <2>1, <2>2
<1>16. ASSUME NEW d \in 1 .. Depth, NEW name \in stack'[d].ptr
       PROVE  \E j \in DOMAIN heap' : heap'[j].depth = d /\ heap'[j].name = name
  <2>1. CASE name \in stack[d].ptr
    <3>1. PICK j \in 1 .. len : heap[j].depth = d /\ heap[j].name = name
      <4>1. \E j \in DOMAIN heap : heap[j].depth = d /\ heap[j].name = name
        BY <2>1, Pointed
      <4> QED BY <1>5, <4>1
    <3>2. j \in DOMAIN heap' /\ heap'[j] = heap[j]
      BY <1>5, <3>1
    <3> QED BY <3>1, <3>2
  <2>2. CASE name \notin stack[d].ptr
    <3>1. d = Depth /\ name = Wanted.name
      BY <1>3, <1>4, <1>9, <1>16, <2>2
    <3> QED BY <1>5, <1>6, <3>1
  <2> QED BY <2>1, <2>2
<1>17. ASSUME NEW j \in 1 .. len + 1, NEW w \in 1 .. j - 1
       PROVE  Earlier(heap[w], heap[j])'
  <2>1. w \in 1 .. len /\ heap'[w] = heap[w]
    BY <1>5
  <2>2. PICK q \in Nat : IsBuffer(heap[w], q)
    BY <1>5, <2>1, ActiveInv DEF HeapInv
  <2>3. heap[w].depth \in 1 .. Depth /\ q \in 1 .. Len(Allocs(stack[heap[w].depth].fn))
        /\ heap[w].name = Allocs(stack[heap[w].depth].fn)[q].name
        /\ heap[w].name \in stack[heap[w].depth].ptr
    BY <2>2 DEF IsBuffer
  <2>4. CASE j = len + 1
    <3>1. heap'[j] = b
      BY <1>5, <2>4
    <3>2. CASE heap[w].depth # Depth
      <4>1. heap'[w].depth < heap'[j].depth
        BY <1>6, <1>9, <2>1, <2>3, <3>1, <3>2
      <4> QED BY <4>1 DEF Earlier
    <3>3. CASE heap[w].depth = Depth
      <4>1. q \in 1 .. Len(a) /\ heap[w].name = a[q].name /\ heap[w].name \in Top.ptr
        BY <1>9, <2>3, <3>3 DEF a
      <4>2. PICK p \in 1 .. k - 1 : heap[w].name = a[p].name
        BY <1>3, <4>1 DEF FirstNames, a
      <4>3. p = q /\ q < k
        <5>1. k \in Nat /\ Len(a) \in Nat /\ k =< Len(a)
          BY <1>3, <1>12
        <5>2. p \in 1 .. Len(a) /\ a[p].name = a[q].name
          BY <4>1, <4>2, <5>1
        <5>3. p = q
          BY <1>12, <4>1, <5>2
        <5> QED BY <4>2, <5>1, <5>3
      <4>4. IsBuffer(heap[w], q)' /\ IsBuffer(heap[j], k)'
        BY <1>13, <1>14, <2>1, <2>2, <2>4
      <4>5. /\ heap'[w].depth = heap'[j].depth
            /\ q \in 1 .. Len(Allocs(stack'[heap'[j].depth].fn))
            /\ k \in 1 .. Len(Allocs(stack'[heap'[j].depth].fn))
        BY <1>3, <1>4, <1>6, <1>9, <2>1, <3>1, <3>3, <4>1 DEF a
      <4> QED BY <1>8, <4>3, <4>4, <4>5 DEF Earlier, SameCode
    <3> QED BY <3>2, <3>3
  <2>5. CASE j # len + 1
    <3>1. j \in 1 .. len /\ heap'[j] = heap[j]
      BY <1>b, <1>5, <2>5
    <3>2. Earlier(heap[w], heap[j])
      BY <1>5, <3>1, ActiveInv DEF HeapInv
    <3>3. CASE heap[w].depth < heap[j].depth
      BY <2>1, <3>1, <3>3 DEF Earlier
    <3>4. CASE ~(heap[w].depth < heap[j].depth)
      <4>1. heap[w].depth = heap[j].depth
        BY <3>2, <3>4 DEF Earlier
      <4>2. PICK p, r \in 1 .. Len(Allocs(stack[heap[j].depth].fn)) :
              IsBuffer(heap[w], p) /\ IsBuffer(heap[j], r) /\ p < r
        BY <3>2, <3>4 DEF Earlier
      <4>3. IsBuffer(heap[w], p)' /\ IsBuffer(heap[j], r)'
            /\ stack'[heap[j].depth].fn = stack[heap[j].depth].fn
        BY <1>13, <2>1, <3>1, <4>2
      <4>4. /\ heap'[w].depth = heap'[j].depth
            /\ p \in 1 .. Len(Allocs(stack'[heap'[j].depth].fn))
            /\ r \in 1 .. Len(Allocs(stack'[heap'[j].depth].fn))
        BY <2>1, <3>1, <4>1, <4>2, <4>3
      <4> QED BY <1>8, <4>2, <4>3, <4>4 DEF Earlier, SameCode
    <3> QED BY <3>3, <3>4
  <2> QED BY <2>4, <2>5
<1>18. HeapInv'
  BY <1>1, <1>5, <1>15, <1>16, <1>17 DEF HeapInv
<1>19. AddressInv'
  <2>1. LiveBlocksSafe /\ (heap = <<>> => offset = 0) /\ (heap # <<>> => heap[1].addr = 0)
    BY ActiveInv DEF AddressInv
  <2>2. \A j \in 1 .. len : heap[j].addr \in Nat /\ Aligned(heap[j].size) \in Int
    <3>1. heap \in Seq(Blocks)
      BY ActiveInv DEF AllocationType
    <3>2. \A j \in 1 .. len : heap[j] \in Blocks
      BY <1>b, <3>1
    <3>3. \A j \in 1 .. len : heap[j].addr \in Nat /\ heap[j].size \in Nat
      BY <3>2 DEF Blocks
    <3> QED BY <3>3 DEF Aligned
  <2>3. \A j \in 1 .. len : heap[j].addr + Aligned(heap[j].size) =< offset
    BY <1>5, <2>1 DEF LiveBlocksSafe
  <2>4. ASSUME NEW j \in 1 .. len + 1
        PROVE  heap'[j].addr + Aligned(heap'[j].size) =< offset'
    <3>1. CASE j = len + 1
      BY <1>5, <1>6, <3>1
    <3>2. CASE j # len + 1
      <4>1. j \in 1 .. len
        BY <1>b, <3>2
      <4>2. heap'[j] = heap[j] /\ offset =< offset' /\ offset \in Nat /\ offset' \in Nat
        BY <1>5, <4>1
      <4>3. /\ heap[j].addr \in Nat /\ Aligned(heap[j].size) \in Int
            /\ heap[j].addr + Aligned(heap[j].size) =< offset
        BY <2>2, <2>3, <4>1
      <4> QED BY <4>2, <4>3
    <3> QED BY <3>1, <3>2
  <2>5. ASSUME NEW j \in 1 .. len + 1, NEW w \in 1 .. j - 1
        PROVE  heap'[w].addr + Aligned(heap'[w].size) =< heap'[j].addr
    <3>1. w \in 1 .. len /\ heap'[w] = heap[w]
      BY <1>5
    <3>2. CASE j = len + 1
      BY <1>5, <1>6, <2>3, <3>1, <3>2
    <3>3. CASE j # len + 1
      <4>1. j \in 1 .. len /\ heap'[j] = heap[j]
        BY <1>b, <1>5, <3>3
      <4> QED BY <1>5, <2>1, <3>1, <4>1 DEF LiveBlocksSafe
    <3> QED BY <3>2, <3>3
  <2>6. heap' # <<>> /\ heap'[1].addr = 0
    <3>1. CASE len = 0
      <4>1. heap = <<>>
        <5>1. heap \in Seq(Blocks) /\ Len(heap) = 0
          BY <1>b, <3>1, ActiveInv DEF AllocationType
        <5> QED BY <5>1
      <4>2. heap'[1] = b /\ 1 \in DOMAIN heap'
        BY <1>5, <3>1
      <4> QED BY <1>5, <1>6, <2>1, <4>1, <4>2
    <3>2. CASE len # 0
      <4>1. 1 \in 1 .. len /\ heap # <<>>
        BY <1>b, <3>2
      <4> QED BY <1>b, <1>5, <2>1, <4>1
    <3> QED BY <3>1, <3>2
  <2> QED BY <1>5, <2>4, <2>5, <2>6 DEF AddressInv, LiveBlocksSafe
<1>20. MarkInv'
  BY <1>5, <1>8, <1>10 DEF MarkInv, SameCall
<1>21. PeakInv'
  <2>1. ~Passed(f, result')
    BY <1>3 DEF Passed
  <2>2. highMark = Capacity => highMark' = Capacity
    BY <1>9, <1>10
  <2>3. \A d \in 1 .. Len(stack') :
          \/ d < Depth /\ stack'[d] = stack[d]
          \/ op \in Tight /\ Passed(stack'[d], result') => highMark' = Capacity
    BY <1>1, <1>4, <1>9, <2>1 DEF Depth
  <2> QED BY <1>1, <1>7, <2>2, <2>3, PeakKept
<1>22. ASSUME failures = 0, Placed PROVE Placed'
  <2> SUFFICES ASSUME NEW d \in 1 .. Depth, NEW j \in 1 .. len + 1,
                      NEW w \in 1 .. Len(Allocs(stack'[d].fn)),
                      heap'[j].depth = d, heap'[j].name = Allocs(stack'[d].fn)[w].name
               PROVE  heap'[j].addr = Base(stack'[d].fn) + Before(stack'[d].fn, w)
    <3>1. DOMAIN heap' = 1 .. len + 1 /\ Depth' = Depth
      BY <1>1, <1>5
    <3> QED BY <1>8, <3>1, PlacedAfter
  <2>1. stack'[d].fn = stack[d].fn
    BY <1>3, <1>4, <1>9
  <2>2. CASE j = len + 1
    <3>1. d = Depth /\ heap'[j].name = Wanted.name /\ heap'[j].addr = offset
          /\ stack[d].fn = Top.fn
      BY <1>5, <1>6, <1>9, <2>2
    <3>2. w = k
      BY <1>3, <1>12, <2>1, <3>1 DEF a
    <3>3. offset = Base(Top.fn) + Before(Top.fn, (k - 1) + 1) /\ (k - 1) + 1 = k
      BY <1>a, <1>3, <1>22, ActiveFailures
    <3> QED BY <2>1, <3>1, <3>2, <3>3
  <2>3. CASE j # len + 1
    <3>1. j \in 1 .. len /\ heap'[j] = heap[j]
      BY <1>b, <1>5, <2>3
    <3>2. j \in DOMAIN heap
      BY <1>5, <3>1
    <3>3. w \in 1 .. Len(Allocs(stack[d].fn)) /\ heap[j].depth = d
          /\ heap[j].name = Allocs(stack[d].fn)[w].name
      BY <2>1, <3>1
    <3>4. heap[j].addr = Base(stack[d].fn) + Before(stack[d].fn, w)
      BY <1>22, <3>2, <3>3, PlacedAt
    <3> QED BY <2>1, <3>1, <3>4
  <2> QED BY <2>2, <2>3
<1>23. FailureInv'
  <2>1. ASSUME failures' = 0
        PROVE  /\ failures = 0 /\ Placed'
               /\ f.ptr = FirstNames(f.fn, Held(f))
               /\ offset' = Base(f.fn) + Before(f.fn, Held(f) + 1)
               /\ (Depth = 1 /\ f.place = "alloc") \/ result' # OUT_OF_MEMORY
    <3>1. failures = 0
      BY <1>7, <2>1
    <3>2. Placed /\ NoError
      BY <3>1, ActiveInv DEF FailureInv
    <3>3. Top.ptr = FirstNames(Top.fn, k - 1)
          /\ offset = Base(Top.fn) + Before(Top.fn, (k - 1) + 1) /\ (k - 1) + 1 = k
      BY <1>a, <1>3, <3>1, ActiveFailures
    <3>4. f.ptr = FirstNames(f.fn, Held(f))
      BY <1>3, <3>3
    <3>5. offset' = Base(f.fn) + Before(f.fn, k + 1)
      <4>1. k \in 1 .. Len(Allocs(Top.fn)) /\ k \in 1 .. Len(Allocs(Top.fn)) + 1
        BY <1>3, <1>12 DEF a
      <4>2. Before(Top.fn, k + 1) = Before(Top.fn, k) + A(Allocs(Top.fn), k)
            /\ Before(Top.fn, k) \in Nat
        BY <1>9, <4>1, BeforeIs
      <4>3. A(Allocs(Top.fn), k) = Aligned(Wanted.size)
        BY <1>a DEF A, Wanted
      <4>4. Base(Top.fn) \in Nat
        BY <1>9, RoomIs, ActiveIs
      <4> QED BY <1>3, <1>5, <3>3, <4>2, <4>3, <4>4
    <3>6. (Depth = 1 /\ f.place = "alloc") \/ result' # OUT_OF_MEMORY
      BY <1>3, <1>7, <1>9, <3>2 DEF NoError
    <3> QED BY <1>3, <1>22, <3>1, <3>2, <3>4, <3>5, <3>6
  <2>2. failures' # 0 => ~(FirstNames(f.fn, Held(f)) \subseteq f.ptr)
    BY <1>3, <1>7, ActiveFailures
  <2> QED BY <1>1, <1>2, <1>3, <1>4, <1>7, <2>1, <2>2, FailureSet
<1> QED BY <1>1, <1>11, <1>18, <1>19, <1>20, <1>21, <1>23 DEF MemInv

\* The block that Free gives back is the last one.
Freeing(f, name, k) ==
  /\ f.fn = Top.fn /\ f.place = "cleanup" /\ f.at = Top.at + 1
  /\ f.ptr = Top.ptr \ {name} /\ Top.place = "cleanup"
  /\ k \in 1 .. Len(Allocs(Top.fn)) /\ name = Allocs(Top.fn)[k].name
  /\ Held(Top) = k /\ Held(f) = k - 1
  /\ FirstNames(Top.fn, k) = FirstNames(Top.fn, k - 1) \cup {name}
  /\ name \notin FirstNames(Top.fn, k - 1)
  /\ Top.ptr \subseteq FirstNames(Top.fn, k)

LEMMA FreeIs ==
  ASSUME Active, Free
  PROVE  \E f \in Frames, k \in Nat :
           /\ Freeing(f, Frees(Top.fn)[Top.at], k) /\ FrameOk(f) /\ SetTop(f)
<1> DEFINE len == Len(Allocs(Top.fn))
           k == (len + 1) - Top.at
           name == Frees(Top.fn)[Top.at]
           u == WithPtr(Step(Top), Top.ptr \ {name})
<1>1. Top.place = "cleanup" /\ Top.at =< Len(Frees(Top.fn))
      /\ SetTop([Step(Top) EXCEPT !.ptr = @ \ {name}])
  BY DEF Free, FreeNamed
<1>2. /\ Top \in Frames /\ Building /\ Top.fn \in Functions /\ Top.fn \in Reach
      /\ Top.ptr \subseteq BufferNames
  BY ActiveIs
<1>3. /\ len \in Nat /\ Top.at \in 1 .. len /\ Held(Top) = k
      /\ Top.ptr \subseteq FirstNames(Top.fn, k)
  BY <1>1, PlaceIs
<1>4. k \in 1 .. len /\ k \in Nat /\ (len + 1) - (Top.at + 1) = k - 1 /\ Top.at + 1 =< len + 1
  BY <1>3
<1>5. name = Allocs(Top.fn)[k].name
  BY <1>2, <1>3, Shapes DEF Shape
<1>6. /\ FirstNames(Top.fn, k) = FirstNames(Top.fn, k - 1) \cup {name}
      /\ name \notin FirstNames(Top.fn, k - 1)
  <2> HIDE DEF k, name
  <2> QED BY <1>2, <1>4, <1>5, NamesGrow
<1>7. Step(Top) \in Frames /\ Step(Top).fn = Top.fn /\ Step(Top).place = "cleanup"
      /\ Step(Top).at = Top.at + 1 /\ Step(Top).ptr = Top.ptr
  BY <1>1, <1>2, FrameFields
<1>8. /\ u \in Frames /\ u.fn = Top.fn /\ u.place = "cleanup" /\ u.at = Top.at + 1
      /\ u.ptr = Top.ptr \ {name}
  <2>1. Top.ptr \ {name} \in SUBSET BufferNames
    BY <1>2
  <2> QED BY <1>7, <2>1, FrameFields
<1>9. SetTop(u)
  <2>1. u = [Step(Top) EXCEPT !.ptr = @ \ {name}]
    BY <1>7 DEF WithPtr, Frames
  <2> QED BY <1>1, <2>1
<1> HIDE DEF u
<1>10. Held(u) = (len + 1) - (Top.at + 1)
  <2>1. Len(Allocs(u.fn)) = len /\ len \in Nat /\ u.at \in Nat
    BY <1>3, <1>8
  <2> QED BY <1>8, <2>1 DEF Held
<1>11. Held(u) = k - 1
  BY <1>4, <1>10
<1>12. FrameOk(u)
  <2>1. u.at =< Len(Allocs(u.fn)) + 1
    BY <1>4, <1>8
  <2> HIDE DEF len, k, name
  <2> QED BY <1>3, <1>6, <1>8, <1>11, <2>1 DEF FrameOk
<1>13. Freeing(u, name, k)
  <2> HIDE DEF k, name
  <2> QED BY <1>1, <1>3, <1>4, <1>5, <1>6, <1>8, <1>11 DEF Freeing
<1> QED BY <1>4, <1>8, <1>9, <1>12, <1>13

LEMMA LastBlock ==
  ASSUME Active, NEW f, NEW name, NEW k, Freeing(f, name, k),
         NEW j \in 1 .. Len(heap), heap[j].depth = Depth, heap[j].name = name
  PROVE  j = Len(heap)
<1> DEFINE a == Allocs(Top.fn)
<1>1. heap \in Seq(Blocks) /\ Len(heap) \in Nat /\ DOMAIN heap = 1 .. Len(heap)
  BY ActiveInv DEF AllocationType
<1>2. PICK len \in Nat : len = Len(heap)
  BY <1>1
<1>3. SUFFICES ASSUME j # len PROVE FALSE
  BY <1>2
<1>4. len \in 1 .. len /\ j \in 1 .. len - 1 /\ j \in 1 .. len
  BY <1>2, <1>3
<1>5. Earlier(heap[j], heap[len])
  BY <1>1, <1>2, <1>4, ActiveInv DEF HeapInv
<1>6. PICK q \in Nat : IsBuffer(heap[len], q)
  BY <1>1, <1>2, <1>4, ActiveInv DEF HeapInv
<1>7. heap[len].depth \in 1 .. Depth /\ Depth \in Nat /\ Top = stack[Depth]
  BY <1>6, ActiveIs DEF IsBuffer
<1>8. ~(heap[j].depth < heap[len].depth)
  BY <1>7
<1>9. /\ heap[len].depth = Depth
      /\ \E w, p \in 1 .. Len(Allocs(stack[heap[len].depth].fn)) :
           IsBuffer(heap[j], w) /\ IsBuffer(heap[len], p) /\ w < p
  BY <1>5, <1>8 DEF Earlier
<1>10. PICK w, p \in 1 .. Len(a) : IsBuffer(heap[j], w) /\ IsBuffer(heap[len], p) /\ w < p
  BY <1>7, <1>9 DEF a
<1>11. /\ name = a[w].name /\ heap[len].name = a[p].name /\ heap[len].name \in Top.ptr
  BY <1>7, <1>9, <1>10 DEF IsBuffer, a
<1>12. /\ k \in 1 .. Len(a) /\ name = a[k].name /\ Top.ptr \subseteq FirstNames(Top.fn, k)
  BY DEF Freeing, a
<1>13. /\ \A x, y \in 1 .. Len(a) : a[x].name = a[y].name => x = y
       /\ Len(a) \in Nat
  BY ActiveIs, Shapes, PlaceIs DEF Shape, a
<1>14. w = k
  BY <1>11, <1>12, <1>13
<1>15. PICK x \in 1 .. k : heap[len].name = a[x].name
  BY <1>11, <1>12 DEF FirstNames, a
<1>16. x = p
  <2>1. x \in 1 .. Len(a)
    BY <1>12, <1>13
  <2> QED BY <1>10, <1>11, <1>13, <1>15, <2>1
<1> QED BY <1>10, <1>12, <1>13, <1>14, <1>15, <1>16

LEMMA FirstPart ==
  ASSUME NEW S, NEW s \in Seq(S), NEW m \in 0 .. Len(s)
  PROVE  LET t == SubSeq(s, 1, m) IN
         /\ t \in Seq(S) /\ Len(t) = m /\ \A k \in 1 .. m : t[k] = s[k]
<1>1. m \in Int /\ 1 \in Int /\ \A k \in 1 .. m : s[k] \in S
  OBVIOUS
<1>2. /\ SubSeq(s, 1, m) \in Seq(S)
      /\ Len(SubSeq(s, 1, m)) = IF 1 =< m THEN m - 1 + 1 ELSE 0
      /\ \A k \in 1 .. m - 1 + 1 : SubSeq(s, 1, m)[k] = s[1 + k - 1]
  BY <1>1, SubSeqProperties
<1>3. /\ m - 1 + 1 = m /\ (IF 1 =< m THEN m - 1 + 1 ELSE 0) = m
      /\ \A k \in 1 .. m : 1 + k - 1 = k
  BY <1>1
<1> QED BY <1>2, <1>3

\* Without the last block.
LEMMA RemoveLast ==
  ASSUME NEW S, NEW s \in Seq(S), s # <<>>
  PROVE  LET t == RemoveAt(s, Len(s)) IN
         /\ t \in Seq(S) /\ Len(t) = Len(s) - 1 /\ Len(s) \in Nat \ {0}
         /\ DOMAIN t = 1 .. Len(s) - 1
         /\ \A k \in 1 .. Len(s) - 1 : t[k] = s[k]
<1> DEFINE len == Len(s)
           u == SubSeq(s, 1, len - 1)
           v == SubSeq(s, len + 1, len)
<1>1. len \in Nat \ {0}
  OBVIOUS
<1>2. u \in Seq(S) /\ Len(u) = len - 1 /\ \A k \in 1 .. len - 1 : u[k] = s[k]
  <2>1. len - 1 \in 0 .. Len(s)
    BY <1>1
  <2> QED BY <2>1, FirstPart
<1>3. v = <<>>
  BY <1>1
<1>4. RemoveAt(s, len) = u \o v
  BY DEF RemoveAt
<1> HIDE DEF u, v, len
<1>5. RemoveAt(s, len) = u
  BY <1>2, <1>3, <1>4
<1> QED BY <1>1, <1>2, <1>5 DEF len

LEMMA FreeNothing ==
  ASSUME Active, Free, Frees(Top.fn)[Top.at] \notin Top.ptr
  PROVE  MemInv'
<1>1. PICK f \in Frames, k \in Nat :
        /\ Freeing(f, Frees(Top.fn)[Top.at], k) /\ FrameOk(f) /\ SetTop(f)
  BY FreeIs
<1>2. UNCHANGED <<build, result, op, highMark, failures, heap, offset>>
  BY DEF Free, FreeNamed
<1>3. f.fn = Top.fn /\ f.place = "cleanup" /\ Top.place = "cleanup" /\ f.ptr = Top.ptr
  BY <1>1 DEF Freeing
<1>4. Frees(Top.fn)[Top.at] \in FirstNames(Top.fn, Held(Top))
  BY <1>1 DEF Freeing
<1>5. failures # 0 /\ failures \in Nat
  BY <1>4, ActiveFailures
<1>6. result = OUT_OF_MEMORY
  BY <1>3, <1>5, ActiveFailures
<1>7. ~Passed(f, result') /\ result' \in {Unset, 0, FAIL, OUT_OF_MEMORY, RNG_FAIL}
  BY <1>2, <1>3, <1>6 DEF Passed, OUT_OF_MEMORY
<1> QED BY <1>1, <1>2, <1>3, <1>5, <1>6, <1>7, Moved

LEMMA FreeSets ==
  ASSUME Active, Free, Frees(Top.fn)[Top.at] \in Top.ptr
  PROVE  \E f \in Frames, k \in Nat, len \in Nat :
           /\ Freeing(f, Frees(Top.fn)[Top.at], k) /\ FrameOk(f) /\ SetTop(f)
           /\ heap \in Seq(Blocks) /\ Len(heap) = len + 1 /\ DOMAIN heap = 1 .. len + 1
           /\ heap[len + 1].depth = Depth /\ heap[len + 1].name = Frees(Top.fn)[Top.at]
           /\ offset' = heap[len + 1].addr
           /\ heap' \in Seq(Blocks) /\ DOMAIN heap' = 1 .. len /\ Len(heap') = len
           /\ \A j \in 1 .. len : heap'[j] = heap[j]
<1>1. PICK f \in Frames, k \in Nat :
        /\ Freeing(f, Frees(Top.fn)[Top.at], k) /\ FrameOk(f) /\ SetTop(f)
  BY FreeIs
<1>2. heap \in Seq(Blocks) /\ Len(heap) \in Nat /\ DOMAIN heap = 1 .. Len(heap)
  BY ActiveInv DEF AllocationType
<1>3. PICK j \in 1 .. Len(heap) :
        /\ heap[j].depth = Depth /\ heap[j].name = Frees(Top.fn)[Top.at]
        /\ offset' = heap[j].addr /\ heap' = RemoveAt(heap, j)
  BY <1>2 DEF Free, FreeNamed
<1>4. j = Len(heap)
  BY <1>1, <1>3, LastBlock
<1>5. PICK len \in Nat : len + 1 = Len(heap)
  <2>1. Len(heap) - 1 \in Nat /\ (Len(heap) - 1) + 1 = Len(heap)
    BY <1>2, <1>3
  <2> QED BY <2>1
<1>6. heap # <<>>
  BY <1>2, <1>5
<1>7. /\ heap' \in Seq(Blocks) /\ Len(heap') = Len(heap) - 1 /\ DOMAIN heap' = 1 .. Len(heap) - 1
      /\ \A w \in 1 .. Len(heap) - 1 : heap'[w] = heap[w]
  BY <1>2, <1>3, <1>4, <1>6, RemoveLast
<1>8. Len(heap) - 1 = len
  BY <1>5
<1> QED BY <1>1, <1>2, <1>3, <1>4, <1>5, <1>7, <1>8

LEMMA FreeBlock ==
  ASSUME Active, Free, Frees(Top.fn)[Top.at] \in Top.ptr
  PROVE  MemInv'
<1>0. PICK name : name = Frees(Top.fn)[Top.at]
  OBVIOUS
<1>1. PICK f \in Frames, k \in Nat, len \in Nat :
           /\ Freeing(f, name, k) /\ FrameOk(f) /\ SetTop(f)
           /\ heap \in Seq(Blocks) /\ Len(heap) = len + 1 /\ DOMAIN heap = 1 .. len + 1
           /\ heap[len + 1].depth = Depth /\ heap[len + 1].name = name
           /\ offset' = heap[len + 1].addr
           /\ heap' \in Seq(Blocks) /\ DOMAIN heap' = 1 .. len /\ Len(heap') = len
           /\ \A j \in 1 .. len : heap'[j] = heap[j]
  BY <1>0, FreeSets
<1> DEFINE a == Allocs(Top.fn)
<1>2. /\ f.fn = Top.fn /\ f.place = "cleanup" /\ f.ptr = Top.ptr \ {name}
      /\ Top.place = "cleanup" /\ k \in 1 .. Len(a) /\ name = a[k].name
      /\ Held(Top) = k /\ Held(f) = k - 1
      /\ FirstNames(Top.fn, k) = FirstNames(Top.fn, k - 1) \cup {name}
      /\ name \notin FirstNames(Top.fn, k - 1)
      /\ Top.ptr \subseteq FirstNames(Top.fn, k)
  BY <1>1 DEF Freeing
<1>3. /\ UNCHANGED <<build, op, result, failures, highMark>>
  BY DEF Free, FreeNamed
<1> HIDE DEF a
<1>4. SameCode /\ SameCall
  BY <1>3, CodeKept, CallKept
<1>5. /\ Building /\ op \in Operations /\ op # "none" /\ Capacity \in Nat
      /\ Depth \in Nat \ {0} /\ Top = stack[Depth] /\ Top.fn \in Functions /\ Top.fn \in Reach
  BY ActiveIs
<1>6. /\ stack' \in Seq(Frames) /\ stack' # <<>> /\ Depth' = Depth /\ Top' = f
      /\ \A d \in 1 .. Depth : stack'[d] = IF d = Depth THEN f ELSE stack[d]
      /\ StackInv'
  BY <1>1, <1>2, <1>3, <1>5, StackSet
<1>7. \A j \in 1 .. len + 1 : heap[j].addr \in Nat /\ heap[j].size \in Nat
                            /\ Aligned(heap[j].size) \in Nat
  <2>1. \A j \in 1 .. len + 1 : heap[j] \in Blocks
    BY <1>1
  <2>2. \A j \in 1 .. len + 1 : heap[j].addr \in Nat /\ heap[j].size \in Nat
    BY <2>1 DEF Blocks
  <2> QED BY <2>2 DEF Aligned
<1>8. LiveBlocksSafe /\ (heap # <<>> => heap[1].addr = 0)
  BY ActiveInv DEF AddressInv
<1>9. /\ offset \in Nat /\ highMark \in Nat /\ offset =< highMark /\ highMark =< Capacity
      /\ offset' \in Nat /\ offset' =< offset
  <2>1. offset \in Nat /\ highMark \in Nat /\ offset =< highMark /\ highMark =< Capacity
    BY <1>5, ActiveInv DEF AllocationType, MarkInv
  <2>2. len + 1 \in 1 .. len + 1
    OBVIOUS
  <2>3. heap[len + 1].addr + Aligned(heap[len + 1].size) =< offset
    BY <1>1, <1>8, <2>2 DEF LiveBlocksSafe
  <2> QED BY <1>1, <1>7, <2>1, <2>2, <2>3
<1>10. AllocationType'
  BY <1>1, <1>3, <1>6, <1>9, ActiveInv DEF AllocationType
<1>11. ASSUME NEW j \in 1 .. len PROVE ~(heap[j].depth = Depth /\ heap[j].name = name)
  <2>1. j \in 1 .. Len(heap) /\ j # Len(heap)
    BY <1>1
  <2> QED BY <1>1, <2>1, LastBlock
<1>12. ASSUME NEW j \in 1 .. len, NEW w, IsBuffer(heap[j], w)
       PROVE  IsBuffer(heap[j], w)' /\ stack'[heap[j].depth].fn = stack[heap[j].depth].fn
  <2>1. heap[j].depth \in 1 .. Depth /\ heap[j].name \in stack[heap[j].depth].ptr
    BY <1>12 DEF IsBuffer
  <2>2. /\ stack'[heap[j].depth].fn = stack[heap[j].depth].fn
        /\ heap[j].name \in stack'[heap[j].depth].ptr
    BY <1>2, <1>5, <1>6, <1>11, <2>1
  <2> QED BY <1>1, <1>4, <1>6, <1>12, <2>1, <2>2 DEF IsBuffer, SameCode
<1>13. ASSUME NEW j \in 1 .. len PROVE \E w \in Nat : IsBuffer(heap[j], w)'
  <2>1. j \in DOMAIN heap
    BY <1>1
  <2>2. PICK w \in Nat : IsBuffer(heap[j], w)
    BY <2>1, ActiveInv DEF HeapInv
  <2> QED BY <1>12, <2>2
<1>14. ASSUME NEW d \in 1 .. Depth, NEW nm \in stack'[d].ptr
       PROVE  \E j \in 1 .. len : heap'[j].depth = d /\ heap'[j].name = nm
  <2>1. nm \in stack[d].ptr /\ ~(d = Depth /\ nm = name)
    BY <1>2, <1>5, <1>6, <1>14
  <2>2. PICK j \in 1 .. len + 1 : heap[j].depth = d /\ heap[j].name = nm
    <3>1. \E j \in DOMAIN heap : heap[j].depth = d /\ heap[j].name = nm
      BY <2>1, Pointed
    <3> QED BY <1>1, <3>1
  <2>3. j # len + 1
    BY <1>1, <2>1, <2>2
  <2>4. j \in 1 .. len
    BY <2>3
  <2> QED BY <1>1, <2>2, <2>4
<1>15. ASSUME NEW j \in 1 .. len, NEW w \in 1 .. j - 1 PROVE Earlier(heap[w], heap[j])'
  <2>1. w \in 1 .. len /\ w \in DOMAIN heap /\ j \in DOMAIN heap /\ heap'[w] = heap[w]
        /\ heap'[j] = heap[j]
    BY <1>1
  <2>2. Earlier(heap[w], heap[j])
    BY <2>1, ActiveInv DEF HeapInv
  <2>3. CASE heap[w].depth < heap[j].depth
    BY <2>1, <2>3 DEF Earlier
  <2>4. CASE ~(heap[w].depth < heap[j].depth)
    <3>1. heap[w].depth = heap[j].depth
      BY <2>2, <2>4 DEF Earlier
    <3>2. PICK p, r \in 1 .. Len(Allocs(stack[heap[j].depth].fn)) :
            IsBuffer(heap[w], p) /\ IsBuffer(heap[j], r) /\ p < r
      BY <2>2, <2>4 DEF Earlier
    <3>3. IsBuffer(heap[w], p)' /\ IsBuffer(heap[j], r)'
          /\ stack'[heap[j].depth].fn = stack[heap[j].depth].fn
      BY <1>12, <2>1, <3>2
    <3>4. /\ heap'[w].depth = heap'[j].depth
          /\ p \in 1 .. Len(Allocs(stack'[heap'[j].depth].fn))
          /\ r \in 1 .. Len(Allocs(stack'[heap'[j].depth].fn))
      BY <2>1, <3>1, <3>2, <3>3
    <3> QED BY <1>4, <3>2, <3>3, <3>4 DEF Earlier, SameCode
  <2> QED BY <2>3, <2>4
<1>16. HeapInv'
  <2>1. \A j \in DOMAIN heap' : \E w \in Nat : IsBuffer(heap[j], w)'
    BY <1>1, <1>13
  <2>2. \A d \in 1 .. Depth : \A nm \in stack'[d].ptr :
          \E j \in DOMAIN heap' : heap'[j].depth = d /\ heap'[j].name = nm
    BY <1>1, <1>14
  <2>3. \A j \in DOMAIN heap' : \A w \in 1 .. j - 1 : Earlier(heap[w], heap[j])'
    BY <1>1, <1>15
  <2> QED BY <1>6, <2>1, <2>2, <2>3 DEF HeapInv
<1>17. AddressInv'
  <2>1. ASSUME NEW j \in 1 .. len
        PROVE  /\ heap'[j].addr + Aligned(heap'[j].size) =< offset'
               /\ \A w \in 1 .. j - 1 :
                    heap'[w].addr + Aligned(heap'[w].size) =< heap'[j].addr
    <3>1. heap'[j] = heap[j] /\ j \in 1 .. (len + 1) - 1 /\ j \in DOMAIN heap
          /\ len + 1 \in DOMAIN heap
      BY <1>1
    <3>2. heap[j].addr + Aligned(heap[j].size) =< heap[len + 1].addr
      BY <1>8, <3>1 DEF LiveBlocksSafe
    <3>3. ASSUME NEW w \in 1 .. j - 1
          PROVE  heap'[w].addr + Aligned(heap'[w].size) =< heap'[j].addr
      <4>1. heap'[w] = heap[w]
        BY <1>1
      <4> QED BY <1>8, <3>1, <4>1 DEF LiveBlocksSafe
    <3> QED BY <1>1, <3>1, <3>2, <3>3
  <2>2. heap # <<>> /\ 1 \in DOMAIN heap
    BY <1>1
  <2>3. heap' = <<>> => offset' = 0
    <3>1. HAVE heap' = <<>>
    <3>2. len = 0
      BY <1>1, <3>1
    <3> QED BY <1>1, <1>8, <2>2, <3>2
  <2>4. heap' # <<>> => heap'[1].addr = 0
    <3>1. HAVE heap' # <<>>
    <3>2. len # 0
      BY <1>1, <3>1
    <3>3. 1 \in 1 .. len
      BY <3>2
    <3> QED BY <1>1, <1>8, <2>2, <3>3
  <2> QED BY <1>1, <2>1, <2>3, <2>4 DEF AddressInv, LiveBlocksSafe
<1>18. MarkInv'
  BY <1>3, <1>4, <1>9 DEF MarkInv, SameCall
<1>19. PeakInv'
  <2>1. op \in Tight /\ Passed(f, result') => highMark = Capacity
    <3>1. Passed(f, result') => Passed(Top, result)
      BY <1>2, <1>3 DEF Passed
    <3>2. Depth \in 1 .. Depth
      BY <1>5
    <3> QED BY <1>5, <3>1, <3>2, ActiveInv DEF PeakInv
  <2>2. \A d \in 1 .. Len(stack') :
          \/ d < Depth /\ stack'[d] = stack[d]
          \/ op \in Tight /\ Passed(stack'[d], result') => highMark' = Capacity
    BY <1>3, <1>5, <1>6, <2>1 DEF Depth
  <2> QED BY <1>3, <1>6, <2>2, PeakKept
<1>20. ASSUME Placed PROVE Placed'
  <2> SUFFICES ASSUME NEW d \in 1 .. Depth, NEW j \in 1 .. len,
                      NEW w \in 1 .. Len(Allocs(stack'[d].fn)),
                      heap'[j].depth = d, heap'[j].name = Allocs(stack'[d].fn)[w].name
               PROVE  heap'[j].addr = Base(stack'[d].fn) + Before(stack'[d].fn, w)
    <3>1. DOMAIN heap' = 1 .. len /\ Depth' = Depth
      BY <1>1, <1>6
    <3> QED BY <1>4, <3>1, PlacedAfter
  <2>1. stack'[d].fn = stack[d].fn
    BY <1>2, <1>5, <1>6
  <2>2. heap'[j] = heap[j] /\ j \in DOMAIN heap
    BY <1>1
  <2>3. w \in 1 .. Len(Allocs(stack[d].fn)) /\ heap[j].depth = d
        /\ heap[j].name = Allocs(stack[d].fn)[w].name
    BY <2>1, <2>2
  <2>4. heap[j].addr = Base(stack[d].fn) + Before(stack[d].fn, w)
    BY <1>20, <2>2, <2>3, PlacedAt
  <2> QED BY <2>1, <2>2, <2>4
<1>21. FailureInv'
  <2>1. ASSUME failures' = 0
        PROVE  /\ failures = 0 /\ Placed'
               /\ f.ptr = FirstNames(f.fn, Held(f))
               /\ offset' = Base(f.fn) + Before(f.fn, Held(f) + 1)
               /\ (Depth = 1 /\ f.place = "alloc") \/ result' # OUT_OF_MEMORY
    <3>1. failures = 0
      BY <1>3, <2>1
    <3>2. Placed
      BY <3>1, ActiveInv DEF FailureInv
    <3>3. Top.ptr = FirstNames(Top.fn, k) /\ result # OUT_OF_MEMORY
      BY <1>2, <3>1, ActiveFailures
    <3>4. f.ptr = FirstNames(f.fn, Held(f))
      BY <1>2, <3>3
    <3>5. offset' = Base(f.fn) + Before(f.fn, k)
      <4>1. Depth \in 1 .. Depth /\ len + 1 \in DOMAIN heap
        BY <1>1, <1>5
      <4>2. heap[len + 1].addr = Base(stack[Depth].fn) + Before(stack[Depth].fn, k)
        <5>1. k \in 1 .. Len(Allocs(stack[Depth].fn)) /\ name = Allocs(stack[Depth].fn)[k].name
          BY <1>2, <1>5 DEF a
        <5>2. heap[len + 1].depth = Depth /\ heap[len + 1].name = name
          BY <1>1
        <5> QED BY <3>2, <4>1, <5>1, <5>2, PlacedAt
      <4>3. offset' = heap[len + 1].addr /\ f.fn = stack[Depth].fn
        BY <1>1, <1>2, <1>5
      <4> QED BY <4>2, <4>3
    <3>6. Held(f) + 1 = k
      BY <1>2
    <3> QED BY <1>3, <1>20, <3>1, <3>2, <3>3, <3>4, <3>5, <3>6
  <2>2. failures' # 0 => result' = OUT_OF_MEMORY /\ f.place = "cleanup"
    BY <1>2, <1>3, ActiveFailures
  <2> QED BY <1>2, <1>3, <1>6, <2>1, <2>2, FailureSet
<1> QED BY <1>6, <1>10, <1>16, <1>17, <1>18, <1>19, <1>21 DEF MemInv

LEMMA BodyCallKeeps == ASSUME Active, BodyCall PROVE MemInv'
<1>a. PICK g : g = Item
  OBVIOUS
<1> DEFINE f == Frame(g)
<1>1. /\ InBody /\ Top.at =< Len(Body(Top.fn)) /\ g \notin Atomic
      /\ stack' = Append(stack, f)
      /\ UNCHANGED <<build, result, op, heap, offset, highMark, failures>>
  BY <1>a DEF BodyCall
<1>2. /\ Top.place = "body" /\ failures = 0 /\ result # OUT_OF_MEMORY
      /\ Top.at \in 1 .. Len(Body(Top.fn)) + 1
      /\ Held(Top) = Len(Allocs(Top.fn))
  BY <1>1, BodyFacts
<1>3. /\ Building /\ op \in Operations /\ op # "none" /\ Depth \in Nat \ {0}
      /\ Top = stack[Depth] /\ Top.fn \in Functions /\ Top.fn \in Reach /\ Top \in Frames
      /\ Reach \subseteq Functions /\ Capacity \in Nat
  BY ActiveIs
<1>4. Top.at \in 1 .. Len(Body(Top.fn))
  BY <1>1, <1>2, PlaceIs
<1>5. g = Body(Top.fn)[Top.at] /\ <<Top.fn, Top.at, g>> \in CallItems
  BY <1>1, <1>3, <1>4, <1>a, ItemIs DEF Item
<1>6. g \in Reach /\ Base(g) = Base(Top.fn) + Total(Top.fn) /\ g \in Functions
  BY <1>3, <1>5, CalleeIs
<1>7. /\ f \in Frames /\ f.fn = g /\ f.place = "alloc" /\ f.at = 1 /\ f.ptr = {}
  BY <1>6, NewFrame
<1> HIDE DEF f
<1>8. stack \in Seq(Frames) /\ Depth = Len(stack)
  BY ActiveInv DEF AllocationType, Depth
<1>9. /\ stack' \in Seq(Frames) /\ Len(stack') = Depth + 1 /\ stack'[Depth + 1] = f
      /\ \A d \in 1 .. Depth : stack'[d] = stack[d]
  BY <1>1, <1>7, <1>8
<1>10. stack' # <<>> /\ Depth' = Depth + 1 /\ Top' = f
  BY <1>3, <1>9 DEF Depth, Top
<1>11. SameCode /\ SameCall
  BY <1>1, CodeKept, CallKept
<1>12. Held(f) = 0
  BY <1>7 DEF Held
<1>13. Len(Allocs(g)) \in Nat /\ FirstNames(g, 0) = {} /\ Before(g, 1) = 0 /\ Base(g) \in Nat
  <2>1. Len(Allocs(g)) \in Nat
    BY <1>3, <1>6, Shapes DEF Shape
  <2> QED BY <2>1, <1>3, <1>6, NamesGrow, BeforeIs, RoomIs
<1>14. FrameOk(f)
  <2>1. f.at =< Len(Allocs(f.fn)) + 1
    BY <1>7, <1>13
  <2> QED BY <1>7, <2>1 DEF FrameOk
<1>15. StackInv'
  <2>1. \A d \in 1 .. Depth + 1 : FrameOk(stack'[d]) /\ stack'[d].fn \in Reach
    <3> SUFFICES ASSUME NEW d \in 1 .. Depth + 1
                 PROVE  FrameOk(stack'[d]) /\ stack'[d].fn \in Reach
      OBVIOUS
    <3>1. CASE d = Depth + 1
      BY <1>6, <1>7, <1>9, <1>14, <3>1
    <3>2. CASE d # Depth + 1
      <4>1. d \in 1 .. Depth
        BY <1>3, <3>2
      <4> QED BY <1>9, <4>1, ActiveInv DEF StackInv
    <3> QED BY <3>1, <3>2
  <2>2. ASSUME NEW d \in 1 .. Depth PROVE Waits(d)'
    <3>1. CASE d = Depth
      <4>1. g \in Runs(g)
        BY DEF Runs
      <4>2. stack'[d] = Top /\ stack'[d + 1] = f
        BY <1>3, <1>9, <3>1
      <4>3. /\ stack'[d].place = "body" /\ stack'[d].at =< Len(Body(stack'[d].fn))
            /\ Body(stack'[d].fn)[stack'[d].at] \notin Atomic
            /\ stack'[d + 1].fn \in Runs(Body(stack'[d].fn)[stack'[d].at])
        BY <1>1, <1>2, <1>5, <1>7, <4>1, <4>2
      <4> QED BY <1>11, <4>3 DEF Waits, SameCode
    <3>2. CASE d # Depth
      <4>1. d \in 1 .. Depth - 1 /\ d + 1 \in 1 .. Depth
        BY <1>3, <3>2
      <4>2. Waits(d) /\ stack'[d] = stack[d] /\ stack'[d + 1] = stack[d + 1]
        BY <1>9, <4>1, ActiveInv DEF StackInv
      <4> QED BY <1>11, <4>2 DEF Waits, SameCode
    <3> QED BY <3>1, <3>2
  <2>3. stack'[1].fn \in Runs(op)
    BY <1>3, <1>9, ActiveInv DEF StackInv
  <2>4. (Depth + 1) - 1 = Depth
    BY <1>3
  <2> QED BY <1>1, <1>3, <1>10, <1>11, <2>1, <2>2, <2>3, <2>4 DEF StackInv, SameCode, SameCall
<1>16. SamePointers
  BY <1>3, <1>7, <1>8, <1>9 DEF SamePointers, Kept
<1>17. AllocationType' /\ HeapInv' /\ AddressInv' /\ MarkInv' /\ (Placed => Placed')
  <2>1. result' \in {Unset, 0, FAIL, OUT_OF_MEMORY, RNG_FAIL} /\ failures' \in Nat
    BY <1>1, ActiveFailures
  <2> QED BY <1>1, <1>9, <1>16, <2>1, Quiet
<1>18. FailureInv'
  <2>1. AllThere /\ Placed /\ failures' = 0
    BY <1>1, <1>2, ActiveInv DEF FailureInv
  <2>2. AllThere'
    <3> SUFFICES ASSUME NEW d \in 1 .. Depth + 1
                 PROVE  stack'[d].ptr = FirstNames(stack'[d].fn, Held(stack'[d]))
      BY <1>10, <1>11 DEF AllThere, SameCode
    <3>1. CASE d = Depth + 1
      BY <1>7, <1>9, <1>12, <1>13, <3>1
    <3>2. CASE d # Depth + 1
      <4>1. d \in 1 .. Depth
        BY <1>3, <3>2
      <4> QED BY <1>9, <2>1, <4>1 DEF AllThere
    <3> QED BY <3>1, <3>2
  <2>3. Filled'
    <3>1. offset = Base(Top.fn) + Before(Top.fn, Len(Allocs(Top.fn)) + 1)
      BY <1>2, ActiveFailures
    <3>2. Total(Top.fn) = Before(Top.fn, Len(Allocs(Top.fn)) + 1)
      BY <1>3, BeforeIs
    <3>3. 0 + 1 = 1 /\ Base(g) + 0 = Base(g)
      BY <1>13
    <3>4. offset' = Base(f.fn) + Before(f.fn, Held(f) + 1)
      BY <1>1, <1>6, <1>7, <1>12, <1>13, <3>1, <3>2, <3>3
    <3> QED BY <1>10, <1>11, <3>4 DEF Filled, SameCode, SameCall
  <2>4. NoError'
    BY <1>1, <1>2 DEF NoError
  <2> QED BY <1>17, <2>1, <2>2, <2>3, <2>4 DEF FailureInv
<1>19. PeakInv'
  <2>1. ASSUME NEW d \in 1 .. Len(stack')
        PROVE  \/ d < Depth /\ stack'[d] = stack[d]
               \/ op \in Tight /\ Passed(stack'[d], result') => highMark' = Capacity
    <3>1. CASE d = Depth + 1
      BY <1>7, <1>9, <3>1 DEF Passed
    <3>2. CASE d = Depth
      BY <1>1, <1>3, <1>9, <3>2, BodyFacts
    <3>3. CASE d # Depth + 1 /\ d # Depth
      BY <1>3, <1>9, <3>3
    <3> QED BY <3>1, <3>2, <3>3
  <2> QED BY <1>1, <1>10, <2>1, PeakKept
<1> QED BY <1>15, <1>17, <1>18, <1>19 DEF MemInv

\* A function that has freed its buffers holds no pointer.
LEMMA CleanIs ==
  ASSUME Active, CleanedUp
  PROVE  /\ Top.place = "cleanup" /\ Top.ptr = {} /\ Held(Top) = 0
         /\ failures = 0 => offset = Base(Top.fn) /\ result # OUT_OF_MEMORY
         /\ failures # 0 => result = OUT_OF_MEMORY
<1>1. Top.place = "cleanup" /\ Top.at > Len(Frees(Top.fn))
  BY DEF CleanedUp
<1>2. Held(Top) = 0 /\ Top.ptr \subseteq FirstNames(Top.fn, Held(Top))
  BY <1>1, PlaceIs
<1>3. /\ Building /\ Top.fn \in Functions /\ Top.fn \in Reach /\ op \in Operations
  BY ActiveIs
<1>4. FirstNames(Top.fn, 0) = {} /\ Before(Top.fn, 1) = 0 /\ Base(Top.fn) \in Nat
  BY <1>3, NamesGrow, BeforeIs, RoomIs
<1>5. failures = 0 => offset = Base(Top.fn)
  <2>1. HAVE failures = 0
  <2>2. offset = Base(Top.fn) + Before(Top.fn, 0 + 1) /\ 0 + 1 = 1
    BY <1>2, <2>1, ActiveFailures
  <2> QED BY <1>4, <2>2
<1> QED BY <1>1, <1>2, <1>4, <1>5, ActiveFailures

LEMMA TailCallKeeps == ASSUME Active, TailCall PROVE MemInv'
<1>1. CleanedUp /\ result = 0 /\ AfterCleanup(Top.fn) # <<>>
      /\ UNCHANGED <<build, result, op, heap, offset, highMark, failures>>
  BY DEF TailCall
<1>2. /\ Building /\ op \in Operations /\ op # "none" /\ Depth \in Nat \ {0}
      /\ Top = stack[Depth] /\ Top.fn \in Functions /\ Top.fn \in Reach /\ Top \in Frames
      /\ Reach \subseteq Functions
  BY ActiveIs
<1>3. Top.fn = "keypair_internal" /\ build.pct /\ AfterCleanup(Top.fn) = <<"check_pct">>
  BY <1>1, <1>2, Shapes DEF Shape
<1> DEFINE f == Frame("check_pct")
<1>4. SetTop(f)
  BY <1>3 DEF TailCall
<1>5. "check_pct" \in Functions /\ Runs("keypair_internal") = {"keypair_internal", "check_pct"}
      /\ \A g \in Functions : Top.fn \in Runs(g) => "check_pct" \in Runs(g)
  <2>1. "check_pct" \in Functions /\ "keypair_internal" \in Functions
    BY DEF Functions
  <2> QED BY <1>2, <1>3, <2>1, RunsIs
<1>6. "check_pct" \in Reach /\ Base("check_pct") = Base(Top.fn)
  BY <1>2, <1>3, <1>5, FirstIs
<1>7. /\ f \in Frames /\ f.fn = "check_pct" /\ f.place = "alloc" /\ f.at = 1 /\ f.ptr = {}
  BY <1>5, NewFrame
<1> HIDE DEF f
<1>8. Held(f) = 0
  BY <1>7 DEF Held
<1>9. Len(Allocs(f.fn)) \in Nat /\ FirstNames(f.fn, 0) = {} /\ Before(f.fn, 1) = 0
      /\ Base(f.fn) \in Nat
  <2>1. Len(Allocs(f.fn)) \in Nat
    BY <1>2, <1>5, <1>7, Shapes DEF Shape
  <2> QED BY <2>1, <1>2, <1>5, <1>6, <1>7, NamesGrow, BeforeIs, RoomIs
<1>10. FrameOk(f)
  <2>1. f.at =< Len(Allocs(f.fn)) + 1
    BY <1>7, <1>9
  <2> QED BY <1>7, <2>1 DEF FrameOk
<1>11. /\ stack' \in Seq(Frames) /\ stack' # <<>> /\ Depth' = Depth /\ Top' = f
       /\ \A d \in 1 .. Depth : stack'[d] = IF d = Depth THEN f ELSE stack[d]
       /\ StackInv'
  BY <1>1, <1>4, <1>5, <1>6, <1>7, <1>10, StackSet
<1>12. Top.ptr = {} /\ failures = 0 /\ offset = Base(Top.fn)
  BY <1>1, CleanIs DEF OUT_OF_MEMORY
<1>13. SamePointers
  BY <1>7, <1>11, <1>12, SetPointers DEF Depth
<1>14. AllocationType' /\ HeapInv' /\ AddressInv' /\ MarkInv' /\ (Placed => Placed')
  <2>1. result' \in {Unset, 0, FAIL, OUT_OF_MEMORY, RNG_FAIL} /\ failures' \in Nat
    BY <1>1, ActiveFailures
  <2> QED BY <1>1, <1>11, <1>13, <2>1, Quiet
<1>15. FailureInv'
  <2>1. Placed
    BY <1>12, ActiveInv DEF FailureInv
  <2>2. offset' = Base(f.fn) + Before(f.fn, Held(f) + 1)
    <3>1. 0 + 1 = 1 /\ Base(f.fn) + 0 = Base(f.fn)
      BY <1>9
    <3> QED BY <1>1, <1>6, <1>7, <1>8, <1>9, <1>12, <3>1
  <2>3. result' # OUT_OF_MEMORY /\ failures' = 0
    BY <1>1, <1>12 DEF OUT_OF_MEMORY
  <2> QED BY <1>1, <1>7, <1>8, <1>9, <1>11, <1>12, <1>14, <2>1, <2>2, <2>3, FailureSet
<1>16. PeakInv'
  <2>1. ~Passed(f, result')
    BY <1>7 DEF Passed
  <2>2. \A d \in 1 .. Len(stack') :
          \/ d < Depth /\ stack'[d] = stack[d]
          \/ op \in Tight /\ Passed(stack'[d], result') => highMark' = Capacity
    BY <1>2, <1>11, <2>1 DEF Depth
  <2> QED BY <1>1, <1>11, <2>2, PeakKept
<1> QED BY <1>11, <1>14, <1>15, <1>16 DEF MemInv

\* A success returns to the client or to a caller that has passed the peak.
LEMMA ReturnPeak ==
  ASSUME Active, CleanedUp, result = 0, AfterCleanup(Top.fn) = <<>>, op \in Tight,
         OnPath(Top.fn) \/ (Top.fn = "keypair_internal" /\ build.pct)
  PROVE  highMark = Capacity
<1>1. Top.place = "cleanup" /\ Depth \in 1 .. Depth /\ Top = stack[Depth]
      /\ Building /\ Top.fn \in Functions
  BY ActiveIs, CleanIs
<1>2. ~(Top.fn = "keypair_internal" /\ build.pct)
  <2>1. Top.fn = "keypair_internal" /\ build.pct => AfterCleanup(Top.fn) = <<"check_pct">>
    BY <1>1, Shapes DEF Shape
  <2> QED BY <2>1
<1>3. Passed(Top, result)
  BY <1>1, <1>2 DEF Passed
<1> QED BY <1>1, <1>3, ActiveInv DEF PeakInv

\* The function called by the client is on the way to the peak.
LEMMA FirstOnPath ==
  ASSUME Building, op \in Operations, op \in Tight, NEW fn \in Runs(op)
  PROVE  OnPath(fn) \/ (fn = "keypair_internal" /\ build.pct)
<1>1. fn \in Reach /\ op \in Functions
  BY FirstIs, OpIs
<1>2. Runs(op) = IF op = "keypair_internal" /\ build.pct
                   THEN {"keypair_internal", "check_pct"} ELSE {op}
  BY <1>1, RunsIs
<1>3. CASE op \in KeypairOperations
  <2>1. build.pct
    BY <1>3 DEF Tight, KeypairOperations, VerifyOperations
  <2>2. fn \in {"keypair", "keypair_internal", "check_pct"}
    BY <1>2, <1>3, <2>1 DEF KeypairOperations
  <2>3. fn # "keypair_internal" => OnPath(fn)
    BY <1>1, <1>3, <2>2 DEF OnPath, Verifiers
  <2> QED BY <2>1, <2>3
<1>4. CASE op \notin KeypairOperations
  BY <1>1, <1>4 DEF OnPath
<1> QED BY <1>3, <1>4

LEMMA ReturnToClient ==
  ASSUME Active, Return, Depth = 1
  PROVE  MemInv'
<1>1. /\ CleanedUp /\ ~(result = 0 /\ AfterCleanup(Top.fn) # <<>>) /\ stack' = <<>>
      /\ UNCHANGED <<build, result, op, heap, offset, highMark, failures>>
  BY DEF Return
<1>2. /\ Building /\ op \in Operations /\ op # "none" /\ Top = stack[Depth]
      /\ Top.fn \in Functions
  BY ActiveIs
<1>3. Depth' = 0 /\ stack' \in Seq(Frames) /\ Len(stack') = 0
  BY <1>1 DEF Depth
<1>4. /\ Top.place = "cleanup" /\ Top.ptr = {}
      /\ failures = 0 => result # OUT_OF_MEMORY
      /\ failures # 0 => result = OUT_OF_MEMORY
  BY <1>1, CleanIs
<1>5. StackInv'
  BY <1>1, <1>3 DEF StackInv
<1>6. SamePointers
  BY <1>2, <1>3, <1>4 DEF SamePointers, Kept, Depth
<1>7. AllocationType' /\ HeapInv' /\ AddressInv' /\ MarkInv' /\ (Placed => Placed')
  <2>1. result' \in {Unset, 0, FAIL, OUT_OF_MEMORY, RNG_FAIL} /\ failures' \in Nat
    BY <1>1, ActiveFailures
  <2> QED BY <1>1, <1>3, <1>6, <2>1, Quiet
<1>8. FailureInv'
  <2>1. CASE failures = 0
    <3>1. Placed'
      BY <1>7, <2>1, ActiveInv DEF FailureInv
    <3>2. AllThere' /\ Filled' /\ NoError'
      BY <1>1, <1>3, <1>4, <2>1 DEF AllThere, Filled, NoError
    <3> QED BY <1>1, <2>1, <3>1, <3>2 DEF FailureInv
  <2>2. CASE failures # 0
    <3>1. Failing'
      BY <1>1, <1>4, <2>2 DEF Failing
    <3> QED BY <1>1, <2>2, <3>1 DEF FailureInv
  <2> QED BY <2>1, <2>2
<1>9. PeakInv'
  <2>1. op \in Tight /\ stack' = <<>> /\ result' = 0 => highMark' = Capacity
    <3> SUFFICES ASSUME op \in Tight, result = 0 PROVE highMark = Capacity
      BY <1>1
    <3>1. Top.fn \in Runs(op)
      BY <1>2, ActiveInv DEF StackInv
    <3> QED BY <1>1, <1>2, <3>1, FirstOnPath, ReturnPeak
  <2> QED BY <1>1, <1>3, <2>1, PeakKept
<1> QED BY <1>5, <1>7, <1>8, <1>9 DEF MemInv

\* The caller of Top, and where it goes on.
Caller == stack[Depth - 1]
LEMMA CallerIs ==
  ASSUME Active, Depth # 1
  PROVE  LET c == Caller
             g == Body(c.fn)[c.at]
         IN  /\ Depth - 1 \in 1 .. Depth /\ c \in Frames /\ c.fn \in Functions /\ c.fn \in Reach
             /\ c.place = "body" /\ c.at \in 1 .. Len(Body(c.fn)) /\ Len(Body(c.fn)) \in Nat
             /\ c.ptr = Names(c.fn) /\ Held(c) = Len(Allocs(c.fn)) /\ Len(Allocs(c.fn)) \in Nat
             /\ FirstNames(c.fn, Len(Allocs(c.fn))) = Names(c.fn) /\ FrameOk(c)
             /\ <<c.fn, c.at, g>> \in CallItems /\ g \notin Atomic /\ Top.fn \in Runs(g)
             /\ Base(Top.fn) = Base(c.fn) + Before(c.fn, Len(Allocs(c.fn)) + 1)
             /\ op \in Tight /\ Passed(c, result) => highMark = Capacity
<1> DEFINE c == Caller
           g == Body(c.fn)[c.at]
<1>1. /\ Building /\ op \in Operations /\ op # "none" /\ Depth \in Nat \ {0} /\ Top = stack[Depth]
      /\ Reach \subseteq Functions /\ \A d \in 1 .. Depth : stack[d] \in Frames /\ stack[d].fn \in Reach
  BY ActiveIs
<1>2. Depth - 1 \in 1 .. Depth - 1 /\ Depth - 1 \in 1 .. Depth /\ (Depth - 1) + 1 = Depth
  BY <1>1
<1>3. c \in Frames /\ c.fn \in Functions /\ c.fn \in Reach
  BY <1>1, <1>2 DEF Caller
<1>4. Waits(Depth - 1) /\ FrameOk(c)
  BY <1>2, ActiveInv DEF StackInv, Caller
<1>5. /\ c.place = "body" /\ c.at =< Len(Body(c.fn)) /\ g \notin Atomic /\ Top.fn \in Runs(g)
  BY <1>1, <1>2, <1>4 DEF Waits, Caller
<1>6. Len(Body(c.fn)) \in Nat /\ Len(Allocs(c.fn)) \in Nat
      /\ FirstNames(c.fn, Len(Allocs(c.fn))) = Names(c.fn)
  BY <1>1, <1>3, Shapes, NamesGrow DEF Shape
<1>7. c.at \in Nat \ {0}
  BY <1>3 DEF Frames
<1>8. c.at \in 1 .. Len(Body(c.fn))
  BY <1>5, <1>6, <1>7
<1>9. c.ptr = Names(c.fn) /\ Held(c) = Len(Allocs(c.fn))
  BY <1>4, <1>5 DEF FrameOk, Held
<1> HIDE DEF c
<1>10. <<c.fn, c.at, g>> \in CallItems
  BY <1>3, <1>5, <1>8, ItemIs
<1>11. PICK h : h = g
  OBVIOUS
<1>12. h \in Reach /\ Base(h) = Base(c.fn) + Total(c.fn)
  BY <1>1, <1>3, <1>10, <1>11, CalleeIs
<1>13. Base(Top.fn) = Base(h)
  BY <1>1, <1>5, <1>11, <1>12, FirstIs
<1>14. Total(c.fn) = Before(c.fn, Len(Allocs(c.fn)) + 1)
  BY <1>1, <1>3, BeforeIs
<1>15. op \in Tight /\ Passed(c, result) => highMark = Capacity
  BY <1>2, ActiveInv DEF PeakInv, c, Caller
<1> QED
  BY <1>2, <1>3, <1>4, <1>5, <1>6, <1>8, <1>9, <1>10, <1>12, <1>13, <1>14, <1>15 DEF c

LEMMA ContinuationIs ==
  ASSUME Active, CleanedUp, ~(result = 0 /\ AfterCleanup(Top.fn) # <<>>), Depth # 1,
         NEW f \in Continuations(Caller)
  PROVE  /\ f \in Frames /\ f.fn = Caller.fn /\ f.ptr = Caller.ptr /\ FrameOk(f)
         /\ Held(f) = Held(Caller) /\ f.place \in {"body", "cleanup"}
         /\ failures # 0 => f.place = "cleanup"
         /\ op \in Tight /\ Passed(f, result) => highMark = Capacity
<1> DEFINE c == Caller
           len == Len(Allocs(c.fn))
           m == Len(Body(c.fn))
           g == Body(c.fn)[c.at]
<1>1. /\ c \in Frames /\ c.fn \in Functions /\ c.fn \in Reach /\ c.place = "body"
      /\ c.at \in 1 .. m /\ m \in Nat /\ c.ptr = Names(c.fn) /\ Held(c) = len /\ len \in Nat
      /\ FirstNames(c.fn, len) = Names(c.fn) /\ FrameOk(c)
      /\ g \notin Atomic /\ Top.fn \in Runs(g)
      /\ op \in Tight /\ Passed(c, result) => highMark = Capacity
  BY CallerIs
<1>2. failures # 0 => result = OUT_OF_MEMORY
  BY CleanIs
<1>3. Building /\ op \in Operations
  BY ActiveIs
<1>4. CASE result = 0
  <2>1. f = Step(c)
    BY <1>4 DEF Continuations
  <2>2. f \in Frames /\ f.fn = c.fn /\ f.place = "body" /\ f.at = c.at + 1 /\ f.ptr = c.ptr
    BY <1>1, <2>1, FrameFields
  <2> HIDE DEF c
  <2>3. Held(f) = len
    BY <2>2 DEF Held
  <2>4. FrameOk(f)
    <3>1. f.at =< Len(Body(f.fn)) + 1
      BY <1>1, <2>2
    <3> HIDE DEF len, m
    <3> QED BY <1>1, <2>2, <2>3, <3>1 DEF FrameOk
  <2>5. failures = 0
    BY <1>2, <1>4 DEF OUT_OF_MEMORY
  <2>6. ASSUME op \in Tight, Passed(f, result) PROVE highMark = Capacity
    <3>1. OnPath(c.fn) /\ (c.fn = Peak \/ c.at + 1 > PathItem(c.fn))
      BY <2>2, <2>6 DEF Passed
    <3>2. CASE c.fn = Peak \/ c.at > PathItem(c.fn)
      BY <1>1, <2>6, <3>1, <3>2 DEF Passed
    <3>3. CASE ~(c.fn = Peak \/ c.at > PathItem(c.fn))
      <4>1. PathItem(c.fn) \in Nat
        BY DEF PathItem
      <4>2. c.at = PathItem(c.fn) /\ c.fn # Peak
        BY <1>1, <3>1, <3>3, <4>1
      <4>3. \A h \in Runs(g) : OnPath(h) \/ (h = "keypair_internal" /\ build.pct)
        BY <1>1, <1>3, <2>6, <3>1, <4>2, PathIs
      <4>4. OnPath(Top.fn) \/ (Top.fn = "keypair_internal" /\ build.pct)
        BY <1>1, <4>3
      <4> QED BY <1>4, <2>6, <4>4, ReturnPeak
    <3> QED BY <3>2, <3>3
  <2> QED BY <1>1, <2>2, <2>3, <2>4, <2>5, <2>6 DEF c
<1>5. CASE result # 0 /\ f = GoTo(c, "cleanup")
  <2>1. f \in Frames /\ f.fn = c.fn /\ f.place = "cleanup" /\ f.at = 1 /\ f.ptr = c.ptr
    BY <1>1, <1>5, FrameFields
  <2> HIDE DEF c
  <2>2. Held(f) = len
    BY <1>1, <2>1 DEF Held
  <2>3. FrameOk(f)
    <3>1. f.at =< Len(Allocs(f.fn)) + 1
      BY <1>1, <2>1
    <3> HIDE DEF len, m
    <3> QED BY <1>1, <2>1, <2>2, <3>1 DEF FrameOk
  <2>4. ~Passed(f, result)
    BY <1>5, <2>1 DEF Passed
  <2> QED BY <1>1, <2>1, <2>2, <2>3, <2>4 DEF c
<1>6. CASE result = FAIL /\ f = c
  <2>1. failures = 0
    BY <1>2, <1>6 DEF FAIL, OUT_OF_MEMORY
  <2> QED BY <1>1, <1>6, <2>1
<1>7. result # 0 => f = GoTo(c, "cleanup") \/ (result = FAIL /\ f = c)
  BY DEF Continuations
<1> QED BY <1>4, <1>5, <1>6, <1>7

LEMMA ReturnToCaller ==
  ASSUME Active, Return, Depth # 1
  PROVE  MemInv'
<1>1. /\ CleanedUp /\ ~(result = 0 /\ AfterCleanup(Top.fn) # <<>>)
      /\ UNCHANGED <<build, result, op, heap, offset, highMark, failures>>
  BY DEF Return
<1>2. PICK f \in Continuations(Caller) : stack' = SubSeq(stack, 1, Depth - 2) \o <<f>>
  BY DEF Return, Caller
<1>3. /\ f \in Frames /\ f.fn = Caller.fn /\ f.ptr = Caller.ptr /\ FrameOk(f)
      /\ Held(f) = Held(Caller) /\ f.place \in {"body", "cleanup"}
      /\ failures # 0 => f.place = "cleanup"
      /\ op \in Tight /\ Passed(f, result) => highMark = Capacity
  BY <1>1, ContinuationIs
<1>4. /\ Building /\ op \in Operations /\ op # "none" /\ Depth \in Nat \ {0} /\ Top = stack[Depth]
      /\ \A d \in 1 .. Depth : stack[d] \in Frames /\ stack[d].fn \in Reach
  BY ActiveIs
<1>5. /\ Top.ptr = {} /\ Top.place = "cleanup"
      /\ failures = 0 => offset = Base(Top.fn) /\ result # OUT_OF_MEMORY
      /\ failures # 0 => result = OUT_OF_MEMORY
  BY <1>1, CleanIs
<1>6. stack \in Seq(Frames) /\ Depth = Len(stack)
  BY ActiveInv DEF AllocationType, Depth
<1>7. PICK e \in Nat \ {0} : e = Depth - 1 /\ Depth = e + 1 /\ Depth - 2 = e - 1
  <2>1. Depth - 1 \in Nat \ {0} /\ Depth = (Depth - 1) + 1 /\ Depth - 2 = (Depth - 1) - 1
    BY <1>4
  <2> QED BY <2>1
<1>8. /\ stack' \in Seq(Frames) /\ Len(stack') = e /\ stack'[e] = f
      /\ \A d \in 1 .. e - 1 : stack'[d] = stack[d]
  <2> DEFINE t == SubSeq(stack, 1, e - 1)
  <2>1. e - 1 \in 0 .. Len(stack)
    BY <1>6, <1>7
  <2>2. t \in Seq(Frames) /\ Len(t) = e - 1 /\ \A d \in 1 .. e - 1 : t[d] = stack[d]
    BY <1>6, <2>1, FirstPart
  <2>3. stack' = t \o <<f>>
    BY <1>2, <1>7
  <2> HIDE DEF t
  <2> QED BY <1>3, <1>7, <2>2, <2>3
<1>9. stack' # <<>> /\ Depth' = e /\ Top' = f
  BY <1>7, <1>8 DEF Depth, Top
<1>10. SameCode /\ SameCall
  BY <1>1, CodeKept, CallKept
<1>11. /\ Caller = stack[e] /\ Caller.place = "body" /\ Caller.fn \in Reach
       /\ Held(Caller) = Len(Allocs(Caller.fn)) /\ Caller.ptr = Names(Caller.fn)
       /\ FirstNames(Caller.fn, Len(Allocs(Caller.fn))) = Names(Caller.fn)
       /\ Base(Top.fn) = Base(Caller.fn) + Before(Caller.fn, Len(Allocs(Caller.fn)) + 1)
  BY <1>7, CallerIs DEF Caller
<1>12. \A d \in 1 .. e : stack'[d] = IF d = e THEN f ELSE stack[d]
  BY <1>7, <1>8
<1>13. StackInv'
  <2>1. \A d \in 1 .. e : FrameOk(stack'[d]) /\ stack'[d].fn \in Reach
    <3> SUFFICES ASSUME NEW d \in 1 .. e PROVE FrameOk(stack'[d]) /\ stack'[d].fn \in Reach
      OBVIOUS
    <3>1. d \in 1 .. Depth
      BY <1>7
    <3>2. FrameOk(stack[d]) /\ stack[d].fn \in Reach
      BY <3>1, ActiveInv DEF StackInv
    <3> QED BY <1>3, <1>11, <1>12, <3>2
  <2>2. ASSUME NEW d \in 1 .. e - 1 PROVE Waits(d)'
    <3>1. d \in 1 .. Depth - 1 /\ d \in 1 .. e /\ d + 1 \in 1 .. e /\ d # e
      BY <1>7
    <3>2. Waits(d) /\ stack'[d] = stack[d] /\ stack'[d + 1].fn = stack[d + 1].fn
      BY <1>3, <1>11, <1>12, <3>1, ActiveInv DEF StackInv
    <3> QED BY <1>10, <3>2 DEF Waits, SameCode
  <2>3. stack'[1].fn \in Runs(op)
    <3>1. 1 \in 1 .. e
      BY <1>7
    <3>2. stack'[1].fn = stack[1].fn
      BY <1>3, <1>11, <1>12, <3>1
    <3> QED BY <3>2, ActiveInv DEF StackInv
  <2> QED BY <1>1, <1>4, <1>9, <1>10, <2>1, <2>2, <2>3 DEF StackInv, SameCode, SameCall
<1>14. SamePointers
  <2>1. Kept(stack, stack')
    <3> SUFFICES ASSUME NEW d \in 1 .. Depth
                 PROVE  \/ stack[d].ptr = {}
                        \/ d =< e /\ stack'[d].fn = stack[d].fn /\ stack'[d].ptr = stack[d].ptr
      BY <1>6, <1>8 DEF Kept
    <3>1. CASE d = Depth
      BY <1>4, <1>5, <3>1
    <3>2. CASE d # Depth
      <4>1. d \in 1 .. e
        BY <1>7, <3>2
      <4> QED BY <1>3, <1>11, <1>12, <4>1
    <3> QED BY <3>1, <3>2
  <2>2. Kept(stack', stack)
    <3> SUFFICES ASSUME NEW d \in 1 .. e
                 PROVE  d =< Depth /\ stack[d].fn = stack'[d].fn /\ stack[d].ptr = stack'[d].ptr
      BY <1>6, <1>8 DEF Kept
    <3>1. d =< Depth
      BY <1>7
    <3> QED BY <1>3, <1>11, <1>12, <3>1
  <2> QED BY <2>1, <2>2 DEF SamePointers
<1>15. AllocationType' /\ HeapInv' /\ AddressInv' /\ MarkInv' /\ (Placed => Placed')
  <2>1. result' \in {Unset, 0, FAIL, OUT_OF_MEMORY, RNG_FAIL} /\ failures' \in Nat
    BY <1>1, ActiveFailures
  <2> QED BY <1>1, <1>8, <1>14, <2>1, Quiet
<1>16. FailureInv'
  <2>1. CASE failures = 0
    <3>1. AllThere /\ Placed /\ failures' = 0
      BY <1>1, <2>1, ActiveInv DEF FailureInv
    <3>2. \A d \in 1 .. e : stack'[d].ptr = FirstNames(stack'[d].fn, Held(stack'[d]))
      <4> SUFFICES ASSUME NEW d \in 1 .. e
                   PROVE  stack'[d].ptr = FirstNames(stack'[d].fn, Held(stack'[d]))
        OBVIOUS
      <4>1. CASE d = e
        BY <1>3, <1>11, <1>12, <4>1
      <4>2. CASE d # e
        <5>1. d \in 1 .. Depth /\ stack'[d] = stack[d]
          BY <1>7, <1>12, <4>2
        <5> QED BY <3>1, <5>1 DEF AllThere
      <4> QED BY <4>1, <4>2
    <3>3. AllThere'
      BY <1>9, <1>10, <3>2 DEF AllThere, SameCode
    <3>4. offset' = Base(f.fn) + Before(f.fn, Held(f) + 1)
      BY <1>1, <1>3, <1>5, <1>11, <2>1
    <3>5. Filled'
      BY <1>9, <1>10, <3>4 DEF Filled, SameCode, SameCall
    <3>6. NoError'
      BY <1>1, <1>5, <2>1 DEF NoError
    <3> QED BY <1>15, <3>1, <3>3, <3>5, <3>6 DEF FailureInv
  <2>2. CASE failures # 0
    <3>1. Failing'
      BY <1>1, <1>3, <1>5, <1>9, <2>2 DEF Failing
    <3> QED BY <1>1, <2>2, <3>1 DEF FailureInv
  <2> QED BY <2>1, <2>2
<1>17. PeakInv'
  <2>1. ASSUME NEW d \in 1 .. Len(stack')
        PROVE  \/ d < Depth /\ stack'[d] = stack[d]
               \/ op \in Tight /\ Passed(stack'[d], result') => highMark' = Capacity
    <3>1. d \in 1 .. e
      BY <1>8
    <3>2. CASE d = e
      BY <1>1, <1>3, <1>12, <3>1, <3>2
    <3>3. CASE d # e
      BY <1>7, <1>12, <3>1, <3>3
    <3> QED BY <3>2, <3>3
  <2> QED BY <1>1, <1>9, <2>1, PeakKept
<1> QED BY <1>13, <1>15, <1>16, <1>17 DEF MemInv

\* A call starts with an empty buffer.
StartOk ==
  Building /\ op \in Operations =>
    /\ op \in Functions /\ op # "none" /\ op \in Runs(op) /\ op \in Reach /\ Capacity \in Nat
    /\ FrameOk(Frame(op)) /\ FirstNames(op, Held(Frame(op))) = {}
    /\ Base(op) + Before(op, Held(Frame(op)) + 1) = 0

LEMMA StartIs == StartOk
<1> SUFFICES ASSUME Building, op \in Operations
             PROVE  /\ op \in Functions /\ op # "none" /\ op \in Runs(op) /\ op \in Reach
                    /\ Capacity \in Nat /\ FrameOk(Frame(op))
                    /\ FirstNames(op, Held(Frame(op))) = {}
                    /\ Base(op) + Before(op, Held(Frame(op)) + 1) = 0
  BY DEF StartOk
<1>1. op \in Functions
  BY OpIs
<1>2. op # "none"
  BY <1>1 DEF Functions
<1>3. op \in Runs(op)
  BY DEF Runs
<1>4. op \in Reach /\ Base(op) = 0
  BY <1>3, FirstIs
<1>5. Capacity \in Nat
  <2>1. op \in KeyOperations \cup SignOperations \cup VerifyOperations
    BY AllocationAssumption
  <2>2. DocumentedKeypair \in Nat /\ DocumentedSign \in Nat /\ DocumentedVerify \in Nat
    <3>1. build.level \in {44, 65, 87}
      BY AllocationAssumption DEF Building
    <3> QED BY <3>1 DEF DocumentedKeypair, DocumentedSign, DocumentedVerify
  <2> QED BY <2>1, <2>2, CapacityIs
<1> DEFINE f == Frame(op)
<1>6. /\ f.fn = op /\ f.place = "alloc" /\ f.at = 1 /\ f.ptr = {}
  BY <1>1, NewFrame
<1> HIDE DEF f
<1>7. Held(f) = 0 /\ 0 + 1 = 1
  BY <1>6 DEF Held
<1>8. Len(Allocs(op)) \in Nat /\ FirstNames(op, 0) = {} /\ Before(op, 1) = 0
  <2>1. Len(Allocs(op)) \in Nat
    BY <1>1, Shapes DEF Shape
  <2> QED BY <2>1, <1>1, NamesGrow, BeforeIs
<1>9. FrameOk(f)
  <2>1. f.at =< Len(Allocs(f.fn)) + 1
    BY <1>6, <1>8
  <2> QED BY <1>6, <2>1 DEF FrameOk
<1> QED BY <1>1, <1>2, <1>3, <1>4, <1>5, <1>7, <1>8, <1>9 DEF f

LEMMA NextStart == StartOk'
BY StartIs, PTL

\* Between two calls the buffer is empty.
LEMMA IdleIs ==
  ASSUME AllocationType, HeapInv, AddressInv, stack = <<>>
  PROVE  heap = <<>> /\ offset = 0 /\ Depth = 0
<1>1. Depth = 0
  BY DEF Depth
<1>2. heap \in Seq(Blocks)
  BY DEF AllocationType
<1>3. ASSUME NEW k \in DOMAIN heap PROVE FALSE
  <2>1. PICK j \in Nat : IsBuffer(heap[k], j)
    BY DEF HeapInv
  <2>2. heap[k].depth \in 1 .. 0
    BY <1>1, <2>1 DEF IsBuffer
  <2> QED BY <2>2
<1>4. heap = <<>>
  <2>1. DOMAIN heap = 1 .. Len(heap) /\ Len(heap) \in Nat
    BY <1>2
  <2>2. Len(heap) = 0
    BY <1>3, <2>1
  <2> QED BY <1>2, <2>2
<1> QED BY <1>1, <1>4 DEF AddressInv

LEMMA InvokeKeeps == ASSUME MemInv, NEW o \in Operations, Invoke(o) PROVE MemInv'
<1>1. /\ stack = <<>> /\ stack' = <<Frame(o)>> /\ op' = o /\ highMark' = offset
      /\ failures' = 0 /\ UNCHANGED <<build, result, heap, offset>>
  BY DEF Invoke
<1>2. heap = <<>> /\ offset = 0
  BY <1>1, IdleIs DEF MemInv
<1>3. Building' /\ op' \in Operations
  BY <1>1 DEF MemInv, AllocationType, Building
<1>4. /\ o \in Functions /\ o # "none" /\ o \in Runs(op)' /\ o \in Reach' /\ Capacity' \in Nat
      /\ FrameOk(Frame(op))' /\ FirstNames(op, Held(Frame(op)))' = {}
      /\ (Base(op) + Before(op, Held(Frame(op)) + 1))' = 0
  BY <1>1, <1>3, NextStart DEF StartOk
<1>5. /\ Frame(o) \in Frames /\ Frame(o).fn = o /\ Frame(o).place = "alloc"
      /\ Frame(o).at = 1 /\ Frame(o).ptr = {}
  BY <1>4, NewFrame
<1>6. /\ stack' \in Seq(Frames) /\ Len(stack') = 1 /\ stack'[1] = Frame(op)' /\ stack' # <<>>
      /\ Frame(op)' = Frame(o)
  BY <1>1, <1>5
<1>7. Depth' = 1 /\ Top' = Frame(op)'
  BY <1>6 DEF Depth, Top
<1>8. AllocationType'
  BY <1>1, <1>2, <1>6 DEF MemInv, AllocationType
<1>9. StackInv'
  BY <1>1, <1>4, <1>5, <1>6, <1>7 DEF StackInv
<1>10. HeapInv' /\ AddressInv'
  BY <1>1, <1>2, <1>5, <1>6, <1>7 DEF HeapInv, AddressInv, LiveBlocksSafe
<1>11. FailureInv'
  <2>1. AllThere'
    <3>1. stack'[1].fn = op' /\ stack'[1] = Frame(op)' /\ stack'[1].ptr = {}
      BY <1>1, <1>5, <1>6
    <3>2. FirstNames(stack[1].fn, Held(stack[1]))' = {}
      BY <1>4, <3>1
    <3> QED BY <1>7, <3>1, <3>2 DEF AllThere
  <2>2. Placed'
    BY <1>1, <1>2 DEF Placed
  <2>3. Filled'
    BY <1>1, <1>2, <1>4, <1>5, <1>6, <1>7 DEF Filled
  <2>4. NoError'
    BY <1>5, <1>6, <1>7 DEF NoError
  <2> QED BY <1>1, <2>1, <2>2, <2>3, <2>4 DEF FailureInv
<1>12. MarkInv'
  BY <1>1, <1>2, <1>4 DEF MarkInv
<1>13. PeakInv'
  BY <1>5, <1>6, <1>7 DEF PeakInv, Passed
<1> QED BY <1>8, <1>9, <1>10, <1>11, <1>12, <1>13 DEF MemInv

LEMMA InitMem == AllocationInit => MemInv
<1> SUFFICES ASSUME AllocationInit PROVE MemInv
  OBVIOUS
<1>1. /\ build \in [level : Levels, reduceRam : RamModes, pct : PctModes]
      /\ stack = <<>> /\ result = Unset /\ op = "none"
      /\ heap = <<>> /\ offset = 0 /\ highMark = 0 /\ failures = 0
  BY DEF AllocationInit
<1>2. Depth = 0
  BY <1>1 DEF Depth
<1>3. AllocationType /\ StackInv /\ HeapInv /\ AddressInv
  BY <1>1, <1>2 DEF AllocationType, StackInv, HeapInv, AddressInv, LiveBlocksSafe
<1>4. FailureInv
  BY <1>1, <1>2 DEF FailureInv, AllThere, Placed, Filled, NoError
<1>5. MarkInv
  BY <1>1 DEF MarkInv
<1>6. PeakInv
  BY <1>1, <1>2 DEF PeakInv, Unset
<1> QED BY <1>3, <1>4, <1>5, <1>6 DEF MemInv

LEMMA StutterMem == ASSUME MemInv, UNCHANGED allocationVars PROVE MemInv'
<1>1. UNCHANGED <<build, stack, result, op, heap, offset, highMark, failures>>
  BY DEF allocationVars
<1>2. SameCode /\ SameCall
  BY <1>1, CodeKept, CallKept
<1>3. Depth' = Depth /\ Top' = Top
  BY <1>1 DEF Depth, Top
<1>4. AllocationType'
  BY <1>1 DEF MemInv, AllocationType
<1>5. StackInv'
  BY <1>1, <1>2, <1>3 DEF MemInv, StackInv, Waits, SameCode, SameCall
<1>6. HeapInv'
  <2>1. \A b, j : IsBuffer(b, j)' = IsBuffer(b, j)
    BY <1>1, <1>2, <1>3 DEF IsBuffer, SameCode
  <2>2. \A a, b : Earlier(a, b)' = Earlier(a, b)
    BY <1>1, <1>2, <2>1 DEF Earlier, SameCode
  <2> QED BY <1>1, <1>3, <2>1, <2>2 DEF MemInv, HeapInv
<1>7. AddressInv'
  BY <1>1 DEF MemInv, AddressInv, LiveBlocksSafe
<1>8. FailureInv'
  <2>1. AllThere => AllThere'
    BY <1>1, <1>2, <1>3 DEF AllThere, SameCode
  <2>4. Placed => Placed'
    BY <1>1, <1>2, <1>3, PlacedAfter DEF Placed
  <2>2. Filled' = Filled /\ NoError' = NoError
    BY <1>1, <1>2, <1>3 DEF Filled, NoError, SameCode, SameCall
  <2>3. Failing' = Failing
    BY <1>1, <1>2, <1>3 DEF Failing, SameCode
  <2> QED BY <1>1, <2>1, <2>2, <2>3, <2>4 DEF MemInv, FailureInv
<1>9. MarkInv' /\ PeakInv'
  BY <1>1, <1>2, <1>3 DEF MemInv, MarkInv, PeakInv, SameCall
<1> QED BY <1>4, <1>5, <1>6, <1>7, <1>8, <1>9 DEF MemInv

LEMMA NextMem == MemInv /\ [AllocationNext]_allocationVars => MemInv'
<1> SUFFICES ASSUME MemInv, [AllocationNext]_allocationVars PROVE MemInv'
  OBVIOUS
<1>1. CASE \E o \in Operations : Invoke(o)
  BY <1>1, InvokeKeeps
<1>2. CASE Allocate
  BY <1>2, AllocateKeeps DEF Active, Allocate, Allocating
<1>3. CASE AllocationFails
  BY <1>3, AllocationFailsKeeps DEF Active, AllocationFails, Allocating
<1>4. CASE CheckPointers
  BY <1>4, CheckPointersKeeps DEF Active, CheckPointers, CheckFor
<1>5. CASE BodyCheck
  BY <1>5, BodyCheckKeeps DEF Active, BodyCheck, InBody
<1>6. CASE BodyCall
  BY <1>6, BodyCallKeeps DEF Active, BodyCall, InBody
<1>7. CASE BodyEnd
  BY <1>7, BodyEndKeeps DEF Active, BodyEnd, InBody
<1>8. CASE Free
  BY <1>8, FreeNothing, FreeBlock DEF Active, Free, FreeNamed
<1>9. CASE TailCall
  BY <1>9, TailCallKeeps DEF Active, TailCall, CleanedUp
<1>10. CASE Return
  BY <1>10, ReturnToClient, ReturnToCaller DEF Active, Return, CleanedUp
<1>11. CASE UNCHANGED allocationVars
  BY <1>11, StutterMem
<1> QED
  BY <1>1, <1>2, <1>3, <1>4, <1>5, <1>6, <1>7, <1>8, <1>9, <1>10, <1>11
     DEF AllocationNext

LEMMA MemAlways == AllocationSpec => []MemInv
BY InitMem, NextMem, PTL DEF AllocationSpec

-----------------------------------------------------------------------------
(* The data in memory.                                                     *)

\* MLD_FREE states the buffer's size again, in the opposite order.
Restated(fn, len) ==
  \A k \in 1 .. len : Wipes(fn)[k] = Allocs(fn)[len + 1 - k].size

LEMMA RestatedIn ==
  ASSUME NEW fn \in {"check_pct", "compute_t0_t1_tr", "keypair_internal", "attempt",
                     "signature_internal", "signature", "verify_internal", "pk_from_sk"}
  PROVE  Restated(fn, Len(Allocs(fn)))
<1>1. CASE fn = "check_pct"
  <2>1. Code("check_pct") = CheckPct
    BY DEF Code
  <2>2. Allocs(fn) = <<Block("signature", MLDSA_CRYPTO_BYTES),
                       Block("pk_test", MLDSA_CRYPTO_PUBLICKEYBYTES)>>
    BY <1>1, <2>1 DEF CheckPct, Calls, Allocs
  <2>3. Wipes(fn) = <<MLDSA_CRYPTO_PUBLICKEYBYTES, MLDSA_CRYPTO_BYTES>>
    BY <1>1, <2>1 DEF CheckPct, Calls, Wipes
  <2> QED BY <2>2, <2>3 DEF Restated, Block
<1>2. CASE fn = "compute_t0_t1_tr"
  <2>1. Code("compute_t0_t1_tr") = ComputeT0T1Tr
    BY DEF Code
  <2>2. Allocs(fn) = <<Block("mat", Polymat), Block("s1hat", Polyvecl),
                       Block("t", Polyveck)>>
    BY <1>2, <2>1 DEF ComputeT0T1Tr, Calls, Allocs
  <2>3. Wipes(fn) = <<Polyveck, Polyvecl, Polymat>>
    BY <1>2, <2>1 DEF ComputeT0T1Tr, Calls, Wipes
  <2> QED BY <2>2, <2>3 DEF Restated, Block
<1>3. CASE fn = "keypair_internal"
  <2>1. Code("keypair_internal") = KeypairInternal
    BY DEF Code
  <2>2. Allocs(fn) = <<Block("seedbuf", 128), Block("inbuf", 34), Block("tr", 64),
                       Block("s1", Polyvecl), Block("s2", Polyveck),
                       Block("t1", Polyveck), Block("t0", Polyveck)>>
    BY <1>3, <2>1 DEF KeypairInternal, Calls, Allocs
  <2>3. Wipes(fn) = <<Polyveck, Polyveck, Polyveck, Polyvecl, 64, 34, 128>>
    BY <1>3, <2>1 DEF KeypairInternal, Calls, Wipes
  <2> QED BY <2>2, <2>3 DEF Restated, Block
<1>4. CASE fn = "attempt"
  <2>1. Code("attempt") = Attempt
    BY DEF Code
  <2> DEFINE yh == UnionOrStruct(Polyvecl, Polyveck)
             w1tmp == UnionOrStruct(Polyveck, Polyvecl)
  <2>2. Allocs(fn) = <<Block("challenge_bytes", CTILDEBYTES), Block("yh", yh),
                       Block("z", Poly), Block("w1tmp", w1tmp), Block("w0", Polyveck),
                       Block("cp", Poly), Block("t", Poly)>>
    BY <1>4, <2>1 DEF Attempt, Calls, Allocs
  <2>3. Wipes(fn) = <<Poly, Poly, Polyveck, w1tmp, Poly, yh, CTILDEBYTES>>
    BY <1>4, <2>1 DEF Attempt, Calls, Wipes
  <2> HIDE DEF yh, w1tmp
  <2> QED BY <2>2, <2>3 DEF Restated, Block
<1>5. CASE fn = "signature_internal"
  <2>1. Code("signature_internal") = SignatureInternal
    BY DEF Code
  <2>2. Allocs(fn) = <<Block("seedbuf", 256), Block("mat", Polymat),
                       Block("s1", Polyvecl), Block("t0", Polyveck),
                       Block("s2", Polyveck)>>
    BY <1>5, <2>1 DEF SignatureInternal, Calls, Allocs
  <2>3. Wipes(fn) = <<Polyveck, Polyveck, Polyvecl, Polymat, 256>>
    BY <1>5, <2>1 DEF SignatureInternal, Calls, Wipes
  <2> QED BY <2>2, <2>3 DEF Restated, Block
<1>6. CASE fn = "signature"
  <2>1. Code("signature") = Signature
    BY DEF Code
  <2>2. Allocs(fn) = <<Block("pre", 2 + 255 + 11 + 64), Block("rnd", 32)>>
    BY <1>6, <2>1 DEF Signature, Calls, Allocs
  <2>3. Wipes(fn) = <<32, 2 + 255 + 11 + 64>>
    BY <1>6, <2>1 DEF Signature, Calls, Wipes
  <2> QED BY <2>2, <2>3 DEF Restated, Block
<1>7. CASE fn = "verify_internal"
  <2>1. Code("verify_internal") = VerifyInternal
    BY DEF Code
  <2> DEFINE t1w1 == UnionOrStruct(Polyveck, Polyveck)
             w1 == Dims.k * POLYW1_PACKEDBYTES
  <2>2. Allocs(fn) = <<Block("buf", w1), Block("rho", 32), Block("mu", 64),
                       Block("c", CTILDEBYTES), Block("c2", CTILDEBYTES),
                       Block("cp", Poly), Block("mat", Polymat), Block("z", Polyvecl),
                       Block("t1w1", t1w1), Block("tmp", Polyveck),
                       Block("h", Polyveck)>>
    BY <1>7, <2>1 DEF VerifyInternal, Calls, Allocs
  <2>3. Wipes(fn) = <<Polyveck, Polyveck, t1w1, Polyvecl, Polymat, Poly, CTILDEBYTES,
                      CTILDEBYTES, 64, 32, w1>>
    BY <1>7, <2>1 DEF VerifyInternal, Calls, Wipes
  <2> HIDE DEF t1w1, w1
  <2> QED BY <2>2, <2>3 DEF Restated, Block
<1>8. CASE fn = "pk_from_sk"
  <2>1. Code("pk_from_sk") = PkFromSk
    BY DEF Code
  <2>2. Allocs(fn) = <<Block("rho", 32), Block("tr", 64), Block("tr_computed", 64),
                       Block("key", 32), Block("s1", Polyvecl), Block("s2", Polyveck),
                       Block("t0", Polyveck), Block("t0_computed", Polyveck),
                       Block("t1", Polyveck)>>
    BY <1>8, <2>1 DEF PkFromSk, Calls, Allocs
  <2>3. Wipes(fn) = <<Polyveck, Polyveck, Polyveck, Polyveck, Polyvecl, 32, 64, 64, 32>>
    BY <1>8, <2>1 DEF PkFromSk, Calls, Wipes
  <2> QED BY <2>2, <2>3 DEF Restated, Block
<1> QED BY <1>1, <1>2, <1>3, <1>4, <1>5, <1>6, <1>7, <1>8

LEMMA RestatedAll ==
  ASSUME NEW fn \in Functions PROVE Restated(fn, Len(Allocs(fn)))
<1>1. CASE fn \in Bare
  <2>1. Allocs(fn) = <<>> /\ Len(<<>>) = 0
    BY <1>1, BareShape
  <2> QED BY <2>1 DEF Restated
<1>2. CASE fn \notin Bare
  BY <1>2, RestatedIn DEF Functions, Bare
<1> QED BY <1>1, <1>2

\* An interval with two addresses, and the parts of it on either side of
\* what is zeroized.
Span(from, to) == [from |-> from, to |-> to]
Below(d, addr) == [d EXCEPT !.to = Min({d.to, addr})]
Above(d, end) == [d EXCEPT !.from = Max({d.from, end})]

LEMMA MinOfTwo ==
  ASSUME NEW x \in Int, NEW y \in Int
  PROVE  Min({x, y}) = IF x =< y THEN x ELSE y
BY DEF Min

LEMMA PartsIs ==
  ASSUME NEW f \in Int, NEW t \in Int, NEW addr \in Int, NEW end \in Int
  PROVE  /\ Below(Span(f, t), addr) = Span(f, IF t =< addr THEN t ELSE addr)
         /\ Above(Span(f, t), end) = Span(IF f >= end THEN f ELSE end, t)
<1>1. Span(f, t).from = f /\ Span(f, t).to = t
  BY DEF Span
<1>2. Min({t, addr}) = (IF t =< addr THEN t ELSE addr)
      /\ Max({f, end}) = (IF f >= end THEN f ELSE end)
  BY MinOfTwo, MaxOfTwo
<1> QED BY <1>1, <1>2 DEF Span, Below, Above

LEMMA PartsOfLower ==
  ASSUME NEW addr \in Nat, NEW e \in Nat, addr =< e,
         NEW f \in Nat, NEW t \in Nat, f < t, t =< addr
  PROVE  Below(Span(f, t), addr) = Span(f, t) /\ Above(Span(f, t), e) = Span(e, t)
<1>1. f \in Int /\ t \in Int /\ addr \in Int /\ e \in Int /\ ~(f >= e)
  OBVIOUS
<1>2. /\ Below(Span(f, t), addr) = Span(f, IF t =< addr THEN t ELSE addr)
      /\ Above(Span(f, t), e) = Span(IF f >= e THEN f ELSE e, t)
  BY <1>1, PartsIs
<1> QED BY <1>1, <1>2

\* Zeroizing all of the data that comes last leaves what lies below it.
LEMMA ZeroizedIs ==
  ASSUME NEW addr \in Nat, NEW size \in Nat, NEW S,
         dirty = S \cup {Span(addr, addr + size)},
         \A d \in S : \E f, t \in Nat : d = Span(f, t) /\ f < t /\ t =< addr
  PROVE  Zeroized(addr, size) = S
<1>0. PICK e \in Nat : e = addr + size /\ addr =< e
  OBVIOUS
<1> DEFINE parts == UNION {{Below(d, addr), Above(d, e)} : d \in dirty}
<1>1. Zeroized(addr, size) = {d \in parts : d.from < d.to}
  BY <1>0 DEF Zeroized, Below, Above
<1>2. ASSUME NEW d \in S
      PROVE  Below(d, addr) = d /\ d.from < d.to /\ ~(Above(d, e).from < Above(d, e).to)
  <2>1. PICK f, t \in Nat : d = Span(f, t) /\ f < t /\ t =< addr
    BY <1>2
  <2>2. Below(d, addr) = Span(f, t) /\ Above(d, e) = Span(e, t)
    BY <1>0, <2>1, PartsOfLower
  <2> QED BY <1>0, <2>1, <2>2 DEF Span
<1>3. LET l == Span(addr, e)
      IN  ~(Below(l, addr).from < Below(l, addr).to) /\ ~(Above(l, e).from < Above(l, e).to)
  <2>0. addr \in Int /\ e \in Int
    BY <1>0
  <2>1. /\ Below(Span(addr, e), addr) = Span(addr, IF e =< addr THEN e ELSE addr)
        /\ Above(Span(addr, e), e) = Span(IF addr >= e THEN addr ELSE e, e)
    BY <2>0, PartsIs
  <2>2. Below(Span(addr, e), addr) = Span(addr, addr) /\ Above(Span(addr, e), e) = Span(e, e)
    BY <1>0, <2>1
  <2> QED BY <1>0, <2>1, <2>2 DEF Span
<1>4. \A d \in {p \in parts : p.from < p.to} : d \in S
  <2> SUFFICES ASSUME NEW d \in parts, d.from < d.to PROVE d \in S
    OBVIOUS
  <2>1. PICK c \in dirty : d = Below(c, addr) \/ d = Above(c, e)
    OBVIOUS
  <2>2. c \in S
    BY <1>0, <1>3, <2>1
  <2> QED BY <1>2, <2>1, <2>2
<1>5. \A d \in S : d \in {p \in parts : p.from < p.to}
  <2> SUFFICES ASSUME NEW d \in S PROVE d \in parts /\ d.from < d.to
    OBVIOUS
  <2>1. Below(d, addr) \in parts
    OBVIOUS
  <2> QED BY <1>2, <2>1
<1> HIDE DEF parts
<1> QED BY <1>1, <1>4, <1>5

\* A block has the size of the buffer it is.
Sized ==
  \A k \in DOMAIN heap : \A j \in Nat :
    IsBuffer(heap[k], j) => heap[k].size = Allocs(stack[heap[k].depth].fn)[j].size
DataInv == Sized /\ DataOnlyInLiveBlocks

\* A frame that points to a buffer keeps its function as long as it is there.
SameFunctions ==
  \A d \in 1 .. Depth : d \in 1 .. Depth' =>
    stack[d].ptr = {} \/ stack'[d].fn = stack[d].fn

\* Block b is the j-th buffer of its frame after the step.
BecomesBuffer(b, j) ==
  /\ b.depth \in 1 .. Depth' /\ j \in 1 .. Len(Allocs(stack'[b.depth].fn))
  /\ b.name = Allocs(stack'[b.depth].fn)[j].name
  /\ b.name \in stack'[b.depth].ptr

LEMMA SizedAfter ==
  ASSUME UNCHANGED build,
         \A k \in DOMAIN heap' : \A j \in Nat : BecomesBuffer(heap'[k], j) =>
           heap'[k].size = Allocs(stack'[heap'[k].depth].fn)[j].size
  PROVE  Sized'
<1>1. \A fn : Allocs(fn)' = Allocs(fn)
  BY CodeKept DEF SameCode
<1> QED BY <1>1 DEF Sized, IsBuffer, BecomesBuffer

\* A buffer that is there before and after a step is the same one.
LEMMA BufferBefore ==
  ASSUME NEW b, NEW w, IsBuffer(b, w), NEW j, BecomesBuffer(b, j), SameFunctions
  PROVE  IsBuffer(b, j) /\ stack'[b.depth].fn = stack[b.depth].fn
<1>1. /\ b.depth \in 1 .. Depth /\ b.depth \in 1 .. Depth'
      /\ b.name \in stack[b.depth].ptr
  BY DEF IsBuffer, BecomesBuffer
<1>2. stack'[b.depth].fn = stack[b.depth].fn
  BY <1>1 DEF SameFunctions
<1> QED BY <1>1, <1>2 DEF IsBuffer, BecomesBuffer

LEMMA DataKept ==
  ASSUME HeapInv, DataInv, UNCHANGED <<build, heap, dirty>>, SameFunctions
  PROVE  DataInv'
<1>1. ASSUME NEW k \in DOMAIN heap, NEW j \in Nat, BecomesBuffer(heap[k], j)
      PROVE  heap[k].size = Allocs(stack'[heap[k].depth].fn)[j].size
  <2>1. PICK w \in Nat : IsBuffer(heap[k], w)
    BY DEF HeapInv
  <2>2. IsBuffer(heap[k], j) /\ stack'[heap[k].depth].fn = stack[heap[k].depth].fn
    BY <1>1, <2>1, BufferBefore
  <2> QED BY <2>2 DEF DataInv, Sized
<1>2. Sized'
  BY <1>1, SizedAfter
<1>3. DataOnlyInLiveBlocks'
  BY DEF DataInv, DataOnlyInLiveBlocks, Extent
<1> QED BY <1>2, <1>3 DEF DataInv

\* The steps that replace the top of the stack and leave the heap alone.
LEMMA DataTop ==
  ASSUME Active, DataInv, UNCHANGED <<build, heap, dirty>>, NEW f, SetTop(f),
         f.fn = Top.fn \/ Top.ptr = {}
  PROVE  DataInv'
<1>1. Depth \in Nat \ {0} /\ stack \in Seq(Frames) /\ Depth = Len(stack) /\ Top = stack[Depth]
  BY ActiveIs, ActiveInv DEF AllocationType, Depth
<1>2. stack' = [stack EXCEPT ![Depth] = f]
  BY DEF SetTop
<1>3. \A d \in 1 .. Depth : stack'[d] = IF d = Depth THEN f ELSE stack[d]
  BY <1>1, <1>2
<1>4. SameFunctions
  BY <1>1, <1>3 DEF SameFunctions
<1> QED BY <1>4, ActiveInv, DataKept

LEMMA DataQuiet ==
  ASSUME Active, DataInv,
         AllocationFails \/ CheckPointers \/ BodyCheck \/ BodyEnd \/ TailCall
  PROVE  DataInv'
<1>1. /\ Top \in Frames /\ Step(Top).fn = Top.fn
      /\ \A p \in {"body", "cleanup"} : GoTo(Top, p).fn = Top.fn
  BY ActiveIs, FrameFields
<1>2. CASE AllocationFails
  BY <1>1, <1>2, DataTop DEF AllocationFails
<1>3. CASE CheckPointers
  BY <1>1, <1>3, DataTop DEF CheckPointers, CheckFor
<1>4. CASE BodyCheck
  BY <1>1, <1>4, DataTop DEF BodyCheck
<1>5. CASE BodyEnd
  BY <1>1, <1>5, DataTop DEF BodyEnd
<1>6. CASE TailCall
  <2>1. Top.ptr = {}
    BY <1>6, CleanIs DEF TailCall
  <2> QED BY <1>6, <2>1, DataTop DEF TailCall
<1> QED BY <1>2, <1>3, <1>4, <1>5, <1>6

LEMMA DataCall == ASSUME Active, DataInv, BodyCall PROVE DataInv'
<1>1. Depth \in Nat \ {0} /\ stack \in Seq(Frames) /\ Depth = Len(stack)
  BY ActiveIs, ActiveInv DEF AllocationType, Depth
<1>2. stack' = Append(stack, Frame(Item)) /\ UNCHANGED <<build, heap, dirty>>
  BY DEF BodyCall
<1>3. \A d \in 1 .. Depth : stack'[d] = stack[d]
  BY <1>1, <1>2
<1>4. SameFunctions
  BY <1>3 DEF SameFunctions
<1> QED BY <1>2, <1>4, ActiveInv, DataKept

LEMMA DataReturn == ASSUME Active, DataInv, Return PROVE DataInv'
<1>1. /\ UNCHANGED <<build, heap, dirty>> /\ CleanedUp
      /\ ~(result = 0 /\ AfterCleanup(Top.fn) # <<>>)
  BY DEF Return
<1>2. Depth \in Nat \ {0} /\ stack \in Seq(Frames) /\ Depth = Len(stack)
  BY ActiveIs, ActiveInv DEF AllocationType, Depth
<1>3. SameFunctions
  <2>1. CASE Depth = 1
    <3>1. stack' = <<>> /\ Depth' = 0
      BY <2>1 DEF Return, Depth
    <3> QED BY <3>1 DEF SameFunctions
  <2>2. CASE Depth # 1
    <3>1. PICK f \in Continuations(Caller) : stack' = SubSeq(stack, 1, Depth - 2) \o <<f>>
      BY <2>2 DEF Return, Caller
    <3>2. f.fn = Caller.fn
      BY <1>1, <2>2, <3>1, ContinuationIs
    <3>3. PICK e \in Nat \ {0} : e = Depth - 1 /\ Depth - 2 = e - 1
      <4>1. Depth - 1 \in Nat \ {0} /\ Depth - 2 = (Depth - 1) - 1
        BY <1>2, <2>2
      <4> QED BY <4>1
    <3> DEFINE t == SubSeq(stack, 1, e - 1)
    <3>4. t \in Seq(Frames) /\ Len(t) = e - 1 /\ \A d \in 1 .. e - 1 : t[d] = stack[d]
      <4>1. e - 1 \in 0 .. Len(stack)
        BY <1>2, <3>3
      <4> QED BY <1>2, <4>1, FirstPart
    <3>5. stack' = t \o <<f>>
      BY <3>1, <3>3
    <3> HIDE DEF t
    <3>6. /\ Len(stack') = e /\ stack'[e] = f
          /\ \A d \in 1 .. e - 1 : stack'[d] = stack[d]
      BY <3>3, <3>4, <3>5
    <3>7. Depth' = e /\ Caller = stack[e]
      BY <3>3, <3>6 DEF Depth, Caller
    <3> QED BY <3>2, <3>3, <3>6, <3>7 DEF SameFunctions
  <2> QED BY <2>1, <2>2
<1> QED BY <1>1, <1>3, ActiveInv, DataKept

\* The buffers of a function are told by their names, and have a size.
LEMMA BufferIs ==
  ASSUME Active, NEW d \in 1 .. Depth, NEW b, NEW j, IsBuffer(b, j), b.depth = d
  PROVE  LET a == Allocs(stack[d].fn) IN
         /\ j \in 1 .. Len(a) /\ b.name = a[j].name /\ a[j].size \in Nat \ {0}
         /\ \A w \in 1 .. Len(a) : a[w].name = b.name => w = j
<1> DEFINE a == Allocs(stack[d].fn)
<1>1. j \in 1 .. Len(a) /\ b.name = a[j].name
  BY DEF IsBuffer
<1>2. Building /\ stack[d].fn \in Functions
  BY ActiveIs
<1>3. Shape(stack[d].fn)
  BY <1>2, Shapes
<1>4. /\ a \in Seq(Buffer)
      /\ \A w, q \in 1 .. Len(a) : a[w].name = a[q].name => w = q
  BY <1>3 DEF Shape
<1>5. a[j] \in Buffer
  BY <1>1, <1>4
<1> QED BY <1>1, <1>4, <1>5 DEF Buffer

LEMMA DataAllocate == ASSUME Active, DataInv, Allocate PROVE DataInv'
<1>1. PICK b : /\ b = [depth |-> Depth, name |-> Wanted.name, addr |-> offset,
                       size |-> Wanted.size]
               /\ DOMAIN heap' = 1 .. Len(heap) + 1 /\ DOMAIN heap = 1 .. Len(heap)
               /\ Len(heap) \in Nat /\ heap'[Len(heap) + 1] = b
               /\ \A k \in 1 .. Len(heap) : heap'[k] = heap[k]
  BY AllocateHeap
<1>2. b.depth = Depth /\ b.name = Wanted.name /\ b.addr = offset /\ b.size = Wanted.size
  BY <1>1
<1>3. /\ UNCHANGED build /\ Top'.fn = Top.fn /\ Top.at \in 1 .. Len(Allocs(Top.fn))
      /\ Depth' = Depth
      /\ \A d \in 1 .. Depth : stack'[d] = IF d = Depth THEN Top' ELSE stack[d]
  BY AllocateSets DEF Allocate, Allocated
<1>4. Depth \in 1 .. Depth /\ Top = stack[Depth]
  BY ActiveIs
<1>5. SameFunctions
  BY <1>3, <1>4 DEF SameFunctions
<1>6. ASSUME NEW k \in 1 .. Len(heap) + 1, NEW j \in Nat, BecomesBuffer(heap'[k], j)
      PROVE  heap'[k].size = Allocs(stack'[heap'[k].depth].fn)[j].size
  <2>1. CASE k \in 1 .. Len(heap)
    <3>1. heap'[k] = heap[k] /\ k \in DOMAIN heap
      BY <1>1, <2>1
    <3>2. PICK w \in Nat : IsBuffer(heap[k], w)
      BY <3>1, ActiveInv DEF HeapInv
    <3>3. IsBuffer(heap[k], j) /\ stack'[heap[k].depth].fn = stack[heap[k].depth].fn
      BY <1>5, <1>6, <3>1, <3>2, BufferBefore
    <3> QED BY <3>1, <3>3 DEF DataInv, Sized
  <2>2. CASE k = Len(heap) + 1
    <3>1. heap'[k] = b
      BY <1>1, <2>2
    <3>2. stack'[b.depth].fn = Top.fn
      BY <1>2, <1>3, <1>4
    <3>3. j \in 1 .. Len(Allocs(Top.fn)) /\ b.name = Allocs(Top.fn)[j].name
      BY <1>6, <3>1, <3>2 DEF BecomesBuffer
    <3>4. Building /\ Top.fn \in Functions
      BY ActiveIs
    <3>5. \A w, q \in 1 .. Len(Allocs(Top.fn)) :
            Allocs(Top.fn)[w].name = Allocs(Top.fn)[q].name => w = q
      BY <3>4, Shapes DEF Shape
    <3>6. j = Top.at
      BY <1>2, <1>3, <3>3, <3>5 DEF Wanted
    <3> QED BY <1>2, <3>1, <3>2, <3>6 DEF Wanted
  <2> QED BY <1>1, <2>1, <2>2
<1>7. Sized'
  BY <1>1, <1>3, <1>6, SizedAfter
<1>8. DataOnlyInLiveBlocks'
  <2>1. dirty' = dirty \cup {Extent(b)}
    BY <1>2 DEF Allocate, Extent
  <2>2. dirty = {Extent(heap[k]) : k \in 1 .. Len(heap)}
    BY <1>1 DEF DataInv, DataOnlyInLiveBlocks
  <2>3. \A d : d \in dirty' <=> \E k \in 1 .. Len(heap) + 1 : d = Extent(heap'[k])
    <3>1. ASSUME NEW k \in 1 .. Len(heap) + 1 PROVE k \in 1 .. Len(heap) \/ k = Len(heap) + 1
      BY <1>1
    <3>2. ASSUME NEW k \in 1 .. Len(heap) PROVE k \in 1 .. Len(heap) + 1
      BY <1>1
    <3>3. Len(heap) + 1 \in 1 .. Len(heap) + 1
      BY <1>1
    <3> QED BY <1>1, <2>1, <2>2, <3>1, <3>2, <3>3
  <2>4. dirty' = {Extent(heap'[k]) : k \in DOMAIN heap'}
    BY <1>1, <2>3
  <2> QED BY <2>4 DEF DataOnlyInLiveBlocks, Extent
<1> QED BY <1>7, <1>8 DEF DataInv

LEMMA DataFree == ASSUME Active, DataInv, Free PROVE DataInv'
<1>0. PICK name : name = Frees(Top.fn)[Top.at]
  OBVIOUS
<1>1. CASE name \notin Top.ptr
  <2>1. UNCHANGED <<build, heap, dirty>>
    BY <1>0, <1>1 DEF Free, FreeNamed
  <2>2. PICK f \in Frames, k \in Nat : Freeing(f, name, k) /\ SetTop(f)
    BY <1>0, FreeIs
  <2> QED BY <2>1, <2>2, DataTop DEF Freeing
<1>2. CASE name \in Top.ptr
  <2>1. PICK f \in Frames, k \in Nat, len \in Nat :
          /\ Freeing(f, name, k) /\ SetTop(f)
          /\ heap \in Seq(Blocks) /\ Len(heap) = len + 1 /\ DOMAIN heap = 1 .. len + 1
          /\ heap[len + 1].depth = Depth /\ heap[len + 1].name = name
          /\ offset' = heap[len + 1].addr
          /\ DOMAIN heap' = 1 .. len /\ \A j \in 1 .. len : heap'[j] = heap[j]
    BY <1>0, <1>2, FreeSets
  <2>2. PICK b : b = heap[len + 1]
    OBVIOUS
  <2>3. /\ len + 1 \in DOMAIN heap /\ b.depth = Depth /\ b.name = name
        /\ offset' = b.addr /\ Depth \in 1 .. Depth /\ Top = stack[Depth]
        /\ \A j \in 1 .. len : j \in DOMAIN heap
    BY <2>1, <2>2, ActiveIs
  <2>4. Wipes(Top.fn)[Top.at] = b.size
    <3>1. PICK w \in Nat : IsBuffer(b, w)
      BY <2>2, <2>3, ActiveInv DEF HeapInv
    <3>2. b.size = Allocs(Top.fn)[w].size
      BY <2>2, <2>3, <3>1 DEF DataInv, Sized
    <3>3. /\ Top.place = "cleanup" /\ Held(Top) = k /\ k \in 1 .. Len(Allocs(Top.fn))
          /\ name = Allocs(Top.fn)[k].name /\ f.fn = Top.fn
      BY <2>1 DEF Freeing
    <3>4. w = k
      BY <2>3, <3>1, <3>3, BufferIs
    <3>5. /\ Len(Allocs(Top.fn)) \in Nat /\ Top.at \in Nat
          /\ k = (Len(Allocs(Top.fn)) + 1) - Top.at
      BY <3>3, PlaceIs
    <3>6. Top.at \in 1 .. Len(Allocs(Top.fn)) /\ Len(Allocs(Top.fn)) + 1 - Top.at = k
      BY <3>3, <3>5
    <3>7. Restated(Top.fn, Len(Allocs(Top.fn)))
      BY ActiveIs, RestatedAll
    <3> QED BY <3>2, <3>4, <3>6, <3>7 DEF Restated
  <2>5. dirty' = Zeroized(b.addr, b.size)
    <3>1. PICK j \in DOMAIN heap :
            /\ offset' = heap[j].addr /\ dirty' = Wiped(heap[j].addr, Wipes(Top.fn)[Top.at])
      BY <1>0, <1>2 DEF Free, FreeNamed
    <3> QED BY <2>3, <2>4, <3>1 DEF Wiped
  <2> DEFINE S == {Extent(heap[j]) : j \in 1 .. len}
  <2>6. b.addr \in Nat /\ b.size \in Nat /\ dirty = S \cup {Span(b.addr, b.addr + b.size)}
    <3>1. b \in Blocks
      BY <2>1, <2>2, <2>3
    <3>2. \A d : d \in dirty <=> \E j \in 1 .. len + 1 : d = Extent(heap[j])
      BY <2>1 DEF DataInv, DataOnlyInLiveBlocks
    <3>3. \A j \in 1 .. len + 1 : j \in 1 .. len \/ j = len + 1
      OBVIOUS
    <3>4. \A j \in 1 .. len : j \in 1 .. len + 1
      OBVIOUS
    <3>5. dirty = S \cup {Extent(b)}
      BY <2>1, <2>2, <2>3, <3>2, <3>3, <3>4
    <3> QED BY <3>1, <3>5 DEF Blocks, Extent, Span
  <2>7. ASSUME NEW d \in S
        PROVE  \E f1, t1 \in Nat : d = Span(f1, t1) /\ f1 < t1 /\ t1 =< b.addr
    <3>1. PICK j \in 1 .. len : d = Extent(heap[j])
      BY <2>7
    <3>2. heap[j] \in Blocks /\ j \in DOMAIN heap /\ j \in 1 .. (len + 1) - 1
      BY <2>1, <2>3
    <3>3. PICK w \in Nat : IsBuffer(heap[j], w)
      BY <3>2, ActiveInv DEF HeapInv
    <3>4. heap[j].depth \in 1 .. Depth
      BY <3>3 DEF IsBuffer
    <3>5. heap[j].size = Allocs(stack[heap[j].depth].fn)[w].size
      BY <3>2, <3>3 DEF DataInv, Sized
    <3>6. heap[j].size \in Nat \ {0} /\ heap[j].addr \in Nat
      BY <3>2, <3>3, <3>4, <3>5, BufferIs DEF Blocks
    <3>7. heap[j].addr + Aligned(heap[j].size) =< b.addr
      BY <2>1, <2>2, <2>3, <3>2, ActiveInv DEF AddressInv, LiveBlocksSafe
    <3>8. Aligned(heap[j].size) \in Nat /\ heap[j].size =< Aligned(heap[j].size)
      BY <3>6, AlignedIs
    <3>9. /\ heap[j].addr + heap[j].size \in Nat
          /\ heap[j].addr < heap[j].addr + heap[j].size
          /\ heap[j].addr + heap[j].size =< b.addr
      BY <2>6, <3>6, <3>7, <3>8
    <3> QED BY <3>1, <3>6, <3>9 DEF Extent, Span
  <2>8. dirty' = S
    <3> HIDE DEF S
    <3> QED BY <2>5, <2>6, <2>7, ZeroizedIs
  <2>9. DataOnlyInLiveBlocks'
    BY <2>1, <2>8 DEF DataOnlyInLiveBlocks, Extent
  <2>10. SameFunctions
    <3>1. /\ stack \in Seq(Frames) /\ Depth = Len(stack) /\ stack' = [stack EXCEPT ![Depth] = f]
      BY <2>1, ActiveInv DEF AllocationType, Depth, SetTop
    <3>2. f.fn = Top.fn
      BY <2>1 DEF Freeing
    <3>3. \A d \in 1 .. Depth : stack'[d] = IF d = Depth THEN f ELSE stack[d]
      BY <3>1
    <3> QED BY <2>3, <3>2, <3>3 DEF SameFunctions
  <2>11. ASSUME NEW j \in 1 .. len, NEW q \in Nat, BecomesBuffer(heap'[j], q)
         PROVE  heap'[j].size = Allocs(stack'[heap'[j].depth].fn)[q].size
    <3>1. heap'[j] = heap[j] /\ j \in DOMAIN heap
      BY <2>1, <2>3
    <3>2. PICK w \in Nat : IsBuffer(heap[j], w)
      BY <3>1, ActiveInv DEF HeapInv
    <3>3. IsBuffer(heap[j], q) /\ stack'[heap[j].depth].fn = stack[heap[j].depth].fn
      BY <2>10, <2>11, <3>1, <3>2, BufferBefore
    <3> QED BY <3>1, <3>3 DEF DataInv, Sized
  <2>12. Sized'
    <3>1. UNCHANGED build
      BY DEF Free, FreeNamed
    <3> QED BY <2>1, <2>11, <3>1, SizedAfter
  <2> QED BY <2>9, <2>12 DEF DataInv
<1> QED BY <1>1, <1>2

LEMMA DataInvoke == ASSUME MemInv, DataInv, NEW o \in Operations, Invoke(o) PROVE DataInv'
<1>1. stack = <<>> /\ UNCHANGED <<build, heap, dirty>>
  BY DEF Invoke
<1>2. Depth = 0 /\ HeapInv
  BY <1>1 DEF Depth, MemInv
<1>3. SameFunctions
  BY <1>2 DEF SameFunctions
<1> QED BY <1>1, <1>2, <1>3, DataKept

LEMMA NextData ==
  MemInv /\ DataInv /\ [AllocationNext]_allocationVars => DataInv'
<1> SUFFICES ASSUME MemInv, DataInv, [AllocationNext]_allocationVars PROVE DataInv'
  OBVIOUS
<1>1. CASE \E o \in Operations : Invoke(o)
  BY <1>1, DataInvoke
<1>2. CASE Allocate
  BY <1>2, DataAllocate DEF Active, Allocate, Allocating
<1>3. CASE AllocationFails \/ CheckPointers \/ BodyCheck \/ BodyEnd \/ TailCall
  BY <1>3, DataQuiet
     DEF Active, AllocationFails, Allocating, CheckPointers, CheckFor, BodyCheck,
         BodyEnd, InBody, TailCall, CleanedUp
<1>4. CASE BodyCall
  BY <1>4, DataCall DEF Active, BodyCall, InBody
<1>5. CASE Free
  BY <1>5, DataFree DEF Active, Free, FreeNamed
<1>6. CASE Return
  BY <1>6, DataReturn DEF Active, Return, CleanedUp
<1>7. CASE UNCHANGED allocationVars
  <2>1. UNCHANGED <<build, stack, heap, dirty>>
    BY <1>7 DEF allocationVars
  <2>2. SameFunctions
    BY <2>1 DEF SameFunctions
  <2> QED BY <2>1, <2>2, DataKept DEF MemInv
<1> QED BY <1>1, <1>2, <1>3, <1>4, <1>5, <1>6, <1>7 DEF AllocationNext

LEMMA InitData == AllocationInit => DataInv
BY DEF AllocationInit, DataInv, Sized, DataOnlyInLiveBlocks

-----------------------------------------------------------------------------
(* The theorems.                                                           *)

\* Whatever is called, at whatever level, and whichever allocations fail
\* (MLD_ALLOC and MLD_FREE in sign.c), blocks in use never overlap and lie
\* below the offset of the bump allocator (test_alloc.c).
THEOREM LiveBlocksAreSafe == AllocationSpec => []LiveBlocksSafe
<1>1. MemInv => LiveBlocksSafe
  BY DEF MemInv, AddressInv
<1> QED BY <1>1, MemAlways, PTL

\* Every path out of every function of sign.c gives back all it allocated
\* (test_alloc.c:45).
THEOREM NothingLeaks == AllocationSpec => []NoLeak
<1>1. MemInv => NoLeak
  BY IdleIs DEF MemInv, NoLeak
<1> QED BY <1>1, MemAlways, PTL

\* With the documented size a call runs out of memory only by an allocation
\* that was made to fail, and then it always says so (sign.c, every cleanup
\* label; mldsa_native.h:897-943).
THEOREM OutOfMemoryIsExact == AllocationSpec => []OutOfMemoryExact
<1>1. ASSUME MemInv PROVE OutOfMemoryExact
  <2> SUFFICES ASSUME stack = <<>>, op # "none"
               PROVE  result = OUT_OF_MEMORY <=> failures > 0
    BY DEF OutOfMemoryExact
  <2>1. Depth = 0 /\ failures \in Nat
    BY <1>1, IdleIs DEF MemInv, AllocationType
  <2>2. CASE failures = 0
    <3>1. result # OUT_OF_MEMORY
      BY <1>1, <2>1, <2>2 DEF MemInv, FailureInv, NoError
    <3> QED BY <2>2, <3>1
  <2>3. CASE failures # 0
    <3>1. result = OUT_OF_MEMORY
      BY <1>1, <2>3 DEF MemInv, FailureInv, Failing
    <3> QED BY <2>1, <2>3, <3>1
  <2> QED BY <2>2, <2>3
<1> QED BY <1>1, MemAlways, PTL

\* A call that succeeds has filled a buffer of the documented size
\* (mldsa_native.h:915-943, test_alloc.c:664-667).
THEOREM DocumentedSizesAreTight == AllocationSpec => []DocumentedSizesTight
<1>1. MemInv => DocumentedSizesTight
  BY DEF MemInv, PeakInv, DocumentedSizesTight
<1> QED BY <1>1, MemAlways, PTL

\* On any path out of any function, whichever allocations fail, the buffers are
\* zeroized at their full size before their memory is given back, and no others
\* are touched (MLD_FREE, common.h:269-278; every cleanup label of sign.c).
THEOREM DataDiesWithBlock == AllocationSpec => []DataOnlyInLiveBlocks
<1>1. AllocationInit => MemInv /\ DataInv
  BY InitMem, InitData
<1>2. MemInv /\ DataInv /\ [AllocationNext]_allocationVars => (MemInv /\ DataInv)'
  BY NextMem, NextData
<1>3. DataInv => DataOnlyInLiveBlocks
  BY DEF DataInv
<1> QED BY <1>1, <1>2, <1>3, PTL DEF AllocationSpec

=============================================================================
