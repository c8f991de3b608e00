----------------------------- MODULE Allocation -----------------------------
(***************************************************************************)
(* Dynamic memory of the library: the functions of mldsa/src/sign.c that   *)
(* allocate, how they call each other, and the bump allocator of           *)
(* test/src/test_alloc.c that the documentation of MLD_TOTAL_ALLOC_* tells *)
(* an integrator he may use (mldsa_native.h:897-913).                      *)
(*                                                                         *)
(* A call is a stack of frames.  Each frame allocates its buffers, checks  *)
(* them for NULL together, runs its body, and frees every non-NULL buffer  *)
(* at its cleanup label.  Sizes are the real ones, in bytes.  A buffer in  *)
(* use is taken to be full of data; MLD_FREE zeroizes as many bytes as it  *)
(* states, before the allocator gets the block back.                       *)
(***************************************************************************)
EXTENDS ReturnCodes, SequencesExt, FiniteSetsExt

CONSTANTS
  Levels,       \* parameter sets, a subset of {44, 65, 87}
  RamModes,     \* values of MLD_CONFIG_REDUCE_RAM, a subset of BOOLEAN
  PctModes,     \* values of MLD_CONFIG_KEYGEN_PCT, a subset of BOOLEAN
  Operations,   \* entry points the client calls
  MaxFailures   \* bound on the allocations that fail in a call for any
                \* reason but a full buffer

VARIABLES
  build,     \* [level, reduceRam, pct]: the compile-time configuration
  stack,     \* frames [fn, place, at, ptr]; ptr: the buffers not NULL
  result,    \* return code of the function that runs or has just returned
  op,        \* the entry point called last
  heap,      \* blocks in use, oldest first: [depth, name, addr, size]
  offset,    \* the bump allocator's offset
  dirty,     \* where data of the library lies: intervals [from, to)
  highMark,  \* its largest value in this call
  failures   \* allocations made to fail in this call

allocationVars == <<build, stack, result, op, heap, offset, dirty, highMark,
                    failures>>

-----------------------------------------------------------------------------
(* Sizes (params.h, packing.h, polyvec.h).                                 *)

Dims == CASE build.level = 44 -> [k |-> 4, l |-> 4]
          [] build.level = 65 -> [k |-> 6, l |-> 5]
          [] build.level = 87 -> [k |-> 8, l |-> 7]
CTILDEBYTES == CASE build.level = 44 -> 32
                 [] build.level = 65 -> 48
                 [] build.level = 87 -> 64
OMEGA == CASE build.level = 44 -> 80
           [] build.level = 65 -> 55
           [] build.level = 87 -> 75
POLYZ_PACKEDBYTES == IF build.level = 44 THEN 576 ELSE 640
POLYW1_PACKEDBYTES == IF build.level = 44 THEN 192 ELSE 128
MLDSA_CRYPTO_BYTES == CTILDEBYTES + Dims.l * POLYZ_PACKEDBYTES + OMEGA + Dims.k
MLDSA_CRYPTO_PUBLICKEYBYTES == 32 + Dims.k * 320

Poly == 1024
Polyvecl == Dims.l * Poly
Polyveck == Dims.k * Poly
\* With reduced RAM one row is kept and regenerated from the seed.
Polymat == IF build.reduceRam THEN Polyvecl + 32 ELSE Dims.k * Polyvecl

\* Fault: a union where the configuration asks for a struct.
AlwaysUnion(a, b) == Max({a, b})

\* MLD_UNION_OR_STRUCT
UnionOrStruct(a, b) == IF build.reduceRam THEN Max({a, b}) ELSE a + b

\* bump_alloc aligns to 32 bytes.
Aligned(size) == ((size + 31) \div 32) * 32

-----------------------------------------------------------------------------
(* The functions: MLD_ALLOC in order, body, MLD_FREE in order, which       *)
(* states the type and the count of its buffer once more: wipes holds the  *)
(* sizes these come to.                                                    *)

Block(name, size) == [name |-> name, size |-> size]

\* body: the calls in order, and the checks that can make it fail;
\* then: what is called after the cleanup, when that returns 0.
Calls(body) == [allocs |-> <<>>, body |-> body, frees |-> <<>>, wipes |-> <<>>,
                then |-> <<>>]

CheckPct == [Calls(<<"signature", "verify">>) EXCEPT
  !.allocs = <<Block("signature", MLDSA_CRYPTO_BYTES),
               Block("pk_test", MLDSA_CRYPTO_PUBLICKEYBYTES)>>,
  !.frees  = <<"pk_test", "signature">>,
  !.wipes  = <<MLDSA_CRYPTO_PUBLICKEYBYTES, MLDSA_CRYPTO_BYTES>>]

ComputeT0T1Tr == [Calls(<<>>) EXCEPT
  !.allocs = <<Block("mat", Polymat), Block("s1hat", Polyvecl),
               Block("t", Polyveck)>>,
  !.frees  = <<"t", "s1hat", "mat">>,
  !.wipes  = <<Polyveck, Polyvecl, Polymat>>]

KeypairInternal == [Calls(<<"compute_t0_t1_tr">>) EXCEPT
  !.allocs = <<Block("seedbuf", 128), Block("inbuf", 34), Block("tr", 64),
               Block("s1", Polyvecl), Block("s2", Polyveck),
               Block("t1", Polyveck), Block("t0", Polyveck)>>,
  !.frees  = <<"t0", "t1", "s2", "s1", "tr", "inbuf", "seedbuf">>,
  !.wipes  = <<Polyveck, Polyveck, Polyveck, Polyvecl, 64, 34, 128>>,
  !.then   = IF build.pct THEN <<"check_pct">> ELSE <<>>]

Keypair == Calls(<<"rng", "keypair_internal">>)

Attempt == [Calls(<<"check">>) EXCEPT
  !.allocs = <<Block("challenge_bytes", CTILDEBYTES),
               Block("yh", UnionOrStruct(Polyvecl, Polyveck)),
               Block("z", Poly),
               Block("w1tmp", UnionOrStruct(Polyveck, Polyvecl)),
               Block("w0", Polyveck), Block("cp", Poly), Block("t", Poly)>>,
  !.frees  = <<"t", "cp", "w0", "w1tmp", "z", "yh", "challenge_bytes">>,
  !.wipes  = <<Poly, Poly, Polyveck, UnionOrStruct(Polyveck, Polyvecl), Poly,
               UnionOrStruct(Polyvecl, Polyveck), CTILDEBYTES>>]

SignatureInternal == [Calls(<<"attempt">>) EXCEPT
  !.allocs = <<Block("seedbuf", 256), Block("mat", Polymat),
               Block("s1", Polyvecl), Block("t0", Polyveck),
               Block("s2", Polyveck)>>,
  !.frees  = <<"s2", "t0", "s1", "mat", "seedbuf">>,
  !.wipes  = <<Polyveck, Polyveck, Polyvecl, Polymat, 256>>]

Signature == [Calls(<<"check", "rng", "signature_internal">>) EXCEPT
  !.allocs = <<Block("pre", 2 + 255 + 11 + 64), Block("rnd", 32)>>,
  !.frees  = <<"rnd", "pre">>,
  !.wipes  = <<32, 2 + 255 + 11 + 64>>]

SignatureExtmu == Calls(<<"rng", "signature_internal">>)
SignaturePreHashInternal == Calls(<<"check", "signature_internal">>)
CombinedSign == Calls(<<"signature">>)

VerifyInternal == [Calls(<<"check">>) EXCEPT
  !.allocs = <<Block("buf", Dims.k * POLYW1_PACKEDBYTES), Block("rho", 32),
               Block("mu", 64), Block("c", CTILDEBYTES),
               Block("c2", CTILDEBYTES), Block("cp", Poly),
               Block("mat", Polymat), Block("z", Polyvecl),
               Block("t1w1", UnionOrStruct(Polyveck, Polyveck)),
               Block("tmp", Polyveck), Block("h", Polyveck)>>,
  !.frees  = <<"h", "tmp", "t1w1", "z", "mat", "cp", "c2", "c", "mu", "rho",
               "buf">>,
  !.wipes  = <<Polyveck, Polyveck, UnionOrStruct(Polyveck, Polyveck), Polyvecl,
               Polymat, Poly, CTILDEBYTES, CTILDEBYTES, 64, 32,
               Dims.k * POLYW1_PACKEDBYTES>>]

Verify == Calls(<<"check", "verify_internal">>)
VerifyExtmu == Calls(<<"verify_internal">>)
Open == Calls(<<"check", "verify">>)

PkFromSk == [Calls(<<"compute_t0_t1_tr", "check">>) EXCEPT
  !.allocs = <<Block("rho", 32), Block("tr", 64), Block("tr_computed", 64),
               Block("key", 32), Block("s1", Polyvecl), Block("s2", Polyveck),
               Block("t0", Polyveck), Block("t0_computed", Polyveck),
               Block("t1", Polyveck)>>,
  !.frees  = <<"t1", "t0_computed", "t0", "s2", "s1", "key", "tr_computed",
               "tr", "rho">>,
  !.wipes  = <<Polyveck, Polyveck, Polyveck, Polyveck, Polyvecl, 32, 64, 64, 32>>]

Code(fn) ==
  CASE fn = "check_pct" -> CheckPct
    [] fn = "compute_t0_t1_tr" -> ComputeT0T1Tr
    [] fn = "keypair_internal" -> KeypairInternal
    [] fn = "keypair" -> Keypair
    [] fn = "attempt" -> Attempt
    [] fn = "signature_internal" -> SignatureInternal
    [] fn = "signature" -> Signature
    [] fn = "signature_extmu" -> SignatureExtmu
    [] fn = "signature_pre_hash_internal" -> SignaturePreHashInternal
    [] fn = "sign" -> CombinedSign
    [] fn = "verify_internal" -> VerifyInternal
    [] fn \in {"verify", "verify_pre_hash_internal"} -> Verify
    [] fn = "verify_extmu" -> VerifyExtmu
    [] fn = "open" -> Open
    [] fn = "pk_from_sk" -> PkFromSk

Allocs(fn) == Code(fn).allocs
Body(fn) == Code(fn).body
Frees(fn) == Code(fn).frees
Wipes(fn) == Code(fn).wipes
AfterCleanup(fn) == Code(fn).then

\* MLD_TOTAL_ALLOC_* (mldsa_native.h:915-943)
DocumentedKeypair ==
  CASE build.level = 44 -> IF build.reduceRam
         THEN (IF build.pct THEN 36192 ELSE 32992)
         ELSE (IF build.pct THEN 56640 ELSE 45248)
    [] build.level = 65 -> IF build.reduceRam
         THEN (IF build.pct THEN 50048 ELSE 46304)
         ELSE (IF build.pct THEN 85856 ELSE 71872)
    [] build.level = 87 -> IF build.reduceRam
         THEN (IF build.pct THEN 66336 ELSE 62688)
         ELSE (IF build.pct THEN 130816 ELSE 112832)
DocumentedSign ==
  CASE build.level = 44 -> IF build.reduceRam THEN 32448 ELSE 52896
    [] build.level = 65 -> IF build.reduceRam THEN 44768 ELSE 80576
    [] build.level = 87 -> IF build.reduceRam THEN 59104 ELSE 123584
DocumentedVerify ==
  CASE build.level = 44 -> IF build.reduceRam THEN 22464 ELSE 38816
    [] build.level = 65 -> IF build.reduceRam THEN 30720 ELSE 62432
    [] build.level = 87 -> IF build.reduceRam THEN 41216 ELSE 99552

KeyOperations == {"keypair", "keypair_internal", "pk_from_sk"}
SignOperations == {"sign", "signature", "signature_extmu",
                   "signature_internal", "signature_pre_hash_internal"}
VerifyOperations == {"open", "verify", "verify_extmu", "verify_internal",
                     "verify_pre_hash_internal"}

ASSUME AllocationAssumption ==
  /\ Levels \subseteq {44, 65, 87}
  /\ RamModes \subseteq BOOLEAN /\ PctModes \subseteq BOOLEAN
  /\ Operations \subseteq KeyOperations \cup SignOperations \cup VerifyOperations
  /\ MaxFailures \in Nat

\* The integrator's buffer is as large as documented for the operation.
Capacity == CASE op \in KeyOperations -> DocumentedKeypair
              [] op \in SignOperations -> DocumentedSign
              [] op \in VerifyOperations -> DocumentedVerify

-----------------------------------------------------------------------------

Frame(fn) == [fn |-> fn, place |-> "alloc", at |-> 1, ptr |-> {}]
Depth == Len(stack)
Top == stack[Depth]
SetTop(frame) == stack' = [stack EXCEPT ![Depth] = frame]
Names(fn) == {Allocs(fn)[k].name : k \in DOMAIN Allocs(fn)}

GoTo(frame, place) == [frame EXCEPT !.place = place, !.at = 1]
Step(frame) == [frame EXCEPT !.at = @ + 1]

AllocationInit ==
  /\ build \in [level : Levels, reduceRam : RamModes, pct : PctModes]
  /\ stack = <<>> /\ result = Unset /\ op = "none"
  /\ heap = <<>> /\ offset = 0 /\ dirty = {} /\ highMark = 0 /\ failures = 0

Invoke(o) ==
  /\ stack = <<>>
  /\ stack' = <<Frame(o)>> /\ op' = o
  /\ highMark' = offset /\ failures' = 0
  /\ UNCHANGED <<build, result, heap, offset, dirty>>

\* What is left of the data in memory once n bytes from addr on are zero.
Zeroized(addr, n) ==
  LET below(d) == [d EXCEPT !.to = Min({@, addr})]
      above(d) == [d EXCEPT !.from = Max({@, addr + n})]
  IN  {d \in UNION {{below(e), above(e)} : e \in dirty} : d.from < d.to}

\* Fault: sizeof is taken of the pointer, not of what it points to.
PointerWiped(addr, size) == Zeroized(addr, 8)

\* mld_zeroize(v, sizeof(T) * (N))
Wiped(addr, size) == Zeroized(addr, size)

\* Where the data of a block in use lies.
Extent(block) == [from |-> block.addr, to |-> block.addr + block.size]

\* The buffer Top allocates next, and whether bump_alloc finds room for it.
Allocating == stack # <<>> /\ Top.place = "alloc" /\ Top.at =< Len(Allocs(Top.fn))
Wanted == Allocs(Top.fn)[Top.at]
Fits == Aligned(Wanted.size) =< Capacity - offset

Allocate ==
  /\ Allocating /\ Fits
  /\ heap' = Append(heap, [depth |-> Depth, name |-> Wanted.name,
                           addr |-> offset, size |-> Wanted.size])
  /\ offset' = offset + Aligned(Wanted.size)
  /\ dirty' = dirty \cup {[from |-> offset, to |-> offset + Wanted.size]}
  /\ highMark' = Max({highMark, offset'})
  /\ SetTop([Step(Top) EXCEPT !.ptr = @ \cup {Wanted.name}])
  /\ UNCHANGED <<build, result, op, failures>>

\* MLD_ALLOC yields NULL; the function goes on to its other allocations.
AllocationFails ==
  /\ Allocating
  /\ IF Fits THEN failures < MaxFailures /\ failures' = failures + 1
             ELSE UNCHANGED failures
  /\ SetTop(Step(Top))
  /\ UNCHANGED <<build, result, op, heap, offset, dirty, highMark>>

\* One test of all the pointers follows the allocations.
CheckFor(names) ==
  /\ stack # <<>> /\ Top.place = "alloc" /\ ~Allocating
  /\ IF names \subseteq Top.ptr
       THEN result' = 0 /\ SetTop(GoTo(Top, "body"))
       ELSE result' = OUT_OF_MEMORY /\ SetTop(GoTo(Top, "cleanup"))
  /\ UNCHANGED <<build, op, heap, offset, dirty, highMark, failures>>

\* Fault: the pointer allocated last is not tested.
CheckAllButLast ==
  CheckFor(Names(Top.fn) \ {Allocs(Top.fn)[k].name :
                              k \in {Len(Allocs(Top.fn))} \ {0}})

CheckPointers == CheckFor(Names(Top.fn))

InBody == stack # <<>> /\ Top.place = "body"
Item == Body(Top.fn)[Top.at]
Atomic == {"check", "rng"}

\* A check in the body passes, or sets result and goes to cleanup.
BodyCheck ==
  /\ InBody /\ Top.at =< Len(Body(Top.fn)) /\ Item \in Atomic
  /\ \/ UNCHANGED result /\ SetTop(Step(Top))
     \/ /\ result' = IF Item = "rng" THEN RNG_FAIL ELSE FAIL
        /\ SetTop(GoTo(Top, "cleanup"))
  /\ UNCHANGED <<build, op, heap, offset, dirty, highMark, failures>>

BodyCall ==
  /\ InBody /\ Top.at =< Len(Body(Top.fn)) /\ Item \notin Atomic
  /\ stack' = Append(stack, Frame(Item))
  /\ UNCHANGED <<build, result, op, heap, offset, dirty, highMark, failures>>

BodyEnd ==
  /\ InBody /\ Top.at > Len(Body(Top.fn))
  /\ SetTop(GoTo(Top, "cleanup"))
  /\ UNCHANGED <<build, result, op, heap, offset, dirty, highMark, failures>>

\* MLD_FREE: nothing for NULL, otherwise size bytes of the buffer are zeroized
\* and bump_free resets the offset to the block.
FreeNamed(name, size) ==
  /\ stack # <<>> /\ Top.place = "cleanup" /\ Top.at =< Len(Frees(Top.fn))
  /\ SetTop([Step(Top) EXCEPT !.ptr = @ \ {name}])
  /\ IF name \in Top.ptr
       THEN \E k \in DOMAIN heap :
              /\ heap[k].depth = Depth /\ heap[k].name = name
              /\ offset' = heap[k].addr /\ heap' = RemoveAt(heap, k)
              /\ dirty' = Wiped(heap[k].addr, size)
       ELSE UNCHANGED <<heap, offset, dirty>>
  /\ UNCHANGED <<build, result, op, highMark, failures>>

\* Faults: the buffers are freed in the order they were allocated; the last
\* one in the list is forgotten.
FreeInOrder ==
  FreeNamed(Reverse(Frees(Top.fn))[Top.at], Reverse(Wipes(Top.fn))[Top.at])
FreeAllButLast ==
  FreeNamed(IF Top.at < Len(Frees(Top.fn)) THEN Frees(Top.fn)[Top.at] ELSE "none",
            Wipes(Top.fn)[Top.at])

Free == FreeNamed(Frees(Top.fn)[Top.at], Wipes(Top.fn)[Top.at])

CleanedUp ==
  stack # <<>> /\ Top.place = "cleanup" /\ Top.at > Len(Frees(Top.fn))

\* return f(...): the frame, already cleaned up, is replaced.
TailCall ==
  /\ CleanedUp /\ result = 0 /\ AfterCleanup(Top.fn) # <<>>
  /\ SetTop(Frame(AfterCleanup(Top.fn)[1]))
  /\ UNCHANGED <<build, result, op, heap, offset, dirty, highMark, failures>>

\* Where a caller goes on when its callee has returned result: the next item,
\* its cleanup label, or, in the rejection loop, another attempt.
Continuations(caller) ==
  IF result = 0 THEN {Step(caller)}
  ELSE {GoTo(caller, "cleanup")} \cup
       IF caller.fn = "signature_internal" /\ result = FAIL THEN {caller} ELSE {}

Return ==
  /\ CleanedUp /\ ~(result = 0 /\ AfterCleanup(Top.fn) # <<>>)
  /\ IF Depth = 1
       THEN stack' = <<>>
       ELSE \E frame \in Continuations(stack[Depth - 1]) :
              stack' = SubSeq(stack, 1, Depth - 2) \o <<frame>>
  /\ UNCHANGED <<build, result, op, heap, offset, dirty, highMark, failures>>

AllocationNext ==
  \/ \E o \in Operations : Invoke(o)
  \/ Allocate \/ AllocationFails \/ CheckPointers
  \/ BodyCheck \/ BodyCall \/ BodyEnd
  \/ Free \/ TailCall \/ Return

AllocationSpec == AllocationInit /\ [][AllocationNext]_allocationVars

-----------------------------------------------------------------------------
(* Properties.                                                             *)

\* No block in use is handed out again: blocks are disjoint and lie below
\* the offset, so bump_free never releases what a caller up the stack holds.
LiveBlocksSafe ==
  \A k \in DOMAIN heap :
    /\ heap[k].addr + Aligned(heap[k].size) =< offset
    /\ \A j \in 1 .. k - 1 :
         heap[j].addr + Aligned(heap[j].size) =< heap[k].addr

\* "we leak no memory" (test_alloc.c:45), on any path out of a call.
NoLeak == stack = <<>> => heap = <<>> /\ offset = 0

\* The library's data lies in the blocks in use and nowhere else (common.h:
\* 269-278): on any path, with any allocation failing, no byte of a buffer
\* outlives its MLD_FREE, which must state the buffer's size again, to be seen
\* by whoever gets the memory next; and none is wiped in a block still in use.
DataOnlyInLiveBlocks == dirty = {Extent(heap[k]) : k \in DOMAIN heap}

\* With a buffer of the documented size, a call runs out of memory exactly
\* when an allocation was made to fail: the sizes suffice, and a NULL
\* anywhere in the call tree reaches the client as MLD_ERR_OUT_OF_MEMORY.
OutOfMemoryExact ==
  stack = <<>> /\ op # "none" => ((result = OUT_OF_MEMORY) <=> (failures > 0))

\* The operations whose peak the constants give (test_alloc.c:664-667).
Tight == (IF build.pct THEN {"keypair", "keypair_internal"} ELSE {"pk_from_sk"})
           \cup {"sign", "signature"} \cup VerifyOperations

\* The documented sizes are not just enough: a successful call needs them.
DocumentedSizesTight ==
  stack = <<>> /\ result = 0 /\ op \in Tight => highMark = Capacity
=============================================================================
