------------------------------ MODULE CallTree ------------------------------
(***************************************************************************)
(* The call tree under the public API, run on ranges instead of values:    *)
(* every function body of the contract modules is executed, over the       *)
(* memory of its caller, in every build.  A memory location holds the      *)
(* range of its elements, what they are (bytes, and which packing wrote    *)
(* them; coefficients; evaluations in one of two orders; a hash context    *)
(* and its phase) and the power of 2^32 they are scaled by.  A location    *)
(* outside DOMAIN mem holds nothing a program may read.                    *)
(*                                                                         *)
(* A build is a parameter set, the reduced-RAM and serial-hash switches    *)
(* and a back end: none; one with the standard order of evaluations; or    *)
(* one with an order of its own, on a processor that has the instructions  *)
(* its kernels need or (idle) on one that does not.                        *)
(***************************************************************************)
EXTENDS SchemeContracts, FiniteSets

Builds == {[set |-> s, ram |-> r, serial |-> f, native |-> n,
            custom |-> n \in {"custom", "idle"}] :
           s \in {44, 65, 87}, r \in BOOLEAN, f \in BOOLEAN,
           n \in {"none", "bitrev", "custom", "idle"}}

Functions(b) ==
    [hash_init |-> hash_init, hash_absorb |-> hash_absorb,
     hash_finalize |-> hash_finalize, hash_squeeze |-> hash_squeeze,
     hash_release |-> hash_release, shake256 |-> shake256,
     ntt_native |-> ntt_native, intt_native |-> intt_native,
     poly_permute_bitrev_to_custom |-> poly_permute_bitrev_to_custom,
     rej_uniform_native |-> rej_uniform_native,
     rej_uniform_eta2_native |-> rej_uniform_eta2_native(b),
     rej_uniform_eta4_native |-> rej_uniform_eta4_native(b),
     poly_decompose_32_native |-> poly_decompose_32_native(b),
     poly_decompose_88_native |-> poly_decompose_88_native(b),
     poly_caddq_native |-> poly_caddq_native,
     poly_use_hint_32_native |-> poly_use_hint_32_native(b),
     poly_use_hint_88_native |-> poly_use_hint_88_native(b),
     poly_chknorm_native |-> poly_chknorm_native,
     polyz_unpack_17_native |-> polyz_unpack_17_native(b),
     polyz_unpack_19_native |-> polyz_unpack_19_native(b),
     poly_pointwise_montgomery_native |-> poly_pointwise_montgomery_native,
     polyvecl_pointwise_acc_montgomery_l4_native |-> polyvecl_pointwise_acc_montgomery_l4_native,
     polyvecl_pointwise_acc_montgomery_l5_native |-> polyvecl_pointwise_acc_montgomery_l5_native,
     polyvecl_pointwise_acc_montgomery_l7_native |-> polyvecl_pointwise_acc_montgomery_l7_native,
     poly_caddq_c |-> poly_caddq_c, poly_ntt_c |-> poly_ntt_c,
     poly_invntt_tomont_c |-> poly_invntt_tomont_c,
     poly_pointwise_montgomery_c |-> poly_pointwise_montgomery_c,
     rej_uniform_c |-> rej_uniform_c, rej_uniform_more |-> rej_uniform_more,
     rej_uniform |-> rej_uniform, poly_chknorm_c |-> poly_chknorm_c,
     poly_reduce |-> poly_reduce, poly_caddq |-> poly_caddq,
     poly_add |-> poly_add, poly_sub |-> poly_sub, poly_shiftl |-> poly_shiftl,
     poly_ntt |-> poly_ntt, poly_invntt_tomont |-> poly_invntt_tomont,
     poly_pointwise_montgomery |-> poly_pointwise_montgomery,
     poly_power2round |-> poly_power2round, poly_uniform |-> poly_uniform,
     poly_uniform_4x |-> poly_uniform_4x, polyt1_pack |-> polyt1_pack,
     polyt1_unpack |-> polyt1_unpack, polyt0_pack |-> polyt0_pack,
     polyt0_unpack |-> polyt0_unpack, poly_chknorm |-> poly_chknorm,
     poly_decompose_c |-> poly_decompose_c(b),
     poly_use_hint_c |-> poly_use_hint_c(b), rej_eta_c |-> rej_eta_c(b),
     rej_eta_more |-> rej_eta_more(b), poly_decompose |-> poly_decompose(b),
     poly_make_hint |-> poly_make_hint, poly_use_hint |-> poly_use_hint(b),
     rej_eta |-> rej_eta(b), poly_uniform_eta |-> poly_uniform_eta(b),
     poly_uniform_eta_4x |-> poly_uniform_eta_4x(b),
     poly_uniform_gamma1 |-> poly_uniform_gamma1(b),
     poly_uniform_gamma1_4x |-> poly_uniform_gamma1_4x(b),
     sample_in_ball |-> sample_in_ball, poly_challenge |-> poly_challenge,
     polyeta_pack |-> polyeta_pack(b), polyeta_unpack |-> polyeta_unpack(b),
     polyz_pack |-> polyz_pack(b), polyz_unpack_c |-> polyz_unpack_c(b),
     polyz_unpack |-> polyz_unpack(b), polyw1_pack |-> polyw1_pack(b),
     polyvecl_permute_bitrev_to_custom |-> polyvecl_permute_bitrev_to_custom(b),
     polymat_permute_bitrev_to_custom |-> polymat_permute_bitrev_to_custom,
     polymat_get_row |-> polymat_get_row(b),
     polyvec_matrix_expand |-> polyvec_matrix_expand(b),
     polyvec_matrix_pointwise_montgomery |-> polyvec_matrix_pointwise_montgomery(b),
     polyvecl_uniform_gamma1 |-> polyvecl_uniform_gamma1(b),
     polyvecl_ntt |-> polyvecl_ntt,
     polyvecl_pointwise_acc_montgomery_c |-> polyvecl_pointwise_acc_montgomery_c,
     polyvecl_pointwise_acc_montgomery |-> polyvecl_pointwise_acc_montgomery(b),
     polyvecl_chknorm |-> polyvecl_chknorm,
     polyvecl_pack_eta |-> polyvecl_pack_eta(b),
     polyvecl_unpack_eta |-> polyvecl_unpack_eta(b),
     polyvecl_unpack_z |-> polyvecl_unpack_z(b),
     polyveck_reduce |-> polyveck_reduce, polyveck_caddq |-> polyveck_caddq,
     polyveck_add |-> polyveck_add, polyveck_sub |-> polyveck_sub,
     polyveck_shiftl |-> polyveck_shiftl, polyveck_ntt |-> polyveck_ntt,
     polyveck_invntt_tomont |-> polyveck_invntt_tomont,
     polyveck_pointwise_poly_montgomery |-> polyveck_pointwise_poly_montgomery,
     polyveck_chknorm |-> polyveck_chknorm,
     polyveck_power2round |-> polyveck_power2round,
     polyveck_decompose |-> polyveck_decompose(b),
     polyveck_make_hint |-> polyveck_make_hint(b),
     polyveck_use_hint |-> polyveck_use_hint(b),
     polyveck_pack_w1 |-> polyveck_pack_w1(b),
     polyveck_pack_eta |-> polyveck_pack_eta(b),
     polyveck_pack_t0 |-> polyveck_pack_t0,
     polyveck_unpack_eta |-> polyveck_unpack_eta(b),
     polyveck_unpack_t0 |-> polyveck_unpack_t0, pack_pk |-> pack_pk,
     unpack_pk |-> unpack_pk, pack_sk |-> pack_sk(b), unpack_sk |-> unpack_sk(b),
     pack_sig_c_h |-> pack_sig_c_h(b), pack_sig_z |-> pack_sig_z(b),
     unpack_hints |-> unpack_hints, unpack_sig |-> unpack_sig(b),
     sample_s1_s2 |-> sample_s1_s2(b),
     compute_t0_t1_tr_from_sk_components |-> compute_t0_t1_tr_from_sk_components(b),
     sign_keypair_internal |-> sign_keypair_internal,
     sign_pk_from_sk |-> sign_pk_from_sk(b),
     compute_pack_z |-> compute_pack_z(b),
     attempt_signature_generation |-> attempt_signature_generation(b),
     sign_signature_internal |-> sign_signature_internal,
     sign_verify_internal |-> sign_verify_internal(b), H1 |-> H(<<"in1">>),
     H2 |-> H(<<"in1", "in2">>), H3 |-> H(<<"in1", "in2", "in3">>)]

\* One table for each build.
Code == [b \in Builds |-> Functions(b)]

VARIABLES build, stack, mem

callVars == <<build, stack, mem>>

-----------------------------------------------------------------------------
\* The step at hand, the function it calls, and where names are stored: a
\* formal parameter where the caller says, a local variable in the function
\* (no function is active twice).
Top        == stack[Len(stack)]
Running    == stack # << >>
Body       == Code[build][Top.fn].body
Busy       == Running /\ ~Top.failed /\ Top.pc \in DOMAIN Body
Step       == Body[Top.pc]
Loc(x)     == IF x \in DOMAIN Top.env THEN Top.env[x] ELSE <<Top.fn, x>>
Calling    == Busy /\ Step.op \in {"call", "native"}
Callee     == Code[build][Step.fn]
Formals(f) == {f.par[i] : i \in DOMAIN f.par}
Position(f, x) == CHOOSE i \in DOMAIN f.par : f.par[i] = x
Passed     == [x \in Formals(Callee) |-> Loc(Step.args[Position(Callee, x)])]

\* Two locations in one union share their storage.
Overlap(l, m) == l # m /\ \E u \in Unions(build) : {l, m} \subseteq u
Written(m, new) ==
    LET kept == {l \in DOMAIN m : \A w \in DOMAIN new : ~Overlap(l, w)}
    IN  [l \in kept \cup DOMAIN new |-> IF l \in DOMAIN new THEN new[l] ELSE m[l]]
Without(m, ls) == [l \in DOMAIN m \ ls |-> m[l]]
Put(l, v)      == Written(mem, [x \in {l} |-> v])

Value(r, d, m) == [lo |-> r.lo, hi |-> r.hi, dom |-> d, mont |-> m]
Within(v, r)   == r.lo =< v.lo /\ v.hi =< r.hi
Cut(v, r)      == [v EXCEPT !.lo = IF r.lo > @ THEN r.lo ELSE @,
                            !.hi = IF r.hi < @ THEN r.hi ELSE @]

-----------------------------------------------------------------------------
\* What a leaf does to what its parameters hold.
Orders       == {"bitrev", "custom"}
KernelOrder  == IF build.native = "custom" /\ Step.op = "native"
                THEN "custom" ELSE "bitrev"
Contexts     == {"absorbing", "squeezing"}
Packed       == {"t1", "t0", "eta", "z", "w1", "hints"}
Montgomery(f, e) ==   \* the scale of a product
    IF Cardinality(DOMAIN f.pre) = 2
    THEN LET in == CHOOSE p \in (DOMAIN f.pre) \X (DOMAIN f.pre) : p[1] # p[2]
         IN  mem[e[in[1]]].mont + mem[e[in[2]]].mont - 1
    ELSE -1
Domain(f, e, x) ==
    CASE f.form = "ntt"      -> KernelOrder
      [] f.form = "uniform"  -> "bitrev"
      [] f.form = "permute"  -> IF build.native = "custom" THEN "custom"
                                                            ELSE mem[e[x]].dom
      [] f.form = "linear"   -> mem[e[x]].dom
      [] f.form = "mul"      -> mem[e[CHOOSE y \in DOMAIN f.pre : TRUE]].dom
      [] f.form \in {"init", "absorb"} -> "absorbing"
      [] f.form = "finalize" -> "squeezing"
      [] f.form = "squeeze"  -> "bytes"
      [] f.form \in Packed   -> f.form
      [] OTHER               -> "coef"
Scale(f, e, x) ==
    CASE f.form \in {"ntt", "linear"} -> mem[e[x]].mont
      [] f.form = "intt"              -> mem[e[x]].mont + 1
      [] f.form = "mul"               -> Montgomery(f, e)
      [] OTHER                        -> 0
Sum(v, w) == [v EXCEPT !.lo = @ + w.lo, !.hi = @ + w.hi]
Effect(f, e) ==
    CASE f.form = "release" -> Without(mem, {e["st"]})
      [] f.form = "add"     -> Put(e["r"], Sum(mem[e["r"]], mem[e["b"]]))
      [] f.form = "chknorm" ->   \* it did not fail: the norm is below the bound
           Put(e["a"], Cut(mem[e["a"]], Abs(mem[e["B"]].lo)))
      [] OTHER ->
           Written(mem, [l \in {e[x] : x \in DOMAIN f.post} |->
                           LET x == CHOOSE y \in DOMAIN f.post : e[y] = l
                           IN  Value(f.post[x], Domain(f, e, x), Scale(f, e, x))])
CanFail(f) == f.form \in {"chknorm", "unhints"}

-----------------------------------------------------------------------------
Input(b, f) == [l \in {<<f, x>> : x \in DOMAIN Code[b][f].pre} |->
                  Value(Byte, "bytes", 0)]

CallInit == build = << >> /\ stack = << >> /\ mem = << >>

\* An application calls a function of the API.
Invoke(b, f) ==
    /\ build' = b /\ mem' = Input(b, f)
    /\ stack' = <<[fn |-> f, env |-> << >>, pc |-> 1, failed |-> FALSE]>>

Goto(pc)    == stack' = [stack EXCEPT ![Len(stack)].pc = pc]
Advance     == Goto(Top.pc + 1)
Fail        == stack' = [stack EXCEPT ![Len(stack)].failed = TRUE]

\* A call of a function that makes calls of its own.
Enter ==
    /\ Calling /\ Callee.form = "calls"
    /\ stack' = Append(stack, [fn |-> Step.fn, env |-> Passed, pc |-> 1,
                               failed |-> FALSE])
    /\ UNCHANGED <<build, mem>>
\* A call of one that makes none.
Leave(f, ok) ==
    IF ok \/ Step.fail = "ignore" THEN Advance ELSE Fail
Execute ==
    /\ Calling /\ Step.op = "call" /\ Callee.form # "calls"
    /\ \/ mem' = Effect(Callee, Passed) /\ Advance
       \/ /\ CanFail(Callee) /\ Leave(Callee, FALSE)
          /\ mem' = IF Callee.form = "unhints" THEN Effect(Callee, Passed) ELSE mem
    /\ UNCHANGED build

\* A native kernel that runs ends the front end that tried it.  One may decline
\* for its inputs or for the processor; the transforms only for the latter.
AlwaysRuns(f) == build.native = "custom" /\ f.form \in {"ntt", "intt"}
RunKernel ==
    /\ Calling /\ Step.op = "native" /\ build.native \in {"bitrev", "custom"}
    /\ \/ mem' = Effect(Callee, Passed) /\ Goto(Len(Body) + 1)
       \/ CanFail(Callee) /\ Fail /\ mem' = mem
    /\ UNCHANGED build
DeclineKernel ==
    /\ Calling /\ Step.op = "native"
    /\ build.native # "none" /\ ~AlwaysRuns(Callee)
    /\ mem' = Without(mem, {Passed[x] : x \in DOMAIN Callee.post \ Callee.kept})
    /\ Advance /\ UNCHANGED build
SkipKernel ==
    /\ Calling /\ Step.op = "native" /\ build.native = "none"
    /\ Advance /\ UNCHANGED <<build, mem>>

Jump ==
    /\ Busy /\ Step.op = "branch"
    /\ Advance \/ Goto(Top.pc + Step.by)
    /\ UNCHANGED <<build, mem>>
Assign ==
    /\ Busy
    /\ \/ Step.op = "copy" /\ mem' = Put(Loc(Step.to), mem[Loc(Step.from)])
       \/ Step.op = "set" /\ mem' = Put(Loc(Step.to), Value(Step.range, "number", 0))
       \/ Step.op = "expect" /\ UNCHANGED mem
    /\ Advance /\ UNCHANGED build
Check ==
    /\ Busy /\ Step.op = "test"
    /\ \/ /\ mem' = Put(Loc(Step.on), Cut(mem[Loc(Step.on)], Step.ok))
          /\ Advance
       \/ ~Within(mem[Loc(Step.on)], Step.ok) /\ Fail /\ UNCHANGED mem
    /\ UNCHANGED build

\* A return: the local variables are gone, and the caller acts on a failure.
Ended     == Running /\ (Top.failed \/ Top.pc > Len(Body))
Locals    == {l \in DOMAIN mem : l[1] = Top.fn /\ Len(stack) > 1}
Caller    == stack[Len(stack) - 1]
OnFailure == Code[build][Caller.fn].body[Caller.pc].fail
Resume(pc, failed) ==
    stack' = [SubSeq(stack, 1, Len(stack) - 1) EXCEPT
                ![Len(stack) - 1].pc = pc, ![Len(stack) - 1].failed = failed]
Return ==
    /\ Ended
    /\ mem' = Without(mem, Locals)
    /\ \/ Len(stack) = 1 /\ stack' = << >>
       \/ /\ Len(stack) > 1
          /\ ~Top.failed \/ OnFailure = "ignore"
          /\ Resume(Caller.pc + 1, FALSE)
       \/ /\ Len(stack) > 1 /\ Top.failed
          /\ \/ OnFailure = "retry" /\ Resume(Caller.pc, FALSE)
             \/ OnFailure \in {"return", "retry"} /\ Resume(Caller.pc, TRUE)
    /\ UNCHANGED build

CallNext ==
    \/ Enter \/ Execute \/ RunKernel \/ DeclineKernel \/ SkipKernel
    \/ Jump \/ Assign \/ Check \/ Return

-----------------------------------------------------------------------------
\* A native step of a build without a back end calls nothing.
Called == Calling /\ (Step.op = "native" => build.native # "none")

\* What a function requires of its arguments holds wherever it is called, in
\* every build: each argument it reads was written (and not overwritten
\* through the other member of a union, nor left half-written by a kernel that
\* declined), lies in the required range, and shares no storage with another
\* argument (requires and memory_no_alias in poly.h, poly_kl.h, polyvec.h,
\* packing.h, sign.c and native/api.h).
RequiresHold ==
    /\ Called =>
         /\ \A x \in DOMAIN Callee.pre :
              Passed[x] \in DOMAIN mem /\ Within(mem[Passed[x]], Callee.pre[x])
         /\ \A x, y \in Formals(Callee) :
              x # y => Passed[x] # Passed[y] /\ ~Overlap(Passed[x], Passed[y])
         /\ Callee.form = "add" =>
              Within(Sum(mem[Passed["r"]], mem[Passed["b"]]),
                     Range(INT32_MIN, DOMAIN_MAX))
    /\ Busy /\ Step.op = "copy" => Loc(Step.from) \in DOMAIN mem
    /\ Busy /\ Step.op = "test" => Loc(Step.on) \in DOMAIN mem

\* A function that returns success has written what it ensures, within the
\* range it ensures, whether its native kernel ran, declined or is absent
\* (ensures in the same headers).
EnsuresHold ==
    Ended /\ ~Top.failed =>
        LET f == Code[build][Top.fn]
        IN  \A x \in DOMAIN f.post : LET l == IF x \in DOMAIN Top.env
                                              THEN Top.env[x] ELSE <<Top.fn, x>>
                                     IN  l \in DOMAIN mem /\ Within(mem[l], f.post[x])

\* Every operation is applied to data of the kind it is about, which no
\* contract states: products of evaluations in one order (the matrix, sampled
\* in the standard order, is permuted exactly when the transforms use their
\* own), transforms and their inverses of the same order, sums of equally
\* scaled values, no Montgomery factor left when coefficients are compared,
\* rounded or packed, the packed w1 still in the signature buffer when the
\* challenge is hashed; and a hash context is squeezed only when finalized,
\* released before the function returns, and never alive while another is.
Plain(v) == v.dom \notin Orders \cup Contexts /\ v.mont = 0
Fitting(f, e) ==
    LET In == {mem[e[x]] : x \in DOMAIN f.pre}
        Alike(S) == \A v, w \in S : v.dom = w.dom /\ v.mont = w.mont
    IN  CASE f.form = "ntt"      -> \A v \in In : v.dom = "coef"
          [] f.form = "intt"     -> \A v \in In : v.dom = KernelOrder
          [] f.form = "mul"      -> \A v, w \in In : v.dom \in Orders /\ v.dom = w.dom
          [] f.form = "linear"   -> Alike(In)
          [] f.form = "add"      -> Alike(In)
          [] f.form = "uniform"  -> \A v \in In : v.dom \in {"bytes", "bitrev"}
          [] f.form = "permute"  -> \A v \in In : v.dom = "bitrev" /\ v.mont = 0
          [] f.form = "init"     -> \A l \in DOMAIN mem : mem[l].dom \notin Contexts
          [] f.form = "squeeze"  -> mem[e["st"]].dom = "squeezing"
          [] f.form = "release"  -> mem[e["st"]].dom = "squeezing"
          [] f.form \in {"absorb", "finalize"} -> mem[e["st"]].dom = "absorbing"
          [] f.form = "calls"    -> TRUE
          [] OTHER               -> \A v \in In : Plain(v)
UnitsAgree ==
    /\ Called => Fitting(Callee, Passed)
    /\ Busy /\ Step.op = "expect" => mem[Loc(Step.on)].dom = Step.dom
    /\ Ended => \A l \in Locals : mem[l].dom \notin Contexts
=============================================================================
