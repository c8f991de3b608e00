----------------------------- MODULE Contracts ------------------------------
(***************************************************************************)
(* The functions between the public API and the arithmetic kernels, each   *)
(* with the contract its header states and the calls its body makes.       *)
(*                                                                         *)
(* A function is a record: its formal parameters, the range required of    *)
(* every polynomial (or vector of polynomials) it reads, the range ensured *)
(* for every one it writes, and its body, a sequence of steps.  A vector   *)
(* stands for any one of its elements: the loops over MLDSA_K and MLDSA_L  *)
(* make the same call on each.  A leaf has no body: its effect is what it  *)
(* ensures, and form says what it does to the representation (domain,      *)
(* order of the coefficients, power of 2^32 they are scaled by).           *)
(*                                                                         *)
(* Every definition depends on the build b: parameter set, reduced-RAM     *)
(* and serial-hash switches, and what the native back end offers.          *)
(***************************************************************************)
EXTENDS Headers

\* A function with a body, and one without.
Fn(decl, body) ==
    [par |-> decl.par, pre |-> decl.pre, post |-> decl.post, body |-> body,
     form |-> "calls", kept |-> {}]
Leaf(decl, form) ==
    [par |-> decl.par, pre |-> decl.pre, post |-> decl.post, body |-> << >>,
     form |-> form, kept |-> {}]
\* A native kernel; when it declines it leaves the parameters of kept as they
\* were (array_unchanged), and may have written to the others.
Kernel(par, pre, post, form, kept) ==
    [par |-> par, pre |-> pre, post |-> post, body |-> << >>,
     form |-> form, kept |-> kept]

\* Steps: a call whose failure ends the caller, is noted and ignored, or makes
\* the caller try again; a native kernel, which ends the caller if it ran; a
\* jump that may or may not be taken; an assignment of a struct, or of a number
\* of a range; a test that makes the caller fail; and the packed content the
\* next step relies on.
Call(f, a)   == [op |-> "call", fn |-> f, args |-> a, fail |-> "return"]
Note(f, a)   == [op |-> "call", fn |-> f, args |-> a, fail |-> "ignore"]
Retry(f, a)  == [op |-> "call", fn |-> f, args |-> a, fail |-> "retry"]
Native(f, a) == [op |-> "native", fn |-> f, args |-> a]
Branch(d)    == [op |-> "branch", by |-> d]
Copy(x, y)   == [op |-> "copy", to |-> x, from |-> y]
Set(x, r)    == [op |-> "set", to |-> x, range |-> r]
Test(x, r)   == [op |-> "test", on |-> x, ok |-> r]
Expect(x, d) == [op |-> "expect", on |-> x, dom |-> d]

-----------------------------------------------------------------------------
\* The hash context.  One name for all: the contexts never live together, as
\* a FIPS 202 back end with a single static state needs.
hash_init        == Leaf(hash_init_decl, "init")
hash_absorb      == Leaf(hash_absorb_decl, "absorb")
hash_finalize    == Leaf(hash_finalize_decl, "finalize")
hash_squeeze     == Leaf(hash_squeeze_decl, "squeeze")
hash_release     == Leaf(hash_release_decl, "release")
Absorbed(k)      == <<Call("hash_init", <<"state">>)>>
                    \o [i \in 1..k |-> Call("hash_absorb", <<"state">>)]
                    \o <<Call("hash_finalize", <<"state">>)>>
Squeezed(out)    == <<Call("hash_squeeze", <<out, "state">>)>>
Released         == <<Call("hash_release", <<"state">>)>>
shake256         == Fn(shake256_decl,
                       Absorbed(1) \o Squeezed("out") \o Released)
\* mld_H hashes one, two or three blocks: those of a length above zero.
H(ins) == Fn(Contract(<<"out">> \o ins,
                      [x \in {ins[i] : i \in DOMAIN ins} |-> Byte], [out |-> Byte]),
             Absorbed(Len(ins)) \o Squeezed("out") \o Released)

-----------------------------------------------------------------------------
\* native/api.h: what the C code may assume of a native kernel.
ntt_native ==
    Kernel(<<"p">>, [p |-> Abs(Q)], [p |-> Abs(NTT_BOUND)], "ntt", {"p"})
intt_native ==
    Kernel(<<"p">>, [p |-> Abs(Q)], [p |-> Abs(INTT_BOUND)], "intt", {"p"})
poly_permute_bitrev_to_custom ==
    Kernel(<<"p">>, [p |-> Canonical], [p |-> Canonical], "permute", {})
rej_uniform_native ==
    Kernel(<<"r", "buf">>, [buf |-> Byte], [r |-> Canonical], "uniform", {})
rej_uniform_eta2_native(b) ==
    Kernel(<<"r", "buf">>, [buf |-> Byte], [r |-> Eta(b)], "coef", {})
rej_uniform_eta4_native(b) ==
    Kernel(<<"r", "buf">>, [buf |-> Byte], [r |-> Eta(b)], "coef", {})
poly_decompose_32_native(b) ==
    Kernel(<<"a1", "a0">>, [a0 |-> Canonical],
           [a1 |-> High(b), a0 |-> Low(b)], "coef", {"a0"})
poly_decompose_88_native(b) ==
    Kernel(<<"a1", "a0">>, [a0 |-> Canonical],
           [a1 |-> High(b), a0 |-> Low(b)], "coef", {"a0"})
poly_caddq_native ==
    Kernel(<<"a">>, [a |-> Abs(Q)], [a |-> Canonical], "linear", {"a"})
poly_use_hint_32_native(b) ==
    Kernel(<<"b", "a", "h">>, [a |-> Canonical, h |-> Bit],
           [b |-> High(b)], "coef", {"b"})
poly_use_hint_88_native(b) ==
    Kernel(<<"b", "a", "h">>, [a |-> Canonical, h |-> Bit],
           [b |-> High(b)], "coef", {"b"})
poly_chknorm_native ==
    Kernel(<<"a", "B">>, [a |-> Reduced, B |-> Range(0, Q - RANGE_MAX + 1)],
           Nothing, "chknorm", {})
polyz_unpack_17_native(b) ==
    Kernel(<<"r", "a">>, [a |-> Byte], [r |-> Z(b)], "coef", {"r"})
polyz_unpack_19_native(b) ==
    Kernel(<<"r", "a">>, [a |-> Byte], [r |-> Z(b)], "coef", {"r"})
poly_pointwise_montgomery_native ==
    Kernel(<<"c", "a", "b">>, [a |-> Abs(NTT_BOUND), b |-> Abs(NTT_BOUND)],
           [c |-> Abs(Q)], "mul", {"c"})
polyvecl_pointwise_acc_montgomery_l4_native ==
    Kernel(<<"w", "u", "v">>, [u |-> Canonical, v |-> Abs(NTT_BOUND)],
           [w |-> Abs(Q)], "mul", {"w"})
polyvecl_pointwise_acc_montgomery_l5_native ==
    Kernel(<<"w", "u", "v">>, [u |-> Canonical, v |-> Abs(NTT_BOUND)],
           [w |-> Abs(Q)], "mul", {"w"})
polyvecl_pointwise_acc_montgomery_l7_native ==
    Kernel(<<"w", "u", "v">>, [u |-> Canonical, v |-> Abs(NTT_BOUND)],
           [w |-> Abs(Q)], "mul", {"w"})

-----------------------------------------------------------------------------
\* poly.c: the portable kernels a front end falls back to.
poly_caddq_c ==
    Leaf(Contract(<<"a">>, [a |-> Abs(Q)], [a |-> Canonical]), "linear")
poly_ntt_c ==
    Leaf(Contract(<<"a">>, [a |-> Abs(Q)], [a |-> Abs(NTT_BOUND)]), "ntt")
poly_invntt_tomont_c ==
    Leaf(Contract(<<"a">>, [a |-> Abs(Q)], [a |-> Abs(INTT_BOUND)]), "intt")
poly_pointwise_montgomery_c ==
    Leaf(Contract(<<"c", "a", "b">>,
                  [a |-> Abs(NTT_BOUND), b |-> Abs(NTT_BOUND)],
                  [c |-> Abs(Q)]), "mul")
\* The first call finds no coefficient to keep, the others continue.
rej_uniform_c ==
    Leaf(Contract(<<"a", "buf">>, [buf |-> Byte],
                  [a |-> Canonical]), "uniform")
rej_uniform_more ==
    Leaf(Contract(<<"a", "buf">>, [a |-> Canonical, buf |-> Byte],
                  [a |-> Canonical]), "uniform")
\* Fault: a kernel that declines is taken for one that ran.
rej_uniform_trusting ==
    Fn(Contract(<<"a", "buf">>, [buf |-> Byte], [a |-> Canonical]),
       <<Native("rej_uniform_native", <<"a", "buf">>), Branch(1)>>)
rej_uniform ==
    Fn(Contract(<<"a", "buf">>, [buf |-> Byte], [a |-> Canonical]),
       <<Native("rej_uniform_native", <<"a", "buf">>),
         Call("rej_uniform_c", <<"a", "buf">>)>>)
poly_chknorm_c ==
    Leaf(Contract(<<"a", "B">>,
                  [a |-> Reduced, B |-> Range(0, Q - RANGE_MAX + 1)],
                  Nothing), "chknorm")

\* poly.c: the front ends.
poly_reduce == Leaf(poly_reduce_decl, "linear")
poly_caddq ==
    Fn(poly_caddq_decl,
       <<Native("poly_caddq_native", <<"a">>), Call("poly_caddq_c", <<"a">>)>>)
poly_add == Leaf(poly_add_decl, "add")
poly_sub == Leaf(poly_sub_decl, "linear")
poly_shiftl == Leaf(poly_shiftl_decl, "linear")
poly_ntt ==
    Fn(poly_ntt_decl,
       <<Native("ntt_native", <<"a">>), Call("poly_ntt_c", <<"a">>)>>)
poly_invntt_tomont ==
    Fn(poly_invntt_tomont_decl,
       <<Native("intt_native", <<"a">>), Call("poly_invntt_tomont_c", <<"a">>)>>)
poly_pointwise_montgomery ==
    Fn(poly_pointwise_montgomery_decl,
       <<Native("poly_pointwise_montgomery_native", <<"c", "a", "b">>),
         Call("poly_pointwise_montgomery_c", <<"c", "a", "b">>)>>)
poly_power2round == Leaf(poly_power2round_decl, "coef")
poly_uniform ==
    Fn(poly_uniform_decl,
       Absorbed(1) \o Squeezed("buf") \o <<Call("rej_uniform", <<"a", "buf">>)>>
       \o <<Branch(4)>> \o Squeezed("buf")
       \o <<Call("rej_uniform_more", <<"a", "buf">>), Branch(-2)>> \o Released)
poly_uniform_4x ==
    Fn(poly_uniform_4x_decl,
       Absorbed(1) \o Squeezed("buf") \o <<Call("rej_uniform", <<"vec", "buf">>)>>
       \o <<Branch(4)>> \o Squeezed("buf")
       \o <<Call("rej_uniform_more", <<"vec", "buf">>), Branch(-2)>> \o Released)
polyt1_pack == Leaf(polyt1_pack_decl, "t1")
polyt1_unpack == Leaf(polyt1_unpack_decl, "coef")
polyt0_pack == Leaf(polyt0_pack_decl, "t0")
polyt0_unpack == Leaf(polyt0_unpack_decl, "coef")
poly_chknorm ==
    Fn(poly_chknorm_decl,
       <<Native("poly_chknorm_native", <<"a", "B">>),
         Call("poly_chknorm_c", <<"a", "B">>)>>)

=============================================================================
