-------------------------- MODULE VectorContracts ---------------------------
(***************************************************************************)
(* The functions that depend on the parameter set: poly_kl.c and           *)
(* polyvec.c, in the notation of Contracts.                                *)
(***************************************************************************)
EXTENDS Contracts

\* poly_kl.c: the portable kernels.
poly_decompose_c(b) ==
    Leaf(Contract(<<"a1", "a0">>, [a0 |-> Canonical],
                  [a1 |-> High(b), a0 |-> Low(b)]), "coef")
poly_use_hint_c(b) ==
    Leaf(Contract(<<"b", "a", "h">>, [a |-> Canonical, h |-> Bit],
                  [b |-> High(b)]), "coef")
rej_eta_c(b) ==
    Leaf(Contract(<<"a", "buf">>, [buf |-> Byte], [a |-> Eta(b)]), "coef")
rej_eta_more(b) ==
    Leaf(Contract(<<"a", "buf">>, [a |-> Eta(b), buf |-> Byte],
                  [a |-> Eta(b)]), "coef")

\* poly_kl.c: the front ends; the parameter set selects the kernel.
poly_decompose(b) ==
    Fn(poly_decompose_decl(b),
       <<Native(IF b.set = 44 THEN "poly_decompose_88_native"
                              ELSE "poly_decompose_32_native", <<"a1", "a0">>),
         Call("poly_decompose_c", <<"a1", "a0">>)>>)
poly_make_hint == Leaf(poly_make_hint_decl, "coef")
poly_use_hint(b) ==
    Fn(poly_use_hint_decl(b),
       <<Native(IF b.set = 44 THEN "poly_use_hint_88_native"
                              ELSE "poly_use_hint_32_native", <<"b", "a", "h">>),
         Call("poly_use_hint_c", <<"b", "a", "h">>)>>)
rej_eta(b) ==
    Fn(Contract(<<"a", "buf">>, [buf |-> Byte], [a |-> Eta(b)]),
       <<Native(IF ETA(b) = 2 THEN "rej_uniform_eta2_native"
                              ELSE "rej_uniform_eta4_native", <<"a", "buf">>),
         Call("rej_eta_c", <<"a", "buf">>)>>)
poly_uniform_eta(b) ==
    Fn(poly_uniform_eta_decl(b),
       Absorbed(1) \o Squeezed("buf") \o <<Call("rej_eta", <<"r", "buf">>)>>
       \o <<Branch(4)>> \o Squeezed("buf")
       \o <<Call("rej_eta_more", <<"r", "buf">>), Branch(-2)>> \o Released)
poly_uniform_eta_4x(b) ==
    Fn(poly_uniform_eta_4x_decl(b),
       Absorbed(1) \o Squeezed("buf") \o <<Call("rej_eta", <<"r", "buf">>)>>
       \o <<Branch(4)>> \o Squeezed("buf")
       \o <<Call("rej_eta_more", <<"r", "buf">>), Branch(-2)>> \o Released)
poly_uniform_gamma1(b) ==
    Fn(poly_uniform_gamma1_decl(b),
       Absorbed(1) \o Squeezed("buf") \o <<Call("polyz_unpack", <<"a", "buf">>)>>
       \o Released)
poly_uniform_gamma1_4x(b) ==
    Fn(poly_uniform_gamma1_4x_decl(b),
       Absorbed(1) \o Squeezed("buf") \o <<Call("polyz_unpack", <<"r", "buf">>)>>
       \o Released)
\* The index bytes may need more than one block; the coefficients are stored
\* while the context is still live.
sample_in_ball ==
    Leaf(Contract(<<"c", "buf">>, [buf |-> Byte],
                  [c |-> Range(-1, 2)]), "coef")
poly_challenge ==
    Fn(poly_challenge_decl,
       Absorbed(1) \o Squeezed("buf")
       \o <<Branch(3)>> \o Squeezed("buf") \o <<Branch(-1)>>
       \o <<Call("sample_in_ball", <<"c", "buf">>)>> \o Released)
polyeta_pack(b) == Leaf(polyeta_pack_decl(b), "eta")
polyeta_unpack(b) == Leaf(polyeta_unpack_decl(b), "coef")
polyz_pack(b) == Leaf(polyz_pack_decl(b), "z")
polyz_unpack_c(b) ==
    Leaf(Contract(<<"r", "a">>, [a |-> Byte], [r |-> Z(b)]), "coef")
polyz_unpack(b) ==
    Fn(polyz_unpack_decl(b),
       <<Native(IF b.set = 44 THEN "polyz_unpack_17_native"
                              ELSE "polyz_unpack_19_native", <<"r", "a">>),
         Call("polyz_unpack_c", <<"r", "a">>)>>)
polyw1_pack(b) == Leaf(polyw1_pack_decl(b), "w1")

-----------------------------------------------------------------------------
\* polyvec.c: the matrix.  A reduced-RAM build keeps the seed and samples a
\* row when it is asked for; row stands for the row handed out.
polyvecl_permute_bitrev_to_custom(b) ==
    Fn(Contract(<<"v">>, [v |-> Canonical], [v |-> Canonical]),
       IF b.custom THEN <<Call("poly_permute_bitrev_to_custom", <<"v">>)>>
                   ELSE << >>)
polymat_permute_bitrev_to_custom ==
    Fn(Contract(<<"mat">>, [mat |-> Canonical], [mat |-> Canonical]),
       <<Call("polyvecl_permute_bitrev_to_custom", <<"mat">>)>>)
\* Fault: a row sampled on demand keeps the standard order.
polymat_get_row_unpermuted(b) ==
    Fn(Contract(<<"row", "mat">>, [mat |-> Matrix(b)], [row |-> Canonical]),
       IF b.ram THEN <<Call("poly_uniform", <<"row">>)>> ELSE <<Copy("row", "mat")>>)
polymat_get_row(b) ==
    Fn(Contract(<<"row", "mat">>, [mat |-> Matrix(b)], [row |-> Canonical]),
       IF b.ram
       THEN <<Call("poly_uniform", <<"row">>)>>
            \o (IF b.custom
                THEN <<Call("poly_permute_bitrev_to_custom", <<"row">>)>>
                ELSE << >>)
       ELSE <<Copy("row", "mat")>>)
\* MLDSA_K * MLDSA_L entries, four at a time; what is left one by one.
polyvec_matrix_expand(b) ==
    Fn(polyvec_matrix_expand_decl(b),
       IF b.ram THEN <<Copy("mat", "rho")>>
       ELSE (IF b.serial THEN << >> ELSE <<Call("poly_uniform_4x", <<"mat">>)>>)
            \o (IF b.serial \/ b.set = 65
                THEN <<Call("poly_uniform", <<"mat">>)>> ELSE << >>)
            \o <<Call("polymat_permute_bitrev_to_custom", <<"mat">>)>>)
polyvec_matrix_pointwise_montgomery(b) ==
    Fn(polyvec_matrix_pointwise_montgomery_decl(b),
       <<Call("polymat_get_row", <<"row", "mat">>),
         Call("polyvecl_pointwise_acc_montgomery", <<"t", "row", "v">>)>>)

\* polyvec.c: vectors of length MLDSA_L.
polyvecl_uniform_gamma1(b) ==
    Fn(polyvecl_uniform_gamma1_decl(b),
       (IF b.serial THEN << >>
        ELSE <<Call("poly_uniform_gamma1_4x", <<"v", "seed">>)>>)
       \o (IF b.serial \/ b.set = 65
           THEN <<Call("poly_uniform_gamma1", <<"v", "seed">>)>> ELSE << >>))
polyvecl_ntt == Fn(polyvecl_ntt_decl, <<Call("poly_ntt", <<"v">>)>>)
polyvecl_pointwise_acc_montgomery_c ==
    Leaf(Contract(<<"w", "u", "v">>, [u |-> Canonical, v |-> Abs(NTT_BOUND)],
                  [w |-> Abs(Q)]), "mul")
polyvecl_pointwise_acc_montgomery(b) ==
    Fn(polyvecl_pointwise_acc_montgomery_decl,
       <<Native(CASE b.set = 44 -> "polyvecl_pointwise_acc_montgomery_l4_native"
                  [] b.set = 65 -> "polyvecl_pointwise_acc_montgomery_l5_native"
                  [] b.set = 87 -> "polyvecl_pointwise_acc_montgomery_l7_native",
                <<"w", "u", "v">>),
         Call("polyvecl_pointwise_acc_montgomery_c", <<"w", "u", "v">>)>>)
polyvecl_chknorm ==
    Fn(polyvecl_chknorm_decl, <<Call("poly_chknorm", <<"v", "B">>)>>)
polyvecl_pack_eta(b) ==
    Fn(polyvecl_pack_eta_decl(b), <<Call("polyeta_pack", <<"r", "p">>)>>)
polyvecl_unpack_eta(b) ==
    Fn(polyvecl_unpack_eta_decl(b), <<Call("polyeta_unpack", <<"p", "r">>)>>)
polyvecl_unpack_z(b) ==
    Fn(polyvecl_unpack_z_decl(b), <<Call("polyz_unpack", <<"z", "r">>)>>)

\* polyvec.c: vectors of length MLDSA_K.
polyveck_reduce == Fn(polyveck_reduce_decl, <<Call("poly_reduce", <<"v">>)>>)
polyveck_caddq == Fn(polyveck_caddq_decl, <<Call("poly_caddq", <<"v">>)>>)
polyveck_add == Fn(polyveck_add_decl, <<Call("poly_add", <<"u", "v">>)>>)
polyveck_sub == Fn(polyveck_sub_decl, <<Call("poly_sub", <<"u", "v">>)>>)
polyveck_shiftl == Fn(polyveck_shiftl_decl, <<Call("poly_shiftl", <<"v">>)>>)
polyveck_ntt == Fn(polyveck_ntt_decl, <<Call("poly_ntt", <<"v">>)>>)
polyveck_invntt_tomont ==
    Fn(polyveck_invntt_tomont_decl, <<Call("poly_invntt_tomont", <<"v">>)>>)
polyveck_pointwise_poly_montgomery ==
    Fn(polyveck_pointwise_poly_montgomery_decl,
       <<Call("poly_pointwise_montgomery", <<"r", "a", "v">>)>>)
polyveck_chknorm ==
    Fn(polyveck_chknorm_decl, <<Call("poly_chknorm", <<"v", "B">>)>>)
polyveck_power2round ==
    Fn(polyveck_power2round_decl,
       <<Call("poly_power2round", <<"v1", "v0", "v">>)>>)
polyveck_decompose(b) ==
    Fn(polyveck_decompose_decl(b), <<Call("poly_decompose", <<"v1", "v0">>)>>)
\* The number of hints n is the sum over the elements.
polyveck_make_hint(b) ==
    Fn(polyveck_make_hint_decl(b),
       <<Call("poly_make_hint", <<"h", "v0", "v1", "n">>), Set("n", Range(0, N * K(b) + 1))>>)
polyveck_use_hint(b) ==
    Fn(polyveck_use_hint_decl(b), <<Call("poly_use_hint", <<"w", "v", "h">>)>>)
polyveck_pack_w1(b) ==
    Fn(polyveck_pack_w1_decl(b), <<Call("polyw1_pack", <<"r", "w1">>)>>)
polyveck_pack_eta(b) ==
    Fn(polyveck_pack_eta_decl(b), <<Call("polyeta_pack", <<"r", "p">>)>>)
polyveck_pack_t0 ==
    Fn(polyveck_pack_t0_decl, <<Call("polyt0_pack", <<"r", "p">>)>>)
polyveck_unpack_eta(b) ==
    Fn(polyveck_unpack_eta_decl(b), <<Call("polyeta_unpack", <<"p", "r">>)>>)
polyveck_unpack_t0 ==
    Fn(polyveck_unpack_t0_decl, <<Call("polyt0_unpack", <<"p", "r">>)>>)
=============================================================================
