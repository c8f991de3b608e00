------------------------------ MODULE Headers -------------------------------
(***************************************************************************)
(* What poly.h, poly_kl.h, polyvec.h, packing.h and sign.h declare: each   *)
(* function's parameters, the range it requires of every polynomial (or    *)
(* vector of polynomials) it reads and the range it ensures for every one  *)
(* it writes, in the build b.  A vector stands for any one of its elements,*)
(* and the four results of a batched function for any one of them.         *)
(***************************************************************************)
EXTENDS Integers, Sequences

\* params.h and the constants the contracts are written with.
N          == 256
Q          == 8380417
D          == 13
INT32_MIN  == -2147483647 - 1
DOMAIN_MAX == 2147483647 - 4194304
RANGE_MAX  == 6283009
NTT_BOUND  == 9 * Q
INTT_BOUND == Q

K(b)      == CASE b.set = 44 -> 4  [] b.set = 65 -> 6  [] b.set = 87 -> 8
ETA(b)    == IF b.set = 65 THEN 4 ELSE 2
TAU(b)    == CASE b.set = 44 -> 39 [] b.set = 65 -> 49 [] b.set = 87 -> 60
BETA(b)   == TAU(b) * ETA(b)
GAMMA1(b) == IF b.set = 44 THEN 2^17 ELSE 2^19
GAMMA2(b) == (Q - 1) \div (IF b.set = 44 THEN 88 ELSE 32)
OMEGA(b)  == CASE b.set = 44 -> 80 [] b.set = 65 -> 55 [] b.set = 87 -> 75
ETA_LOW(b) == IF ETA(b) = 2 THEN -5 ELSE -11

-----------------------------------------------------------------------------
\* Ranges, as array_bound and array_abs_bound write them (cbmc.h): the upper
\* end is exclusive.
Range(l, h) == [lo |-> l, hi |-> h - 1]
Abs(m)      == Range(1 - m, m)
Canonical   == Range(0, Q)
Reduced     == Range(-RANGE_MAX, RANGE_MAX)
Any         == Range(INT32_MIN, 2147483647)
Byte        == Range(0, 256)
Bit         == Range(0, 2)
T1          == Range(0, 1024)
T0          == Range(1 - 4096, 4096 + 1)
Eta(b)      == Abs(ETA(b) + 1)
EtaRead(b)  == Range(ETA_LOW(b), ETA(b) + 1)
Z(b)        == Range(1 - GAMMA1(b), GAMMA1(b) + 1)
High(b)     == Range(0, (Q - 1) \div (2 * GAMMA2(b)))
Low(b)      == Abs(GAMMA2(b) + 1)
Exactly(n)  == Range(n, n + 1)
Nothing     == << >>
\* The matrix; a reduced-RAM build keeps its seed instead.
Matrix(b)   == IF b.ram THEN Byte ELSE Canonical

Contract(par, pre, post) == [par |-> par, pre |-> pre, post |-> post]

-----------------------------------------------------------------------------
\* fips202.h, for SHAKE128 and SHAKE256 alike
hash_init_decl     == Contract(<<"st">>, Nothing, [st |-> Byte])
hash_absorb_decl   == Contract(<<"st">>, [st |-> Byte], [st |-> Byte])
hash_finalize_decl == Contract(<<"st">>, [st |-> Byte], [st |-> Byte])
hash_squeeze_decl  == Contract(<<"out", "st">>, [st |-> Byte], [out |-> Byte])
hash_release_decl  == Contract(<<"st">>, Nothing, Nothing)
shake256_decl      == Contract(<<"out", "msg">>, [msg |-> Byte], [out |-> Byte])

\* poly.h
poly_reduce_decl ==
    Contract(<<"a">>, [a |-> Range(INT32_MIN, DOMAIN_MAX)], [a |-> Reduced])
poly_caddq_decl == Contract(<<"a">>, [a |-> Abs(Q)], [a |-> Canonical])
poly_add_decl == Contract(<<"r", "b">>, [r |-> Any, b |-> Any], Nothing)
poly_sub_decl ==
    Contract(<<"r", "b">>, [r |-> Abs(Q), b |-> Abs(Q)],
             [r |-> Range(INT32_MIN, DOMAIN_MAX)])
poly_shiftl_decl == Contract(<<"a">>, [a |-> T1], [a |-> Canonical])
poly_ntt_decl == Contract(<<"a">>, [a |-> Abs(Q)], [a |-> Abs(NTT_BOUND)])
poly_invntt_tomont_decl ==
    Contract(<<"a">>, [a |-> Abs(Q)], [a |-> Abs(INTT_BOUND)])
poly_pointwise_montgomery_decl ==
    Contract(<<"c", "a", "b">>, [a |-> Abs(NTT_BOUND), b |-> Abs(NTT_BOUND)],
             [c |-> Abs(Q)])
poly_power2round_decl ==
    Contract(<<"a1", "a0", "a">>, [a |-> Canonical], [a1 |-> T1, a0 |-> T0])
poly_uniform_decl == Contract(<<"a">>, Nothing, [a |-> Canonical])
poly_uniform_4x_decl == Contract(<<"vec">>, Nothing, [vec |-> Canonical])
polyt1_pack_decl == Contract(<<"r", "a">>, [a |-> T1], [r |-> Byte])
polyt1_unpack_decl == Contract(<<"r", "a">>, [a |-> Byte], [r |-> T1])
polyt0_pack_decl == Contract(<<"r", "a">>, [a |-> T0], [r |-> Byte])
polyt0_unpack_decl == Contract(<<"r", "a">>, [a |-> Byte], [r |-> T0])
poly_chknorm_decl ==
    Contract(<<"a", "B">>, [a |-> Reduced, B |-> Range(0, Q - RANGE_MAX + 1)],
             Nothing)

\* poly_kl.h
poly_decompose_decl(b) ==
    Contract(<<"a1", "a0">>, [a0 |-> Canonical],
             [a1 |-> High(b), a0 |-> Low(b)])
poly_make_hint_decl ==
    Contract(<<"h", "a0", "a1", "n">>, [a0 |-> Any, a1 |-> Any],
             [h |-> Bit, n |-> Range(0, N + 1)])
poly_use_hint_decl(b) ==
    Contract(<<"b", "a", "h">>, [a |-> Canonical, h |-> Bit], [b |-> High(b)])
poly_uniform_eta_4x_decl(b) ==
    Contract(<<"r", "seed">>, [seed |-> Byte], [r |-> Eta(b)])
poly_uniform_eta_decl(b) ==
    Contract(<<"r", "seed">>, [seed |-> Byte], [r |-> Eta(b)])
poly_uniform_gamma1_decl(b) ==
    Contract(<<"a", "seed">>, [seed |-> Byte], [a |-> Z(b)])
poly_uniform_gamma1_4x_decl(b) ==
    Contract(<<"r", "seed">>, [seed |-> Byte], [r |-> Z(b)])
poly_challenge_decl ==
    Contract(<<"c", "seed">>, [seed |-> Byte], [c |-> Range(-1, 2)])
polyeta_pack_decl(b) == Contract(<<"r", "a">>, [a |-> Eta(b)], [r |-> Byte])
polyeta_unpack_decl(b) ==
    Contract(<<"r", "a">>, [a |-> Byte], [r |-> EtaRead(b)])
polyz_pack_decl(b) == Contract(<<"r", "a">>, [a |-> Z(b)], [r |-> Byte])
polyz_unpack_decl(b) == Contract(<<"r", "a">>, [a |-> Byte], [r |-> Z(b)])
polyw1_pack_decl(b) == Contract(<<"r", "a">>, [a |-> High(b)], [r |-> Byte])

\* polyvec.h
polyvecl_uniform_gamma1_decl(b) ==
    Contract(<<"v", "seed">>, [seed |-> Byte], [v |-> Z(b)])
polyvecl_ntt_decl == Contract(<<"v">>, [v |-> Abs(Q)], [v |-> Abs(NTT_BOUND)])
polyvecl_pointwise_acc_montgomery_decl ==
    Contract(<<"w", "u", "v">>, [u |-> Canonical, v |-> Abs(NTT_BOUND)],
             [w |-> Abs(Q)])
polyvecl_chknorm_decl ==
    Contract(<<"v", "B">>, [v |-> Reduced, B |-> Range(0, (Q - 1) \div 8 + 1)],
             Nothing)
polyveck_reduce_decl ==
    Contract(<<"v">>, [v |-> Range(INT32_MIN, DOMAIN_MAX)], [v |-> Reduced])
polyveck_caddq_decl == Contract(<<"v">>, [v |-> Abs(Q)], [v |-> Canonical])
polyveck_add_decl ==
    Contract(<<"u", "v">>, [u |-> Abs(INTT_BOUND), v |-> Reduced],
             [u |-> Range(INT32_MIN, DOMAIN_MAX)])
polyveck_sub_decl ==
    Contract(<<"u", "v">>, [u |-> Abs(Q), v |-> Abs(Q)],
             [u |-> Range(INT32_MIN, DOMAIN_MAX)])
polyveck_shiftl_decl == Contract(<<"v">>, [v |-> T1], [v |-> Canonical])
polyveck_ntt_decl == Contract(<<"v">>, [v |-> Abs(Q)], [v |-> Abs(NTT_BOUND)])
polyveck_invntt_tomont_decl ==
    Contract(<<"v">>, [v |-> Abs(Q)], [v |-> Abs(INTT_BOUND)])
polyveck_pointwise_poly_montgomery_decl ==
    Contract(<<"r", "a", "v">>, [a |-> Abs(NTT_BOUND), v |-> Abs(NTT_BOUND)],
             [r |-> Abs(Q)])
polyveck_chknorm_decl ==
    Contract(<<"v", "B">>, [v |-> Reduced, B |-> Range(0, (Q - 1) \div 8 + 1)],
             Nothing)
polyveck_power2round_decl ==
    Contract(<<"v1", "v0", "v">>, [v |-> Canonical], [v0 |-> T0, v1 |-> T1])
polyveck_decompose_decl(b) ==
    Contract(<<"v1", "v0">>, [v0 |-> Canonical],
             [v1 |-> High(b), v0 |-> Low(b)])
polyveck_make_hint_decl(b) ==
    Contract(<<"h", "v0", "v1", "n">>, [v0 |-> Any, v1 |-> Any],
             [h |-> Bit, n |-> Range(0, N * K(b) + 1)])
polyveck_use_hint_decl(b) ==
    Contract(<<"w", "v", "h">>, [v |-> Canonical, h |-> Bit], [w |-> High(b)])
polyveck_pack_w1_decl(b) ==
    Contract(<<"r", "w1">>, [w1 |-> High(b)], [r |-> Byte])
polyveck_pack_eta_decl(b) ==
    Contract(<<"r", "p">>, [p |-> Eta(b)], [r |-> Byte])
polyvecl_pack_eta_decl(b) ==
    Contract(<<"r", "p">>, [p |-> Eta(b)], [r |-> Byte])
polyveck_pack_t0_decl == Contract(<<"r", "p">>, [p |-> T0], [r |-> Byte])
polyvecl_unpack_eta_decl(b) ==
    Contract(<<"p", "r">>, [r |-> Byte], [p |-> EtaRead(b)])
polyvecl_unpack_z_decl(b) == Contract(<<"z", "r">>, [r |-> Byte], [z |-> Z(b)])
polyveck_unpack_eta_decl(b) ==
    Contract(<<"p", "r">>, [r |-> Byte], [p |-> EtaRead(b)])
polyveck_unpack_t0_decl == Contract(<<"p", "r">>, [r |-> Byte], [p |-> T0])
polyvec_matrix_expand_decl(b) ==
    Contract(<<"mat", "rho">>, [rho |-> Byte],
             [mat |-> Matrix(b)])
polyvec_matrix_pointwise_montgomery_decl(b) ==
    Contract(<<"t", "mat", "v">>, [mat |-> Matrix(b), v |-> Abs(NTT_BOUND)],
             [t |-> Abs(Q)])

\* packing.h
pack_pk_decl ==
    Contract(<<"pk", "rho", "t1">>, [rho |-> Byte, t1 |-> T1], [pk |-> Byte])
pack_sk_decl(b) ==
    Contract(<<"sk", "rho", "tr", "key", "t0", "s1", "s2">>,
             [rho |-> Byte, tr |-> Byte, key |-> Byte, t0 |-> T0,
              s1 |-> Eta(b), s2 |-> Eta(b)],
             [sk |-> Byte])
pack_sig_c_h_decl(b) ==
    Contract(<<"sig", "c", "h", "n">>,
             [c |-> Byte, h |-> Bit, n |-> Range(0, OMEGA(b) + 1)],
             [sig |-> Byte])
pack_sig_z_decl(b) == Contract(<<"sig", "zi">>, [zi |-> Z(b)], [sig |-> Byte])
unpack_pk_decl ==
    Contract(<<"rho", "t1", "pk">>, [pk |-> Byte], [rho |-> Byte, t1 |-> T1])
unpack_sk_decl(b) ==
    Contract(<<"rho", "tr", "key", "t0", "s1", "s2", "sk">>, [sk |-> Byte],
             [rho |-> Byte, tr |-> Byte, key |-> Byte, t0 |-> T0,
              s1 |-> EtaRead(b), s2 |-> EtaRead(b)])
unpack_sig_decl(b) ==
    Contract(<<"c", "z", "h", "sig">>, [sig |-> Byte],
             [c |-> Byte, z |-> Z(b), h |-> Bit])

\* sign.h
sign_keypair_internal_decl ==
    Contract(<<"pk", "sk", "seed">>, [seed |-> Byte],
             [pk |-> Byte, sk |-> Byte])
sign_signature_internal_decl ==
    Contract(<<"sig", "m", "rnd", "sk">>, [m |-> Byte, rnd |-> Byte, sk |-> Byte],
             [sig |-> Byte])
sign_verify_internal_decl ==
    Contract(<<"sig", "m", "pk">>, [sig |-> Byte, m |-> Byte, pk |-> Byte],
             Nothing)
sign_pk_from_sk_decl == Contract(<<"pk", "sk">>, [sk |-> Byte], [pk |-> Byte])
=============================================================================
