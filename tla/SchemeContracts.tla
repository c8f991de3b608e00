-------------------------- MODULE SchemeContracts ---------------------------
(***************************************************************************)
(* packing.c and the arithmetic of sign.c, in the notation of Contracts.   *)
(* The allocations and what is wiped are in Allocation, Signing and KeyGen;*)
(* here every buffer is granted.                                           *)
(***************************************************************************)
EXTENDS VectorContracts

\* packing.c.  What is not named by a precondition is a byte array.
pack_pk ==
    Fn(pack_pk_decl, <<Copy("pk", "rho"), Call("polyt1_pack", <<"pk", "t1">>)>>)
unpack_pk ==
    Fn(unpack_pk_decl,
       <<Copy("rho", "pk"), Call("polyt1_unpack", <<"t1", "pk">>)>>)
pack_sk(b) ==
    Fn(pack_sk_decl(b),
       <<Copy("sk", "rho"), Copy("sk", "key"), Copy("sk", "tr"),
         Call("polyvecl_pack_eta", <<"sk", "s1">>),
         Call("polyveck_pack_eta", <<"sk", "s2">>),
         Call("polyveck_pack_t0", <<"sk", "t0">>)>>)
unpack_sk(b) ==
    Fn(unpack_sk_decl(b),
       <<Copy("rho", "sk"), Copy("key", "sk"), Copy("tr", "sk"),
         Call("polyvecl_unpack_eta", <<"s1", "sk">>),
         Call("polyveck_unpack_eta", <<"s2", "sk">>),
         Call("polyveck_unpack_t0", <<"t0", "sk">>)>>)
\* The hints are written one byte at a time, no more than n of them.
pack_sig_c_h(b) == Leaf(pack_sig_c_h_decl(b), "hints")
pack_sig_z(b) == Fn(pack_sig_z_decl(b), <<Call("polyz_pack", <<"sig", "zi">>)>>)
unpack_hints ==
    Leaf(Contract(<<"h", "packed_hints">>, [packed_hints |-> Byte],
                  [h |-> Bit]), "unhints")
unpack_sig(b) ==
    Fn(unpack_sig_decl(b),
       <<Copy("c", "sig"), Call("polyvecl_unpack_z", <<"z", "sig">>),
         Call("unpack_hints", <<"h", "sig">>)>>)

-----------------------------------------------------------------------------
\* sign.c: key generation.
sample_s1_s2(b) ==
    Fn(Contract(<<"s1", "s2", "seed">>, [seed |-> Byte],
                [s1 |-> Eta(b), s2 |-> Eta(b)]),
       LET eta == IF b.serial THEN "poly_uniform_eta" ELSE "poly_uniform_eta_4x"
       IN  <<Call(eta, <<"s1", "seed">>), Call(eta, <<"s2", "seed">>)>>)
compute_t0_t1_tr_from_sk_components(b) ==
    Fn(Contract(<<"t0", "t1", "tr", "pk", "rho", "s1", "s2">>,
                [rho |-> Byte, s1 |-> EtaRead(b), s2 |-> EtaRead(b)],
                [t0 |-> T0, t1 |-> T1, tr |-> Byte, pk |-> Byte]),
       <<Call("polyvec_matrix_expand", <<"mat", "rho">>),
         Copy("s1hat", "s1"),
         Call("polyvecl_ntt", <<"s1hat">>),
         Call("polyvec_matrix_pointwise_montgomery", <<"t", "mat", "s1hat">>),
         Call("polyveck_invntt_tomont", <<"t">>),
         Call("polyveck_add", <<"t", "s2">>),
         Call("polyveck_reduce", <<"t">>),
         Call("polyveck_caddq", <<"t">>),
         Call("polyveck_power2round", <<"t1", "t0", "t">>),
         Call("pack_pk", <<"pk", "rho", "t1">>),
         Call("shake256", <<"tr", "pk">>)>>)
sign_keypair_internal ==
    Fn(sign_keypair_internal_decl,
       <<Copy("inbuf", "seed"), Call("shake256", <<"seedbuf", "inbuf">>),
         Copy("rho", "seedbuf"), Copy("rhoprime", "seedbuf"),
         Copy("key", "seedbuf"),
         Call("sample_s1_s2", <<"s1", "s2", "rhoprime">>),
         Call("compute_t0_t1_tr_from_sk_components",
              <<"t0", "t1", "tr", "pk", "rho", "s1", "s2">>),
         Call("pack_sk", <<"sk", "rho", "tr", "key", "t0", "s1", "s2">>)>>)
\* A norm above ETA is reported, but only after the public key is recomputed.
sign_pk_from_sk(b) ==
    Fn(sign_pk_from_sk_decl,
       <<Call("unpack_sk", <<"rho", "tr", "key", "t0", "s1", "s2", "sk">>),
         Set("bound", Exactly(ETA(b) + 1)),
         Note("polyvecl_chknorm", <<"s1", "bound">>),
         Note("polyveck_chknorm", <<"s2", "bound">>),
         Call("compute_t0_t1_tr_from_sk_components",
              <<"t0_computed", "t1", "tr_computed", "pk", "rho", "s1", "s2">>)>>)

\* sign.c: signing.
\* Fault: the norm of z is checked before z is reduced.
compute_pack_z_unreduced(b) ==
    Fn(Contract(<<"sig", "cp", "s1", "y", "z">>,
                [cp |-> Abs(NTT_BOUND), y |-> Z(b), s1 |-> Abs(NTT_BOUND)],
                Nothing),
       <<Call("poly_pointwise_montgomery", <<"z", "cp", "s1">>),
         Call("poly_invntt_tomont", <<"z">>),
         Call("poly_add", <<"z", "y">>),
         Set("bound", Exactly(GAMMA1(b) - BETA(b))),
         Call("poly_chknorm", <<"z", "bound">>),
         Call("poly_reduce", <<"z">>),
         Call("pack_sig_z", <<"sig", "z">>),
         Branch(-7)>>)
compute_pack_z(b) ==
    Fn(Contract(<<"sig", "cp", "s1", "y", "z">>,
                [cp |-> Abs(NTT_BOUND), y |-> Z(b), s1 |-> Abs(NTT_BOUND)],
                Nothing),
       <<Call("poly_pointwise_montgomery", <<"z", "cp", "s1">>),
         Call("poly_invntt_tomont", <<"z">>),
         Call("poly_add", <<"z", "y">>),
         Call("poly_reduce", <<"z">>),
         Set("bound", Exactly(GAMMA1(b) - BETA(b))),
         Call("poly_chknorm", <<"z", "bound">>),
         Call("pack_sig_z", <<"sig", "z">>),
         Branch(-7)>>)
\* The packed w1 waits in the signature buffer until the challenge is hashed.
attempt_signature_generation(b) ==
    Fn(Contract(<<"sig", "mu", "rhoprime", "mat", "s1", "s2", "t0">>,
                [mu |-> Byte, rhoprime |-> Byte, mat |-> Matrix(b),
                  t0 |-> Abs(NTT_BOUND), s1 |-> Abs(NTT_BOUND), s2 |-> Abs(NTT_BOUND)],
                Nothing),
       <<Call("polyvecl_uniform_gamma1", <<"y", "rhoprime">>),
         Copy("tmp", "y"),
         Call("polyvecl_ntt", <<"tmp">>),
         Call("polyvec_matrix_pointwise_montgomery", <<"w0", "mat", "tmp">>),
         Call("polyveck_invntt_tomont", <<"w0">>),
         Call("polyveck_caddq", <<"w0">>),
         Call("polyveck_decompose", <<"w1", "w0">>),
         Call("polyveck_pack_w1", <<"sig", "w1">>),
         Expect("sig", "w1"), Call("H2", <<"challenge_bytes", "mu", "sig">>),
         Call("poly_challenge", <<"cp", "challenge_bytes">>),
         Call("poly_ntt", <<"cp">>),
         Call("compute_pack_z", <<"sig", "cp", "s1", "y", "t">>),
         Call("polyveck_pointwise_poly_montgomery", <<"h", "cp", "s2">>),
         Call("polyveck_invntt_tomont", <<"h">>),
         Call("polyveck_sub", <<"w0", "h">>),
         Call("polyveck_reduce", <<"w0">>),
         Set("bound", Exactly(GAMMA2(b) - BETA(b))),
         Call("polyveck_chknorm", <<"w0", "bound">>),
         Call("polyveck_pointwise_poly_montgomery", <<"h", "cp", "t0">>),
         Call("polyveck_invntt_tomont", <<"h">>),
         Call("polyveck_reduce", <<"h">>),
         Set("bound", Exactly(GAMMA2(b))),
         Call("polyveck_chknorm", <<"h", "bound">>),
         Call("polyveck_add", <<"w0", "h">>),
         Call("polyveck_make_hint", <<"h", "w0", "w1", "n">>),
         Test("n", Range(0, OMEGA(b) + 1)),
         Call("pack_sig_c_h", <<"sig", "challenge_bytes", "h", "n">>)>>)
\* mu is hashed here or handed over by the caller; pre and m are the caller's.
sign_signature_internal ==
    Fn(sign_signature_internal_decl,
       <<Call("unpack_sk", <<"rho", "tr", "key", "t0", "s1", "s2", "sk">>),
         Copy("mu", "m"), Branch(2), Call("H2", <<"mu", "tr", "m">>),
         Call("H3", <<"rhoprime", "key", "rnd", "mu">>),
         Call("polyvec_matrix_expand", <<"mat", "rho">>),
         Call("polyvecl_ntt", <<"s1">>),
         Call("polyveck_ntt", <<"s2">>),
         Call("polyveck_ntt", <<"t0">>),
         Retry("attempt_signature_generation",
               <<"sig", "mu", "rhoprime", "mat", "s1", "s2", "t0">>)>>)

\* sign.c: verification.
sign_verify_internal(b) ==
    Fn(sign_verify_internal_decl,
       <<Call("unpack_pk", <<"rho", "t1", "pk">>),
         Call("unpack_sig", <<"c", "z", "h", "sig">>),
         Set("bound", Exactly(GAMMA1(b) - BETA(b))),
         Call("polyvecl_chknorm", <<"z", "bound">>),
         Copy("mu", "m"), Branch(3),
         Call("H1", <<"hpk", "pk">>), Call("H2", <<"mu", "hpk", "m">>),
         Call("poly_challenge", <<"cp", "c">>),
         Call("poly_ntt", <<"cp">>),
         Call("polyveck_shiftl", <<"t1">>),
         Call("polyveck_ntt", <<"t1">>),
         Call("polyveck_pointwise_poly_montgomery", <<"tmp", "cp", "t1">>),
         Call("polyvec_matrix_expand", <<"mat", "rho">>),
         Call("polyvecl_ntt", <<"z">>),
         Call("polyvec_matrix_pointwise_montgomery", <<"w1", "mat", "z">>),
         Call("polyveck_sub", <<"w1", "tmp">>),
         Call("polyveck_reduce", <<"w1">>),
         Call("polyveck_invntt_tomont", <<"w1">>),
         Call("polyveck_caddq", <<"w1">>),
         Call("polyveck_use_hint", <<"tmp", "w1", "h">>),
         Call("polyveck_pack_w1", <<"buf", "tmp">>),
         Expect("buf", "w1"), Call("H2", <<"c2", "mu", "buf">>)>>)

\* Members of a union in a reduced-RAM build; separate fields otherwise.
Unions(b) ==
    IF b.ram
    THEN {{<<"attempt_signature_generation", "y">>,
           <<"attempt_signature_generation", "h">>},
          {<<"attempt_signature_generation", "w1">>,
           <<"attempt_signature_generation", "tmp">>},
          {<<"sign_verify_internal", "t1">>, <<"sign_verify_internal", "w1">>}}
    ELSE {}
=============================================================================
