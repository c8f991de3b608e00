---------------------------- MODULE Compilation ----------------------------
(***************************************************************************)
(* How the sources become a program: each translation unit includes source *)
(* files, once for each parameter set of a single-file build; a file       *)
(* includes the headers whose guards are not defined yet, defines the      *)
(* functions its own guards leave in, under the names the headers in force *)
(* give them, and wants others; the tail of mldsa_native.c undefines the   *)
(* guards of the headers that depend on the parameter set, and of all      *)
(* unless the next set of the unit still needs them.                       *)
(*                                                                         *)
(* A symbol is <<prefix, set or 0, name>>; names are the code's without    *)
(* mld_.  The native kernels of one back end are compiled as one file of C *)
(* and one of assembly.                                                    *)
(***************************************************************************)
EXTENDS Naturals, Sequences, FiniteSets

CONSTANT Programs   \* sequences of units: [config, passes]

VARIABLES program,  \* what is compiled
          at,       \* the unit, its pass and its file that come next
          macros,   \* the headers in force, and the pass each was read in
          texts     \* what was compiled

compileVars == <<program, at, macros, texts>>

-----------------------------------------------------------------------------
\* A configuration: the options of mldsa_native_config.h that decide what is
\* compiled and how it is named.
Default ==
    [prefix |-> "PQCP_MLDSA_NATIVE", multilevel |-> FALSE, asm |-> TRUE,
     arith |-> "none", fips |-> "none", hash |-> "library", ram |-> FALSE,
     serial |-> FALSE, randomized |-> TRUE, pct |-> FALSE,
     rng |-> "randombytes", internal |-> "extern", external |-> "extern"]

\* MLD_CONFIG_NO_ASM wins over the back ends; without it, a back end whose
\* file is not named stops the compiler, and so does a consistency test of
\* keys that could not sign.
Arith(c)  == IF c.asm THEN c.arith ELSE "none"
Fips(c)   == IF c.asm THEN c.fips ELSE "none"
Refused(c) ==
    \/ "unnamed" \in {Arith(c), Fips(c)}
    \/ ~c.randomized /\ c.pct

Shared(p) == p.shared # "no"     \* !MLD_CONFIG_MULTILEVEL_NO_SHARED

-----------------------------------------------------------------------------
\* Names.  mld_... of the headers below goes through MLD_NAMESPACE; that of
\* the other headers through MLD_NAMESPACE_KL, which adds the set to the prefix
\* in a multi-level build; RNG and custom hash have names of their own.
PolyNames(c) ==
    {"poly_add", "poly_caddq", "poly_chknorm", "poly_invntt_tomont", "poly_ntt",
     "poly_pointwise_montgomery", "poly_power2round", "poly_reduce",
     "poly_shiftl", "poly_sub", "poly_uniform", "polyt0_pack", "polyt0_unpack",
     "polyt1_pack", "polyt1_unpack"}
      \cup IF c.serial \/ c.ram THEN {} ELSE {"poly_uniform_4x"}
Shake128 == {"shake128_init", "shake128_absorb", "shake128_finalize",
             "shake128_squeeze", "shake128_release"}
Shake256 == {"shake256_init", "shake256_absorb", "shake256_finalize",
             "shake256_squeeze", "shake256_release"}
Shake128x4 == {"shake128x4_absorb_once", "shake128x4_squeezeblocks",
               "shake128x4_init", "shake128x4_release"}
Shake256x4 == {"shake256x4_absorb_once", "shake256x4_squeezeblocks",
               "shake256x4_init", "shake256x4_release"}
Permutation   == {"keccakf1600_permute", "keccakf1600_xor_bytes",
                  "keccakf1600_extract_bytes"}
Permutationx4 == {"keccakf1600x4_permute", "keccakf1600x4_xor_bytes",
                  "keccakf1600x4_extract_bytes"}
RejectionKernels ==
    {"rej_uniform_native", "rej_uniform_eta2_native", "rej_uniform_eta4_native"}
ProductKernels ==
    {"pointwise_native", "acc_l4_native", "acc_l5_native", "acc_l7_native"}
CoefficientKernels ==
    {"decompose_32_native", "decompose_88_native", "caddq_native",
     "use_hint_32_native", "use_hint_88_native", "chknorm_native",
     "unpack_17_native", "unpack_19_native"}
Transforms == {"ntt_native", "intt_native"}
Tables     == {"qdata", "zetas", "rej_table", "eta_table", "indices",
               "round_constants"}
LevelFree(c) ==
    UNION {PolyNames(c), Shake128, Shake256, {"shake256"}, Shake128x4,
           Shake256x4, Permutation, Permutationx4, RejectionKernels,
           ProductKernels, CoefficientKernels, Transforms, Tables,
           {"nttunpack_native", "keccak_x1_native", "keccak_x4_native",
            "ct_opt_blocker_u64"}}
Foreign == {"randombytes", "OQS_randombytes", "tiny_sha3_keccakf", "sha3_init",
            "sha3_update", "shake_xof", "shake_out", "shake256_inc",
            "shake128_inc"}

PerLevel(p) == p.shared # ""     \* MLD_MULTILEVEL_BUILD
Symbol(c, p, n) ==
    <<IF n \in Foreign THEN "" ELSE c.prefix,
      IF n \in Foreign \cup LevelFree(c) \/ ~PerLevel(p) THEN 0 ELSE p.set, n>>
\* A function the file keeps to itself: MLD_ADD_PARAM_SET in the files that
\* depend on the set, plain in the others.
Own(p, n)       == <<"static", IF PerLevel(p) THEN p.set ELSE 0, n>>
OwnShared(n)    == <<"static", 0, n>>
\* mldsa_native.h declares the API, and names it, on its own account, from
\* MLD_CONFIG_MULTILEVEL_BUILD.
DeclaredApi ==
    {"keypair_internal", "keypair", "signature_internal", "signature",
     "signature_extmu", "sign", "verify_internal", "verify", "verify_extmu", "open",
     "signature_pre_hash_internal", "verify_pre_hash_internal",
     "signature_pre_hash_shake256", "verify_pre_hash_shake256",
     "prepare_domain_separation_prefix", "pk_from_sk"}
ApiSymbol(c, s, n) ==
    <<c.prefix, IF c.multilevel THEN s ELSE 0, n>>

-----------------------------------------------------------------------------
\* The files: what each defines for others (under the names above), what it
\* keeps to itself, and what it wants.
Text(D, O, W) == [defines |-> D, own |-> O, wants |-> W]
Empty         == Text({}, {}, {})
When(b, S)    == IF b THEN S ELSE {}

\* A kernel of the back end is called with the tables it reads.
Kernels(c, K) ==
    LET a == Arith(c)
        T == When(a = "x86_64" /\ K \cap (Transforms \cup ProductKernels) # {}, {"qdata"})
             \cup When(a = "aarch64" /\ K \cap Transforms # {}, {"zetas"})
             \cup When(a = "aarch64" /\ "rej_uniform_native" \in K, {"rej_table"})
             \cup When(a = "aarch64" /\ K \cap {"rej_uniform_eta2_native",
                                                "rej_uniform_eta4_native"} # {}, {"eta_table"})
             \cup When(a = "aarch64" /\ K \cap {"unpack_17_native",
                                                "unpack_19_native"} # {}, {"indices"})
    IN  When(a # "none", K \cup T)

\* The value barrier without assembly reads a global variable.
ct_c(c, p) ==
    IF c.asm \/ ~Shared(p) THEN Empty ELSE Text({"ct_opt_blocker_u64"}, {}, {})
debug_c(c, p) == Empty     \* its checks are compiled in debug builds only

poly_c(c, p) ==
    IF ~Shared(p) THEN Empty
    ELSE Text(PolyNames(c),
              {OwnShared(n) : n \in {"fqmul", "fqscale", "ntt_layer",
                                     "invntt_layer", "poly_ntt_c", "poly_caddq_c",
                                     "poly_chknorm_c", "rej_uniform"}},
              Shake128 \cup When("poly_uniform_4x" \in PolyNames(c), Shake128x4)
                \cup Kernels(c, Transforms \cup {"pointwise_native", "caddq_native",
                                  "chknorm_native", "rej_uniform_native"}))

\* The headers poly_kl.h and fips202x4.h leave the same functions out as the
\* files do.
PolyKlNames(c, p) ==
    {"poly_challenge", "poly_decompose", "poly_make_hint", "poly_use_hint",
     "polyeta_pack", "polyeta_unpack", "polyw1_pack", "polyz_pack", "polyz_unpack"}
      \cup (IF c.serial THEN {"poly_uniform_eta"}
                        ELSE {"poly_uniform_eta_4x", "poly_uniform_gamma1_4x"})
      \cup When(p.set = 65 \/ c.serial, {"poly_uniform_gamma1"})
poly_kl_c(c, p) ==
    Text(PolyKlNames(c, p),
         {Own(p, n) : n \in {"rej_eta", "rej_eta_c", "poly_decompose_c",
                             "poly_use_hint_c", "polyz_unpack_c"}},
         Shake256 \cup When(~c.serial, Shake256x4)
           \cup Kernels(c, (IF p.set = 44
                            THEN {"decompose_88_native", "use_hint_88_native", "unpack_17_native"}
                            ELSE {"decompose_32_native", "use_hint_32_native", "unpack_19_native"})
                           \cup {IF p.set = 65 THEN "rej_uniform_eta4_native"
                                               ELSE "rej_uniform_eta2_native"}))

PolyvecNames ==
    {"polymat_get_row", "polyvec_matrix_expand", "polyvec_matrix_pointwise_montgomery",
     "polyveck_add", "polyveck_caddq", "polyveck_chknorm", "polyveck_decompose",
     "polyveck_invntt_tomont", "polyveck_make_hint", "polyveck_ntt",
     "polyveck_pack_eta", "polyveck_pack_t0", "polyveck_pack_w1",
     "polyveck_pointwise_poly_montgomery", "polyveck_power2round", "polyveck_reduce",
     "polyveck_shiftl", "polyveck_sub", "polyveck_unpack_eta", "polyveck_unpack_t0",
     "polyveck_use_hint", "polyvecl_chknorm", "polyvecl_ntt", "polyvecl_pack_eta",
     "polyvecl_pointwise_acc_montgomery", "polyvecl_uniform_gamma1",
     "polyvecl_unpack_eta", "polyvecl_unpack_z"}
\* The matrix is expanded four polynomials at a time where the four-way hash
\* is there, the mask in fours and a remainder of one when L is 5.
ExpandWants(c) ==
    {"poly_uniform"} \cup When(~c.serial /\ ~c.ram, {"poly_uniform_4x"})
MaskWants(c, p) ==
    IF c.serial THEN {"poly_uniform_gamma1"}
    ELSE {"poly_uniform_gamma1_4x"} \cup When(p.set = 65, {"poly_uniform_gamma1"})
polyvec_c(c, p) ==
    Text(PolyvecNames,
         {Own(p, n) : n \in {"polymat_permute_bitrev_to_custom",
                             "polyvecl_permute_bitrev_to_custom",
                             "polyvecl_pointwise_acc_montgomery_c"}},
         (PolyNames(c) \ {"poly_uniform", "poly_uniform_4x", "polyt1_pack", "polyt1_unpack"})
           \cup {"poly_decompose", "poly_make_hint", "poly_use_hint", "polyeta_pack",
                 "polyeta_unpack", "polyw1_pack", "polyz_unpack"}
           \cup ExpandWants(c) \cup MaskWants(c, p)
           \cup Kernels(c, {CASE p.set = 44 -> "acc_l4_native" [] p.set = 65 -> "acc_l5_native"
                              [] p.set = 87 -> "acc_l7_native"})
           \cup When(Arith(c) = "x86_64", {"nttunpack_native"}))

PackingNames == {"pack_pk", "pack_sk", "pack_sig_c_h", "pack_sig_z",
                 "unpack_pk", "unpack_sk", "unpack_sig"}
packing_c(c, p) ==
    Text(PackingNames, {Own(p, "unpack_hints")},
         {"polyt1_pack", "polyt1_unpack", "polyveck_pack_eta", "polyveck_pack_t0",
          "polyveck_unpack_eta", "polyveck_unpack_t0", "polyvecl_pack_eta",
          "polyvecl_unpack_eta", "polyvecl_unpack_z", "polyz_pack"})

\* The API as sign.h names it, and the part of it that draws random bytes.
Randomized == {"keypair", "signature", "signature_extmu", "sign"}
ApiNames   == Randomized \cup
    {"keypair_internal", "signature_internal", "signature_pre_hash_internal",
     "signature_pre_hash_shake256", "verify", "verify_internal", "verify_extmu",
     "verify_pre_hash_internal", "verify_pre_hash_shake256", "open", "pk_from_sk",
     "prepare_domain_separation_prefix"}
sign_c(c, p) ==
    Text(IF c.randomized THEN ApiNames ELSE ApiNames \ Randomized,
         {Own(p, n) : n \in {"check_pct", "sample_s1_s2", "validate_hash_length",
                             "get_hash_oid", "H", "compute_pack_z",
                             "attempt_signature_generation",
                             "compute_t0_t1_tr_from_sk_components"}},
         PackingNames \cup Shake256 \cup {"shake256"}
           \cup (PolyvecNames \ {"polymat_get_row", "polyveck_pack_eta", "polyveck_pack_t0",
                                 "polyveck_unpack_eta", "polyveck_unpack_t0",
                                 "polyvecl_pack_eta", "polyvecl_unpack_eta",
                                 "polyvecl_unpack_z", "polyvecl_pointwise_acc_montgomery"})
           \cup {"poly_add", "poly_chknorm", "poly_invntt_tomont", "poly_ntt",
                 "poly_pointwise_montgomery", "poly_reduce", "poly_challenge"}
           \cup {IF c.serial THEN "poly_uniform_eta" ELSE "poly_uniform_eta_4x"}
           \cup When(c.randomized, {c.rng})
           \cup When(c.pct, {"signature", "verify"}))

fips202_c(c, p) ==
    IF ~Shared(p) THEN Empty
    ELSE Text(Shake128 \cup Shake256 \cup {"shake256"},
              {OwnShared(n) : n \in {"keccak_init", "keccak_absorb", "keccak_finalize",
                                     "keccak_squeeze"}}, Permutation)
fips202x4_c(c, p) ==
    IF ~Shared(p) \/ c.serial THEN Empty
    ELSE Text(Shake256x4 \cup When(~c.ram, Shake128x4),
              {OwnShared(n) : n \in {"keccak_absorb_once_x4", "keccak_squeezeblocks_x4"}},
              Permutationx4)
keccakf1600_c(c, p) ==
    IF ~Shared(p) THEN Empty
    ELSE Text(Permutation \cup Permutationx4, {OwnShared("keccakf1600_permute_c")},
              CASE Fips(c) = "none"    -> {}
                [] Fips(c) = "aarch64" -> {"keccak_x1_native", "keccak_x4_native",
                                           "round_constants"}
                [] Fips(c) = "x86_64"  -> {"keccak_x4_native"}
                [] Fips(c) = "tiny"    -> {"tiny_sha3_keccakf"})

\* The back ends.  The AArch64 kernels are assembly and their tables C; the
\* x86_64 transforms and products are assembly, the other kernels C.
arith_c(c, p) ==
    IF ~Shared(p) THEN Empty
    ELSE CASE Arith(c) = "none"    -> Empty
           [] Arith(c) = "aarch64" -> Text({"zetas", "rej_table", "eta_table", "indices"}, {}, {})
           [] Arith(c) = "x86_64"  -> Text({"qdata", "rej_table"} \cup CoefficientKernels
                                             \cup RejectionKernels, {}, {"rej_table"})
arith_asm(c, p) ==
    IF ~Shared(p) THEN Empty
    ELSE CASE Arith(c) = "none"    -> Empty
           [] Arith(c) = "aarch64" -> Text(Transforms \cup ProductKernels \cup RejectionKernels
                                             \cup CoefficientKernels, {}, {})
           [] Arith(c) = "x86_64"  -> Text(Transforms \cup ProductKernels
                                             \cup {"nttunpack_native"}, {}, {})
keccak_native_c(c, p) ==
    IF ~Shared(p) THEN Empty
    ELSE CASE Fips(c) = "aarch64" -> Text({"round_constants"}, {}, {})
           [] Fips(c) = "x86_64"  -> Text({"keccak_x4_native"}, {}, {})
           [] Fips(c) = "tiny"    -> Text({"tiny_sha3_keccakf"}, {}, {})
           [] OTHER               -> Empty
keccak_native_asm(c, p) ==
    IF Shared(p) /\ Fips(c) = "aarch64"
    THEN Text({"keccak_x1_native", "keccak_x4_native"}, {}, {}) ELSE Empty

\* Files of the program that are not the library's.
sha3_c(c, p) == Text({"sha3_init", "sha3_update", "shake_xof", "shake_out"}, {}, {})
rng_c(c, p)  == Text({c.rng}, {}, {})
oqs_c(c, p)  == Text({"shake128_inc", "shake256_inc", "OQS_randombytes"}, {}, {})

Contents(c, p, f) ==
    CASE f = "ct.c"          -> ct_c(c, p)
      [] f = "debug.c"       -> debug_c(c, p)
      [] f = "packing.c"     -> packing_c(c, p)
      [] f = "poly.c"        -> poly_c(c, p)
      [] f = "poly_kl.c"     -> poly_kl_c(c, p)
      [] f = "polyvec.c"     -> polyvec_c(c, p)
      [] f = "sign.c"        -> sign_c(c, p)
      [] f = "fips202.c"     -> fips202_c(c, p)
      [] f = "fips202x4.c"   -> fips202x4_c(c, p)
      [] f = "keccakf1600.c" -> keccakf1600_c(c, p)
      [] f = "arith.c"       -> arith_c(c, p)
      [] f = "arith.S"       -> arith_asm(c, p)
      [] f = "keccak.c"      -> keccak_native_c(c, p)
      [] f = "keccak.S"      -> keccak_native_asm(c, p)
      [] f = "sha3.c"        -> sha3_c(c, p)
      [] f = "rng.c"         -> rng_c(c, p)
      [] f = "oqs.c"         -> oqs_c(c, p)
      [] f \in {"main.c", "app.c"} -> Empty     \* want what the pass calls

-----------------------------------------------------------------------------
\* Headers: what each includes, under which guard it is read again only when
\* undefined, and the static functions it leaves in the unit.
Includes(c) ==
    [config |-> {}, params |-> {}, sys |-> {}, cbmc |-> {}, native |-> {"sys", "common"},
     keccak_native |-> {"common"}, api |-> {"config"},
     common |-> {"config", "params", "sys"} \cup When(Arith(c) # "none", {"native"})
                  \cup When(Fips(c) # "none", {"keccak_native"}),
     ct |-> {"cbmc", "common"}, debug |-> {"common"}, randombytes |-> {"cbmc", "common"},
     reduce |-> {"cbmc", "common", "ct", "debug"},
     rounding |-> {"cbmc", "common", "ct", "debug"},
     symmetric |-> {"cbmc", "common", "fips202"} \cup When(~c.serial, {"fips202x4"}),
     fips202 |-> {"cbmc", "common"},
     fips202x4 |-> {"common"} \cup
        When(~c.serial, {"cbmc", "fips202"} \cup When(c.hash = "library", {"keccakf1600"})),
     keccakf1600 |-> {"cbmc", "common", "fips202"},
     poly |-> {"cbmc", "common", "reduce", "rounding"},
     poly_kl |-> {"cbmc", "common", "poly"}, packing |-> {"polyvec"},
     polyvec |-> {"cbmc", "common", "poly", "poly_kl"},
     sign |-> {"cbmc", "common", "poly", "polyvec", "sys"}]

FileIncludes(c, p, f) ==
    CASE f = "ct.c"          -> {"ct"}
      [] f = "debug.c"       -> {"common"}
      [] f = "packing.c"     -> {"common", "packing", "poly", "polyvec"}
      [] f = "poly.c"        -> {"common", "ct", "debug", "poly", "reduce", "rounding",
                                 "symmetric"}
      [] f = "poly_kl.c"     -> {"ct", "debug", "poly_kl", "rounding", "symmetric"}
      [] f = "polyvec.c"     -> {"common", "debug", "poly", "poly_kl", "polyvec"}
      [] f = "sign.c"        -> {"cbmc", "ct", "debug", "packing", "poly", "poly_kl",
                                 "polyvec", "randombytes", "sign", "symmetric"}
      [] f = "fips202.c"     -> {"common", "ct", "fips202", "keccakf1600"}
      [] f = "fips202x4.c"   -> {"common"} \cup When(Shared(p) /\ ~c.serial,
                                  {"ct", "fips202", "fips202x4", "keccakf1600"})
      [] f = "keccakf1600.c" -> {"keccakf1600"}
      [] f = "main.c"        -> {"api"}
      [] f \in {"app.c", "sha3.c", "rng.c", "oqs.c"} -> {}
      [] OTHER               -> {"common"}

\* What including hs reads, where the guards in force stand for what was read.
Reads(c, hs, force) ==
    LET More(R) == R \cup (UNION {Includes(c)[h] : h \in R} \ force)
        upto[k \in 0..Cardinality(DOMAIN Includes(c))] ==
            IF k = 0 THEN hs \ force ELSE More(upto[k - 1])
    IN  upto[Cardinality(DOMAIN Includes(c))]

\* The functions of a header are one name here; those of rounding.h carry the
\* set.  A custom hash is a header of functions over tiny_sha3, or of macros for
\* the names of liboqs.
Inlines(c, p, h) ==
    CASE h = "rounding" -> {Own(p, "rounding")}
      [] h \in {"sys", "ct", "reduce", "native", "keccak_native"} -> {OwnShared(h)}
      [] h = "randombytes" -> When(c.rng # "randombytes", {OwnShared(h)})
      [] h = "fips202" /\ c.hash = "inline" ->
           {Symbol(c, p, n) : n \in Shake128 \cup Shake256 \cup {"shake256"}}
      [] h = "fips202x4" /\ c.hash = "inline" /\ ~c.serial ->
           {Symbol(c, p, n) : n \in Shake128x4 \cup Shake256x4}
      [] OTHER -> {}
Tiny == {"sha3_init", "sha3_update", "shake_xof", "shake_out"}
HashWants(c, p, W) ==
    LET hash == UNION {Shake128, Shake256, {"shake256"}, Shake128x4, Shake256x4}
    IN  CASE c.hash = "oqs" /\ W \cap hash # {}    -> (W \ hash) \cup {"shake128_inc", "shake256_inc"}
          [] c.hash = "inline" /\ W \cap hash # {} -> W \cup Tiny
          [] OTHER -> W

\* The headers whose text depends on the parameter set that a file relies on.
Needs(f) ==
    CASE f = "poly_kl.c" -> {"params", "poly_kl", "rounding"}
      [] f = "polyvec.c" -> {"params", "poly_kl", "polyvec"}
      [] f = "packing.c" -> {"params", "poly_kl", "polyvec", "packing"}
      [] f = "sign.c"    -> {"params", "poly_kl", "polyvec", "packing", "sign"}
      [] f = "main.c"    -> {"api"}
      [] OTHER           -> {}

\* The tail of mldsa_native.c, and the #undef MLD_H of mldsa_native_all.h.
LevelHeaders_generic_rounding ==     \* rounding.h kept for the next set
    {"api", "common", "packing", "params", "poly_kl", "polyvec", "sign"}
LevelHeaders == {"api", "common", "packing", "params", "poly_kl", "polyvec",
                 "rounding", "sign"}
HashHeaders(c)   == When(c.hash = "library", {"fips202", "fips202x4", "keccakf1600"})
KeccakHeaders(c) == When(Fips(c) # "none", {"keccak_native"})
ArithHeaders(c)  == When(Arith(c) # "none", {"native"})
SharedHeaders(c) ==
    {"ct", "debug", "poly", "randombytes", "reduce", "symmetric", "sys", "cbmc"}
      \cup HashHeaders(c) \cup KeccakHeaders(c) \cup ArithHeaders(c)

-----------------------------------------------------------------------------
Unit   == program[at.unit]
Config == Unit.config
Pass   == Unit.passes[at.pass]
Clean  == [h \in {} |-> 0]
Place(u, p, f) == [unit |-> u, pass |-> p, file |-> f]

Compiling == at.unit \in DOMAIN program
Linked    == program # << >> /\ at.unit = Len(program) + 1

CompileInit ==
    /\ program \in Programs
    /\ at = Place(1, 1, 1) /\ macros = Clean /\ texts = << >>

\* With a linkage of "static", the functions of the unit are its own; kernels,
\* tables and files of the program never are.
Linkage(c, n) ==
    IF n \in ApiNames THEN c.external
    ELSE IF n \in Foreign \cup Tables \cup RejectionKernels \cup ProductKernels \cup
                  CoefficientKernels \cup Transforms \cup
                  {"nttunpack_native", "keccak_x1_native", "keccak_x4_native"}
         THEN "extern" ELSE c.internal

\* One file: headers first, then its text.
CompileFile ==
    /\ Compiling /\ ~Refused(Config) /\ at.pass \in DOMAIN Unit.passes
    /\ at.file \in DOMAIN Pass.files
    /\ LET c == Config
           p == Pass
           f == p.files[at.file]
           t == Contents(c, p, f)
           new == Reads(c, FileIncludes(c, p, f), DOMAIN macros)
           force == [h \in DOMAIN macros \cup new |->
                       IF h \in new THEN p.set ELSE macros[h]]
           sym(N) == {Symbol(c, p, n) : n \in N}
           shown == {n \in t.defines : Linkage(c, n) = "extern"}
       IN  /\ macros' = force
           /\ texts' = Append(texts,
                [unit |-> at.unit, defines |-> sym(shown),
                 own |-> t.own \cup sym(t.defines \ shown)
                           \cup UNION {Inlines(c, p, h) : h \in new},
                 wants |-> sym(HashWants(c, p, t.wants))
                             \cup {ApiSymbol(c, call[1], call[2]) : call \in p.calls},
                 fresh |-> \A h \in Needs(f) : h \in DOMAIN force /\ force[h] = p.set])
    /\ at' = [at EXCEPT !.file = @ + 1]
    /\ UNCHANGED program

EndPass ==
    /\ Compiling /\ at.pass \in DOMAIN Unit.passes
    /\ at.file = Len(Pass.files) + 1
    /\ LET gone == IF Pass.keep THEN LevelHeaders
                               ELSE LevelHeaders \cup SharedHeaders(Config)
       IN  macros' = [h \in DOMAIN macros \ gone |-> macros[h]]
    /\ at' = Place(at.unit, at.pass + 1, 1)
    /\ UNCHANGED <<program, texts>>

EndUnit ==
    /\ Compiling /\ at.pass = Len(Unit.passes) + 1
    /\ macros' = Clean
    /\ at' = Place(at.unit + 1, 1, 1)
    /\ UNCHANGED <<program, texts>>

CompileNext == CompileFile \/ EndPass \/ EndUnit

-----------------------------------------------------------------------------
\* What links is what was meant: every file saw the headers of its own
\* parameter set ("as if the files had been compiled separately",
\* mldsa_native.c:114); every function a file or the application calls is
\* there, in the file's own unit or once for all units; and nothing is
\* defined twice where one definition would see the other (the guards of
\* poly.c, fips202.c, keccakf1600.c and the back ends against those of
\* their callers, common.h:38, mldsa_native.h:158).
Sees(t, u) == t.unit = u.unit
LinksAsNamed ==
    Linked =>
      /\ \A i \in DOMAIN texts : texts[i].fresh
      /\ \A i \in DOMAIN texts : \A s \in texts[i].wants :
           \E j \in DOMAIN texts :
              s \in texts[j].defines \/ (Sees(texts[i], texts[j]) /\ s \in texts[j].own)
      /\ \A i, j \in DOMAIN texts : i < j =>
           /\ texts[i].defines \cap texts[j].defines = {}
           /\ Sees(texts[i], texts[j]) =>
                (texts[i].defines \cup texts[i].own)
                  \cap (texts[j].defines \cup texts[j].own) = {}
=============================================================================
