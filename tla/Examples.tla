------------------------------ MODULE Examples ------------------------------
(***************************************************************************)
(* The programs of the repository - the examples, the Zephyr module and    *)
(* the three builds of liboqs - and the builds the configuration allows    *)
(* besides: any options, any order of the parameter sets.                  *)
(***************************************************************************)
EXTENDS Compilation

\* A pass over files at one parameter set, and what an application calls.
PassOf(s, shared, keep, files) ==
    [set |-> s, shared |-> shared, keep |-> keep, files |-> files, calls |-> {}]
CallsOf(s, file, names) ==
    [set |-> s, shared |-> "", keep |-> FALSE, files |-> <<file>>,
     calls |-> {<<s, n>> : n \in names}]
UnitOf(c, passes) == [config |-> c, passes |-> passes]

\* Separate compilation: a unit for each file.
Separately(c, s, shared, files) ==
    [i \in DOMAIN files |-> UnitOf(c, <<PassOf(s, shared, FALSE, <<files[i]>>)>>)]
Rng(c) == Separately(c, 44, "", <<"rng.c">>)

-----------------------------------------------------------------------------
\* The files of mldsa/src, with and without the native directories, and those
\* mldsa_native.c and mldsa_native_asm.S include.
CoreFiles   == <<"ct.c", "debug.c", "packing.c", "poly.c", "poly_kl.c", "polyvec.c",
                 "sign.c">>
HashFiles   == <<"fips202.c", "fips202x4.c", "keccakf1600.c">>
NativeFiles == <<"arith.c", "keccak.c">>
AsmFiles    == <<"arith.S", "keccak.S">>
SourceFiles(c) ==
    CoreFiles \o (IF c.hash = "library" THEN HashFiles ELSE << >>)
      \o (IF Arith(c) = "none" THEN << >> ELSE <<"arith.c">>)
      \o (IF Fips(c) \in {"none", "tiny"} THEN << >> ELSE <<"keccak.c">>)
AllFiles    == CoreFiles \o HashFiles \o NativeFiles \o AsmFiles

\* The parameter sets of a single-file build, in turn: one of them with the
\* shared code, every pass but the last keeping the shared headers.
Monolith(c, order, with) ==
    [i \in DOMAIN order |->
       PassOf(order[i], IF Len(order) = 1 THEN "" ELSE IF i = with THEN "with" ELSE "no",
              i < Len(order), SourceFiles(c))]

-----------------------------------------------------------------------------
\* The configurations of the examples.
Named(c)          == [c EXCEPT !.prefix = "mldsa"]
Basic             == Named(Default)
LowRam            == [Named(Default) EXCEPT !.ram = TRUE]
Deterministic     == [Named(Default) EXCEPT !.randomized = FALSE]
CustomHash        == [Named(Default) EXCEPT !.hash = "inline"]
CustomHashStatic  == [Named(Default) EXCEPT !.hash = "inline", !.serial = TRUE]
CustomBackend     == [Named(Default) EXCEPT !.fips = "tiny"]
SingleFile        == [Named(Default) EXCEPT !.internal = "static"]
SingleFileNative(a) == [Named(Default) EXCEPT !.internal = "static", !.arith = a, !.fips = a]
ThreeLevels       == [Named(Default) EXCEPT !.multilevel = TRUE]
ThreeLevelsNative(a) ==
    [Named(Default) EXCEPT !.multilevel = TRUE, !.arith = a, !.fips = a]
OneFileThreeLevels ==
    [Named(Default) EXCEPT !.multilevel = TRUE, !.internal = "static"]
OneFileThreeLevelsNative(a) ==
    [Named(Default) EXCEPT !.multilevel = TRUE, !.internal = "static",
                           !.external = "static", !.arith = a, !.fips = a]
OqsC              == [Default EXCEPT !.hash = "oqs", !.rng = "OQS_randombytes"]
OqsX86            == [OqsC EXCEPT !.arith = "x86_64"]
OqsAarch64        == [OqsC EXCEPT !.arith = "aarch64"]

Combined == {"keypair", "signature", "verify", "sign", "open"}
Archs    == {"aarch64", "x86_64"}
AllSets  == {44, 65, 87}

-----------------------------------------------------------------------------
\* The examples: the library's files, those of the example, its main.c.
Application(c, s, names) == <<UnitOf(c, <<CallsOf(s, "main.c", names)>>)>>

basic(s) ==
    Separately(Basic, s, "", CoreFiles \o HashFiles) \o Rng(Basic)
      \o Application(Basic, s, Combined)
basic_lowram(s) ==
    Separately(LowRam, s, "", CoreFiles \o HashFiles) \o Rng(LowRam)
      \o Application(LowRam, s, Combined)
basic_deterministic(s) ==
    Separately(Deterministic, s, "", CoreFiles \o HashFiles)
      \o Application(Deterministic, s, {"keypair_internal", "signature_internal", "verify"})
bring_your_own_fips202(s) ==
    Separately(CustomHash, s, "", CoreFiles \o <<"sha3.c">>) \o Rng(CustomHash)
      \o Application(CustomHash, s, Combined)
bring_your_own_fips202_static(s) ==
    Separately(CustomHashStatic, s, "", CoreFiles \o <<"sha3.c">>)
      \o Rng(CustomHashStatic)
      \o Application(CustomHashStatic, s, {"keypair", "signature", "verify"})
custom_backend(s) ==
    Separately(CustomBackend, s, "", CoreFiles \o HashFiles \o NativeFiles)
      \o Rng(CustomBackend) \o Application(CustomBackend, s, Combined)
monolithic_build(s) ==
    <<UnitOf(SingleFile, Monolith(SingleFile, <<s>>, 1))>> \o Rng(SingleFile)
      \o Application(SingleFile, s, Combined)
monolithic_build_native(s, a) ==
    LET c == SingleFileNative(a)
    IN  <<UnitOf(c, Monolith(c, <<s>>, 1)), UnitOf(c, <<PassOf(s, "", FALSE, AsmFiles)>>)>>
          \o Rng(c) \o Application(c, s, Combined)

\* Each level calls its own functions, declared by the API header read once
\* for each level.
ThreeApplications(c) ==
    <<UnitOf(c, <<CallsOf(44, "main.c", Combined), CallsOf(65, "main.c", Combined),
                  CallsOf(87, "main.c", Combined)>>)>>
Levels(c, files) ==
    Separately(c, 44, "with", files) \o Separately(c, 65, "no", files)
      \o Separately(c, 87, "no", files)
multilevel_build ==
    Levels(ThreeLevels, CoreFiles \o HashFiles)
      \o Rng(ThreeLevels) \o ThreeApplications(ThreeLevels)
multilevel_build_native(a) ==
    LET c == ThreeLevelsNative(a)
    IN  Levels(c, AllFiles) \o Rng(c) \o ThreeApplications(c)
monolithic_build_multilevel ==
    LET c == OneFileThreeLevels
    IN  <<UnitOf(c, Monolith(c, <<44, 65, 87>>, 1))>> \o Rng(c) \o ThreeApplications(c)
\* Here main.c includes the library, and calls its functions by name.
monolithic_build_multilevel_native(a) ==
    LET c == OneFileThreeLevelsNative(a)
        main == [CallsOf(87, "app.c", {}) EXCEPT !.calls = AllSets \X Combined]
    IN  <<UnitOf(c, Append(Monolith(c, <<44, 65, 87>>, 1), main)),
          UnitOf(c, <<PassOf(44, "with", FALSE, AsmFiles)>>)>> \o Rng(c)

\* The library in Zephyr and in liboqs; the application is theirs.
zephyr(s) ==
    <<UnitOf(Default, Monolith(Default, <<s>>, 1))>> \o Rng(Default)
      \o Application(Default, s, Combined)
liboqs(c, s) ==
    Separately(c, s, "", CoreFiles \o <<"arith.c", "arith.S", "oqs.c">>)
      \o Application(c, s, {"keypair", "signature", "verify"})

ExamplePrograms ==
    UNION {{basic(s), basic_lowram(s), basic_deterministic(s), bring_your_own_fips202(s),
            bring_your_own_fips202_static(s), custom_backend(s), monolithic_build(s),
            monolithic_build_native(s, "aarch64"), monolithic_build_native(s, "x86_64"),
            zephyr(s), liboqs(OqsC, s), liboqs(OqsX86, s), liboqs(OqsAarch64, s)} : s \in AllSets}
      \cup {multilevel_build, monolithic_build_multilevel}
      \cup {multilevel_build_native(a) : a \in Archs}
      \cup {monolithic_build_multilevel_native(a) : a \in Archs}

-----------------------------------------------------------------------------
\* What the configuration allows besides: every combination of the options at
\* one level, and several levels in any order, the shared code with any.
Options(multi, backends) ==
    {[Basic EXCEPT !.multilevel = multi, !.ram = r, !.serial = f, !.arith = a, !.fips = a] :
       r \in BOOLEAN, f \in BOOLEAN, a \in backends}
Calls(c)  == IF c.randomized THEN DeclaredApi ELSE DeclaredApi \ Randomized
OneLevel ==
    {Separately(c, s, "", AllFiles) \o Rng(c) \o Application(c, s, Calls(c)) :
       c \in Options(FALSE, {"none", "aarch64", "x86_64"})
               \cup {[Basic EXCEPT !.asm = FALSE, !.arith = "x86_64"],
                     [Basic EXCEPT !.arith = "unnamed"], [Basic EXCEPT !.pct = TRUE],
                     [Basic EXCEPT !.randomized = FALSE, !.pct = TRUE]},
       s \in AllSets}
LevelOrders == {o \in UNION {[1..n -> AllSets] : n \in 2..3} :
              \A i, j \in DOMAIN o : i # j => o[i] # o[j]}
Several(c, o) ==
    <<UnitOf(c, [i \in DOMAIN o |-> CallsOf(o[i], "main.c", Combined)])>>
OneFile ==
    UNION {{<<UnitOf(c, Monolith(c, o, w)), UnitOf(c, <<PassOf(o[w], "with", FALSE, AsmFiles)>>)>>
              \o Rng(c) \o Several(c, o) : c \in Options(TRUE, {"none"})
                                             \cup Options(TRUE, {"x86_64"}), w \in DOMAIN o} :
           o \in LevelOrders}
AllPrograms == UNION {ExamplePrograms, OneLevel, OneFile}
=============================================================================
