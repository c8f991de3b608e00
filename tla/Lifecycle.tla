----------------------------- MODULE Lifecycle -----------------------------
(***************************************************************************)
(* A program from its sources to the return of one call: it is compiled    *)
(* and linked (Compilation), then an application calls a function of the   *)
(* API in the build that results (CallTree).                               *)
(***************************************************************************)
EXTENDS CallTree, Examples

vars == <<compileVars, callVars>>

Init == CompileInit /\ CallInit

\* The build of a configuration: the x86_64 kernels run on processors that
\* have AVX2 and decline on others.
Backends(c) ==
    CASE Arith(c) = "none"    -> {"none"}
      [] Arith(c) = "aarch64" -> {"bitrev"}
      [] Arith(c) = "x86_64"  -> {"custom", "idle"}
BuildsOf(c, s) ==
    {[set |-> s, ram |-> c.ram, serial |-> c.serial, native |-> n,
      custom |-> n \in {"custom", "idle"}] : n \in Backends(c)}

\* The internal function behind a call of the API.
Reaches ==
    [keypair |-> "sign_keypair_internal", keypair_internal |-> "sign_keypair_internal",
     signature |-> "sign_signature_internal", sign |-> "sign_signature_internal",
     signature_internal |-> "sign_signature_internal",
     verify |-> "sign_verify_internal", open |-> "sign_verify_internal",
     pk_from_sk |-> "sign_pk_from_sk"]

\* A program that runs no longer depends on how it was compiled.
Start ==
    /\ Linked /\ ~Running
    /\ \E u \in DOMAIN program : \E i \in DOMAIN program[u].passes :
         \E call \in program[u].passes[i].calls :
           /\ call[2] \in DOMAIN Reaches
           /\ \E b \in BuildsOf(program[u].config, call[1]) : Invoke(b, Reaches[call[2]])
    /\ program' = << >> /\ at' = Place(1, 1, 1) /\ macros' = Clean /\ texts' = << >>

Halted ==
    /\ ~Running /\ ~Linked /\ (Compiling => Refused(Config))
    /\ UNCHANGED vars

Next ==
    \/ CompileNext /\ UNCHANGED callVars
    \/ Start
    \/ CallNext /\ UNCHANGED compileVars
    \/ Halted     \* the call has returned, or the compiler has refused

Spec == Init /\ [][Next]_vars
=============================================================================
