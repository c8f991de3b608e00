-------------------------- MODULE SignatureService --------------------------
(***************************************************************************)
(* What a signing entry point promises its caller, with nothing said of    *)
(* how: a call is answered once, either with a whole signature or with an  *)
(* error and nothing of the signature, and the answer then stays as it is  *)
(* until the next call.                                                    *)
(***************************************************************************)
EXTENDS Integers

CONSTANTS SignEntries,       \* entry points
          RandomizedEntries, \* those that draw randomness themselves
          SignatureBytes     \* length of a signature

VARIABLES phase,    \* "idle", "busy" or "answered"
          request,  \* [entry, mlen] of the call
          answer    \* [code, len, buffer] or NoAnswer

serviceVars == <<phase, request, answer>>

NoAnswer == [code |-> 1, len |-> 0, buffer |-> "unknown"]

\* mld_sign returns the message behind the signature.
Attached(req) == IF req.entry = "sign" THEN req.mlen ELSE 0

Granted(req) ==
  [code |-> 0, len |-> SignatureBytes + Attached(req), buffer |-> "signature"]

\* -1 and -2 are open to every entry point, -3 to those that draw randomness.
Refused(req) ==
  [code : {-1, -2}, len : {Attached(req)}, buffer : {"cleared"}]
    \cup IF req.entry \in RandomizedEntries
           THEN [code : {-3}, len : {Attached(req)},
                 buffer : IF req.entry = "signature_extmu" THEN {"untouched"}
                                                           ELSE {"cleared"}]
           ELSE {}

ServiceInit == phase = "idle" /\ answer = NoAnswer

Begin ==
  /\ phase = "idle" /\ phase' = "busy"
  /\ request'.entry \in SignEntries
  /\ answer' = NoAnswer

Answer ==
  /\ phase = "busy" /\ phase' = "answered"
  /\ answer' \in {Granted(request)} \cup Refused(request)
  /\ UNCHANGED request

Release ==
  /\ phase = "answered" /\ phase' = "idle"
  /\ UNCHANGED <<request, answer>>

ServiceNext == Begin \/ Answer \/ Release

ServiceSpec == ServiceInit /\ [][ServiceNext]_serviceVars
=============================================================================
