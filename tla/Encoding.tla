------------------------------ MODULE Encoding ------------------------------
(***************************************************************************)
(* The sections of keys and signatures: polynomials, packed by the         *)
(* functions of BitPacking, and the hints, packed by those of Hints        *)
(* (packing.c).  Every section is coded by itself; the sections of a       *)
(* signature or a key lie one behind the other.  A behaviour follows one   *)
(* section through packing and unpacking.                                  *)
(***************************************************************************)
EXTENDS Hints, BitPacking

VARIABLE section

PolynomialSection ==
  /\ section = "polynomial" /\ PackingInit
  /\ pc = "none" /\ given = {} /\ packed = [x \in Section |-> 0]
  /\ h = NoHints /\ i = 0 /\ j = 0 /\ k = 0 /\ new = 0 /\ ret = 1

HintSection ==
  /\ section = "hints" /\ Init
  /\ format = "none" /\ todo = <<"none">> /\ group = 0
  /\ a = <<>> /\ r = <<>> /\ start = <<>>

EncodingInit == PolynomialSection \/ HintSection

EncodingNext ==
  \/ PackingNext /\ UNCHANGED <<section, vars>>
  \/ Next /\ UNCHANGED <<section, packingVars>>

EncodingSpec == EncodingInit /\ [][EncodingNext]_<<section, vars, packingVars>>
=============================================================================
