------------------------------ MODULE MCApplier ------------------------------
(***************************************************************************)
(* Model-checking instance of Applier: three bundles whose CRD revisions   *)
(* r1 -> r2 is a safe upgrade, r2 -> r1 a downgrade the preflight refuses,  *)
(* and r3 a CRD whose own versions fail the cross-version check, so that   *)
(* no upgrade to it passes.                                                *)
(***************************************************************************)
EXTENDS Applier, TLC

CONSTANTS b1, b2, b3, r1, r2, r3

MCCRDOf == (b1 :> r1) @@ (b2 :> r2) @@ (b3 :> r3)
MCSafe == {<<r1, r1>>, <<r1, r2>>, <<r2, r2>>}
MCPreflights == <<"other", "crd">>

=============================================================================
