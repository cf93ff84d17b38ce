----------------------------- MODULE MCController -----------------------------
(***************************************************************************)
(* Model-checking instance of Controller: three bundles of one package,    *)
(* each the only successor of the one before, each upgrade of the CRD     *)
(* safe, and the CRD preflight the only preflight.                         *)
(***************************************************************************)
EXTENDS Controller, TLC

CONSTANTS b1, b2, b3, r1, r2, r3, p1, c1

MCCRDOf == (b1 :> r1) @@ (b2 :> r2) @@ (b3 :> r3)
MCSafe == {<<r, s>> \in {r1, r2, r3} \X {r1, r2, r3} :
              <<r, s>> \notin {<<r2, r1>>, <<r3, r1>>, <<r3, r2>>}}
MCPreflights == <<"crd">>
MCPkgOf == [b \in {b1, b2, b3} |-> p1]
MCChannelsOf == [b \in {b1, b2, b3} |-> {c1}]
MCVersionOf == (b1 :> 1) @@ (b2 :> 2) @@ (b3 :> 3)
MCDeprecatedOf == [b \in {b1, b2, b3} |-> FALSE]
MCPropsOf == [b \in {b1, b2, b3} |-> {"olm.package"}]
MCSuccessorsOf == (b1 :> {b2}) @@ (b2 :> {b3}) @@ (b3 :> {})
MCCatalog == <<b1, b2, b3>>
MCRanges == {{1}}
MCValidations == <<{"olm.package.required"}>>

=============================================================================
