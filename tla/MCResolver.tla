------------------------------ MODULE MCResolver ------------------------------
(***************************************************************************)
(* Model-checking instance of Resolver: four bundles of one package, two   *)
(* of them of the same version, the newest one deprecated, and one with a  *)
(* dependency property NoDependencyValidation refuses.                     *)
(***************************************************************************)
EXTENDS Resolver, TLC

CONSTANTS b1, b2, b3, b4, p1, p2, c1, c2

MCPkgOf == [b \in {b1, b2, b3, b4} |-> p1]
MCChannelsOf == (b1 :> {c1}) @@ (b2 :> {c1}) @@ (b3 :> {c2}) @@ (b4 :> {c1, c2})
MCVersionOf == (b1 :> 1) @@ (b2 :> 2) @@ (b3 :> 2) @@ (b4 :> 3)
MCDeprecatedOf == (b1 :> FALSE) @@ (b2 :> FALSE) @@ (b3 :> FALSE) @@ (b4 :> TRUE)
MCPropsOf == (b1 :> {"olm.package"}) @@ (b2 :> {"olm.package", "olm.package.required"}) @@ (b3 :> {"olm.package"}) @@ (b4 :> {"olm.package"})
MCSuccessorsOf == (b1 :> {b2, b3}) @@ (b2 :> {b4}) @@ (b3 :> {b4}) @@ (b4 :> {})
MCCatalog == <<b1, b2, b4, b3>>
MCRanges == {{1, 2}, {2, 3}, {1}}
MCValidations == <<{"olm.package.required", "olm.gvk.required", "olm.constraint"}>>

=============================================================================
