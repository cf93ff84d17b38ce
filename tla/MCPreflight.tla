----------------------------- MODULE MCPreflight -----------------------------
(***************************************************************************)
(* Model-checking instance of Preflight.                                   *)
(***************************************************************************)
EXTENDS Preflight

=============================================================================
