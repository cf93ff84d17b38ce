-------------------------- MODULE MCContentManager --------------------------
(***************************************************************************)
(* Model-checking instance of ContentManager and its legacy revision.      *)
(***************************************************************************)
EXTENDS ContentManagerLegacy

=============================================================================
