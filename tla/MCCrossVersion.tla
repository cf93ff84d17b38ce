--------------------------- MODULE MCCrossVersion ---------------------------
(***************************************************************************)
(* Model-checking instance of CrossVersion: two declared versions.         *)
(***************************************************************************)
EXTENDS CrossVersion

CONSTANTS v1, v2, v3

MCVersionOrder == <<v1, v2>>
MCVersionOrder3 == <<v1, v2, v3>>

=============================================================================
