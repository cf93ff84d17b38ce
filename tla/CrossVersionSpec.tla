--------------------------- MODULE CrossVersionSpec ---------------------------
(***************************************************************************)
(* What crossVersionValidator.Validate (src/unnamed/part_000 lines        *)
(* 136-176) promises, as one atomic step: it returns the set of errors of  *)
(* every ordered pair of distinct declared versions                       *)
(* (ChangeRules!CrossVersionErrors).                                       *)
(***************************************************************************)
EXTENDS ChangeRules

VARIABLES
    versions,  \* the CRD's declared versions: name -> flattened schema
    result,    \* the errors returned (the joined error), {} while running
    returned   \* whether Validate has returned

AbsInit ==
    /\ versions \in [VersionNames -> FlatSchema]
    /\ result = {}
    /\ returned = FALSE

AbsValidate ==
    /\ ~returned
    /\ returned' = TRUE
    /\ result' = CrossVersionErrors(versions)
    /\ UNCHANGED versions

AbsSpec == AbsInit /\ [][AbsValidate]_<<versions, result, returned>>

=============================================================================
