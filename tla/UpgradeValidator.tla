--------------------------- MODULE UpgradeValidator ---------------------------
(***************************************************************************)
(* The upgrade Validator that NewPreflight builds (src/unnamed/part_000    *)
(* lines 37-58): three whole-definition validations and the change         *)
(* validator, all run, their errors joined.  The validations themselves    *)
(* are kapp library functions; they follow spec.md 4.3 and 4.5.  Each      *)
(* failing check contributes one error naming the check.                   *)
(***************************************************************************)
EXTENDS ChangeRules

\* The versions the old and the new definition both declare.
CommonVersions(old, new) == DOMAIN old.versions \cap DOMAIN new.versions

\* NoScopeChange: the scope is immutable.
ScopeChanged(old, new) == old.scope # new.scope

\* NoStoredVersionRemoved: every stored version is still declared.
StoredVersionRemoved(old, new) == ~(old.stored \subseteq DOMAIN new.versions)

\* NoExistingFieldRemoved: no field of a version kept by the new definition
\* disappears from that version.
ExistingFieldRemoved(old, new) ==
    \E v \in CommonVersions(old, new) : DiffFails(old.versions[v], new.versions[v])

\* ChangeValidator: the per-field rules, version by version, for the versions
\* both definitions declare (ChangeRules!SchemaErrors of the old and the new
\* schema of each).
ChangeErrors(old, new) ==
    UNION {SchemaErrors(old.versions[v], new.versions[v]) : v \in CommonVersions(old, new)}

\* Mutant of ValidateErrors: NoStoredVersionRemoved judged against the new
\* definition's stored versions (its status) instead of its declared ones.
ValidateErrorsStatusStored(old, new) ==
    {c \in {"NoScopeChange", "NoStoredVersionRemoved", "NoExistingFieldRemoved"} :
        \/ c = "NoScopeChange" /\ ScopeChanged(old, new)
        \/ c = "NoStoredVersionRemoved" /\ ~(old.stored \subseteq new.stored)
        \/ c = "NoExistingFieldRemoved" /\ ExistingFieldRemoved(old, new)}
    \cup (IF ChangeErrors(old, new) = {} THEN {} ELSE {"ChangeValidator"})

\* Validator.Validate: the checks that fail, with the change errors.
ValidateErrors(old, new) ==
    {c \in {"NoScopeChange", "NoStoredVersionRemoved", "NoExistingFieldRemoved"} :
        \/ c = "NoScopeChange" /\ ScopeChanged(old, new)
        \/ c = "NoStoredVersionRemoved" /\ StoredVersionRemoved(old, new)
        \/ c = "NoExistingFieldRemoved" /\ ExistingFieldRemoved(old, new)}
    \cup (IF ChangeErrors(old, new) = {} THEN {} ELSE {"ChangeValidator"})

=============================================================================
