----------------------------- MODULE CrossVersion -----------------------------
(***************************************************************************)
(* crossVersionValidator.Validate (src/unnamed/part_000 lines 132-176),    *)
(* one loop iteration per step.  The outer loops walk crd.Spec.Versions    *)
(* twice in slice order (VersionOrder); each pair of distinct versions is  *)
(* flattened and diffed; the fields of the diff are visited in Go map      *)
(* order, i.e. in any order; for each field the change validations are     *)
(* tried in RuleOrder until one reports handled.                           *)
(***************************************************************************)
EXTENDS ChangeRules

CONSTANT VersionOrder  \* crd.Spec.Versions: the declared versions in slice order

\* crd.Spec.Versions lists every declared version once, and a CRD declares
\* at least one (the API server rejects one without versions).
ASSUME OrderAssumption ==
    /\ VersionOrder \in Seq(VersionNames)
    /\ VersionOrder # <<>>
    /\ \A i, j \in 1..Len(VersionOrder) : VersionOrder[i] = VersionOrder[j] => i = j
    /\ {VersionOrder[i] : i \in 1..Len(VersionOrder)} = VersionNames

VARIABLES
    versions,  \* versionX.Schema.OpenAPIV3Schema, flattened, for every version
    ia,        \* index of versionA in the outer loop
    ib,        \* index of versionB in the inner loop
    fields,    \* fields of the current diff not visited yet
    field,     \* the field being judged
    k,         \* index of the next change validation to try
    errs,      \* errs, the errors appended so far
    pc         \* "pairs", "fields", "rules" or "done"

vars == <<versions, ia, ib, fields, field, k, errs, pc>>

NV == Len(VersionOrder)

Abs == INSTANCE CrossVersionSpec
          WITH result <- IF pc = "done" THEN errs ELSE {},
               returned <- pc = "done"

VA == VersionOrder[ia]
VB == VersionOrder[ib]

\* The two descriptors of the field being judged.
OldD == versions[VA][field]
NewD == versions[VB][field]

\* Mutant of AdvancePair: the inner loop bound off by one.
AdvancePairOffByOne ==
    IF ib <= NV THEN /\ ib' = ib + 1 /\ ia' = ia
                ELSE /\ ib' = 1 /\ ia' = ia + 1

\* Move the two range loops to their next pair.
AdvancePair ==
    IF ib < NV THEN /\ ib' = ib + 1 /\ ia' = ia
               ELSE /\ ib' = 1 /\ ia' = ia + 1

TypeOK ==
    /\ versions \in [VersionNames -> FlatSchema]
    /\ ia \in 1..(NV + 1)
    /\ ib \in 1..NV
    /\ fields \in SUBSET Paths
    /\ field \in Paths \cup {None}
    /\ k \in 1..(NRules + 1)
    /\ errs \in SUBSET ErrorRec
    /\ pc \in {"pairs", "fields", "rules", "done"}

Init ==
    /\ versions \in [VersionNames -> FlatSchema]
    /\ ia = 1
    /\ ib = 1
    /\ fields = {}
    /\ field = None
    /\ k = 1
    /\ errs = {}
    /\ pc = "pairs"

\* versionA.Name == versionB.Name: continue.
SkipSameVersion ==
    /\ pc = "pairs"
    /\ ia <= NV
    /\ VA = VB
    /\ AdvancePair
    /\ UNCHANGED <<versions, fields, field, k, errs, pc>>

\* Mutant of DiffError: the error names the pair the other way round.
DiffErrorReversed ==
    /\ pc = "pairs"
    /\ ia <= NV
    /\ VA # VB
    /\ DiffFails(versions[VA], versions[VB])
    /\ errs' = errs \cup {[pair |-> <<VB, VA>>, field |-> None, tag |-> "diff"]}
    /\ AdvancePair
    /\ UNCHANGED <<versions, fields, field, k, pc>>

\* CalculateFlatSchemaDiff fails: record it and continue with the next pair.
DiffError ==
    /\ pc = "pairs"
    /\ ia <= NV
    /\ VA # VB
    /\ DiffFails(versions[VA], versions[VB])
    /\ errs' = errs \cup {[pair |-> <<VA, VB>>, field |-> None, tag |-> "diff"]}
    /\ AdvancePair
    /\ UNCHANGED <<versions, fields, field, k, pc>>

\* Flatten both schemas, diff them, and start ranging over the diffs.
ComparePair ==
    /\ pc = "pairs"
    /\ ia <= NV
    /\ VA # VB
    /\ ~DiffFails(versions[VA], versions[VB])
    /\ fields' = DiffFields(versions[VA], versions[VB])
    /\ pc' = "fields"
    /\ UNCHANGED <<versions, ia, ib, field, k, errs>>

\* for field, diff := range diffs: take any field not visited yet.
NextField ==
    /\ pc = "fields"
    /\ \E f \in fields :
         /\ field' = f
         /\ fields' = fields \ {f}
    /\ k' = 1
    /\ pc' = "rules"
    /\ UNCHANGED <<versions, ia, ib, errs>>

\* All fields of this pair judged: go on with the next pair.
EndPair ==
    /\ pc = "fields"
    /\ fields = {}
    /\ pc' = "pairs"
    /\ AdvancePair
    /\ UNCHANGED <<versions, fields, field, k, errs>>

\* Mutant of ApplyRule: "if ok { break }" tested before the error is appended.
ApplyRuleBreakFirst ==
    /\ pc = "rules"
    /\ k <= NRules
    /\ errs' = IF RuleRejects(RuleOrder[k], OldD, NewD) /\ ~HandledAfter(k, OldD, NewD)
               THEN errs \cup {[pair |-> <<VA, VB>>, field |-> field, tag |-> RuleOrder[k]]}
               ELSE errs
    /\ pc' = IF HandledAfter(k, OldD, NewD) THEN "fields" ELSE "rules"
    /\ k' = k + 1
    /\ UNCHANGED <<versions, ia, ib, fields, field>>

\* ok, err := validation(diff): append err if any, break if ok.
ApplyRule ==
    /\ pc = "rules"
    /\ k <= NRules
    /\ errs' = IF RuleRejects(RuleOrder[k], OldD, NewD)
               THEN errs \cup {[pair |-> <<VA, VB>>, field |-> field, tag |-> RuleOrder[k]]}
               ELSE errs
    /\ pc' = IF HandledAfter(k, OldD, NewD) THEN "fields" ELSE "rules"
    /\ k' = k + 1
    /\ UNCHANGED <<versions, ia, ib, fields, field>>

\* No validation handled the field: the unknown-change error.
UnknownChange ==
    /\ pc = "rules"
    /\ k > NRules
    /\ errs' = errs \cup {[pair |-> <<VA, VB>>, field |-> field, tag |-> "unknown"]}
    /\ pc' = "fields"
    /\ UNCHANGED <<versions, ia, ib, fields, field, k>>

\* Both loops are exhausted: return errors.Join(errs...).
Return ==
    /\ pc = "pairs"
    /\ ia > NV
    /\ pc' = "done"
    /\ UNCHANGED <<versions, ia, ib, fields, field, k, errs>>

Next ==
    \/ SkipSameVersion
    \/ DiffError
    \/ ComparePair
    \/ NextField
    \/ EndPair
    \/ ApplyRule
    \/ UnknownChange
    \/ Return

Spec == Init /\ [][Next]_vars

-----------------------------------------------------------------------------
(***************************************************************************)
(* Properties.                                                             *)
(***************************************************************************)

\* Every ordered pair of distinct versions diffs cleanly and every changed
\* field of it is a change that the rule set accepts.
MutuallyCompatible(vs) ==
    \A a, b \in VersionNames :
        a # b => /\ ~DiffFails(vs[a], vs[b])
                 /\ \A f \in DiffFields(vs[a], vs[b]) : FieldSafe(vs[a][f], vs[b][f])

\* Deny by default, in both directions: the cross-version check returns no
\* error exactly when every change between two versions has a rule that
\* accepts it.  It fails if the dispatch loop of part_000 lines 155-171 drops
\* the error of a rule that does not handle the field, or does not reach the
\* unknown-change error, or rejects a change that every rule accepts.
CrossVersionSound ==
    pc = "done" => (errs = {} <=> MutuallyCompatible(versions))

\* A CRD the cross-version check accepts is lossless between its versions:
\* a field of one version exists in every other, and every instance of it
\* that is valid under one version is valid under any other.
CrossVersionLossless ==
    pc = "done" /\ errs = {} =>
        \A a, b \in VersionNames : \A f \in DOMAIN versions[a] :
            /\ f \in DOMAIN versions[b]
            /\ Lossless(versions[a][f], versions[b][f])

\* Validate implements its one-step specification: it returns exactly the
\* errors of every pair of distinct versions.
Refinement == Abs!AbsSpec

=============================================================================
