------------------------------ MODULE Preflight ------------------------------
(***************************************************************************)
(* The CRD upgrade-safety preflight (src/unnamed/part_000 lines 83-130):   *)
(* Install, which checks nothing, and Upgrade, which walks the objects of  *)
(* the proposed release manifest, skips the ones that are not CRDs, reads  *)
(* the active definition of each CRD from the cluster, runs the upgrade    *)
(* Validator against (active, proposed) and the cross-version validator    *)
(* against the proposed one, and joins the errors.  A manifest that does   *)
(* not parse, an object that does not convert to a CRD and a CRD the       *)
(* cluster does not have end the call at once with that error.             *)
(*                                                                         *)
(* The cross-version validator is used through its one-step specification *)
(* (CrossVersionSpec), which the step-level CrossVersion module refines.   *)
(***************************************************************************)
EXTENDS UpgradeValidator

CONSTANTS
    CRDNames,    \* names of CustomResourceDefinitions
    Absent,      \* the cluster has no CRD of that name (Get returns NotFound)
    MaxObjects   \* bound on the number of objects in a release manifest

ASSUME PreflightAssumption ==
    /\ MaxObjects \in Nat
    /\ Absent \notin CRD

\* A CRD the API server holds: it declares a version and has a stored one,
\* and every stored version is declared (the API server enforces both).
ClusterCRD == {c \in CRD : DOMAIN c.versions # {} /\ c.stored # {}
                           /\ c.stored \subseteq DOMAIN c.versions}

\* A CRD as rendered in a manifest: no status, so no stored versions.
ManifestCRD == {c \in CRD : DOMAIN c.versions # {} /\ c.stored = {}}

\* The objects of a release manifest (util.ManifestObjects): a CRD, an
\* object of another kind, or a CRD that does not convert (lines 104-111).
CRDObject == [kind: {"crd"}, name: CRDNames, crd: ManifestCRD]
RelObject == CRDObject \cup [kind: {"other", "badcrd"}]

\* The wrapped errors Upgrade returns.
UpgradeError ==
    [kind: {"upgrade", "crossVersion", "get"}, crd: CRDNames] \cup
    [kind: {"parse", "convert"}]

InfraError == {e \in UpgradeError : e.kind \in {"get", "parse", "convert"}}

VARIABLES
    cluster,  \* the CRDs of the cluster, read by p.crdClient.Get
    op,       \* the preflight operation called: "none", "install" or "upgrade"
    rel,      \* the release: "none" before the call, "nil", "unparsable" or "manifest"
    objs,     \* relObjects, the decoded manifest
    i,        \* index of the next object of relObjects
    errs,     \* validateErrors
    result,   \* the returned error, as a set of errors ({} is nil)
    pc        \* "start", "loop" or "done"

vars == <<cluster, op, rel, objs, i, errs, result, pc>>

ObjSet == {objs[j] : j \in 1..Len(objs)}

TypeOK ==
    /\ cluster \in [CRDNames -> ClusterCRD \cup {Absent}]
    /\ op \in {"none", "install", "upgrade"}
    /\ rel \in {"none", "nil", "unparsable", "manifest"}
    /\ objs \in Seq(RelObject) /\ Len(objs) <= MaxObjects
    /\ i \in 1..(MaxObjects + 1)
    /\ errs \in SUBSET UpgradeError
    /\ result \in SUBSET UpgradeError
    /\ pc \in {"start", "loop", "done"}

Init ==
    /\ cluster \in [CRDNames -> ClusterCRD \cup {Absent}]
    /\ op = "none"
    /\ rel = "none"
    /\ objs = <<>>
    /\ i = 1
    /\ errs = {}
    /\ result = {}
    /\ pc = "start"

\* Install(_, _): nothing pre-exists to compare against.
Install ==
    /\ pc = "start"
    /\ op' = "install"
    /\ pc' = "done"
    /\ UNCHANGED <<cluster, rel, objs, i, errs, result>>

\* Upgrade with rel == nil returns nil.
UpgradeNilRelease ==
    /\ pc = "start"
    /\ op' = "upgrade"
    /\ rel' = "nil"
    /\ pc' = "done"
    /\ UNCHANGED <<cluster, objs, i, errs, result>>

\* util.ManifestObjects fails: "parsing release objects".
UpgradeParseError ==
    /\ pc = "start"
    /\ op' = "upgrade"
    /\ rel' = "unparsable"
    /\ result' = {[kind |-> "parse"]}
    /\ pc' = "done"
    /\ UNCHANGED <<cluster, objs, i, errs>>

\* The manifest decodes into relObjects; validateErrors starts empty.
UpgradeBegin ==
    /\ pc = "start"
    /\ op' = "upgrade"
    /\ rel' = "manifest"
    /\ \E n \in 0..MaxObjects : \E s \in [1..n -> RelObject] : objs' = s
    /\ pc' = "loop"
    /\ UNCHANGED <<cluster, i, errs, result>>

Obj == objs[i]

\* An object whose GroupVersionKind is not CustomResourceDefinition: continue.
SkipObject ==
    /\ pc = "loop" /\ i <= Len(objs)
    /\ Obj.kind = "other"
    /\ i' = i + 1
    /\ UNCHANGED <<cluster, op, rel, objs, errs, result, pc>>

\* ToUnstructured or FromUnstructured fails: return that error.
ConvertFailure ==
    /\ pc = "loop" /\ i <= Len(objs)
    /\ Obj.kind = "badcrd"
    /\ result' = {[kind |-> "convert"]}
    /\ pc' = "done"
    /\ UNCHANGED <<cluster, op, rel, objs, i, errs>>

\* Mutant of GetFailure: a CRD the cluster lacks is skipped as if new.
GetFailureSkip ==
    /\ pc = "loop" /\ i <= Len(objs)
    /\ Obj.kind = "crd"
    /\ cluster[Obj.name] = Absent
    /\ i' = i + 1
    /\ UNCHANGED <<cluster, op, rel, objs, errs, result, pc>>

\* p.crdClient.Get fails (the CRD is not in the cluster): return that error.
GetFailure ==
    /\ pc = "loop" /\ i <= Len(objs)
    /\ Obj.kind = "crd"
    /\ cluster[Obj.name] = Absent
    /\ result' = {[kind |-> "get", crd |-> Obj.name]}
    /\ pc' = "done"
    /\ UNCHANGED <<cluster, op, rel, objs, i, errs>>

\* Mutant of ValidateCRD: the cross-version check only runs when the
\* upgrade Validator passes.
ValidateCRDElse ==
    /\ pc = "loop" /\ i <= Len(objs)
    /\ Obj.kind = "crd"
    /\ cluster[Obj.name] # Absent
    /\ errs' = errs
               \cup (IF ValidateErrors(cluster[Obj.name], Obj.crd) # {}
                     THEN {[kind |-> "upgrade", crd |-> Obj.name]}
                     ELSE IF CrossVersionErrors(Obj.crd.versions) # {}
                     THEN {[kind |-> "crossVersion", crd |-> Obj.name]} ELSE {})
    /\ i' = i + 1
    /\ UNCHANGED <<cluster, op, rel, objs, result, pc>>

\* Run both validators on the CRD and append the error of each that fails.
ValidateCRD ==
    /\ pc = "loop" /\ i <= Len(objs)
    /\ Obj.kind = "crd"
    /\ cluster[Obj.name] # Absent
    /\ errs' = errs
               \cup (IF ValidateErrors(cluster[Obj.name], Obj.crd) # {}
                     THEN {[kind |-> "upgrade", crd |-> Obj.name]} ELSE {})
               \cup (IF CrossVersionErrors(Obj.crd.versions) # {}
                     THEN {[kind |-> "crossVersion", crd |-> Obj.name]} ELSE {})
    /\ i' = i + 1
    /\ UNCHANGED <<cluster, op, rel, objs, result, pc>>

\* The loop is over: return errors.Join(validateErrors...).
ReturnJoined ==
    /\ pc = "loop" /\ i > Len(objs)
    /\ result' = errs
    /\ pc' = "done"
    /\ UNCHANGED <<cluster, op, rel, objs, i, errs>>

Next ==
    \/ Install
    \/ UpgradeNilRelease
    \/ UpgradeParseError
    \/ UpgradeBegin
    \/ SkipObject
    \/ ConvertFailure
    \/ GetFailure
    \/ ValidateCRD
    \/ ReturnJoined

Spec == Init /\ [][Next]_vars

-----------------------------------------------------------------------------
(***************************************************************************)
(* Properties.                                                             *)
(***************************************************************************)

\* A CRD object of the manifest that the cluster has and that passes both
\* the upgrade Validator and the cross-version check.
SafeCRD(o) ==
    /\ cluster[o.name] # Absent
    /\ ValidateErrors(cluster[o.name], o.crd) = {}
    /\ CrossVersionErrors(o.crd.versions) = {}

\* Upgrade returns nil exactly when there is no release, or when every object
\* of the manifest converts and every CRD in it is in the cluster and passes
\* both validators: an unsafe CRD anywhere in the release stops the upgrade.
UpgradeNilIffSafe ==
    op = "upgrade" /\ pc = "done" =>
        (result = {} <=> \/ rel = "nil"
                         \/ /\ rel = "manifest"
                            /\ \A o \in ObjSet : o.kind # "badcrd"
                            /\ \A o \in ObjSet \cap CRDObject : SafeCRD(o))

\* The errors are aggregated, not short-circuited: when no read or decode
\* error ends the call, the result names every CRD of the release that fails
\* each validator, and no other.
UpgradeReportsEveryFailure ==
    op = "upgrade" /\ pc = "done" /\ rel = "manifest" /\ result \cap InfraError = {} =>
        result = {[kind |-> "upgrade", crd |-> o.name] :
                    o \in {p \in ObjSet \cap CRDObject :
                             ValidateErrors(cluster[p.name], p.crd) # {}}}
                 \cup
                 {[kind |-> "crossVersion", crd |-> o.name] :
                    o \in {p \in ObjSet \cap CRDObject :
                             CrossVersionErrors(p.crd.versions) # {}}}

\* A no-op release: every object is a CRD that the cluster has, with the
\* same scope and the same versions.
NoOpRelease ==
    \A o \in ObjSet : /\ o.kind = "crd"
                      /\ cluster[o.name] # Absent
                      /\ cluster[o.name].scope = o.crd.scope
                      /\ cluster[o.name].versions = o.crd.versions

\* spec.md 8: a no-op upgrade is always safe.  A release whose CRDs are all
\* in the cluster with the same scope and versions passes Upgrade.
NoOpUpgradeAccepted ==
    op = "upgrade" /\ pc = "done" /\ rel = "manifest" /\ NoOpRelease => result = {}

\* A no-op upgrade is never refused by the upgrade Validator (scope, stored
\* versions, removed fields, per-field rules): when Upgrade rejects one, the
\* result names exactly the CRDs whose own versions fail the cross-version
\* check, and nothing else.
NoOpRejectedOnlyByCrossVersion ==
    op = "upgrade" /\ pc = "done" /\ rel = "manifest" /\ NoOpRelease =>
        result = {[kind |-> "crossVersion", crd |-> o.name] :
                    o \in {p \in ObjSet : CrossVersionErrors(p.crd.versions) # {}}}

=============================================================================
