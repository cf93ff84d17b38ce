-------------------------------- MODULE Applier --------------------------------
(***************************************************************************)
(* The Helm applier (src/unnamed/part_001 lines 51-185): one Apply call per *)
(* reconcile of one ClusterExtension, one step per call it makes.  Apply   *)
(* works out the release state (getReleaseState), runs every preflight     *)
(* for that state, then installs, upgrades or reconciles the release and   *)
(* returns the objects of the resulting release's manifest.               *)
(*                                                                         *)
(* Data are abstracted: a bundle's manifest is the bundle itself (two      *)
(* manifests differ exactly when the bundles do), the bundle ships one CRD *)
(* at revision CRDOf[b], and the verdict of the CRD upgrade-safety         *)
(* preflight (Preflight.Upgrade, modelled in Preflight) on replacing       *)
(* revision r by s is the constant relation Safe.  What a failed Helm      *)
(* install or upgrade leaves in the cluster is chosen nondeterministically *)
(* (the Helm action client is not part of this repository).               *)
(***************************************************************************)
EXTENDS Naturals, Sequences

CONSTANTS
    Bundles,         \* the bundles the resolver may hand to Apply
    Revs,            \* revisions of the CRD the bundles ship
    CRDOf,           \* the CRD revision each bundle's manifest holds
    Safe,            \* <<r, s>>: Preflight.Upgrade accepts replacing r by s
    Preflights,      \* h.Preflights, by kind: "crd" (crdupgradesafety) or "other"
    MaxApplies,      \* bound on the number of Apply calls
    PartialInstall,  \* whether a failed install may leave the CRD behind
    NoRelease,       \* a nil *release.Release
    NoCRD            \* the CRD is not in the cluster

\* A Helm release of the extension: the bundle it renders and its status.
Release == [bundle: Bundles, status: {"deployed", "failed", "superseded"}]

ASSUME ApplierAssumption ==
    /\ CRDOf \in [Bundles -> Revs]
    /\ Safe \subseteq Revs \X Revs
    /\ Preflights \in Seq({"crd", "other"})
    /\ MaxApplies \in Nat
    /\ PartialInstall \in BOOLEAN
    /\ NoRelease \notin Bundles \cup Release /\ NoCRD \notin Revs

VARIABLES
    release,     \* the latest release of the extension in Helm's storage
    crd,         \* the revision of the CRD in the cluster
    pc,          \* "idle", "state", "preflight", "apply" or "objects"
    want,        \* the bundle Apply was called with
    disabled,    \* ext.Spec.Preflight.CRDUpgradeSafety.Disabled
    state,       \* the releaseState of getReleaseState
    rel,         \* rel: the current release, then the one Install/Upgrade returned
    desiredRel,  \* desiredRel: the bundle of the dry-run release, or NoRelease
    pi,          \* index of the next preflight of h.Preflights
    result,      \* what the last Apply returned: "none", "ok" or "error"
    returned,    \* the bundle whose manifest objects Apply last returned
    installArg,  \* what the last Install preflight received: "none", "nil", "release"
    calls        \* Apply calls made

vars == <<release, crd, pc, want, disabled, state, rel, desiredRel, pi, result,
          returned, installArg, calls>>

TypeOK ==
    /\ release \in Release \cup {NoRelease}
    /\ crd \in Revs \cup {NoCRD}
    /\ pc \in {"idle", "state", "preflight", "apply", "objects"}
    /\ want \in Bundles \cup {NoRelease}
    /\ disabled \in BOOLEAN
    /\ state \in {"none", "install", "upgrade", "unchanged"}
    /\ rel \in Release \cup {NoRelease}
    /\ desiredRel \in Bundles \cup {NoRelease}
    /\ pi \in 1..(Len(Preflights) + 1)
    /\ result \in {"none", "ok", "error"}
    /\ returned \in Bundles \cup {NoRelease}
    /\ installArg \in {"none", "nil", "release"}
    /\ calls \in 0..MaxApplies

\* A new cluster: no release and no CRD.
Init ==
    /\ release = NoRelease
    /\ crd = NoCRD
    /\ pc = "idle"
    /\ want = NoRelease
    /\ disabled = FALSE
    /\ state = "none"
    /\ rel = NoRelease
    /\ desiredRel = NoRelease
    /\ pi = 1
    /\ result = "none"
    /\ returned = NoRelease
    /\ installArg = "none"
    /\ calls = 0

\* Return from Apply with an error.
Fail ==
    /\ result' = "error"
    /\ pc' = "idle"

\* Apply is called with a resolved bundle.  RegistryV1ToHelmChart,
\* ActionClientFor and bundle.Version either fail, and Apply returns that
\* error, or succeed and getReleaseState follows.
ApplyBegin ==
    /\ pc = "idle"
    /\ calls < MaxApplies
    /\ \E b \in Bundles, dis \in BOOLEAN :
         /\ want' = b
         /\ disabled' = dis
    /\ calls' = calls + 1
    /\ \/ /\ pc' = "state" /\ result' = "none"
       \/ Fail
    /\ UNCHANGED <<release, crd, state, rel, desiredRel, pi, returned, installArg>>

\* cl.Get fails with an error other than ErrReleaseNotFound.
ReleaseGetError ==
    /\ pc = "state"
    /\ Fail
    /\ UNCHANGED <<release, crd, want, disabled, state, rel, desiredRel, pi,
                   returned, installArg, calls>>

\* ErrReleaseNotFound: stateNeedsInstall with a nil current and a nil
\* desired release (lines 154-156; the dry-run install of 158-168 is never
\* reached).
ReleaseNotFound ==
    /\ pc = "state"
    /\ release = NoRelease
    /\ state' = "install"
    /\ rel' = NoRelease
    /\ desiredRel' = NoRelease
    /\ pi' = 1
    /\ pc' = "preflight"
    /\ UNCHANGED <<release, crd, want, disabled, result, returned, installArg, calls>>

\* The release exists and the dry-run upgrade fails.
DryRunFails ==
    /\ pc = "state"
    /\ release # NoRelease
    /\ Fail
    /\ UNCHANGED <<release, crd, want, disabled, state, rel, desiredRel, pi,
                   returned, installArg, calls>>

\* Mutant of ReleaseFound: only the manifests are compared.
ReleaseFoundManifestOnly ==
    /\ pc = "state"
    /\ release # NoRelease
    /\ rel' = release
    /\ desiredRel' = want
    /\ state' = IF want # release.bundle THEN "upgrade" ELSE "unchanged"
    /\ pi' = 1
    /\ pc' = "preflight"
    /\ UNCHANGED <<release, crd, want, disabled, result, returned, installArg, calls>>

\* The release exists and the dry-run upgrade renders the wanted bundle:
\* an upgrade is needed when the manifest differs or the current release
\* failed or was superseded, otherwise the release is unchanged.
ReleaseFound ==
    /\ pc = "state"
    /\ release # NoRelease
    /\ rel' = release
    /\ desiredRel' = want
    /\ state' = IF \/ want # release.bundle
                   \/ release.status \in {"failed", "superseded"}
                THEN "upgrade" ELSE "unchanged"
    /\ pi' = 1
    /\ pc' = "preflight"
    /\ UNCHANGED <<release, crd, want, disabled, result, returned, installArg, calls>>

CurPreflight == Preflights[pi]

\* Mutant of SkipDisabled: the Disabled test negated.
SkipDisabledInverted ==
    CurPreflight = "crd" /\ ~disabled

\* The CRD upgrade-safety preflight of an extension that disabled it is
\* skipped (lines 84-90).
SkipDisabled ==
    CurPreflight = "crd" /\ disabled

\* What Preflight.Upgrade returns for the CRD the cluster holds now: nil
\* exactly when the CRD exists and replacing it by the desired one is safe.
CRDPreflightPasses ==
    crd # NoCRD /\ <<crd, CRDOf[desiredRel]>> \in Safe

\* The disabled preflight: continue.
PreflightSkip ==
    /\ pc = "preflight" /\ pi <= Len(Preflights)
    /\ SkipDisabled
    /\ pi' = pi + 1
    /\ UNCHANGED <<release, crd, pc, want, disabled, state, rel, desiredRel,
                   result, returned, installArg, calls>>

\* stateNeedsInstall: preflight.Install(ctx, desiredRel).  The CRD preflight's
\* Install returns nil; another preflight may fail, and Apply returns its error.
PreflightInstall ==
    /\ pc = "preflight" /\ pi <= Len(Preflights)
    /\ ~SkipDisabled
    /\ state = "install"
    /\ installArg' = IF desiredRel = NoRelease THEN "nil" ELSE "release"
    /\ \/ pi' = pi + 1 /\ UNCHANGED <<pc, result>>
       \/ CurPreflight = "other" /\ Fail /\ UNCHANGED pi
    /\ UNCHANGED <<release, crd, want, disabled, state, rel, desiredRel,
                   returned, calls>>

\* stateNeedsUpgrade: preflight.Upgrade(ctx, desiredRel); its error is returned.
PreflightUpgrade ==
    /\ pc = "preflight" /\ pi <= Len(Preflights)
    /\ ~SkipDisabled
    /\ state = "upgrade"
    /\ \/ /\ CurPreflight = "crd" => CRDPreflightPasses
          /\ pi' = pi + 1
          /\ UNCHANGED <<pc, result>>
       \/ /\ CurPreflight = "crd" => ~CRDPreflightPasses
          /\ Fail
          /\ UNCHANGED pi
    /\ UNCHANGED <<release, crd, want, disabled, state, rel, desiredRel,
                   returned, installArg, calls>>

\* stateUnchanged: the switch has no case for it; next preflight.
PreflightNone ==
    /\ pc = "preflight" /\ pi <= Len(Preflights)
    /\ ~SkipDisabled
    /\ state = "unchanged"
    /\ pi' = pi + 1
    /\ UNCHANGED <<release, crd, pc, want, disabled, state, rel, desiredRel,
                   result, returned, installArg, calls>>

\* The range over h.Preflights ends.
PreflightsDone ==
    /\ pc = "preflight" /\ pi > Len(Preflights)
    /\ pc' = "apply"
    /\ UNCHANGED <<release, crd, want, disabled, state, rel, desiredRel, pi,
                   result, returned, installArg, calls>>

\* ac.Install succeeds: the release is deployed with the wanted bundle.
HelmInstall ==
    /\ pc = "apply" /\ state = "install"
    /\ release' = [bundle |-> want, status |-> "deployed"]
    /\ crd' = CRDOf[want]
    /\ rel' = release'
    /\ pc' = "objects"
    /\ UNCHANGED <<want, disabled, state, desiredRel, pi, result, returned,
                   installArg, calls>>

\* ac.Install fails: a failed release may be recorded or none; the CRD stays
\* as it was unless a failed install may leave it behind.
HelmInstallFails ==
    /\ pc = "apply" /\ state = "install"
    /\ release' \in {NoRelease, [bundle |-> want, status |-> "failed"]}
    /\ crd' \in IF PartialInstall THEN {crd, CRDOf[want]} ELSE {crd}
    /\ Fail
    /\ UNCHANGED <<want, disabled, state, rel, desiredRel, pi, returned,
                   installArg, calls>>

\* ac.Upgrade succeeds: the new revision is deployed.
HelmUpgrade ==
    /\ pc = "apply" /\ state = "upgrade"
    /\ release' = [bundle |-> want, status |-> "deployed"]
    /\ crd' = CRDOf[want]
    /\ rel' = release'
    /\ pc' = "objects"
    /\ UNCHANGED <<want, disabled, state, desiredRel, pi, result, returned,
                   installArg, calls>>

\* ac.Upgrade fails: the new revision is recorded as failed, and the CRD
\* may or may not have been replaced before the failure.
HelmUpgradeFails ==
    /\ pc = "apply" /\ state = "upgrade"
    /\ release' = [bundle |-> want, status |-> "failed"]
    /\ crd' \in {crd, CRDOf[want]}
    /\ Fail
    /\ UNCHANGED <<want, disabled, state, rel, desiredRel, pi, returned,
                   installArg, calls>>

\* ac.Reconcile(rel) re-applies the current release's manifest; on failure
\* it may have done so or not.
HelmReconcile ==
    /\ pc = "apply" /\ state = "unchanged"
    /\ crd' = CRDOf[rel.bundle]
    /\ pc' = "objects"
    /\ UNCHANGED <<release, want, disabled, state, rel, desiredRel, pi, result,
                   returned, installArg, calls>>

HelmReconcileFails ==
    /\ pc = "apply" /\ state = "unchanged"
    /\ crd' \in {crd, CRDOf[rel.bundle]}
    /\ Fail
    /\ UNCHANGED <<release, want, disabled, state, rel, desiredRel, pi,
                   returned, installArg, calls>>

\* util.ManifestObjects(rel.Manifest): the objects are returned, or the
\* parse error.
ReturnObjects ==
    /\ pc = "objects"
    /\ \/ /\ result' = "ok"
          /\ returned' = rel.bundle
          /\ pc' = "idle"
       \/ Fail /\ UNCHANGED returned
    /\ UNCHANGED <<release, crd, want, disabled, state, rel, desiredRel, pi,
                   installArg, calls>>

\* Another writer (a user, another controller) edits the CRD in the cluster.
ExternalCRDEdit ==
    /\ crd # NoCRD
    /\ \E r \in Revs : crd' = r
    /\ UNCHANGED <<release, pc, want, disabled, state, rel, desiredRel, pi,
                   result, returned, installArg, calls>>

Next ==
    \/ ApplyBegin
    \/ ReleaseGetError \/ ReleaseNotFound \/ DryRunFails \/ ReleaseFound
    \/ PreflightSkip \/ PreflightInstall \/ PreflightUpgrade \/ PreflightNone
    \/ PreflightsDone
    \/ HelmInstall \/ HelmInstallFails \/ HelmUpgrade \/ HelmUpgradeFails
    \/ HelmReconcile \/ HelmReconcileFails
    \/ ReturnObjects

Spec == Init /\ [][Next]_vars

\* Apply calls interleaved with another writer of the CRD.
WriterSpec == Init /\ [][Next \/ ExternalCRDEdit]_vars

-----------------------------------------------------------------------------
(***************************************************************************)
(* Properties.                                                             *)
(***************************************************************************)

\* A successful Apply leaves the release deployed with the bundle it was
\* given and that bundle's CRD in the cluster, and returns that bundle's
\* objects: in particular a release whose last upgrade failed is upgraded
\* again, not merely reconciled, even when its manifest is unchanged.
AppliedMeansDeployed ==
    pc = "idle" /\ result = "ok" =>
        /\ release = [bundle |-> want, status |-> "deployed"]
        /\ crd = CRDOf[want]
        /\ returned = want

\* Apply never installs or upgrades a CRD in the cluster to a revision the
\* upgrade-safety preflight refuses for it, unless the extension disabled
\* that preflight: every install or upgrade step of Apply that changes an
\* existing CRD replaces it safely.  Only Apply's own steps (Next) are
\* judged: an edit by another writer is not a replacement Apply made.
\* (Reconcile re-applies the revision of the current release, checked when
\* that release was made, over any drift.)
CRDUpgradeChecked ==
    [][Next /\ pc = "apply" /\ state # "unchanged" /\ crd # NoCRD /\ crd' # crd =>
         disabled \/ <<crd, crd'>> \in Safe]_vars

\* The Preflight interface (lines 33-36): Install is provided the Helm
\* release about to be installed.
InstallPreflightGetsRelease ==
    installArg # "nil"

=============================================================================
