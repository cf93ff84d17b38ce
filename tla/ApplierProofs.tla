----------------------------- MODULE ApplierProofs -----------------------------
(***************************************************************************)
(* Proofs about the Helm applier (Applier, part_001 lines 51-185).         *)
(*                                                                         *)
(* CRDUpgradeChecked holds for every set of bundles and CRD revisions,     *)
(* every safety relation and every list of preflights that contains the    *)
(* CRD upgrade-safety one, provided a failed Helm install leaves no CRD    *)
(* behind and no other writer edits the CRD (Spec has no such writer).     *)
(* The argument: an install step only runs for a release Get did not find, *)
(* and without a release there is no CRD, so an install replaces nothing;  *)
(* an upgrade step only runs after the preflight loop, which passed the   *)
(* CRD preflight on the CRD that is still in the cluster, unless the       *)
(* extension disabled it.                                                  *)
(***************************************************************************)
EXTENDS Applier, TLAPS

\* The CRD upgrade-safety preflight accepts the wanted bundle's CRD over the
\* CRD in the cluster.
Passed == crd # NoCRD /\ <<crd, CRDOf[want]>> \in Safe

\* Inside a call, want is the bundle Apply was given.
WantGiven == pc # "idle" => want \in Bundles

\* After getReleaseState found a release, rel is that release, and it is
\* still the latest one until ac.Upgrade or ac.Reconcile runs.
CurrentRelease ==
    pc \in {"preflight", "apply"} /\ state \in {"upgrade", "unchanged"} =>
        rel = release /\ release \in Release

\* The release whose manifest Apply returns is a release.
ObjectsRelease == pc = "objects" => rel \in Release

\* Without a release, Helm has put no CRD in the cluster.
NoReleaseNoCRD == release = NoRelease => crd = NoCRD

\* An install is only chosen when Get found no release.
InstallFresh ==
    pc \in {"preflight", "apply"} /\ state = "install" => release = NoRelease

\* The dry-run upgrade rendered the wanted bundle.
UpgradeTarget ==
    pc \in {"preflight", "apply"} /\ state = "upgrade" => desiredRel = want

\* Every CRD preflight run so far in an upgrade accepted the CRD in the cluster.
PreflightPassed ==
    pc = "preflight" /\ state = "upgrade" /\ ~disabled =>
        \A j \in 1..(pi - 1) : Preflights[j] = "crd" => Passed

\* An upgrade reaches ac.Upgrade only with the CRD preflight passed.
ApplyPassed == pc = "apply" /\ state = "upgrade" /\ ~disabled => Passed

IInv ==
    /\ TypeOK /\ WantGiven /\ CurrentRelease /\ ObjectsRelease
    /\ NoReleaseNoCRD /\ InstallFresh /\ UpgradeTarget
    /\ PreflightPassed /\ ApplyPassed

\* h.Preflights contains the CRD upgrade-safety preflight.
CRDPreflightConfigured == \E j \in 1..Len(Preflights) : Preflights[j] = "crd"

\* The number of preflights is a natural number.
LEMMA LenPreflights == Len(Preflights) \in Nat
BY ApplierAssumption

\* A new cluster satisfies the invariant.
LEMMA InitIInv == Init => IInv
<1> SUFFICES ASSUME Init PROVE IInv
    OBVIOUS
<1>1. TypeOK
    <2>1. release \in Release \cup {NoRelease} /\ rel \in Release \cup {NoRelease}
        BY DEF Init
    <2>2. pi \in 1..(Len(Preflights) + 1) /\ calls \in 0..MaxApplies
        BY ApplierAssumption, LenPreflights DEF Init
    <2>3. QED
        BY <2>1, <2>2 DEF Init, TypeOK
<1>2. QED
    BY <1>1 DEF Init, IInv, WantGiven, CurrentRelease, ObjectsRelease,
       NoReleaseNoCRD, InstallFresh, UpgradeTarget, PreflightPassed, ApplyPassed

\* Every step of Apply keeps the invariant, when the preflights include the
\* CRD one and a failed install leaves no CRD behind.
LEMMA NextIInv ==
    ASSUME ~PartialInstall, CRDPreflightConfigured
    PROVE  IInv /\ [Next]_vars => IInv'
<1> SUFFICES ASSUME IInv, [Next]_vars PROVE IInv'
    OBVIOUS
<1> USE ApplierAssumption, LenPreflights
        DEF IInv, TypeOK, WantGiven, CurrentRelease, ObjectsRelease,
            NoReleaseNoCRD, InstallFresh, UpgradeTarget, PreflightPassed,
            ApplyPassed, Passed, Release
<1>1. CASE ApplyBegin
    BY <1>1 DEF ApplyBegin, Fail
<1>2. CASE ReleaseGetError
    BY <1>2 DEF ReleaseGetError, Fail
<1>3. CASE ReleaseNotFound
    BY <1>3 DEF ReleaseNotFound
<1>4. CASE DryRunFails
    BY <1>4 DEF DryRunFails, Fail
<1>5. CASE ReleaseFound
    BY <1>5 DEF ReleaseFound
<1>6. CASE PreflightSkip
    BY <1>6 DEF PreflightSkip, SkipDisabled, CurPreflight
<1>7. CASE PreflightInstall
    BY <1>7 DEF PreflightInstall, SkipDisabled, CurPreflight, Fail
<1>8. CASE PreflightUpgrade
    <2>1. CASE /\ CurPreflight = "crd" => CRDPreflightPasses
               /\ pi' = pi + 1
               /\ UNCHANGED <<pc, result>>
        <3>1. CurPreflight = "crd" => Passed
            BY <1>8, <2>1 DEF PreflightUpgrade, CRDPreflightPasses
        <3>2. ~disabled => \A j \in 1..pi : Preflights[j] = "crd" => Passed
            BY <1>8, <3>1 DEF PreflightUpgrade, CurPreflight
        <3>3. PreflightPassed'
            <4>1. SUFFICES ASSUME ~disabled', NEW j \in 1..(pi' - 1),
                                  Preflights[j] = "crd"
                           PROVE  Passed'
                BY DEF PreflightPassed
            <4>2. j \in 1..pi
                BY <2>1, <4>1
            <4>3. Passed
                BY <1>8, <3>2, <4>1, <4>2 DEF PreflightUpgrade
            <4>4. QED
                BY <1>8, <4>3 DEF PreflightUpgrade
        <3>4. TypeOK'
            BY <1>8, <2>1 DEF PreflightUpgrade
        <3>5. QED
            BY <1>8, <2>1, <3>3, <3>4 DEF PreflightUpgrade
    <2>2. CASE /\ CurPreflight = "crd" => ~CRDPreflightPasses
               /\ Fail
               /\ UNCHANGED pi
        BY <1>8, <2>2 DEF PreflightUpgrade, Fail
    <2>3. QED
        BY <1>8, <2>1, <2>2 DEF PreflightUpgrade
<1>9. CASE PreflightNone
    BY <1>9 DEF PreflightNone, SkipDisabled, CurPreflight
<1>10. CASE PreflightsDone
    BY <1>10 DEF PreflightsDone, CRDPreflightConfigured
<1>11. CASE HelmInstall
    BY <1>11 DEF HelmInstall
<1>12. CASE HelmInstallFails
    BY <1>12 DEF HelmInstallFails, Fail
<1>13. CASE HelmUpgrade
    BY <1>13 DEF HelmUpgrade
<1>14. CASE HelmUpgradeFails
    BY <1>14 DEF HelmUpgradeFails, Fail
<1>15. CASE HelmReconcile
    BY <1>15 DEF HelmReconcile
<1>16. CASE HelmReconcileFails
    BY <1>16 DEF HelmReconcileFails, Fail
<1>17. CASE ReturnObjects
    BY <1>17 DEF ReturnObjects, Fail
<1>18. CASE UNCHANGED vars
    <2>1. /\ release' = release /\ crd' = crd /\ pc' = pc /\ want' = want
          /\ disabled' = disabled /\ state' = state /\ rel' = rel
          /\ desiredRel' = desiredRel /\ pi' = pi /\ result' = result
          /\ returned' = returned /\ installArg' = installArg /\ calls' = calls
        BY <1>18 DEF vars
    <2>2. TypeOK' /\ WantGiven' /\ CurrentRelease' /\ ObjectsRelease'
        BY <2>1
    <2>3. NoReleaseNoCRD' /\ InstallFresh' /\ UpgradeTarget' /\ ApplyPassed'
        BY <2>1
    <2>4. PreflightPassed'
        BY <2>1
    <2>5. QED
        BY <2>2, <2>3, <2>4
<1>19. QED
    BY <1>1, <1>2, <1>3, <1>4, <1>5, <1>6, <1>7, <1>8, <1>9, <1>10, <1>11, <1>12, <1>13, <1>14, <1>15, <1>16, <1>17, <1>18 DEF Next

\* The step formula of CRDUpgradeChecked.
CheckedStep ==
    Next /\ pc = "apply" /\ state # "unchanged" /\ crd # NoCRD /\ crd' # crd =>
        disabled \/ <<crd, crd'>> \in Safe

\* Every step of Apply, from a state of the invariant, changes an existing
\* CRD only by an upgrade the preflight accepted (or with the preflight
\* disabled).
LEMMA StepChecked ==
    ASSUME ~PartialInstall
    PROVE  IInv /\ [Next]_vars => CheckedStep
<1> SUFFICES ASSUME IInv, [Next]_vars, Next,
                    pc = "apply", state # "unchanged", crd # NoCRD, crd' # crd
             PROVE  disabled \/ <<crd, crd'>> \in Safe
    BY DEF CheckedStep
<1> USE DEF IInv
<1>1. CASE HelmInstall \/ HelmInstallFails
    \* An install runs only without a release, hence without a CRD, and a
    \* failed install leaves the CRD as it was.
    BY <1>1 DEF HelmInstall, HelmInstallFails, InstallFresh, NoReleaseNoCRD
<1>2. CASE HelmUpgrade \/ HelmUpgradeFails
    BY <1>2 DEF HelmUpgrade, HelmUpgradeFails, ApplyPassed, Passed
<1>3. CASE ~(HelmInstall \/ HelmInstallFails \/ HelmUpgrade \/ HelmUpgradeFails)
    \* No other step at pc = "apply" with a release to install or upgrade
    \* changes the CRD.
    BY <1>3 DEF Next, vars, ApplyBegin, ReleaseGetError, ReleaseNotFound,
       DryRunFails, ReleaseFound, PreflightSkip, PreflightInstall,
       PreflightUpgrade, PreflightNone, PreflightsDone, HelmReconcile,
       HelmReconcileFails, ReturnObjects
<1>4. QED
    BY <1>1, <1>2, <1>3

\* Apply never replaces a CRD in the cluster by a revision the CRD
\* upgrade-safety preflight refuses, unless the extension disabled that
\* preflight: for every set of bundles, CRD revisions, safety verdicts and
\* list of preflights that includes the CRD one, when a failed Helm install
\* leaves no CRD behind and no other writer edits the CRD.
THEOREM CRDChangesChecked ==
    ASSUME ~PartialInstall, CRDPreflightConfigured
    PROVE  Spec => CRDUpgradeChecked
<1>1. IInv /\ [Next]_vars => [CheckedStep]_vars
    BY StepChecked
<1>2. QED
    BY InitIInv, NextIInv, <1>1, PTL DEF Spec, CRDUpgradeChecked, CheckedStep

\* Every state of Apply is well typed, under the same assumptions.
THEOREM TypeCorrect ==
    ASSUME ~PartialInstall, CRDPreflightConfigured
    PROVE  Spec => []TypeOK
BY InitIInv, NextIInv, PTL DEF Spec, IInv

-----------------------------------------------------------------------------
(***************************************************************************)
(* AppliedMeansDeployed, with no assumption on the preflights or on what a *)
(* failed Helm call leaves behind.  It needs two facts about the call in   *)
(* progress: a release found unchanged is the wanted bundle, deployed, and *)
(* once ac.Install, ac.Upgrade or ac.Reconcile succeeded, the release, its *)
(* CRD and rel are those of the wanted bundle.                            *)
(***************************************************************************)

\* getReleaseState reports "unchanged" only for the wanted bundle, deployed.
UnchangedDeployed ==
    pc \in {"preflight", "apply"} /\ state = "unchanged" =>
        release = [bundle |-> want, status |-> "deployed"]

\* After a successful Helm call, Apply returns the objects of that release.
ObjectsDeployed ==
    pc = "objects" =>
        /\ rel = release
        /\ release = [bundle |-> want, status |-> "deployed"]
        /\ crd = CRDOf[want]

DInv ==
    /\ TypeOK /\ WantGiven /\ CurrentRelease /\ UnchangedDeployed
    /\ ObjectsDeployed /\ AppliedMeansDeployed

\* A new cluster satisfies DInv.
LEMMA InitDInv == Init => DInv
BY InitIInv DEF Init, IInv, DInv, WantGiven, CurrentRelease,
   UnchangedDeployed, ObjectsDeployed, AppliedMeansDeployed

\* Every step of Apply keeps DInv.
LEMMA NextDInv == DInv /\ [Next]_vars => DInv'
<1> SUFFICES ASSUME DInv, [Next]_vars PROVE DInv'
    OBVIOUS
<1> USE ApplierAssumption, LenPreflights
        DEF DInv, TypeOK, WantGiven, CurrentRelease, UnchangedDeployed,
            ObjectsDeployed, AppliedMeansDeployed, Release
<1>1. CASE ApplyBegin
    BY <1>1 DEF ApplyBegin, Fail
<1>2. CASE ReleaseGetError
    BY <1>2 DEF ReleaseGetError, Fail
<1>3. CASE ReleaseNotFound
    BY <1>3 DEF ReleaseNotFound
<1>4. CASE DryRunFails
    BY <1>4 DEF DryRunFails, Fail
<1>5. CASE ReleaseFound
    BY <1>5 DEF ReleaseFound
<1>6. CASE PreflightSkip
    BY <1>6 DEF PreflightSkip, SkipDisabled, CurPreflight
<1>7. CASE PreflightInstall
    BY <1>7 DEF PreflightInstall, SkipDisabled, CurPreflight, Fail
<1>8. CASE PreflightUpgrade
    BY <1>8 DEF PreflightUpgrade, SkipDisabled, CurPreflight, CRDPreflightPasses, Fail
<1>9. CASE PreflightNone
    BY <1>9 DEF PreflightNone, SkipDisabled, CurPreflight
<1>10. CASE PreflightsDone
    BY <1>10 DEF PreflightsDone
<1>11. CASE HelmInstall
    BY <1>11 DEF HelmInstall
<1>12. CASE HelmInstallFails
    BY <1>12 DEF HelmInstallFails, Fail
<1>13. CASE HelmUpgrade
    BY <1>13 DEF HelmUpgrade
<1>14. CASE HelmUpgradeFails
    BY <1>14 DEF HelmUpgradeFails, Fail
<1>15. CASE HelmReconcile
    BY <1>15 DEF HelmReconcile
<1>16. CASE HelmReconcileFails
    BY <1>16 DEF HelmReconcileFails, Fail
<1>17. CASE ReturnObjects
    BY <1>17 DEF ReturnObjects, Fail
<1>18. CASE UNCHANGED vars
    <2>1. /\ release' = release /\ crd' = crd /\ pc' = pc /\ want' = want
          /\ disabled' = disabled /\ state' = state /\ rel' = rel
          /\ desiredRel' = desiredRel /\ pi' = pi /\ result' = result
          /\ returned' = returned /\ installArg' = installArg /\ calls' = calls
        BY <1>18 DEF vars
    <2>2. QED
        BY <2>1
<1>19. QED
    BY <1>1, <1>2, <1>3, <1>4, <1>5, <1>6, <1>7, <1>8, <1>9, <1>10, <1>11, <1>12, <1>13, <1>14, <1>15, <1>16, <1>17, <1>18 DEF Next

\* A successful Apply leaves the wanted bundle deployed, its CRD in the
\* cluster and its objects returned, for every value of the constants: in
\* particular a release whose last upgrade failed is never just reconciled.
THEOREM AppliedDeployed == Spec => []AppliedMeansDeployed
BY InitDInv, NextDInv, PTL DEF Spec, DInv

=============================================================================
