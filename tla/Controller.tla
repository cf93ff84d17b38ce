------------------------------ MODULE Controller ------------------------------
(***************************************************************************)
(* The resolver and the Helm applier composed as a reconcile loop: each    *)
(* reconcile resolves a bundle (Resolver) with the installed bundle read   *)
(* from the extension's latest Helm release (GetInstalledBundle,           *)
(* validations.go lines 155-173), then applies it (Applier).  The          *)
(* reconciler that sequences the two is not part of src/; it is the glue   *)
(* of this module: resolve, then apply the resolved bundle, and start over *)
(* after an error.  The user may edit the extension's spec between         *)
(* reconciles.                                                             *)
(***************************************************************************)
EXTENDS Applier

CONSTANTS
    Packages, ChannelNames, Ranges, PkgOf, ChannelsOf, VersionOf,
    DeprecatedOf, PropTypes, PropsOf, SuccessorsOf, Catalog, Validations,
    NilExt, NoChannel, NoRange, BadRange, Unlabelled

VARIABLES
    ext,            \* the ClusterExtension's spec
    resolveResult,  \* the outcome of the reconcile's Resolve call
    resolved,       \* the bundle it resolved
    lastDeployed    \* the bundle of the last release Helm deployed (history)

\* GetInstalledBundle: the labels of the latest release, whatever its status.
InstalledLabels == IF release = NoRelease THEN NoRelease ELSE release.bundle

R == INSTANCE Resolver
        WITH BundleIds <- Bundles, helmRelease <- InstalledLabels

cvars == <<vars, ext, resolveResult, resolved, lastDeployed>>

CInit ==
    /\ Init
    /\ ext \in R!Exts
    /\ resolveResult = "none"
    /\ resolved = NoRelease
    /\ lastDeployed = NoRelease

\* A reconcile starts with Resolve while no Apply is in progress.
Resolve ==
    /\ pc = "idle" /\ resolveResult = "none"
    /\ UNCHANGED <<vars, lastDeployed>>
    /\ R!ResolveNext

\* Resolve failed: the reconcile returns its error and is requeued.
ResolveRequeue ==
    /\ resolveResult \notin {"none", "ok"}
    /\ resolveResult' = "none"
    /\ UNCHANGED <<vars, ext, resolved, lastDeployed>>

\* Apply is called with the resolved bundle.
Apply ==
    /\ resolveResult = "ok"
    /\ ApplyBegin /\ want' = resolved
    /\ resolveResult' = "none"
    /\ UNCHANGED <<ext, resolved, lastDeployed>>

\* A Helm install or upgrade deploys a release.
Deploy ==
    /\ HelmInstall \/ HelmUpgrade
    /\ lastDeployed' = want
    /\ UNCHANGED <<ext, resolveResult, resolved>>

\* The remaining steps of Apply.
ApplyStep ==
    /\ \/ ReleaseGetError \/ ReleaseNotFound \/ DryRunFails \/ ReleaseFound
       \/ PreflightSkip \/ PreflightInstall \/ PreflightUpgrade \/ PreflightNone
       \/ PreflightsDone \/ HelmInstallFails \/ HelmUpgradeFails
       \/ HelmReconcile \/ HelmReconcileFails \/ ReturnObjects
    /\ UNCHANGED <<ext, resolveResult, resolved, lastDeployed>>

\* The user edits the extension's spec between reconciles.
EditExtension ==
    /\ pc = "idle" /\ resolveResult = "none"
    /\ ext' \in R!Exts
    /\ UNCHANGED <<vars, resolveResult, resolved, lastDeployed>>

CNext ==
    Resolve \/ ResolveRequeue \/ Apply \/ Deploy \/ ApplyStep \/ EditExtension

CSpec == CInit /\ [][CNext]_cvars

-----------------------------------------------------------------------------

\* With the Enforce upgrade policy, every release Helm deploys is of a
\* successor of the bundle deployed before it (or of the same version): the
\* successor predicate is built from the bundle GetInstalledBundle reports.
DeployedFollowsSuccessors ==
    [][ /\ lastDeployed' # lastDeployed
        /\ lastDeployed # NoRelease
        /\ ext.policy = "Enforce"
        => \/ lastDeployed' \in SuccessorsOf[lastDeployed]
           \/ VersionOf[lastDeployed'] = VersionOf[lastDeployed] ]_cvars

=============================================================================
