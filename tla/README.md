# TLA+ models of operator-controller

This directory holds TLA+ models of the parts of operator-controller that have
state or control worth checking. The TLC configurations model-check those
models on small instances. TLAPS proves some of the properties for every value
of the constants.

## The system

The source under `src/` has five parts.

| part | source | what it does |
|---|---|---|
| CRD upgrade-safety preflight | `src/unnamed/part_000` | `Preflight.Install` (checks nothing) and `Preflight.Upgrade`. `Upgrade` decodes the proposed Helm release, keeps the CRDs, reads each one's active definition from the cluster, runs the kapp `Validator` on (active, proposed) and the cross-version validator on the proposed CRD alone, then joins all the errors. |
| cross-version validator | `src/unnamed/part_000:132-176` | For each ordered pair of distinct declared versions: flatten both schemas, diff them, and run the change validations on each changed field until one reports *handled*. A field no validation handles is an unknown change. |
| Helm applier | `src/unnamed/part_001:1-215` | `Apply` works out the release state (install, upgrade, unchanged), runs every preflight, then installs, upgrades or reconciles the release. The post-renderer relabels the rendered objects. |
| content manager | `src/internal/contentmanager/contentmanager.go` | Keeps one watch cache per ClusterExtension. `ManageContent` builds a new cache, registers one watch per managed object, cancels the previous cache, then starts and records the new one. `RemoveManagedContent` cancels and forgets the cache. |
| content manager, earlier revision | `src/unnamed/part_002` | The same manager, except that `ManageContent` never stops the cache it replaces. |
| resolver | `src/internal/resolution/validations.go` | Filters the catalog's bundles by package, channel, version range and successor relation. It sorts the candidates by version and then by deprecation, takes the first, and runs the validations on it. |

How they interact: the applier calls the preflight before it changes the
cluster. The preflight calls the cross-version validator and the kapp
`Validator`. After a successful apply, the controller hands the release's
objects to the content manager.

The change rules and the whole-definition checks (`NoScopeChange` and the
others) belong to the kapp `crdupgradesafety` library, which is not part of
this repository. They are modelled from `spec.md` 3 and 4.3-4.5, and
`PROJECT.json` marks those definitions `spec_modelled`.

## Modules

| module | models |
|---|---|
| `CRDSchema` | The data. A flattened schema maps paths to descriptors. A descriptor has enum, required, the eight bounds, default and type; type is an attribute no rule judges, so deny-by-default can be reached. A CRD has a scope, declared versions and stored versions. |
| `ChangeRules` | The rule order of `NewPreflight`, and each rule's `(handled, err)`. `err` is the rule's judgement of its own attribute. `handled` holds when the descriptors agree once the attributes of this rule and the rules before it are cleared. Also the schema diff, and the closed-form errors of one field (`FieldErrorTags`), one pair and the whole cross-version check (`CrossVersionErrors`). The reference definitions `FieldSafe` (every changed attribute has a rule that accepts it) and `Lossless` (every instance valid before stays valid) are defined here too. |
| `UpgradeValidator` | The `Validator` built by `NewPreflight`: three whole-definition checks plus the change validator, all run. |
| `CrossVersionSpec` | Abstract specification: `Validate` is one step that returns `CrossVersionErrors`. |
| `CrossVersion` | `crossVersionValidator.Validate`, one loop iteration per step. Versions are visited in slice order (the constant `VersionOrder`). Fields are visited in any order, because Go map iteration order is unspecified. Rules are tried in `RuleOrder`. It refines `CrossVersionSpec` through `Abs == INSTANCE CrossVersionSpec WITH result <- ..., returned <- pc = "done"`. |
| `Preflight` | `Install` and `Upgrade`, one object of the release per step. Its variables are the cluster's CRDs, the release, the decoded objects, the loop index, `validateErrors` and the result. Each early return of `Upgrade` (nil release, parse error, conversion error, CRD not found) is an action of its own. The cross-version check is used through its one-step specification. |
| `ContentManager` | The current content manager. `ManageContent` ends in one of three ways: an early error before a cache exists, a watch failure after some watches were registered, or success. `RemoveManagedContent` is a step, and so is the unobserved failure of a started cache (`go c.Start`). Caches are numbered in creation order up to `MaxCaches`. |
| `Applier` | `Helm.Apply` and `getReleaseState` of `part_001`, one step per call Apply makes. Its state is the cluster (the extension's latest Helm release and the revision of its CRD) and Apply's locals (`want`, `state`, `rel`, `desiredRel`, the preflight index `pi`). Each early return is an action of its own, and so is each failure of a Helm call. A manifest is abstracted to its bundle, and each bundle ships one CRD revision `CRDOf[b]`. `Preflight.Upgrade`'s verdict on replacing one revision by another is the constant relation `Safe`, which is what `Preflight` computes. A failed `ac.Upgrade` always leaves a failed release of the wanted bundle as the latest one, with or without its CRD applied. No rollback is modelled, and part_001:180's test for a failed status presumes such a release. A failed `ac.Install` leaves no release or a failed one, and leaves its CRD behind only under `PartialInstall`. `ExternalCRDEdit`, another writer of the CRD, is only part of `WriterSpec`. |
| `Resolver` | `Resolver.Resolve` and `GetInstalledBundle` of `validations.go`. One call is one step, with one action per way the call returns: nil extension, fetch error, installed-bundle error, bad range, successor-predicate error, installed-version error, no candidate, validation error, or success. A bundle is a model value with a package, channels, a version (natural number), a deprecation flag and property types. A range is the set of versions it admits. The catalog is a sequence. `catalogfilter.Filter` is `SelectSeq`. The two `sort.SliceStable` calls are Go's insertion sort, which is what the standard library runs on fewer than 20 elements. That sort is written as `RECURSIVE` operators, so no proof module reaches this module. `SuccessorsPredicate` and the `catalogsort` less functions are outside `src/`; the model uses them as a successor relation and as two comparisons. |
| `Controller` | The resolver and the applier composed as the reconcile loop runs them: `Resolve` (with the installed bundle taken from the latest Helm release), then `Apply` of the resolved bundle, and a requeue after an error. The user may edit the extension between reconciles. The reconciler itself is not under `src/`, so this glue is modelled from the code's use of the two components. `lastDeployed` is a history variable: the bundle of the last release Helm deployed. |
| `ContentManagerLegacy` | `ManageContent` of `part_002`. Its `RemoveManagedContent` panics, so it is not a step. |
| `MC*` | The model-checking instances. |
| `CrossVersionProofs`, `PreflightProofs`, `ContentManagerProofs`, `ApplierProofs` | The TLAPS proofs. `PreflightProofs` proves `Upgrade`'s type correctness and the three invariants of the `preflight` run. `CrossVersionProofs` proves the cross-version check's type correctness, its refinement of `CrossVersionSpec`, soundness and losslessness. |

A call of `ManageContent` or `RemoveManagedContent` is one atomic step. The
controller's reconciler calls them for one extension at a time, and the map is
not shared with any other goroutine. A cache's start runs in its own goroutine,
which is why its failure is a separate step that can happen at any time.

## Runs

| run | cfg | result | what it shows |
|---|---|---|---|
| `cross_version` | `MCCrossVersion.cfg` | pass, 2.5M states | `CrossVersionSound`: on every CRD with two versions of one field, with enum, required, maximum, minimum, default and type all varying, the loop returns no error exactly when every pair diffs cleanly and every change is accepted by a rule. `CrossVersionLossless`: an accepted CRD converts losslessly. `Refinement`: the loop returns exactly the errors of the one-step specification. `TypeOK` also holds. |
| `preflight` | `MCPreflight.cfg` | pass, 5M states | `UpgradeNilIffSafe`: `Upgrade` returns nil exactly for a nil release, or for a release whose objects all convert and whose CRDs are all in the cluster and pass both validators. `UpgradeReportsEveryFailure`: when no read or decode error ends the call, the result names every failing CRD under each validator, and no other. `NoOpRejectedOnlyByCrossVersion`: a release whose CRDs keep the cluster's scope and versions is refused only by the cross-version check, and its result names exactly the CRDs whose own versions fail that check. |
| `preflight_noop` | `MCPreflightNoOp.cfg` | violation | `NoOpUpgradeAccepted` (spec.md 8: a no-op upgrade is always safe) is violated. The cluster serves v1 without field p1 and v2 with it. Re-applying that CRD unchanged fails, because the v2 to v1 diff fails (part_000:123). |
| `applier` | `MCApplier.cfg` | pass, 8319 states | `AppliedMeansDeployed`: after a successful Apply, the wanted bundle is deployed, its CRD is in the cluster and its objects were returned. In particular, a release whose last upgrade failed is upgraded again, not just reconciled. `CRDUpgradeChecked`: no install or upgrade step of Apply (a step of `Next`) replaces an existing CRD by a revision the preflight refuses, unless the extension disabled the preflight. |
| `applier_toctou` | `MCApplierToctou.cfg` | violation | `CRDUpgradeChecked` under `WriterSpec`. The preflight passes on the CRD the cluster holds. Another writer then edits the CRD (r1 to r3), and `ac.Upgrade` replaces the edited CRD with a revision never checked against it (r3 to r2, part_001:98 to 116). The writer's own edit is not judged: the property speaks of Apply's steps only. |
| `applier_leftover` | `MCApplierLeftover.cfg` | violation | `CRDUpgradeChecked` with `PartialInstall`. An install fails and leaves its CRD behind without a release. The next Apply takes the install path, where `Preflight.Install` checks nothing, and replaces that CRD with an unsafe revision. |
| `applier_install_arg` | `MCApplierInstallArg.cfg` | violation | `InstallPreflightGetsRelease`. The `Preflight` interface comment (part_001:33-36) says Install is given the release. `getReleaseState` returns at line 155 before the dry-run install, so Install always receives nil. |
| `resolver` | `MCResolver.cfg` | pass, 1452 states | `ResolvesPreferred`: for every extension spec (package, channel or none, three ranges, none, a bad one; both policies) and every installed release (each bundle, none, an unparseable label), a successful Resolve returns a candidate that passes every predicate and that the reference order prefers over every other: not deprecated first, then the higher version, then catalog order. |
| `resolver_ignore` | `MCResolverIgnore.cfg` | violation | `ResolveIgnoresInstalled`. With the Ignore policy the installed bundle takes no part in the choice. Yet an installed release whose version label does not parse makes Resolve fail at line 113, where the version is parsed only for an error-message prefix. |
| `controller_failed_release` | `MCControllerFailed.cfg` | violation | `DeployedFollowsSuccessors`. b1 is deployed. The user widens the range, and the upgrade to b2 fails, leaving a failed b2 release. `GetInstalledBundle` reads that failed release's labels, so the next reconcile resolves among b2's successors and deploys b3 over b1, although b3 is not a successor of b1. |
| `content_manager` | `MCContentManager.cfg` | pass | `OneLiveCachePerExtension`: no sequence of calls for two extensions leaves a replaced cache running. |
| `content_manager_legacy` | `MCContentManagerLegacy.cfg` | violation | Two `ManageContent` calls of the earlier revision leave two caches of one extension running (part_002:97). |

Bounds and why they are enough:

- **Cross-version run.** One path is enough, because each field is judged on
  its own. Two versions give both directions of a pair. Two values each for
  enum, bounds and type, one child name and one default cover every outcome of
  every rule: unchanged, added, removed, tightened and loosened.
- **Preflight run.** The descriptor is fixed to one type. What varies is which
  versions and fields exist, so `NoExistingFieldRemoved`, `NoStoredVersionRemoved`
  and the diff failures all occur. Two CRDs and two objects are enough for a
  second failing CRD after a first one, and for a not-found CRD after a failing
  one.
- **Applier run.** Three bundles with CRD revisions r1, r2, r3 are enough for a
  safe upgrade (r1 to r2), an unsafe one (r2 to r3), and a re-upgrade to the same
  bundle after a failure. `h.Preflights` is `<<"other", "crd">>`, so a failing
  other preflight, the Disabled skip and the CRD check all occur. Four Apply
  calls are enough for an install, a failed upgrade, the retry and one more.
- **Resolver run.** Four bundles of one package with versions 1, 2, 2 and 3.
  Two share a version, so the tie is broken by catalog order, and the catalog
  lists them out of version order. The newest one is deprecated, so the two
  sorts disagree and their order matters. One bundle carries a property a
  validation refuses. A second channel and three ranges make each predicate
  exclude something. The successor relation is a diamond (b1 to b2 and b3, both
  to b4), so Enforce and Ignore give different candidates.
- **Controller runs.** Three bundles in a successor chain and three Apply calls
  are enough for a deploy, a failed upgrade and the upgrade that follows it.
- **Content-manager run.** Four caches let an extension replace, fail and
  remove caches while the other one does the same.

Every property of a passing run has a mutant in `PROJECT.json`. The mutant is a
plausible bug in the code it replaces, and TLC finds the property violated under
it. For example, `ApplyRuleBreakFirst` tests `ok` before appending the error,
`GetFailureSkip` treats a missing CRD as new, and `ValidateErrorsStatusStored`
judges `NoStoredVersionRemoved` against the proposed definition's stored
versions, which a rendered CRD does not carry.

Two observations from building the mutants:

- **A flipped bound comparison is not caught.** With the comparison of a
  maximum rule reversed, the cross-version check still accepts only lossless
  CRDs. Every change of a bound is rejected in one of the two directions, so
  direction errors of that kind are hidden. A rule that lets an *added* bound
  through is caught.
- **The dispatch difference from spec.md 4.4 cannot be seen.** spec.md 4.4 says
  that only the error of the rule that handles a field counts. The loop also
  appends the errors of the rules it passes over. For the cross-version check
  this makes no difference: the handling rule is the rule of the last changed
  attribute, and every attribute change is refused in at least one direction,
  so both readings reject the same CRDs.

Fairness and liveness. No model states a liveness property. Apply is
straight-line code: its only loop ranges over the finite list of preflights,
and its final switch has a default. Every call therefore returns whatever the
code does, once its Helm calls return, so a property saying so would check
nothing about this code. The other models are one call, or a sequence of
calls made by a reconciler that the model does not schedule. Deadlock checking is off where the calls terminate, because the final
state is the call's return.

## Proofs

`CrossVersionProofs.TypeCorrect: Spec => []TypeOK` holds for every constant
satisfying the assumptions:

- `OrderAssumption`: `VersionOrder` lists each declared version once, and at
  least one.
- `ConstAssumption`.

`TypeOK` alone is not inductive. An error appended by `ApplyRule` or
`UnknownChange` names `VersionOrder[ia]`, and `ia` may be `NV + 1` once the
outer loop has ended. The strengthening `InLoop` (the field and rule loops run
only while `ia <= NV`) closes the gap. The lemmas say that a flat schema's
domain is a set of paths, that `RuleOrder` has eleven attributes, that
`AdvancePair` keeps the indices in range, and that the pair of the current
indices is a pair of versions.

The cross-version check is proved correct for every CRD, every version order
and every order of fields (Go's map iteration), by three theorems:

- `ReturnsAllPairErrors: Spec => [](pc = "done" => errs = CrossVersionErrors(versions))`.
  The loop returns exactly the closed-form errors of every ordered pair of
  distinct versions.
- `Refines: Spec => Refinement`. The loop implements `CrossVersionSpec`,
  which returns those errors in one step.
- `Sound: Spec => []CrossVersionSound` and
  `LosslessAccepted: Spec => []CrossVersionLossless`. No error is returned
  exactly when every changed attribute has a rule that accepts it. An
  accepted CRD is lossless between every two of its versions.

The loop invariant `ErrsInv` makes these inductive. It says what `errs` holds
at each loop level:

- in the pair loop, the errors of the pairs visited so far (`Visited(ia, ib)`);
- in the field loop, those plus the errors of the fields of the current pair
  already judged (`CurDiff \ fields`);
- in the rule loop, those plus the tags of rules `1..k-1` that rejected the
  current field. No rule before `k` has handled that field.

Without it nothing ties the final `errs` to the pairs that were skipped over,
so `TypeOK` and `InLoop` alone do not give the result. TLC checked
`IInv /\ ErrsInv` on the `cross_version` instances before the proof. The
lemmas are:

- the first handling rule (`FirstHandled`) is the least one, by
  `WFMin` over `Nat`'s well-founded order;
- `FieldErrorTags(o, n) = {}` exactly when `FieldSafe(o, n)`: a change no
  rule handles gets the tag `"unknown"`, and a handled one gets the tags of
  the rules up to the handler;
- an accepted change keeps every valid instance valid (`SafeLossless`):
  enums only widen, bounds only loosen, `required` only shrinks, and `type`
  has no rule and so cannot change.

`ContentManagerProofs.NoLeakedCache: Spec => []OneLiveCachePerExtension` and
`TypeCorrect` hold for every set of extensions and objects and every
`MaxCaches`. `TypeOK /\ OneLiveCachePerExtension` is inductive.
`ManageContent` is the only step that starts a cache, and it stops the cache
the entry held. By the invariant, that was the extension's only running cache.
No step starts a cache of another extension.

`ApplierProofs.CRDChangesChecked: Spec => CRDUpgradeChecked` holds for every
set of bundles and revisions, every relation `Safe` and every preflight list,
under two hypotheses:

- `CRDPreflightConfigured`: `h.Preflights` contains the CRD preflight.
- `~PartialInstall`: a failed install leaves no CRD behind.

The `applier_leftover` run shows that the second hypothesis is needed. `Spec`
has no other writer of the CRD, so the `applier_toctou` interleaving is outside
the theorem. The inductive invariant records these facts:

- after `getReleaseState`, `rel` is the current release;
- the install path is taken only without a release, and without a release
  there is no CRD;
- an upgrade's desired release is the wanted bundle;
- every CRD preflight run so far in an upgrade passed on the CRD that is still
  in the cluster, and at `pc = "apply"` that preflight has run.

An install therefore replaces nothing. An upgrade replaces a CRD the preflight
accepted, and no step between the preflight and `ac.Upgrade` changes the CRD.
`TypeCorrect: Spec => []TypeOK` follows from the same invariant. The assumption
`NoRelease \notin Release` (a nil release is not a release) is needed to tell
the install path apart from the others.

`ApplierProofs.AppliedDeployed: Spec => []AppliedMeansDeployed` holds for
every value of the constants, with no hypothesis. It holds even with a partial
install and without the CRD preflight. The inductive invariant `DInv` adds three
facts to `TypeOK`:

- after `getReleaseState`, `rel` is the current release;
- the unchanged state is reached only when the current release is the wanted
  bundle, deployed;
- from `ReturnObjects` onwards, the release is the wanted bundle, deployed, with
  its CRD.

Without the last two, a state where Apply returns success over a failed
release would not be excluded.

`PreflightProofs` proves the three invariants of the `preflight` run for
every cluster and every manifest. The two validators are treated as given, so
the proofs hold whatever `ValidateErrors` and `CrossVersionErrors` compute.
The only assumption is `PreflightAssumption`: `MaxObjects` is a number, and
`Absent` is not a CRD.

- `NilIffSafe: Spec => []UpgradeNilIffSafe`.
- `ReportsEveryFailure: Spec => []UpgradeReportsEveryFailure`.
- `NoOpOnlyCrossVersion: Spec => []NoOpRejectedOnlyByCrossVersion`.
- `TypeCorrect: Spec => []TypeOK`.

The properties speak only of the final state, so they are not inductive. The
loop invariant `LoopInv` records what each path of `Upgrade` leaves behind:

- in the loop, every object before `i` converted and, if a CRD, was found in
  the cluster (`PrefixChecked`), and `errs` is exactly `Joined(i)`, the
  validator failures of those objects;
- at the end of a manifest, one of three paths was taken. Either the loop ran
  to `Len(objs) + 1` and returned `Joined(i)`, or object `i` failed to
  convert, or object `i` was a CRD missing from the cluster;
- a nil or unparsable release returned nil or the parse error.

TLC checked `TypeOK /\ LoopInv` on the `preflight` instance before the proof.
Two lemmas then turn `Joined(Len(objs) + 1)` into the properties' set-based
form: it is empty exactly when every CRD is safe, and it names exactly the
failing CRDs. For the no-op theorem, `NoOpValidates` shows that the upgrade
Validator accepts a definition of the same scope and versions as the
cluster's. This uses the fact that the API server keeps every stored version
declared (`ClusterCRD`) and that a schema compared with itself has no diff. The
`preflight_noop` finding is therefore due to the cross-version check alone.

The resolver and the controller stay with TLC. Both reach the `RECURSIVE`
insertion sort, and TLAPS loses its SMT backend in any module that reaches a
`RECURSIVE` operator, so `ResolvesPreferred` is model-checked only.

## Not modelled, and the plan

- **Helm action client.** It is not part of this repository. Its effects are
  abstracted in `Applier`: a success deploys the wanted bundle, and a failure
  leaves one of the outcomes listed there. Whether a failed install can leave a
  CRD with no release depends on its rollback. `PartialInstall` makes that a
  choice of the model.
- **Catalog access and semver.** `BundleProvider`, `catalogfilter`,
  `catalogsort` and `SuccessorsPredicate` are outside `src/`. They are
  abstracted to the catalog sequence, the version numbers and the successor
  relation. A larger catalog (20 or more candidates, where `sort.SliceStable`
  switches to a merge sort) is not checked. Both algorithms are stable, so the
  result is the same.
- **Post-renderer.** Not modelled: it is pure formatting.
- **Schema flattening.** Not modelled: kapp does it, and a schema here is
  already flat.
- **Next proofs.** The composition of `Preflight` with `CrossVersion` and the
  upgrade Validator's per-field rules: that a CRD `Preflight` accepts is
  lossless between the cluster's definition and the proposed one.
