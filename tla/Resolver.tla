------------------------------- MODULE Resolver -------------------------------
(***************************************************************************)
(* The bundle resolver (src/internal/resolution/validations.go): one call  *)
(* of Resolver.Resolve, and DefaultInstalledBundleGetter.GetInstalledBundle *)
(* which it calls, as one step per way the call can end.                   *)
(*                                                                         *)
(* Data are abstracted: a bundle is a model value with a package, a set of *)
(* channels, a version (a natural number; two bundles may share one), a    *)
(* deprecation flag and a set of property types.  A version range is the  *)
(* set of versions it admits.  The successor relation of                  *)
(* SuccessorsPredicate (replaces, skips, skipRange) is the constant        *)
(* SuccessorsOf.  The catalog's bundles come in the fixed order Catalog.   *)
(* The sorts are sort.SliceStable, which for fewer than 20 elements is Go's *)
(* insertion sort; it is a RECURSIVE operator, so no proof module reaches  *)
(* this module.                                                            *)
(***************************************************************************)
EXTENDS Naturals, Sequences

CONSTANTS
    BundleIds,      \* the bundles of the catalog
    Packages,       \* package names
    ChannelNames,   \* channel names
    Ranges,         \* the parsed version ranges, each the set of versions it admits
    PkgOf,          \* Bundle.Package
    ChannelsOf,     \* the channels a bundle is in
    VersionOf,      \* Bundle.Version()
    DeprecatedOf,   \* Bundle.IsDeprecated()
    PropTypes,      \* property types
    PropsOf,        \* the types of Bundle.Properties
    SuccessorsOf,   \* the bundles that replace, skip or skipRange a bundle
    Catalog,        \* what BundleProvider.Bundles returns, in its order
    Validations,    \* r.Validations: the property types each one refuses
    NilExt,         \* a nil *ClusterExtension
    NoChannel,      \* Spec.Channel = ""
    NoRange,        \* Spec.Version = ""
    BadRange,       \* a Spec.Version mmsemver.NewConstraint refuses
    NoRelease,      \* cl.Get found no release
    Unlabelled      \* a release whose version label does not parse

ASSUME ResolverAssumption ==
    /\ Ranges \subseteq SUBSET Nat
    /\ PkgOf \in [BundleIds -> Packages]
    /\ ChannelsOf \in [BundleIds -> SUBSET ChannelNames]
    /\ VersionOf \in [BundleIds -> Nat]
    /\ DeprecatedOf \in [BundleIds -> BOOLEAN]
    /\ SuccessorsOf \in [BundleIds -> SUBSET BundleIds]
    /\ Catalog \in Seq(BundleIds)
    /\ \A i, j \in 1..Len(Catalog) : i # j => Catalog[i] # Catalog[j]
    /\ PropsOf \in [BundleIds -> SUBSET PropTypes]
    /\ Validations \in Seq(SUBSET PropTypes)

\* ClusterExtension.Spec: package, channel, version range and upgrade policy.
Exts ==
    [pkg: Packages, channel: ChannelNames \cup {NoChannel},
     range: Ranges \cup {NoRange, BadRange}, policy: {"Enforce", "Ignore"}]

VARIABLES
    ext,            \* the ClusterExtension Resolve is called with
    helmRelease,    \* the labels of the release cl.Get returns: a bundle, NoRelease or Unlabelled
    resolveResult,  \* "none", "ok", or the step whose error Resolve returned
    resolved        \* the bundle Resolve returned

rvars == <<ext, helmRelease, resolveResult, resolved>>

TypeOK ==
    /\ ext \in Exts \cup {NilExt}
    /\ helmRelease \in BundleIds \cup {NoRelease, Unlabelled}
    /\ resolveResult \in {"none", "ok", "nilext", "fetch", "installed", "range",
                          "successors", "version", "nocandidate", "validation"}
    /\ resolved \in BundleIds \cup {NoRelease}

\* GetInstalledBundle: nil without a release, else the bundle its labels name.
Installed == helmRelease

\* SuccessorsPredicate: the successors of the installed bundle in the
\* package, and every bundle of the installed version.
IsSuccessor(b) ==
    /\ PkgOf[b] = ext.pkg
    /\ b \in SuccessorsOf[Installed] \/ VersionOf[b] = VersionOf[Installed]

\* The policy and the installed bundle restrict the candidates to successors.
EnforceSuccessors ==
    ext.policy # "Ignore" /\ Installed # NoRelease

\* catalogfilter.And(predicates...) applied to one bundle.
Match(b) ==
    /\ PkgOf[b] = ext.pkg
    /\ ext.channel = NoChannel \/ ext.channel \in ChannelsOf[b]
    /\ ext.range = NoRange \/ VersionOf[b] \in ext.range
    /\ EnforceSuccessors => IsSuccessor(b)

\* catalogfilter.Filter keeps the order of the catalog.
ResultSet == SelectSeq(Catalog, Match)

\* catalogsort.ByVersion: the higher version first.
ByVersion(a, b) == VersionOf[a] > VersionOf[b]

\* catalogsort.ByDeprecated: a bundle that is not deprecated first.
ByDeprecated(a, b) == ~DeprecatedOf[a] /\ DeprecatedOf[b]

\* The two less functions as relations.
VersionLess == {p \in BundleIds \X BundleIds : ByVersion(p[1], p[2])}
DeprecatedLess == {p \in BundleIds \X BundleIds : ByDeprecated(p[1], p[2])}

\* One pass of Go's insertionSort: x, appended to the sorted s, moves left
\* past every element it is less than.
RECURSIVE InsertLast(_, _, _)
InsertLast(s, x, less) ==
    IF s = <<>> \/ <<x, s[Len(s)]>> \notin less
    THEN Append(s, x)
    ELSE Append(InsertLast(SubSeq(s, 1, Len(s) - 1), x, less), s[Len(s)])

\* sort.SliceStable on fewer than 20 elements: insertion sort.
RECURSIVE SliceStable(_, _)
SliceStable(s, less) ==
    IF s = <<>> THEN s
    ELSE InsertLast(SliceStable(SubSeq(s, 1, Len(s) - 1), less), s[Len(s)], less)

\* Mutant of Sorted: the two sorts in the other order.
SortedSwapped == SliceStable(SliceStable(ResultSet, DeprecatedLess), VersionLess)

\* The candidates sorted by version, then by deprecation.
Sorted == SliceStable(SliceStable(ResultSet, VersionLess), DeprecatedLess)

\* NoDependencyValidation and its like: a validation refuses a bundle that
\* has a property of one of the types it refuses.
ValidationFails(i, b) == PropsOf[b] \cap Validations[i] # {}

-----------------------------------------------------------------------------
(* Resolve, one action per way it returns.                                 *)

\* A nil ClusterExtension (lines 66-68).
ResolveNilExt ==
    /\ ext = NilExt
    /\ resolveResult' = "nilext"
    /\ UNCHANGED <<ext, helmRelease, resolved>>

\* BundleProvider.Bundles fails (lines 74-77).
FetchBundlesFails ==
    /\ ext # NilExt
    /\ resolveResult' = "fetch"
    /\ UNCHANGED <<ext, helmRelease, resolved>>

\* GetInstalledBundle fails: ActionClientFor, or a Get error other than
\* ErrReleaseNotFound (lines 79-82, 155-164).
GetInstalledFails ==
    /\ ext # NilExt
    /\ resolveResult' = "installed"
    /\ UNCHANGED <<ext, helmRelease, resolved>>

\* The version range does not parse (lines 92-96).
InvalidRange ==
    /\ ext # NilExt
    /\ ext.range = BadRange
    /\ resolveResult' = "range"
    /\ UNCHANGED <<ext, helmRelease, resolved>>

\* SuccessorsPredicate cannot parse the installed version (lines 100-104).
SuccessorsFails ==
    /\ ext # NilExt
    /\ ext.range # BadRange
    /\ EnforceSuccessors /\ Installed = Unlabelled
    /\ resolveResult' = "successors"
    /\ UNCHANGED <<ext, helmRelease, resolved>>

\* Past the predicates: the installed version is parsed again, for the
\* error prefix (lines 111-118).
Filtered ==
    /\ ext # NilExt
    /\ ext.range # BadRange
    /\ ~(EnforceSuccessors /\ Installed = Unlabelled)

InstalledVersionFails ==
    /\ Filtered
    /\ Installed = Unlabelled
    /\ resolveResult' = "version"
    /\ UNCHANGED <<ext, helmRelease, resolved>>

\* No bundle satisfies every predicate (lines 119-130).
NoCandidates ==
    /\ Filtered /\ Installed # Unlabelled
    /\ ResultSet = <<>>
    /\ resolveResult' = "nocandidate"
    /\ UNCHANGED <<ext, helmRelease, resolved>>

\* The first of the sorted candidates fails a validation (lines 132-146).
ValidationError ==
    /\ Filtered /\ Installed # Unlabelled
    /\ ResultSet # <<>>
    /\ \E i \in 1..Len(Validations) : ValidationFails(i, Sorted[1])
    /\ resolveResult' = "validation"
    /\ UNCHANGED <<ext, helmRelease, resolved>>

\* The first of the sorted candidates is returned (lines 132-148).
Resolved ==
    /\ Filtered /\ Installed # Unlabelled
    /\ ResultSet # <<>>
    /\ \A i \in 1..Len(Validations) : ~ValidationFails(i, Sorted[1])
    /\ resolveResult' = "ok"
    /\ resolved' = Sorted[1]
    /\ UNCHANGED <<ext, helmRelease>>

ResolveNext ==
    \/ ResolveNilExt \/ FetchBundlesFails \/ GetInstalledFails \/ InvalidRange
    \/ SuccessorsFails \/ InstalledVersionFails \/ NoCandidates
    \/ ValidationError \/ Resolved

-----------------------------------------------------------------------------
(* One Resolve call, for every extension and every installed release.      *)

Init ==
    /\ ext \in Exts \cup {NilExt}
    /\ helmRelease \in BundleIds \cup {NoRelease, Unlabelled}
    /\ resolveResult = "none"
    /\ resolved = NoRelease

Next == resolveResult = "none" /\ ResolveNext

Spec == Init /\ [][Next]_rvars

-----------------------------------------------------------------------------
(***************************************************************************)
(* Properties.                                                             *)
(***************************************************************************)

\* The position of a candidate in the catalog's order.
Pos(b) == CHOOSE i \in 1..Len(ResultSet) : ResultSet[i] = b

\* The reference preference among candidates: a bundle that is not
\* deprecated before one that is, then the higher version, then the one the
\* catalog lists first.
Prefers(c, d) ==
    \/ ~DeprecatedOf[c] /\ DeprecatedOf[d]
    \/ /\ DeprecatedOf[c] = DeprecatedOf[d]
       /\ \/ VersionOf[c] > VersionOf[d]
          \/ VersionOf[c] = VersionOf[d] /\ Pos(c) < Pos(d)

\* Resolve returns a candidate that satisfies every predicate and is
\* preferred over every other one: the two stable sorts, by version and then
\* by deprecation, put the newest non-deprecated bundle first, and keep the
\* catalog's order between bundles of one version.
ResolvesPreferred ==
    resolveResult = "ok" =>
        /\ \E i \in 1..Len(ResultSet) : ResultSet[i] = resolved
        /\ \A i \in 1..Len(ResultSet) :
              ResultSet[i] # resolved => Prefers(resolved, ResultSet[i])

\* With the Ignore upgrade policy the installed bundle plays no part in the
\* resolution, so its version label cannot make Resolve fail.
ResolveIgnoresInstalled ==
    ext # NilExt /\ ext.policy = "Ignore" => resolveResult # "version"

=============================================================================
