---------------------------- MODULE ContentManager ----------------------------
(***************************************************************************)
(* The per-extension watch cache manager                                   *)
(* (src/internal/contentmanager/contentmanager.go).  ManageContent builds  *)
(* a scheme for the managed objects, creates a new cache, registers one    *)
(* watch per object with the controller, cancels the extension's previous  *)
(* cache, starts the new one and records it; RemoveManagedContent cancels  *)
(* and forgets the extension's cache.  A call is one step: the reconciler  *)
(* calls them for one extension at a time.  Caches are numbered by         *)
(* creation; a watch source stays registered with the controller forever  *)
(* (the controller has no way to remove one).                              *)
(***************************************************************************)
EXTENDS Naturals, FiniteSets

CONSTANTS
    Exts,       \* ClusterExtension names
    Objs,       \* kinds of object an extension may manage
    BadObjs,    \* objects without Kind or Version (buildScheme rejects them)
    MaxCaches   \* bound on the number of caches created

ASSUME ContentManagerAssumption ==
    /\ BadObjs \subseteq Objs
    /\ MaxCaches \in Nat

CacheIds == 1..MaxCaches
NoCache == 0

VARIABLES
    extensionCaches, \* i.extensionCaches: extension -> its cache, NoCache if none
    cacheOwner,      \* the extension each created cache belongs to
    cacheState,      \* "created", "running", "stopped" (cancelled) or "failed"
    nextCache,       \* the id the next cache.New returns
    sources,         \* the watch sources registered with the controller
    lastResult       \* what the last call for each extension returned

vars == <<extensionCaches, cacheOwner, cacheState, nextCache, sources, lastResult>>

TypeOK ==
    /\ extensionCaches \in [Exts -> CacheIds \cup {NoCache}]
    /\ cacheOwner \in [CacheIds -> Exts \cup {NoCache}]
    /\ cacheState \in [CacheIds -> {"none", "created", "running", "stopped", "failed"}]
    /\ nextCache \in 1..(MaxCaches + 1)
    /\ sources \in SUBSET [cache: CacheIds, obj: Objs]
    /\ lastResult \in [Exts -> {"none", "ok", "error"}]

Init ==
    /\ extensionCaches = [e \in Exts |-> NoCache]
    /\ cacheOwner = [c \in CacheIds |-> NoCache]
    /\ cacheState = [c \in CacheIds |-> "none"]
    /\ nextCache = 1
    /\ sources = {}
    /\ lastResult = [e \in Exts |-> "none"]

\* A call that returns an error before cache.New succeeds changes nothing
\* but its result: i.rcm fails, buildScheme rejects an object without Kind or
\* Version (or AddToScheme fails), or cache.New fails.
ManageContentEarlyError(e) ==
    /\ lastResult' = [lastResult EXCEPT ![e] = "error"]
    /\ UNCHANGED <<extensionCaches, cacheOwner, cacheState, nextCache, sources>>

\* cache.New succeeds and ctrl.Watch fails for one object: the watches made
\* before it stay registered on a cache that is never started; the call
\* returns the error and leaves the extension's previous cache in place.
ManageContentWatchError(e) ==
    /\ nextCache <= MaxCaches
    /\ \E objs \in SUBSET (Objs \ BadObjs), made \in SUBSET Objs :
         /\ made \subseteq objs /\ made # objs
         /\ sources' = sources \cup {[cache |-> nextCache, obj |-> o] : o \in made}
    /\ cacheOwner' = [cacheOwner EXCEPT ![nextCache] = e]
    /\ cacheState' = [cacheState EXCEPT ![nextCache] = "created"]
    /\ nextCache' = nextCache + 1
    /\ lastResult' = [lastResult EXCEPT ![e] = "error"]
    /\ UNCHANGED extensionCaches

\* Mutant of ManageContent: the previous cache's Cancel is not called.
ManageContentNoCancel(e) ==
    /\ nextCache <= MaxCaches
    /\ \E objs \in SUBSET (Objs \ BadObjs) :
         sources' = sources \cup {[cache |-> nextCache, obj |-> o] : o \in objs}
    /\ cacheOwner' = [cacheOwner EXCEPT ![nextCache] = e]
    /\ cacheState' = [cacheState EXCEPT ![nextCache] = "running"]
    /\ extensionCaches' = [extensionCaches EXCEPT ![e] = nextCache]
    /\ nextCache' = nextCache + 1
    /\ lastResult' = [lastResult EXCEPT ![e] = "ok"]

\* Every watch is made: cancel the extension's previous cache if it has one,
\* start the new cache and record it.
ManageContent(e) ==
    /\ nextCache <= MaxCaches
    /\ \E objs \in SUBSET (Objs \ BadObjs) :
         sources' = sources \cup {[cache |-> nextCache, obj |-> o] : o \in objs}
    /\ cacheOwner' = [cacheOwner EXCEPT ![nextCache] = e]
    /\ cacheState' = [c \in CacheIds |->
                        IF c = nextCache THEN "running"
                        ELSE IF c = extensionCaches[e] THEN "stopped"
                        ELSE cacheState[c]]
    /\ extensionCaches' = [extensionCaches EXCEPT ![e] = nextCache]
    /\ nextCache' = nextCache + 1
    /\ lastResult' = [lastResult EXCEPT ![e] = "ok"]

\* RemoveManagedContent: cancel the extension's cache and delete its entry.
RemoveManagedContent(e) ==
    /\ cacheState' = IF extensionCaches[e] # NoCache
                     THEN [cacheState EXCEPT ![extensionCaches[e]] = "stopped"]
                     ELSE cacheState
    /\ extensionCaches' = [extensionCaches EXCEPT ![e] = NoCache]
    /\ lastResult' = [lastResult EXCEPT ![e] = "ok"]
    /\ UNCHANGED <<cacheOwner, nextCache, sources>>

\* The goroutine of go c.Start(ctx) returns an error; nobody observes it.
CacheStartFails(c) ==
    /\ cacheState[c] = "running"
    /\ cacheState' = [cacheState EXCEPT ![c] = "failed"]
    /\ UNCHANGED <<extensionCaches, cacheOwner, nextCache, sources, lastResult>>

Next ==
    \/ \E e \in Exts :
         \/ ManageContentEarlyError(e)
         \/ ManageContentWatchError(e)
         \/ ManageContent(e)
         \/ RemoveManagedContent(e)
    \/ \E c \in CacheIds : CacheStartFails(c)

Spec == Init /\ [][Next]_vars

-----------------------------------------------------------------------------
(***************************************************************************)
(* Properties.                                                             *)
(***************************************************************************)

\* The caches of an extension that are running.
LiveCaches(e) == {c \in CacheIds : cacheOwner[c] = e /\ cacheState[c] = "running"}

\* No cache is leaked: whatever sequence of successful, failed and removing
\* calls was made, the only cache of an extension still running is the one
\* its entry records, and an extension without an entry has none running.
OneLiveCachePerExtension ==
    \A e \in Exts : LiveCaches(e) \subseteq {extensionCaches[e]}

=============================================================================
