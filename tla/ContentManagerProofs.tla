------------------------- MODULE ContentManagerProofs -------------------------
(***************************************************************************)
(* Proofs about the content manager (ContentManager, contentmanager.go):   *)
(* the type invariant and the absence of leaked caches, for every set of   *)
(* extensions and objects and every bound on the number of caches.         *)
(*                                                                         *)
(* OneLiveCachePerExtension is inductive together with TypeOK: the only    *)
(* step that starts a cache (ManageContent) cancels the cache the entry    *)
(* held, which by the invariant was the only running cache of that        *)
(* extension, and records the new one; no step starts a cache of another   *)
(* extension.                                                              *)
(***************************************************************************)
EXTENDS ContentManager, TLAPS

\* The invariant the proofs carry: the type invariant and the no-leak one.
Inv == TypeOK /\ OneLiveCachePerExtension

\* Initially no cache exists, so no extension has one running.
LEMMA InitInv == Init => Inv
<1> SUFFICES ASSUME Init PROVE Inv
    OBVIOUS
<1>1. TypeOK
    BY ContentManagerAssumption DEF Init, TypeOK, CacheIds, NoCache
<1>2. OneLiveCachePerExtension
    BY DEF Init, OneLiveCachePerExtension, LiveCaches
<1>3. QED
    BY <1>1, <1>2 DEF Inv

\* Every call of ManageContent, failed or not, of RemoveManagedContent, and
\* every failure of a started cache, keeps both invariants.
LEMMA NextInv == Inv /\ [Next]_vars => Inv'
<1> SUFFICES ASSUME Inv, [Next]_vars PROVE Inv'
    OBVIOUS
<1> USE ContentManagerAssumption DEF Inv, TypeOK, CacheIds, NoCache
<1>1. ASSUME NEW e \in Exts, ManageContentEarlyError(e) PROVE Inv'
    BY <1>1 DEF ManageContentEarlyError, OneLiveCachePerExtension, LiveCaches
<1>2. ASSUME NEW e \in Exts, ManageContentWatchError(e) PROVE Inv'
    <2>1. TypeOK'
        BY <1>2 DEF ManageContentWatchError
    <2>2. OneLiveCachePerExtension'
        BY <1>2 DEF ManageContentWatchError, OneLiveCachePerExtension, LiveCaches
    <2>3. QED
        BY <2>1, <2>2
<1>3. ASSUME NEW e \in Exts, ManageContent(e) PROVE Inv'
    <2>1. TypeOK'
        BY <1>3 DEF ManageContent
    <2>2. ASSUME NEW x \in Exts PROVE LiveCaches(x)' \subseteq {extensionCaches'[x]}
        <3>1. CASE x = e
            BY <1>3, <3>1 DEF ManageContent, OneLiveCachePerExtension, LiveCaches
        <3>2. CASE x # e
            BY <1>3, <3>2 DEF ManageContent, OneLiveCachePerExtension, LiveCaches
        <3>3. QED
            BY <3>1, <3>2
    <2>3. QED
        BY <2>1, <2>2 DEF OneLiveCachePerExtension
<1>4. ASSUME NEW e \in Exts, RemoveManagedContent(e) PROVE Inv'
    <2>1. TypeOK'
        BY <1>4 DEF RemoveManagedContent
    <2>2. OneLiveCachePerExtension'
        BY <1>4 DEF RemoveManagedContent, OneLiveCachePerExtension, LiveCaches
    <2>3. QED
        BY <2>1, <2>2
<1>5. ASSUME NEW c \in CacheIds, CacheStartFails(c) PROVE Inv'
    BY <1>5 DEF CacheStartFails, OneLiveCachePerExtension, LiveCaches
<1>6. CASE UNCHANGED vars
    BY <1>6 DEF vars, OneLiveCachePerExtension, LiveCaches
<1>7. QED
    BY <1>1, <1>2, <1>3, <1>4, <1>5, <1>6 DEF Next

\* The manager's state is always well typed.
THEOREM TypeCorrect == Spec => []TypeOK
BY InitInv, NextInv, PTL DEF Spec, Inv

\* No cache is leaked: in every reachable state the only running cache of an
\* extension is the one its extensionCaches entry holds, whatever sequence of
\* ManageContent, failed ManageContent and RemoveManagedContent calls and
\* cache start failures led there.
THEOREM NoLeakedCache == Spec => []OneLiveCachePerExtension
BY InitInv, NextInv, PTL DEF Spec, Inv

=============================================================================
