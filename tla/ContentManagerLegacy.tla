------------------------- MODULE ContentManagerLegacy -------------------------
(***************************************************************************)
(* The earlier revision of the content manager (src/unnamed/part_002): one *)
(* scheme for every extension, and ManageContent stores the new cache in   *)
(* the map without stopping the one it replaces.  Its RemoveManagedContent *)
(* panics ("Not implemented!") and is not a step of this model.            *)
(***************************************************************************)
EXTENDS ContentManager

\* ManageContent of part_002: every watch is made, the new cache is started
\* and overwrites the extension's entry; the previous cache keeps running.
LegacyManageContent(e) ==
    /\ nextCache <= MaxCaches
    /\ \E objs \in SUBSET Objs :
         sources' = sources \cup {[cache |-> nextCache, obj |-> o] : o \in objs}
    /\ cacheOwner' = [cacheOwner EXCEPT ![nextCache] = e]
    /\ cacheState' = [cacheState EXCEPT ![nextCache] = "running"]
    /\ extensionCaches' = [extensionCaches EXCEPT ![e] = nextCache]
    /\ nextCache' = nextCache + 1
    /\ lastResult' = [lastResult EXCEPT ![e] = "ok"]

LegacyNext ==
    \/ \E e \in Exts :
         \/ ManageContentEarlyError(e)
         \/ ManageContentWatchError(e)
         \/ LegacyManageContent(e)
    \/ \E c \in CacheIds : CacheStartFails(c)

LegacySpec == Init /\ [][LegacyNext]_vars

=============================================================================
