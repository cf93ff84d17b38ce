\* The legacy revision: one extension calling ManageContent twice suffices.
CONSTANTS
    Exts = {e1}
    Objs = {o1}
    BadObjs = {}
    MaxCaches = 2
SPECIFICATION LegacySpec
INVARIANT OneLiveCachePerExtension
CHECK_DEADLOCK FALSE
