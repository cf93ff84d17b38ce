\* Two extensions, two object kinds (one without Kind/Version), four caches:
\* enough for an extension to replace, fail and remove caches.
CONSTANTS
    Exts = {e1, e2}
    Objs = {o1, o2}
    BadObjs = {o2}
    MaxCaches = 4
SPECIFICATION Spec
INVARIANT OneLiveCachePerExtension
CHECK_DEADLOCK FALSE
