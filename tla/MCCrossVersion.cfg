\* One field, two versions, every attribute kind that a rule judges varies.
CONSTANTS
    None = None
    v1 = v1
    v2 = v2
    v3 = v3
    Paths = {p1}
    VersionNames = {v1, v2}
    VersionOrder <- MCVersionOrder
    EnumVals = {e1, e2}
    ChildNames = {c1}
    Nums = {1, 2}
    Defaults = {d1}
    Types = {t1, t2}
    Bounded = {"maximum", "minimum"}
SPECIFICATION Spec
INVARIANTS TypeOK CrossVersionSound CrossVersionLossless
PROPERTY Refinement
CHECK_DEADLOCK FALSE
