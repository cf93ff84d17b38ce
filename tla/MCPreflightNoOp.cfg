\* One CRD, releases of one object: a CRD re-applied unchanged.
CONSTANTS
    None = None
    Absent = Absent
    CRDNames = {a}
    MaxObjects = 1
    Paths = {p1}
    VersionNames = {v1, v2}
    EnumVals = {}
    ChildNames = {}
    Nums = {}
    Defaults = {}
    Types = {t1}
    Bounded = {}
SPECIFICATION Spec
INVARIANT NoOpUpgradeAccepted
CHECK_DEADLOCK FALSE
