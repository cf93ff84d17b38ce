\* Two CRDs, releases of up to two objects; each version has at most one
\* field whose type may change, so every validator outcome occurs.
CONSTANTS
    None = None
    Absent = Absent
    CRDNames = {a, b}
    MaxObjects = 2
    Paths = {p1}
    VersionNames = {v1, v2}
    EnumVals = {}
    ChildNames = {}
    Nums = {}
    Defaults = {}
    Types = {t1}
    Bounded = {}
SPECIFICATION Spec
INVARIANTS UpgradeNilIffSafe UpgradeReportsEveryFailure NoOpRejectedOnlyByCrossVersion
CHECK_DEADLOCK FALSE
