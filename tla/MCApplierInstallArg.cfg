\* A first install of an extension.
CONSTANTS
    b1 = b1
    b2 = b2
    b3 = b3
    r1 = r1
    r2 = r2
    r3 = r3
    Bundles = {b1, b2, b3}
    Revs = {r1, r2, r3}
    CRDOf <- MCCRDOf
    Safe <- MCSafe
    Preflights <- MCPreflights
    MaxApplies = 4
    PartialInstall = FALSE
    NoRelease = NoRelease
    NoCRD = NoCRD
SPECIFICATION Spec
INVARIANT InstallPreflightGetsRelease
CHECK_DEADLOCK FALSE
