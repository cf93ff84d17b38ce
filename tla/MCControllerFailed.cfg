\* Resolve and Apply in a reconcile loop, the Enforce and Ignore policies,
\* a version pinned to 1 or not, three Apply calls.
CONSTANTS
    b1 = b1
    b2 = b2
    b3 = b3
    r1 = r1
    r2 = r2
    r3 = r3
    p1 = p1
    c1 = c1
    Bundles = {b1, b2, b3}
    Revs = {r1, r2, r3}
    CRDOf <- MCCRDOf
    Safe <- MCSafe
    Preflights <- MCPreflights
    MaxApplies = 3
    PartialInstall = FALSE
    NoRelease = NoRelease
    NoCRD = NoCRD
    Packages = {p1}
    ChannelNames = {c1}
    Ranges <- MCRanges
    PkgOf <- MCPkgOf
    ChannelsOf <- MCChannelsOf
    VersionOf <- MCVersionOf
    DeprecatedOf <- MCDeprecatedOf
    PropTypes = {"olm.package", "olm.package.required"}
    PropsOf <- MCPropsOf
    SuccessorsOf <- MCSuccessorsOf
    Catalog <- MCCatalog
    Validations <- MCValidations
    NilExt = NilExt
    NoChannel = NoChannel
    NoRange = NoRange
    BadRange = BadRange
    Unlabelled = Unlabelled
SPECIFICATION CSpec
PROPERTY DeployedFollowsSuccessors
CHECK_DEADLOCK FALSE
