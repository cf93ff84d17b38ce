\* Every extension spec and every installed release, one Resolve call each.
CONSTANTS
    b1 = b1
    b2 = b2
    b3 = b3
    b4 = b4
    p1 = p1
    p2 = p2
    c1 = c1
    c2 = c2
    BundleIds = {b1, b2, b3, b4}
    Packages = {p1, p2}
    ChannelNames = {c1, c2}
    Ranges <- MCRanges
    PkgOf <- MCPkgOf
    ChannelsOf <- MCChannelsOf
    VersionOf <- MCVersionOf
    DeprecatedOf <- MCDeprecatedOf
    PropTypes = {"olm.package.required", "olm.gvk.required", "olm.constraint", "olm.package"}
    PropsOf <- MCPropsOf
    SuccessorsOf <- MCSuccessorsOf
    Catalog <- MCCatalog
    Validations <- MCValidations
    NilExt = NilExt
    NoChannel = NoChannel
    NoRange = NoRange
    BadRange = BadRange
    NoRelease = NoRelease
    Unlabelled = Unlabelled
SPECIFICATION Spec
INVARIANT ResolvesPreferred
CHECK_DEADLOCK FALSE
