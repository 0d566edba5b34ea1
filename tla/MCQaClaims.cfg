SPECIFICATION Spec
CONSTANTS
    ann = ann
    bob = bob
    cid = cid
    alpha = alpha
    beta = beta
    linux = linux
    smoke = smoke
    Session = {ann, bob, cid}
    Named = {cid}
    Coordinator = coordinator
    Device = {alpha, beta}
    DeviceOf <- MCDeviceOf
    Rank <- MCRank
    Platform = {linux}
    PlatformOf <- MCPlatformOf
    Bundle = {smoke}
    PlatformsOf <- MCPlatformsOf
    SlowPush = FALSE
    MaxClaims = 3
    MaxReceipts = 2
    MaxReports = 0
    MaxFaults = 1
SYMMETRY Twins
CHECK_DEADLOCK FALSE
INVARIANTS
    QaTypeOK
    EndHasStart
    OneHolderPerDevice
    OverlapOnlyUpwards
    LoneSessionNeverStuck
