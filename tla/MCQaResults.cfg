SPECIFICATION Spec
CONSTANTS
    ann = ann
    bob = bob
    cid = cid
    alpha = alpha
    beta = beta
    linux = linux
    smoke = smoke
    Session = {ann, cid}
    Named = {ann, cid}
    Coordinator = coordinator
    Device = {alpha, beta}
    DeviceOf <- MCDeviceOf
    Rank <- MCRank
    Platform = {linux}
    PlatformOf <- MCPlatformOf
    Bundle = {smoke}
    PlatformsOf <- MCPlatformsOf
    SlowPush = TRUE
    MaxClaims = 2
    MaxReceipts = 4
    MaxReports = 1
    MaxFaults = 0
CHECK_DEADLOCK FALSE
INVARIANTS
    UnforcedCloseIsComplete
    InTimeDecides
