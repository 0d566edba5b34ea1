SPECIFICATION Spec
CONSTANTS
    ann = ann
    bob = bob
    cid = cid
    alpha = alpha
    beta = beta
    linux = linux
    smoke = smoke
    Session = {ann, cid}
    Named = {ann, cid}
    Coordinator = coordinator
    Device = {alpha, beta}
    DeviceOf <- MCDeviceOf
    Rank <- MCRank
    Platform = {linux}
    PlatformOf <- MCPlatformOf
    Bundle = {smoke}
    PlatformsOf <- MCPlatformsOf
    SlowPush = FALSE
    MaxClaims = 2
    MaxReceipts = 0
    MaxReports = 0
    MaxFaults = 0
CHECK_DEADLOCK FALSE
INVARIANTS
    LiveClaimIsExclusive
