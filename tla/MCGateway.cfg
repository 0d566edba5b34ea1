\* Calls of the gateway and the bridge while their files are replaced.
SPECIFICATION GatewaySpec
CONSTANTS
    None = None
    Offset <- Hosts
    Instant <- Instants
    Canonical <- Directories
    Inside <- Below
    Revision = {"r1", "r2"}
    Adapter <- Adapters
    Registry <- Registries
    Evidence <- Evidences
    Request <- Requests
    NativeModule <- Modules
    Contract <- Declared
INVARIANTS
    GatewayTypeOK
    NobodyDeploysAlone
    IssueIsTheActors
    MutationsInsideWindows
    WindowReasonIsTrue
