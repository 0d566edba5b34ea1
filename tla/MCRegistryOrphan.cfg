SPECIFICATION Spec
CONSTANTS
    Lease = {l1, l2, l3}
    NoLease = NoLease
    ReceiptFile = {file1, file2, file3}
    Owner = {ann, bob, cid}
    Issue = {iss1, iss2}
    Pool = {gateway, interactive}
    Interactive = interactive
    Capacity <- MCCapacity
    MaxSlotsPerTree = 2
    LeaseTime = 2
    AutoRelease = TRUE
    Requests <- SharedRequests
    Resource <- MCResource
    Under <- MCUnder
    Host = host
    host = host
    db = db
    table = table
    ann = ann
    bob = bob
    cid = cid
    iss1 = iss1
    iss2 = iss2
    gateway = gateway
    interactive = interactive
SYMMETRY Ids
INVARIANTS
    RegistryStaysConsistent
