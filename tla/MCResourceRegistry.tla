------------------------- MODULE MCResourceRegistry -------------------------
(* Instances of the lease registry for TLC. *)
EXTENDS ResourceRegistry, TLC

CONSTANTS host, db, table,      \* host name, a database and a table in it
          ann, bob, cid,        \* owners
          iss1, iss2,           \* issues
          gateway, interactive  \* pools

MCResource == {host, db, table}
MCUnder    == {<<table, db>>}

Ask(o, i, p, n, r, w, d, m) ==
    [owner |-> o, issue |-> i, pool |-> p, slots |-> n, reads |-> r,
     writes |-> w, drain |-> d, managed |-> m]

\* Readers and writers of a database and of a table in it, a drain of the
\* database and one of the whole host; and trees of agents across two pools
\* and two issues.  No lease has a manager.
SharedRequests ==
    {Ask(ann, iss1, interactive, 1, {db}, {}, FALSE, FALSE),
     Ask(ann, iss1, interactive, 1, {}, {db}, TRUE, FALSE),
     Ask(ann, iss1, gateway, 1, {}, {}, FALSE, FALSE),
     Ask(bob, iss1, interactive, 1, {}, {table}, FALSE, FALSE),
     Ask(bob, iss1, gateway, 1, {}, {}, FALSE, FALSE),
     Ask(bob, iss2, interactive, 2, {}, {}, FALSE, FALSE),
     Ask(cid, iss1, interactive, 1, {table}, {}, FALSE, FALSE),
     Ask(cid, iss2, interactive, 1, {}, {host}, TRUE, FALSE),
     Ask(cid, iss1, gateway, 1, {}, {}, FALSE, FALSE)}

\* Leases held by processes, each for an issue of its own: no lease can be
\* the parent of another.
LoneRequests ==
    {Ask(ann, iss1, interactive, 1, {}, {table}, FALSE, TRUE),
     Ask(bob, iss2, interactive, 1, {db}, {}, FALSE, TRUE),
     Ask(bob, iss2, interactive, 1, {}, {db}, TRUE, TRUE)}

MCCapacity == (gateway :> 3) @@ (interactive :> 3)

Ids == Permutations(Lease) \cup Permutations(ReceiptFile)
=============================================================================
