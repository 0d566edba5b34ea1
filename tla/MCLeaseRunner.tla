---------------------------- MODULE MCLeaseRunner ----------------------------
(* Instances of runners that share a lease registry, for TLC. *)
EXTENDS LeaseRunner, TLC

CONSTANTS host, db, table,      \* host name, a database and a table in it
          ann, bob, cid,        \* owners
          iss1, iss2,           \* issues
          gateway, interactive  \* pools

MCResource == {host, db, table}
MCUnder    == {<<table, db>>}

Ask(o, i, p, n, r, w, d, m) ==
    [owner |-> o, issue |-> i, pool |-> p, slots |-> n, reads |-> r,
     writes |-> w, drain |-> d, managed |-> m]

\* A run that writes a table, and a drain of the database around it.
RunRequests ==
    {Ask(ann, iss1, interactive, 1, {}, {table}, FALSE, TRUE),
     Ask(bob, iss2, interactive, 1, {}, {db}, TRUE, TRUE)}

\* Two runs of one owner: the second may begin when the first has gone.
SuccessiveRequests == {Ask(ann, iss1, interactive, 1, {}, {table}, FALSE, TRUE)}

MCCapacity == (gateway :> 2) @@ (interactive :> 3)

Ids == Permutations(Lease) \cup Permutations(ReceiptFile)
=============================================================================
