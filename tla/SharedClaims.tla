---------------------------- MODULE SharedClaims ----------------------------
(***************************************************************************)
(* What the lease registry promises about claims, and nothing else: a      *)
(* claim set is granted only when no grant that stays conflicts with it,   *)
(* a grant never changes while it lasts, and what has been granted once to *)
(* an id is never granted to that id again.                                *)
(***************************************************************************)
EXTENDS ResourceClaims

CONSTANTS Lease,
          Askable   \* the sets of claims that may be asked for

VARIABLES grants,   \* [Lease -> the claims it holds, {} for none]
          spent     \* the ids that hold or have held a grant

Init == /\ grants = [l \in Lease |-> {}]
        /\ spent = {}

Keep(gone) == [l \in Lease |-> IF l \in gone THEN {} ELSE grants[l]]

\* Any set of grants ends.
Drop(gone) == /\ grants' = Keep(gone)
              /\ UNCHANGED spent

\* Some grants end and, in the same step, l is granted the claims c.
Grant(l, c, gone) ==
    /\ l \notin spent
    /\ \A m \in Lease \ gone : ~Conflict(c, grants[m])
    /\ grants' = [Keep(gone) EXCEPT ![l] = c]
    /\ spent' = spent \cup {l}

Next == \E gone \in SUBSET Lease :
            \/ Drop(gone)
            \/ \E l \in Lease, c \in Askable : Grant(l, c, gone)

Spec == Init /\ [][Next]_<<grants, spent>>

\* The consequence that makes the promise worth having: no two grants
\* conflict, so a write is never shared.
NoConflictingGrants ==
    \A l, m \in Lease : l # m => ~Conflict(grants[l], grants[m])
=============================================================================
