------------------------- MODULE SharedClaimsProofs -------------------------
(* What the promise of SharedClaims is worth. *)
EXTENDS SharedClaims, TLAPS

\* Nothing is assumed of Askable: whether two claim sets conflict is all that
\* the promise looks at.
PromiseTypeOK == /\ grants = [l \in Lease |-> grants[l]]
                 /\ \A l \in Lease : grants[l] # {} => l \in spent

\* Conflict does not depend on who asks, and nothing conflicts with {}.
LEMMA ConflictFacts ==
    ASSUME NEW C, NEW D
    PROVE  /\ Conflict(C, D) <=> Conflict(D, C)
           /\ ~Conflict(C, {})
<1>1. ASSUME NEW c, NEW d PROVE ClaimConflict(c, d) <=> ClaimConflict(d, c)
  BY DEF ClaimConflict, IntentConflict, Overlaps, Below
<1>2. QED
  BY <1>1 DEF Conflict

\* No two grants of the promise conflict: what is claimed for writing is
\* held by one lease only.
THEOREM PromiseExcludes == Spec => []NoConflictingGrants
<1> DEFINE Inv == PromiseTypeOK /\ NoConflictingGrants
<1>1. Init => Inv
  BY ConflictFacts DEF Init, PromiseTypeOK, NoConflictingGrants
<1>2. Inv /\ [Next]_<<grants, spent>> => Inv'
  <2> SUFFICES ASSUME Inv, [Next]_<<grants, spent>> PROVE Inv'
    OBVIOUS
  <2>1. ASSUME NEW gone \in SUBSET Lease, Drop(gone) PROVE Inv'
    BY <2>1, ConflictFacts
       DEF Drop, Keep, PromiseTypeOK, NoConflictingGrants
  <2>2. ASSUME NEW gone \in SUBSET Lease, NEW l \in Lease, NEW c \in Askable,
               Grant(l, c, gone)
        PROVE  Inv'
    <3>1. \A m \in Lease : grants'[m] = IF m = l THEN c
                              ELSE IF m \in gone THEN {} ELSE grants[m]
      BY <2>2 DEF Grant, Keep
    <3>2. PromiseTypeOK'
      BY <2>2 DEF Grant, Keep, PromiseTypeOK
    <3>3. \A m \in Lease : m # l => ~Conflict(c, grants'[m])
      BY <2>2, <3>1, ConflictFacts DEF Grant
    <3>4. NoConflictingGrants'
      BY <3>1, <3>3, ConflictFacts DEF NoConflictingGrants
    <3>5. QED
      BY <3>2, <3>4
  <2>3. CASE UNCHANGED <<grants, spent>>
    BY <2>3 DEF PromiseTypeOK, NoConflictingGrants
  <2>4. QED
    BY <2>1, <2>2, <2>3 DEF Next
<1>3. QED
  BY <1>1, <1>2, PTL DEF Spec
=============================================================================
