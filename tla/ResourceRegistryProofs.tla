----------------------- MODULE ResourceRegistryProofs -----------------------
(***************************************************************************)
(* Theorems about ResourceRegistry, for any leases, requests, pools,       *)
(* capacities, lease time and expiry policy.                               *)
(***************************************************************************)
EXTENDS ResourceRegistry, FiniteSetTheorems, TLAPS

\* The claims of a well-formed request are claims.
LEMMA ClaimsOfType ==
    ASSUME NEW reads \in SUBSET Resource, NEW writes \in SUBSET Resource
    PROVE  ClaimsOf(reads, writes) \in SUBSET Claim
  BY ResourceAssumption DEF ClaimsOf, Claim, Mode

\* Conflict does not depend on who asks: claim_conflict() is symmetric.
LEMMA ConflictSymmetric ==
    ASSUME NEW C, NEW D
    PROVE  Conflict(C, D) <=> Conflict(D, C)
<1>1. ASSUME NEW c, NEW d PROVE ClaimConflict(c, d) <=> ClaimConflict(d, c)
  BY DEF ClaimConflict, IntentConflict, Overlaps, Below
<1>2. QED BY <1>1 DEF Conflict

\* A new row is a row.
LEMMA NewRowType ==
    ASSUME TypeOK, NEW l \in Lease, NEW req \in Requests,
           NEW p \in Live \cup {NoLease}
    PROVE  NewRow(l, req, p) \in Row
<1> USE RegistryAssumption
<1>1. req \in Request
  OBVIOUS
<1>2. ClaimsOf(req.reads, req.writes) \in SUBSET Claim
  BY <1>1, ClaimsOfType DEF Request
<1>3. RootOf(l, p) \in Lease /\ p \in Lease \cup {NoLease}
  BY DEF RootOf, TypeOK, Row, Live
<1>4. QED
  BY <1>1, <1>2, <1>3 DEF NewRow, Row, Request

\* Replacing one row by a row keeps the registry a table of rows.
LEMMA RowUpdate ==
    ASSUME TypeOK, NEW l \in Live, NEW row \in Row, Update(l, row)
    PROVE  Live' \subseteq Lease /\ leases' \in [Live' -> Row]
  BY DEF Update, TypeOK, Live

LEMMA InitTypeOK == Init => TypeOK
BY DEF Init, TypeOK, Live

\* Every variable keeps its type.
LEMMA TypeStep == TypeOK /\ [Next]_vars => TypeOK'
<1> SUFFICES ASSUME TypeOK, [Next]_vars PROVE TypeOK'
  OBVIOUS
<1> USE RegistryAssumption
<1>1. ASSUME NEW l \in Lease, NEW req \in Requests, NEW p \in Live \cup {NoLease},
             Acquire(l, req, p)
      PROVE  TypeOK'
  <2>1. NewRow(l, req, p) \in Row
    BY NewRowType
  <2>2. receipts' \in [ReceiptFile -> Lease \cup {NoLease}]
    BY <1>1 DEF Acquire, CreateReceipt, TypeOK
  <2>3. Live' \subseteq Lease /\ leases' \in [Live' -> Row]
    BY <1>1, <2>1 DEF Acquire, TypeOK, Live
  <2>4. QED
    BY <1>1, <2>2, <2>3 DEF Acquire, TypeOK
<1>2. ASSUME NEW l \in Lease, NEW req \in Requests, NEW p \in Live \cup {NoLease},
             AcquireInterrupted(l, req, p)
      PROVE  TypeOK'
  <2>1. receipts' \in [ReceiptFile -> Lease \cup {NoLease}]
    BY <1>2 DEF AcquireInterrupted, CreateReceipt, TypeOK
  <2>2. QED
    BY <1>2, <2>1 DEF AcquireInterrupted, TypeOK, Live
<1>3. ASSUME NEW l \in Lease, Renew(l) PROVE TypeOK'
  <2>1. l \in Live
    BY <1>3 DEF Renew, MayRenew, Active
  <2>2. [leases[l] EXCEPT !.ttl = LeaseTime] \in Row
    BY <2>1 DEF TypeOK, Row
  <2>3. Live' \subseteq Lease /\ leases' \in [Live' -> Row]
    BY <1>3, <2>1, <2>2, RowUpdate DEF Renew
  <2>4. QED
    BY <1>3, <2>3 DEF Renew, TypeOK
<1>4. ASSUME NEW l \in Lease, Activate(l) PROVE TypeOK'
  <2>1. l \in Live
    BY <1>4 DEF Activate, MayActivate, Active
  <2>2. [leases[l] EXCEPT !.phase = "held"] \in Row
    BY <2>1 DEF TypeOK, Row
  <2>3. Live' \subseteq Lease /\ leases' \in [Live' -> Row]
    BY <1>4, <2>1, <2>2, RowUpdate DEF Activate
  <2>4. QED
    BY <1>4, <2>3 DEF Activate, TypeOK
<1>5. ASSUME NEW l \in Lease, BindProcess(l) PROVE TypeOK'
  <2>1. l \in Live
    BY <1>5 DEF BindProcess, MayBind, Active
  <2>2. [leases[l] EXCEPT !.process_group = l] \in Row
    BY <2>1 DEF TypeOK, Row
  <2>3. Live' \subseteq Lease /\ leases' \in [Live' -> Row]
    BY <1>5, <2>1, <2>2, RowUpdate DEF BindProcess
  <2>4. QED
    BY <1>5, <2>3 DEF BindProcess, TypeOK
<1>6. ASSUME NEW l \in Lease, Freeze(l) PROVE TypeOK'
  <2>1. l \in Live
    BY <1>6 DEF Freeze, MayFreeze
  <2>2. [leases[l] EXCEPT !.phase = "frozen"] \in Row
    BY <2>1 DEF TypeOK, Row
  <2>3. Live' \subseteq Lease /\ leases' \in [Live' -> Row]
    BY <1>6, <2>1, <2>2, RowUpdate DEF Freeze
  <2>4. QED
    BY <1>6, <2>3 DEF Freeze, TypeOK
<1>7. ASSUME NEW l \in Lease, NEW b \in BOOLEAN, Release(l, b) PROVE TypeOK'
  BY <1>7 DEF Release, Without, TypeOK, Live
<1>8. ASSUME NEW b \in BOOLEAN, Reap(b) PROVE TypeOK'
  BY <1>8 DEF Reap, Without, TypeOK, Live
<1>9. ASSUME Tick PROVE TypeOK'
  <2>1. \A l \in Live : [leases[l] EXCEPT !.ttl = IF @ = 0 THEN 0 ELSE @ - 1] \in Row
    BY DEF TypeOK, Row
  <2>2. QED
    BY <1>9, <2>1 DEF Tick, TypeOK, Live
<1>10. ASSUME Maintenance PROVE TypeOK'
  BY <1>10 DEF Maintenance, TypeOK, Live
<1>11. ASSUME NEW f \in ReceiptFile, DiscardReceipt(f) PROVE TypeOK'
  BY <1>11 DEF DiscardReceipt, TypeOK, Live
<1>12. ASSUME NEW l \in Lease, ManagerStep(l) PROVE TypeOK'
  BY <1>12 DEF ManagerStep, TypeOK, Live
<1>13. ASSUME NEW l \in Lease, GroupStarts(l) \/ GroupEnds(l) PROVE TypeOK'
  BY <1>13 DEF GroupStarts, GroupEnds, TypeOK, Live
<1>14. CASE UNCHANGED vars
  BY <1>14 DEF vars, TypeOK, Live
<1>15. QED
  BY <1>1, <1>2, <1>3, <1>4, <1>5, <1>6, <1>7, <1>8, <1>9, <1>10, <1>11,
     <1>12, <1>13, <1>14 DEF Next, Operation

\* The state of the registry and of the processes around it is well formed.
THEOREM TypeCorrect == Spec => []TypeOK
BY InitTypeOK, TypeStep, PTL DEF Spec

-----------------------------------------------------------------------------
(* The claims: who may hold what at the same time. *)

\* No row is new, and no row changes what it was registered for.
KeepsRows ==
    /\ Live' \subseteq Live
    /\ \A m \in Live' :
          /\ leases'[m].owner = leases[m].owner
          /\ leases'[m].issue = leases[m].issue
          /\ leases'[m].pool = leases[m].pool
          /\ leases'[m].slots = leases[m].slots
          /\ leases'[m].claims = leases[m].claims
          /\ leases'[m].root = leases[m].root
          /\ leases'[m].parent = leases[m].parent

\* A row enters the registry, or changes what it was registered for, only
\* through acquire().
LEMMA OnlyAcquireAddsRows ==
    ASSUME TypeOK, [Next]_vars,
           ~ \E l \in Lease, req \in Requests, p \in Live \cup {NoLease} :
                Acquire(l, req, p)
    PROVE  KeepsRows
<1> USE DEF KeepsRows, Live
<1>1. ASSUME NEW l \in Lease, NEW req \in Requests, NEW p \in Live \cup {NoLease},
             AcquireInterrupted(l, req, p)
      PROVE  KeepsRows
  BY <1>1 DEF AcquireInterrupted
<1>2. ASSUME NEW l \in Lease, Renew(l) PROVE KeepsRows
  BY <1>2 DEF Renew, MayRenew, Active, Update, TypeOK, Row
<1>3. ASSUME NEW l \in Lease, Activate(l) PROVE KeepsRows
  BY <1>3 DEF Activate, MayActivate, Active, Update, TypeOK, Row
<1>4. ASSUME NEW l \in Lease, BindProcess(l) PROVE KeepsRows
  BY <1>4 DEF BindProcess, MayBind, Active, Update, TypeOK, Row
<1>5. ASSUME NEW l \in Lease, Freeze(l) PROVE KeepsRows
  BY <1>5 DEF Freeze, MayFreeze, Update, TypeOK, Row
<1>6. ASSUME NEW l \in Lease, NEW b \in BOOLEAN, Release(l, b) PROVE KeepsRows
  BY <1>6 DEF Release, Without
<1>7. ASSUME NEW b \in BOOLEAN, Reap(b) PROVE KeepsRows
  BY <1>7 DEF Reap, Without
<1>8. CASE Tick
  BY <1>8 DEF Tick, TypeOK, Row
<1>9. CASE UNCHANGED leases
  BY <1>9
<1>10. QED
  BY <1>1, <1>2, <1>3, <1>4, <1>5, <1>6, <1>7, <1>8, <1>9
     DEF Next, Operation, Maintenance, DiscardReceipt, ManagerStep,
         GroupStarts, GroupEnds, vars

\* Phases and grants go together.
LEMMA PhasesStep == TypeOK /\ PhasesMatchGrants /\ [Next]_vars => PhasesMatchGrants'
<1> SUFFICES ASSUME TypeOK, PhasesMatchGrants, [Next]_vars
             PROVE  PhasesMatchGrants'
  OBVIOUS
<1> USE DEF PhasesMatchGrants, Live
<1>1. ASSUME NEW l \in Lease, NEW req \in Requests, NEW p \in Live \cup {NoLease},
             Acquire(l, req, p)
      PROVE  PhasesMatchGrants'
  <2>1. NewRow(l, req, p).phase = IF req.drain THEN "draining" ELSE "held"
    BY DEF NewRow
  <2>2. l \notin used
    BY <1>1 DEF Acquire, MayAcquire
  <2>3. QED
    BY <1>1, <2>1, <2>2 DEF Acquire
<1>2. ASSUME NEW l \in Lease, NEW req \in Requests, NEW p \in Live \cup {NoLease},
             AcquireInterrupted(l, req, p)
      PROVE  PhasesMatchGrants'
  BY <1>2 DEF AcquireInterrupted
<1>3. ASSUME NEW l \in Lease, Renew(l) PROVE PhasesMatchGrants'
  BY <1>3 DEF Renew, MayRenew, Active, Update, TypeOK, Row
<1>4. ASSUME NEW l \in Lease, Activate(l) PROVE PhasesMatchGrants'
  BY <1>4 DEF Activate, MayActivate, Active, Update, TypeOK, Row
<1>5. ASSUME NEW l \in Lease, BindProcess(l) PROVE PhasesMatchGrants'
  BY <1>5 DEF BindProcess, MayBind, Active, Update, TypeOK, Row
<1>6. ASSUME NEW l \in Lease, Freeze(l) PROVE PhasesMatchGrants'
  BY <1>6 DEF Freeze, MayFreeze, Update, TypeOK, Row
<1>7. ASSUME NEW l \in Lease, NEW b \in BOOLEAN, Release(l, b)
      PROVE  PhasesMatchGrants'
  BY <1>7 DEF Release, Without
<1>8. ASSUME NEW b \in BOOLEAN, Reap(b) PROVE PhasesMatchGrants'
  BY <1>8 DEF Reap, Without
<1>9. CASE Tick
  BY <1>9 DEF Tick, TypeOK, Row
<1>10. CASE UNCHANGED <<leases, used, granted>>
  BY <1>10
<1>11. QED
  BY <1>1, <1>2, <1>3, <1>4, <1>5, <1>6, <1>7, <1>8, <1>9, <1>10
     DEF Next, Operation, Maintenance, DiscardReceipt, ManagerStep,
         GroupStarts, GroupEnds, vars

\* A phase other than 'frozen' or an exception is the stored one.
LEMMA ActivePhase ==
    ASSUME NEW l, Phase(l) \in {"held", "draining"}
    PROVE  leases[l].phase = Phase(l)
  BY DEF Phase

\* granted changes only with the lease that acquire() or activate() grants.
LEMMA OnlyGrantsGrant ==
    ASSUME TypeOK, [Next]_vars,
           ~ \E l \in Lease, req \in Requests, p \in Live \cup {NoLease} :
                Acquire(l, req, p),
           ~ \E l \in Lease : Activate(l)
    PROVE  granted' = granted
  BY DEF Next, Operation, AcquireInterrupted, Renew, BindProcess, Freeze,
         Release, Reap, Tick, Maintenance, DiscardReceipt, ManagerStep,
         GroupStarts, GroupEnds, vars

\* What acquire() knows of the rows that stay beside the new one.
AcquireEffect(l, req, p) ==
    /\ Live' = (Live \ Reaped) \cup {l}
    /\ l \notin used
    /\ leases'[l] = NewRow(l, req, p)
    /\ \A m \in Live \ Reaped : m # l => leases'[m] = leases[m]
    /\ \A m \in Live \ Reaped : leases[m].owner # req.owner
    /\ \A m \in Live \ Reaped :
          Conflict(leases'[l].claims, leases[m].claims)
             => req.drain /\ leases[m].phase = "held"

LEMMA AcquireFacts ==
    ASSUME TypeOK, NEW l \in Lease, NEW req \in Requests,
           NEW p \in Live \cup {NoLease}, Acquire(l, req, p)
    PROVE  AcquireEffect(l, req, p)
<1>1. \A m \in Blocked(ClaimsOf(req.reads, req.writes), Live \ Reaped) :
         req.drain /\ leases[m].phase = "held"
  <2>1. Unopposed(req, Live \ Reaped)
    BY DEF Acquire, MayAcquire
  <2>2. QED
    BY <2>1, ActivePhase DEF Unopposed
<1>2. NewRow(l, req, p).claims = ClaimsOf(req.reads, req.writes)
  BY DEF NewRow
<1>3. QED
  BY <1>1, <1>2 DEF Acquire, MayAcquire, Blocked, Live, AcquireEffect

LEMMA ExclusiveStep ==
    TypeOK /\ PhasesMatchGrants /\ ExclusiveGrants /\ [Next]_vars => ExclusiveGrants'
<1> SUFFICES ASSUME TypeOK, PhasesMatchGrants, ExclusiveGrants, [Next]_vars,
                    NEW a \in Live' \cap granted', NEW b \in Live' \cap granted',
                    a # b
             PROVE  ~Conflict(leases'[a].claims, leases'[b].claims)
  BY DEF ExclusiveGrants, Live
<1>1. ASSUME NEW l \in Lease, NEW req \in Requests, NEW p \in Live \cup {NoLease},
             Acquire(l, req, p)
      PROVE  ~Conflict(leases'[a].claims, leases'[b].claims)
  <2>0. AcquireEffect(l, req, p)
    BY <1>1, AcquireFacts
  <2>1. ~req.drain \/ l \notin granted'
    BY <1>1, <2>0 DEF Acquire, PhasesMatchGrants, AcquireEffect
  <2>2. granted' \subseteq granted \cup {l}
    BY <1>1 DEF Acquire
  <2>3. CASE a # l /\ b # l
    <3>1. a \in Live \cap granted /\ b \in Live \cap granted
      BY <1>1, <2>2, <2>3, <2>0 DEF AcquireEffect
    <3>2. leases'[a] = leases[a] /\ leases'[b] = leases[b]
      BY <1>1, <2>3, <2>0 DEF AcquireEffect
    <3>3. QED
      BY <3>1, <3>2 DEF ExclusiveGrants
  <2>4. CASE a = l
    BY <1>1, <2>1, <2>4, <2>0 DEF AcquireEffect
  <2>5. CASE b = l
    BY <1>1, <2>1, <2>5, <2>0, ConflictSymmetric DEF AcquireEffect
  <2>6. QED
    BY <2>3, <2>4, <2>5
<1>2. ASSUME NEW l \in Lease, Activate(l),
             ~ \E x \in Lease, req \in Requests, p \in Live \cup {NoLease} :
                  Acquire(x, req, p)
      PROVE  ~Conflict(leases'[a].claims, leases'[b].claims)
  <2>1. KeepsRows
    BY <1>2, OnlyAcquireAddsRows
  <2>2. \/ l \in granted
        \/ \A m \in Live \ {l} : ~Conflict(leases[l].claims, leases[m].claims)
    BY <1>2, ActivePhase
       DEF Activate, MayActivate, Active, Blocked, PhasesMatchGrants
  <2>3. granted' = granted \cup {l}
    BY <1>2 DEF Activate
  <2>4. a \in Live /\ b \in Live
        /\ leases'[a].claims = leases[a].claims
        /\ leases'[b].claims = leases[b].claims
    BY <2>1 DEF KeepsRows
  <2>5. CASE a \in granted /\ b \in granted
    BY <2>4, <2>5 DEF ExclusiveGrants
  <2>6. CASE (a = l \/ b = l) /\ l \notin granted
    BY <2>2, <2>4, <2>6, ConflictSymmetric
  <2>7. QED
    BY <2>3, <2>5, <2>6
<1>3. ASSUME ~ \E l \in Lease, req \in Requests, p \in Live \cup {NoLease} :
                  Acquire(l, req, p),
             ~ \E l \in Lease : Activate(l)
      PROVE  ~Conflict(leases'[a].claims, leases'[b].claims)
  BY <1>3, OnlyAcquireAddsRows, OnlyGrantsGrant DEF KeepsRows, ExclusiveGrants
<1>4. QED
  BY <1>1, <1>2, <1>3

LEMMA DrainsStep ==
    TypeOK /\ PhasesMatchGrants /\ DrainsNeverWaitForEachOther /\ [Next]_vars
      => DrainsNeverWaitForEachOther'
<1> SUFFICES ASSUME TypeOK, PhasesMatchGrants, DrainsNeverWaitForEachOther,
                    [Next]_vars,
                    NEW a \in Live' \ granted', NEW b \in Live' \ granted',
                    a # b
             PROVE  ~Conflict(leases'[a].claims, leases'[b].claims)
  BY DEF DrainsNeverWaitForEachOther, Live
<1>1. ASSUME NEW l \in Lease, NEW req \in Requests, NEW p \in Live \cup {NoLease},
             Acquire(l, req, p)
      PROVE  ~Conflict(leases'[a].claims, leases'[b].claims)
  <2>0. AcquireEffect(l, req, p)
    BY <1>1, AcquireFacts
  <2>1. granted \subseteq granted'
    BY <1>1 DEF Acquire
  <2>2. CASE a # l /\ b # l
    <3>1. a \in Live \ granted /\ b \in Live \ granted
      BY <1>1, <2>1, <2>2, <2>0 DEF AcquireEffect
    <3>2. leases'[a] = leases[a] /\ leases'[b] = leases[b]
      BY <1>1, <2>2, <2>0 DEF AcquireEffect
    <3>3. QED
      BY <3>1, <3>2 DEF DrainsNeverWaitForEachOther
  <2>3. CASE a = l
    <3>1. b \in Live \ Reaped /\ b # l /\ leases[b].phase # "held"
      BY <1>1, <2>1, <2>3, <2>0 DEF PhasesMatchGrants, AcquireEffect
    <3>2. QED
      BY <1>1, <2>3, <3>1, <2>0 DEF AcquireEffect
  <2>4. CASE b = l
    <3>1. a \in Live \ Reaped /\ a # l /\ leases[a].phase # "held"
      BY <1>1, <2>1, <2>4, <2>0 DEF PhasesMatchGrants, AcquireEffect
    <3>2. QED
      BY <1>1, <2>4, <3>1, <2>0, ConflictSymmetric DEF AcquireEffect
  <2>5. QED
    BY <2>2, <2>3, <2>4
<1>2. ASSUME ~ \E l \in Lease, req \in Requests, p \in Live \cup {NoLease} :
                  Acquire(l, req, p)
      PROVE  ~Conflict(leases'[a].claims, leases'[b].claims)
  <2>1. granted \subseteq granted'
    BY <1>2, OnlyGrantsGrant DEF Activate
  <2>2. QED
    BY <1>2, <2>1, OnlyAcquireAddsRows DEF KeepsRows, DrainsNeverWaitForEachOther
<1>3. QED
  BY <1>1, <1>2

\* The inductive invariant about claims.
ClaimsInv == /\ TypeOK
             /\ PhasesMatchGrants
             /\ ExclusiveGrants
             /\ DrainsNeverWaitForEachOther

\* No two leases are ever granted claims that conflict, and no two drains
\* ever wait for each other, whatever the claims, the policy and the order
\* in which leases come, expire, freeze and are reaped.
THEOREM ClaimsSafe == Spec => [](ExclusiveGrants /\ DrainsNeverWaitForEachOther)
<1>1. Init => ClaimsInv
  BY DEF Init, ClaimsInv, TypeOK, PhasesMatchGrants, ExclusiveGrants,
         DrainsNeverWaitForEachOther, Live
<1>2. ClaimsInv /\ [Next]_vars => ClaimsInv'
  BY TypeStep, PhasesStep, ExclusiveStep, DrainsStep DEF ClaimsInv
<1>3. ClaimsInv => ExclusiveGrants /\ DrainsNeverWaitForEachOther
  BY DEF ClaimsInv
<1>4. QED
  BY <1>1, <1>2, <1>3, PTL DEF Spec

\* Two drains never wait for each other, for any number of drains and leases.
THEOREM DrainsSafe == Spec => []DrainsNeverWaitForEachOther
BY ClaimsSafe, PTL

-----------------------------------------------------------------------------
(* Owners, receipts and trees. *)

\* An id is never forgotten.
LEMMA UsedGrows == [Next]_vars => used \subseteq used'
  BY DEF Next, Operation, Acquire, AcquireInterrupted, Renew, Activate,
         BindProcess, Freeze, Release, Reap, Tick, Maintenance,
         DiscardReceipt, ManagerStep, GroupStarts, GroupEnds, vars

LEMMA OwnersStep ==
    TypeOK /\ OneLeasePerOwner /\ [Next]_vars => OneLeasePerOwner'
<1> SUFFICES ASSUME TypeOK, OneLeasePerOwner, [Next]_vars
             PROVE  OneLeasePerOwner'
  OBVIOUS
<1>1. ASSUME NEW l \in Lease, NEW req \in Requests, NEW p \in Live \cup {NoLease},
             Acquire(l, req, p)
      PROVE  OneLeasePerOwner'
  <2>0. AcquireEffect(l, req, p)
    BY <1>1, AcquireFacts
  <2>1. leases'[l].owner = req.owner
    BY <1>1, <2>0 DEF NewRow, AcquireEffect
  <2>2. QED
    BY <1>1, <2>1, <2>0 DEF OneLeasePerOwner, Live, AcquireEffect
<1>2. ASSUME ~ \E l \in Lease, req \in Requests, p \in Live \cup {NoLease} :
                  Acquire(l, req, p)
      PROVE  OneLeasePerOwner'
  BY <1>2, OnlyAcquireAddsRows DEF KeepsRows, OneLeasePerOwner, Live
<1>3. QED
  BY <1>1, <1>2

\* The receipt of l is in f, and no other file has changed.
ReceiptWritten(l, f) ==
    /\ receipts'[f] = l
    /\ \A g \in ReceiptFile :
          receipts[g] # NoLease => receipts'[g] = receipts[g]

\* A new receipt is on disk afterwards, and no other was written over.
LEMMA ReceiptKept ==
    ASSUME TypeOK, NEW l \in Lease, CreateReceipt(l)
    PROVE  \E f \in ReceiptFile : ReceiptWritten(l, f)
BY DEF CreateReceipt, ReceiptWritten, TypeOK

LEMMA ReceiptsStep ==
    TypeOK /\ LeaseHasReceipt /\ [Next]_vars => LeaseHasReceipt'
<1> SUFFICES ASSUME TypeOK, LeaseHasReceipt, [Next]_vars
             PROVE  LeaseHasReceipt'
  OBVIOUS
<1>1. ASSUME NEW l \in Lease, NEW req \in Requests, NEW p \in Live \cup {NoLease},
             Acquire(l, req, p)
      PROVE  LeaseHasReceipt'
  <2>0. AcquireEffect(l, req, p)
    BY <1>1, AcquireFacts
  <2>1. PICK f \in ReceiptFile : ReceiptWritten(l, f)
    BY <1>1, ReceiptKept DEF Acquire
  <2>2. ASSUME NEW m \in Live', m # l
        PROVE  \E g \in ReceiptFile : receipts'[g] = m
    <3>1. m \in Live
      BY <2>0, <2>2 DEF AcquireEffect, Live
    <3>2. QED
      BY <2>1, <3>1, RegistryAssumption
         DEF ReceiptWritten, LeaseHasReceipt, TypeOK
  <2>3. QED
    BY <2>1, <2>2 DEF LeaseHasReceipt, ReceiptWritten
<1>2. ASSUME NEW l \in Lease, NEW req \in Requests, NEW p \in Live \cup {NoLease},
             AcquireInterrupted(l, req, p)
      PROVE  LeaseHasReceipt'
  <2>1. PICK f \in ReceiptFile : ReceiptWritten(l, f)
    BY <1>2, ReceiptKept DEF AcquireInterrupted
  <2>2. ASSUME NEW m \in Live
        PROVE  \E g \in ReceiptFile : receipts'[g] = m
    BY <2>1, RegistryAssumption DEF ReceiptWritten, LeaseHasReceipt, TypeOK
  <2>3. QED
    BY <1>2, <2>2 DEF AcquireInterrupted, LeaseHasReceipt, Live
<1>3. ASSUME NEW f \in ReceiptFile, DiscardReceipt(f) PROVE LeaseHasReceipt'
  BY <1>3 DEF DiscardReceipt, LeaseHasReceipt, TypeOK, Live
<1>4. ASSUME ~ \E l \in Lease, req \in Requests, p \in Live \cup {NoLease} :
                  Acquire(l, req, p),
             UNCHANGED receipts
      PROVE  LeaseHasReceipt'
  BY <1>4, OnlyAcquireAddsRows DEF KeepsRows, LeaseHasReceipt, Live
<1>5. \/ UNCHANGED receipts
      \/ \E l \in Lease, req \in Requests, p \in Live \cup {NoLease} :
            Acquire(l, req, p) \/ AcquireInterrupted(l, req, p)
      \/ \E f \in ReceiptFile : DiscardReceipt(f)
  BY DEF Next, Operation, Renew, Activate, BindProcess, Freeze, Release,
         Reap, Tick, Maintenance, ManagerStep, GroupStarts, GroupEnds, vars
<1>6. QED
  BY <1>1, <1>2, <1>3, <1>4, <1>5

\* A session is never confused with another: one owner has one lease, and
\* the receipt file that authenticates it exists, through every crash.
THEOREM OwnersSafe == Spec => [](OneLeasePerOwner /\ LeaseHasReceipt)
<1> DEFINE Inv == TypeOK /\ OneLeasePerOwner /\ LeaseHasReceipt
<1>1. Init => Inv
  BY DEF Init, TypeOK, OneLeasePerOwner, LeaseHasReceipt, Live
<1>2. Inv /\ [Next]_vars => Inv'
  BY TypeStep, OwnersStep, ReceiptsStep
<1>3. Inv => OneLeasePerOwner /\ LeaseHasReceipt
  OBVIOUS
<1>4. QED
  BY <1>1, <1>2, <1>3, PTL DEF Spec

LEMMA RootsStep == TypeOK /\ RootsAreUsed /\ [Next]_vars => RootsAreUsed'
<1> SUFFICES ASSUME TypeOK, RootsAreUsed, [Next]_vars
             PROVE  RootsAreUsed'
  OBVIOUS
<1>1. ASSUME NEW l \in Lease, NEW req \in Requests, NEW p \in Live \cup {NoLease},
             Acquire(l, req, p)
      PROVE  RootsAreUsed'
  <2>0. AcquireEffect(l, req, p)
    BY <1>1, AcquireFacts
  <2>1. leases'[l].root \in used'
    BY <1>1, <2>0 DEF NewRow, RootOf, Acquire, RootsAreUsed, AcquireEffect
  <2>2. QED
    BY <1>1, <2>1, <2>0, UsedGrows DEF RootsAreUsed, Live, AcquireEffect
<1>2. ASSUME ~ \E l \in Lease, req \in Requests, p \in Live \cup {NoLease} :
                  Acquire(l, req, p)
      PROVE  RootsAreUsed'
  BY <1>2, OnlyAcquireAddsRows, UsedGrows DEF KeepsRows, RootsAreUsed, Live
<1>3. QED
  BY <1>1, <1>2

LEMMA ScopeStep ==
    TypeOK /\ RootsAreUsed /\ TreeIsOneScope /\ [Next]_vars => TreeIsOneScope'
<1> SUFFICES ASSUME TypeOK, RootsAreUsed, TreeIsOneScope, [Next]_vars
             PROVE  TreeIsOneScope'
  OBVIOUS
<1>1. ASSUME NEW l \in Lease, NEW req \in Requests, NEW p \in Live \cup {NoLease},
             Acquire(l, req, p)
      PROVE  TreeIsOneScope'
  <2>0. AcquireEffect(l, req, p)
    BY <1>1, AcquireFacts
  <2> DEFINE new == NewRow(l, req, p)
  <2>1. new.pool = req.pool /\ new.issue = req.issue /\ new.root = RootOf(l, p)
    BY DEF NewRow
  <2>2. \A m \in Live : leases[m].root = new.root =>
           leases[m].pool = new.pool /\ leases[m].issue = new.issue
    <3>1. CASE p = NoLease
      BY <1>1, <2>1, <3>1, <2>0 DEF RootOf, RootsAreUsed, AcquireEffect
    <3>2. CASE p # NoLease
      <4>1. p \in Live /\ leases[p].pool = req.pool /\ leases[p].issue = req.issue
        BY <1>1, <3>2 DEF Acquire, MayAcquire, ParentFits
      <4>2. new.root = leases[p].root
        BY <2>1, <3>2 DEF RootOf
      <4>3. QED
        BY <2>1, <4>1, <4>2 DEF TreeIsOneScope
    <3>3. QED
      BY <3>1, <3>2
  <2> HIDE DEF new
  <2>3. leases'[l] = new
    BY <1>1, <2>0 DEF new, AcquireEffect
  <2>4. QED
    BY <1>1, <2>2, <2>3, <2>0 DEF TreeIsOneScope, Live, AcquireEffect
<1>2. ASSUME ~ \E l \in Lease, req \in Requests, p \in Live \cup {NoLease} :
                  Acquire(l, req, p)
      PROVE  TreeIsOneScope'
  BY <1>2, OnlyAcquireAddsRows DEF KeepsRows, TreeIsOneScope, Live
<1>3. QED
  BY <1>1, <1>2

\* All leases of one tree share pool and issue, at any depth and whichever
\* of its members have left the registry.
THEOREM TreesSafe == Spec => []TreeIsOneScope
<1> DEFINE Inv == TypeOK /\ RootsAreUsed /\ TreeIsOneScope
<1>1. Init => Inv
  BY DEF Init, TypeOK, RootsAreUsed, TreeIsOneScope, Live
<1>2. Inv /\ [Next]_vars => Inv'
  BY TypeStep, RootsStep, ScopeStep
<1>3. Inv => TreeIsOneScope
  OBVIOUS
<1>4. QED
  BY <1>1, <1>2, <1>3, PTL DEF Spec

-----------------------------------------------------------------------------
(* Slots.  They are counted as pairs of a lease and a number. *)

CellsOf(rows, S) == UNION {{l} \X (1 .. rows[l].slots) : l \in S}

LEMMA SlotsAreCells == \A S : SlotsOf(S) = Cardinality(CellsOf(leases, S))
BY DEF SlotsOf, CellsOf

\* Fewer leases take no more slots, in a table where they take as many.
LEMMA FewerSlots ==
    ASSUME NEW old, NEW S, IsFiniteSet(CellsOf(old, S)),
           NEW new, NEW T \in SUBSET S, \A l \in T : new[l].slots = old[l].slots
    PROVE  /\ IsFiniteSet(CellsOf(new, T))
           /\ Cardinality(CellsOf(new, T)) \in Nat
           /\ Cardinality(CellsOf(old, S)) \in Nat
           /\ Cardinality(CellsOf(new, T)) <= Cardinality(CellsOf(old, S))
<1>1. CellsOf(new, T) \subseteq CellsOf(old, S)
  <2> SUFFICES ASSUME NEW l \in T, NEW x \in {l} \X (1 .. new[l].slots)
               PROVE  x \in CellsOf(old, S)
    BY DEF CellsOf
  <2>1. x \in {l} \X (1 .. old[l].slots) /\ l \in S
    OBVIOUS
  <2> QED
    BY <2>1 DEF CellsOf
<1> QED
  BY <1>1, FS_Subset, FS_CardinalityType

\* One more lease takes as many more slots as it has.
LEMMA OneMoreLease ==
    ASSUME NEW old, NEW S, IsFiniteSet(CellsOf(old, S)),
           NEW new, NEW l, new[l].slots \in Nat,
           NEW T \in SUBSET (S \cup {l}),
           \A m \in T \ {l} : new[m].slots = old[m].slots
    PROVE  /\ IsFiniteSet(CellsOf(new, T))
           /\ Cardinality(CellsOf(new, T)) \in Nat
           /\ Cardinality(CellsOf(old, S)) \in Nat
           /\ Cardinality(CellsOf(new, T))
                <= new[l].slots + Cardinality(CellsOf(old, S))
<1> DEFINE n == new[l].slots
           one == {l} \X (1 .. n)
           rest == CellsOf(old, S)
<1>1. IsFiniteSet(one) /\ Cardinality(one) = n
  <2>1. /\ IsFiniteSet(1 .. n) /\ Cardinality(1 .. n) = n
        /\ IsFiniteSet({l}) /\ Cardinality({l}) = 1
    <3>1. 1 \in Int /\ n \in Nat /\ n \in Int
      OBVIOUS
    <3> HIDE DEF n
    <3>2. /\ IsFiniteSet(1 .. n)
          /\ Cardinality(1 .. n) = IF 1 > n THEN 0 ELSE n - 1 + 1
      BY <3>1, FS_Interval
    <3>3. Cardinality(1 .. n) = n
      BY <3>1, <3>2
    <3>4. IsFiniteSet({l}) /\ Cardinality({l}) = 1
      BY FS_Singleton
    <3> QED
      BY <3>2, <3>3, <3>4
  <2>2. IsFiniteSet(one) /\ Cardinality(one) = Cardinality({l}) * Cardinality(1 .. n)
    BY <2>1, FS_Product
  <2> QED
    BY <2>1, <2>2
<1>2. CellsOf(new, T) \subseteq one \cup rest
  <2> SUFFICES ASSUME NEW m \in T, NEW x \in {m} \X (1 .. new[m].slots)
               PROVE  x \in one \cup rest
    BY DEF CellsOf
  <2>1. CASE m = l
    BY <2>1
  <2>2. CASE m # l
    <3>1. x \in {m} \X (1 .. old[m].slots) /\ m \in S
      BY <2>2
    <3> QED
      BY <3>1 DEF CellsOf
  <2> QED
    BY <2>1, <2>2
<1> HIDE DEF one, rest
<1>3. /\ IsFiniteSet(one \cup rest)
      /\ Cardinality(one \cup rest)
           = Cardinality(one) + Cardinality(rest) - Cardinality(one \cap rest)
      /\ Cardinality(one \cap rest) \in Nat
      /\ Cardinality(rest) \in Nat
  BY <1>1, FS_Union, FS_Intersection, FS_CardinalityType DEF rest
<1>4. /\ IsFiniteSet(CellsOf(new, T))
      /\ Cardinality(CellsOf(new, T)) \in Nat
      /\ Cardinality(CellsOf(new, T)) <= Cardinality(one \cup rest)
  BY <1>2, <1>3, FS_Subset, FS_CardinalityType
<1> QED
  BY <1>1, <1>3, <1>4 DEF rest

SlotsInv == IsFiniteSet(CellsOf(leases, Live)) /\ SlotsWithinCapacity

\* What the leases of one pool, or of one tree, take.
OfPool(p) == {l \in Live : leases[l].pool = p}
OfTree(r) == {l \in Live : leases[l].root = r}

LEMMA SlotsStep ==
    TypeOK /\ SlotsInv /\ [Next]_vars => SlotsInv'
<1> SUFFICES ASSUME TypeOK, SlotsInv, [Next]_vars
             PROVE  SlotsInv'
  OBVIOUS
<1> USE RegistryAssumption
<1>0. IsFiniteSet(CellsOf(leases, Live))
  BY DEF SlotsInv
<1>1. \A S \in SUBSET Live : IsFiniteSet(CellsOf(leases, S))
  BY <1>0, FewerSlots
<1>2. /\ \A p \in Pool : Cardinality(CellsOf(leases, OfPool(p))) <= Capacity[p]
      /\ \A r \in Lease : Cardinality(CellsOf(leases, OfTree(r))) <= MaxSlotsPerTree
  BY SlotsAreCells DEF SlotsInv, SlotsWithinCapacity, PoolCapacity, TreeCapacity, OfPool, OfTree
<1>3. SUFFICES /\ IsFiniteSet(CellsOf(leases', Live'))
               /\ \A p \in Pool : Cardinality(CellsOf(leases', OfPool(p)')) <= Capacity[p]
               /\ \A r \in Lease : Cardinality(CellsOf(leases', OfTree(r)')) <= MaxSlotsPerTree
  BY DEF SlotsInv, SlotsWithinCapacity, PoolCapacity, TreeCapacity, SlotsOf, CellsOf,
         OfPool, OfTree
<1>4. ASSUME NEW l \in Lease, NEW req \in Requests, NEW parent \in Live \cup {NoLease},
             Acquire(l, req, parent)
      PROVE  /\ IsFiniteSet(CellsOf(leases', Live'))
             /\ \A p \in Pool : Cardinality(CellsOf(leases', OfPool(p)')) <= Capacity[p]
             /\ \A r \in Lease : Cardinality(CellsOf(leases', OfTree(r)')) <= MaxSlotsPerTree
  <2> DEFINE rest == Live \ Reaped
  <2>1. /\ Live' = rest \cup {l}
        /\ leases'[l] = NewRow(l, req, parent)
        /\ \A m \in rest \ {l} : leases'[m] = leases[m]
    BY <1>4, AcquireFacts DEF AcquireEffect
  <2>2. /\ leases'[l].slots = req.slots /\ leases'[l].pool = req.pool
        /\ leases'[l].root = RootOf(l, parent)
        /\ req.slots \in Nat
    BY <2>1 DEF NewRow, Request
  <2>3. /\ req.slots + Cardinality(CellsOf(leases, {m \in rest : leases[m].pool = req.pool}))
             <= Capacity[req.pool]
        /\ req.slots + Cardinality(CellsOf(leases, {m \in rest :
                                                leases[m].root = RootOf(l, parent)}))
             <= MaxSlotsPerTree
    BY <1>4, SlotsAreCells DEF Acquire, MayAcquire, PoolFits, TreeFits
  <2> HIDE DEF rest
  <2>4. rest \subseteq Live
    BY DEF rest
  <2>5. IsFiniteSet(CellsOf(leases', Live'))
    BY <1>1, <2>1, <2>2, <2>4, OneMoreLease
  <2>6. ASSUME NEW p \in Pool
        PROVE  Cardinality(CellsOf(leases', OfPool(p)')) <= Capacity[p]
    <3>1. CASE p = req.pool
      <4> DEFINE S == {m \in rest : leases[m].pool = p}
      <4>1. OfPool(p)' \subseteq S \cup {l} /\ S \subseteq Live
        BY <2>1, <2>4 DEF OfPool, Live
      <4>2. \A m \in OfPool(p)' \ {l} : leases'[m].slots = leases[m].slots
        BY <2>1, <4>1
      <4>3. Capacity[p] \in Nat
        OBVIOUS
      <4> HIDE DEF S
      <4>4. /\ Cardinality(CellsOf(leases', OfPool(p)')) \in Nat
            /\ Cardinality(CellsOf(leases, S)) \in Nat
            /\ Cardinality(CellsOf(leases', OfPool(p)'))
                 <= req.slots + Cardinality(CellsOf(leases, S))
        BY <1>1, <2>2, <4>1, <4>2, OneMoreLease
      <4>5. req.slots + Cardinality(CellsOf(leases, S)) <= Capacity[p]
        BY <2>3, <3>1 DEF S
      <4> QED
        BY <2>2, <4>3, <4>4, <4>5
    <3>2. CASE p # req.pool
      <4>1. OfPool(p)' \subseteq OfPool(p) /\ OfPool(p) \subseteq Live
        BY <2>1, <2>2, <2>4, <3>2 DEF OfPool, Live
      <4>2. \A m \in OfPool(p)' : leases'[m].slots = leases[m].slots
        BY <2>1, <2>2, <3>2 DEF OfPool, Live
      <4>3. /\ Cardinality(CellsOf(leases', OfPool(p)')) \in Nat
            /\ Cardinality(CellsOf(leases, OfPool(p))) \in Nat
            /\ Cardinality(CellsOf(leases', OfPool(p)'))
                 <= Cardinality(CellsOf(leases, OfPool(p)))
        BY <1>1, <4>1, <4>2, FewerSlots
      <4>4. Capacity[p] \in Nat
        OBVIOUS
      <4> QED
        BY <1>2, <4>3, <4>4
    <3> QED
      BY <3>1, <3>2
  <2>7. ASSUME NEW r \in Lease
        PROVE  Cardinality(CellsOf(leases', OfTree(r)')) <= MaxSlotsPerTree
    <3>1. CASE r = RootOf(l, parent)
      <4> DEFINE S == {m \in rest : leases[m].root = r}
      <4>1. OfTree(r)' \subseteq S \cup {l} /\ S \subseteq Live
        BY <2>1, <2>4 DEF OfTree, Live
      <4>2. \A m \in OfTree(r)' \ {l} : leases'[m].slots = leases[m].slots
        BY <2>1, <4>1
      <4> HIDE DEF S
      <4>3. /\ Cardinality(CellsOf(leases', OfTree(r)')) \in Nat
            /\ Cardinality(CellsOf(leases, S)) \in Nat
            /\ Cardinality(CellsOf(leases', OfTree(r)'))
                 <= req.slots + Cardinality(CellsOf(leases, S))
        BY <1>1, <2>2, <4>1, <4>2, OneMoreLease
      <4>4. req.slots + Cardinality(CellsOf(leases, S)) <= MaxSlotsPerTree
        BY <2>3, <3>1 DEF S
      <4> QED
        BY <2>2, <4>3, <4>4
    <3>2. CASE r # RootOf(l, parent)
      <4>1. OfTree(r)' \subseteq OfTree(r) /\ OfTree(r) \subseteq Live
        BY <2>1, <2>2, <2>4, <3>2 DEF OfTree, Live
      <4>2. \A m \in OfTree(r)' : leases'[m].slots = leases[m].slots
        BY <2>1, <2>2, <3>2 DEF OfTree, Live
      <4>3. /\ Cardinality(CellsOf(leases', OfTree(r)')) \in Nat
            /\ Cardinality(CellsOf(leases, OfTree(r))) \in Nat
            /\ Cardinality(CellsOf(leases', OfTree(r)'))
                 <= Cardinality(CellsOf(leases, OfTree(r)))
        BY <1>1, <4>1, <4>2, FewerSlots
      <4> QED
        BY <1>2, <4>3
    <3> QED
      BY <3>1, <3>2
  <2> QED
    BY <2>5, <2>6, <2>7
<1>5. ASSUME ~ \E l \in Lease, req \in Requests, parent \in Live \cup {NoLease} :
                  Acquire(l, req, parent)
      PROVE  /\ IsFiniteSet(CellsOf(leases', Live'))
             /\ \A p \in Pool : Cardinality(CellsOf(leases', OfPool(p)')) <= Capacity[p]
             /\ \A r \in Lease : Cardinality(CellsOf(leases', OfTree(r)')) <= MaxSlotsPerTree
  <2>1. KeepsRows
    BY <1>5, OnlyAcquireAddsRows
  <2>2. ASSUME NEW S \in SUBSET Live, NEW T \in SUBSET S, T \subseteq Live'
        PROVE  /\ IsFiniteSet(CellsOf(leases', T))
               /\ Cardinality(CellsOf(leases', T)) \in Nat
               /\ Cardinality(CellsOf(leases, S)) \in Nat
               /\ Cardinality(CellsOf(leases', T)) <= Cardinality(CellsOf(leases, S))
    <3>1. \A l \in T : leases'[l].slots = leases[l].slots
      BY <2>1, <2>2 DEF KeepsRows
    <3> QED
      BY <1>1, <3>1, FewerSlots
  <2>3. IsFiniteSet(CellsOf(leases', Live'))
    BY <2>1, <2>2 DEF KeepsRows
  <2>4. ASSUME NEW p \in Pool
        PROVE  Cardinality(CellsOf(leases', OfPool(p)')) <= Capacity[p]
    <3>1. OfPool(p)' \subseteq OfPool(p) /\ OfPool(p) \subseteq Live /\ OfPool(p)' \subseteq Live'
      BY <2>1 DEF KeepsRows, OfPool, Live
    <3>2. Capacity[p] \in Nat
      OBVIOUS
    <3> QED
      BY <1>2, <2>2, <3>1, <3>2
  <2>5. ASSUME NEW r \in Lease
        PROVE  Cardinality(CellsOf(leases', OfTree(r)')) <= MaxSlotsPerTree
    <3>1. OfTree(r)' \subseteq OfTree(r) /\ OfTree(r) \subseteq Live /\ OfTree(r)' \subseteq Live'
      BY <2>1 DEF KeepsRows, OfTree, Live
    <3> QED
      BY <1>2, <2>2, <3>1
  <2> QED
    BY <2>3, <2>4, <2>5
<1> QED
  BY <1>4, <1>5

\* Pools and trees stay within their slots, whatever is acquired, inherited,
\* reaped and released, for any capacities (acquire(), slots and tree checks).
THEOREM SlotsSafe == Spec => []SlotsWithinCapacity
<1> DEFINE Inv == TypeOK /\ SlotsInv
<1>1. Init => Inv
  <2> SUFFICES ASSUME Init PROVE SlotsInv
    BY InitTypeOK
  <2>1. Live = {}
    BY DEF Init, Live
  <2>2. \A S \in SUBSET Live : CellsOf(leases, S) = {}
    BY <2>1 DEF CellsOf
  <2>3. \A S \in SUBSET Live : IsFiniteSet(CellsOf(leases, S)) /\ SlotsOf(S) = 0
    BY <2>2, SlotsAreCells, FS_EmptySet
  <2> QED
    BY <2>3, RegistryAssumption DEF SlotsInv, SlotsWithinCapacity, PoolCapacity, TreeCapacity
<1>2. Inv /\ [Next]_vars => Inv'
  BY TypeStep, SlotsStep
<1>3. Inv => SlotsWithinCapacity
  BY DEF SlotsInv
<1>4. QED
  BY <1>1, <1>2, <1>3, PTL DEF Spec

-----------------------------------------------------------------------------
(* What a step may do to the rows that are there. *)

\* A row leaves the registry because it is frozen and reaped, or is released.
LEMMA WhoLeaves ==
    ASSUME TypeOK, [Next]_vars, NEW m \in Live, m \notin Live'
    PROVE  Phase(m) = "frozen" \/ \E b \in BOOLEAN : Release(m, b)
<1>1. ASSUME NEW l \in Lease, NEW req \in Requests, NEW p \in Live \cup {NoLease},
             Acquire(l, req, p)
      PROVE  Phase(m) = "frozen"
  <2>1. m \in Reaped
    BY <1>1, AcquireFacts DEF AcquireEffect
  <2> QED
    BY <2>1 DEF Reaped, Frozen
<1>2. ASSUME NEW l \in Lease, NEW b \in BOOLEAN, Release(l, b)
      PROVE  Release(m, b)
  <2>1. m = l
    BY <1>2 DEF Release, Without, Live
  <2> QED
    BY <1>2, <2>1
<1>3. ASSUME NEW b \in BOOLEAN, Reap(b) PROVE Phase(m) = "frozen"
  BY <1>3 DEF Reap, Without, Frozen, Live
<1>4. ASSUME NEW l \in Lease, Renew(l) \/ Activate(l) \/ BindProcess(l) \/ Freeze(l)
      PROVE  FALSE
  BY <1>4 DEF Renew, Activate, BindProcess, Freeze, Update, Live
<1>5. CASE Tick
  BY <1>5 DEF Tick, Live
<1>6. CASE UNCHANGED leases
  BY <1>6 DEF Live
<1> QED
  BY <1>1, <1>2, <1>3, <1>4, <1>5, <1>6
     DEF Next, Operation, AcquireInterrupted, Maintenance, DiscardReceipt, ManagerStep,
         GroupStarts, GroupEnds, vars

\* A row is new under an id that was never used; one that stays keeps its
\* manager and the process group it names, and stays frozen.
RowsAge ==
    /\ \A m \in Live' \ Live : m \notin used
    /\ \A m \in Live \cap Live' :
          /\ leases'[m].managed = leases[m].managed
          /\ Bound(m) => leases'[m].process_group = leases[m].process_group
          /\ leases[m].phase = "frozen" => leases'[m].phase = "frozen"

LEMMA RowsOnlyAge ==
    ASSUME TypeOK, PhasesMatchGrants, [Next]_vars
    PROVE  RowsAge
<1> USE DEF RowsAge, Live
<1>1. ASSUME NEW l \in Lease, NEW req \in Requests, NEW p \in Live \cup {NoLease},
             Acquire(l, req, p)
      PROVE  RowsAge
  <2>1. AcquireEffect(l, req, p)
    BY <1>1, AcquireFacts
  <2>2. \A m \in Live : m \in used
    BY DEF PhasesMatchGrants
  <2>3. \A m \in Live \cap Live' : leases'[m] = leases[m]
    BY <2>1, <2>2 DEF AcquireEffect
  <2>4. \A m \in Live' \ Live : m \notin used
    BY <2>1 DEF AcquireEffect
  <2> QED
    BY <2>3, <2>4 DEF Bound
<1>2. ASSUME NEW l \in Lease, Renew(l) PROVE RowsAge
  BY <1>2 DEF Renew, MayRenew, Active, Update, TypeOK, Row
<1>3. ASSUME NEW l \in Lease, Activate(l) PROVE RowsAge
  <2>1. leases[l].phase # "frozen" /\ l \in Live
    BY <1>3, ActivePhase DEF Activate, MayActivate, Active
  <2> QED
    BY <1>3, <2>1 DEF Activate, Update, TypeOK, Row
<1>4. ASSUME NEW l \in Lease, BindProcess(l) PROVE RowsAge
  <2>1. /\ l \in Live /\ ~Bound(l)
        /\ leases' = [leases EXCEPT ![l] = [leases[l] EXCEPT !.process_group = l]]
    BY <1>4 DEF BindProcess, MayBind, Active, Bound, Update
  <2>2. \A m \in Live : leases[m] \in Row
    BY DEF TypeOK
  <2> QED
    BY <2>1, <2>2 DEF Row
<1>5. ASSUME NEW l \in Lease, Freeze(l) PROVE RowsAge
  BY <1>5 DEF Freeze, MayFreeze, Update, TypeOK, Row
<1>6. ASSUME NEW l \in Lease, NEW b \in BOOLEAN, Release(l, b) \/ Reap(b) PROVE RowsAge
  BY <1>6 DEF Release, Reap, Without
<1>7. CASE Tick
  BY <1>7 DEF Tick, TypeOK, Row
<1>8. CASE UNCHANGED leases
  BY <1>8
<1> HIDE DEF RowsAge, Live
<1>9. CASE \E l \in Lease : Operation(l)
  BY <1>1, <1>2, <1>3, <1>4, <1>5, <1>6, <1>8, <1>9 DEF Operation, AcquireInterrupted
<1>10. CASE \/ \E l \in Lease : ManagerStep(l) \/ GroupStarts(l) \/ GroupEnds(l)
            \/ Maintenance
            \/ \E f \in ReceiptFile : DiscardReceipt(f)
            \/ UNCHANGED vars
  BY <1>8, <1>10 DEF Maintenance, DiscardReceipt, ManagerStep, GroupStarts, GroupEnds, vars
<1>11. CASE \E force \in BOOLEAN : Reap(force)
  BY <1>11 DEF Reap, Without, RowsAge, Live
<1>12. QED
  BY <1>7, <1>9, <1>10, <1>11 DEF Next

\* transaction() refuses everything in a registry that names a missing
\* parent: nothing repairs it.
LEMMA BrokenStaysBroken ==
    ASSUME TypeOK, [Next]_vars, ~Consistent
    PROVE  ~Consistent'
<1>1. CASE Tick
  BY <1>1 DEF Tick, TypeOK, Row, Consistent, Live
<1>2. CASE UNCHANGED leases
  BY <1>2 DEF Consistent, Live
<1>3. ASSUME NEW l \in Lease, NEW req \in Requests, NEW p \in Live \cup {NoLease}
      PROVE  ~Acquire(l, req, p) /\ ~AcquireInterrupted(l, req, p)
  BY DEF Acquire, AcquireInterrupted, MayAcquire
<1>4. ASSUME NEW l \in Lease
      PROVE  ~Renew(l) /\ ~Activate(l) /\ ~BindProcess(l) /\ ~Freeze(l)
  BY DEF Renew, MayRenew, Activate, MayActivate, BindProcess, MayBind, Freeze, MayFreeze
<1>5. ASSUME NEW l \in Lease, NEW b \in BOOLEAN PROVE ~Release(l, b)
  BY DEF Release, MayRelease
<1>6. CASE \/ \E l \in Lease : ManagerStep(l) \/ GroupStarts(l) \/ GroupEnds(l)
           \/ Maintenance
           \/ \E f \in ReceiptFile : DiscardReceipt(f)
           \/ UNCHANGED vars
  BY <1>2, <1>6 DEF Maintenance, DiscardReceipt, ManagerStep, GroupStarts, GroupEnds, vars
<1>7. QED
  BY <1>1, <1>3, <1>4, <1>5, <1>6 DEF Next, Operation, Reap

\* A parent that leaves its children behind was frozen, whatever the children
\* and their holders do (release(), 'children_still_reserved').
THEOREM ParentsAreReleasedLast == Spec => ParentOutlivesChildUnlessFrozen
<1> DEFINE Outlives == \A l \in Live \cap Live' :
              leases[l].parent \in Live \ Live' => Phase(leases[l].parent) = "frozen"
<1>1. TypeOK /\ [Next]_vars => [Outlives]_vars
  <2> SUFFICES ASSUME TypeOK, [Next]_vars, NEW l \in Live \cap Live',
                      leases[l].parent \in Live \ Live'
               PROVE  Phase(leases[l].parent) = "frozen"
    OBVIOUS
  <2>1. ASSUME NEW b \in BOOLEAN, Release(leases[l].parent, b) PROVE FALSE
    BY <2>1 DEF Release, MayRelease
  <2> QED
    BY <2>1, WhoLeaves
<1> QED
  BY <1>1, InitTypeOK, TypeStep, PTL DEF Spec, ParentOutlivesChildUnlessFrozen

\* A lease whose process group is bound and alive leaves the registry only when
\* it is frozen, whoever releases it (release(), 'process_group_still_alive').
THEOREM BusyGroupsKeepTheirLeases == Spec => BoundGroupKeepsItsLease
<1> DEFINE Kept == \A l \in Live \ Live' :
              Bound(l) /\ group[l] = "alive" => Phase(l) = "frozen"
<1>1. TypeOK /\ [Next]_vars => [Kept]_vars
  <2> SUFFICES ASSUME TypeOK, [Next]_vars, NEW l \in Live \ Live',
                      Bound(l), group[l] = "alive"
               PROVE  Phase(l) = "frozen"
    OBVIOUS
  <2>1. ASSUME NEW b \in BOOLEAN, Release(l, b) PROVE FALSE
    BY <2>1 DEF Release, MayRelease
  <2> QED
    BY <2>1, WhoLeaves
<1> QED
  BY <1>1, InitTypeOK, TypeStep, PTL DEF Spec, BoundGroupKeepsItsLease

\* A row that is frozen or has expired stays as it is, for every order of
\* renewals, activations and expiry (authenticate(), active=True).
THEOREM FrozenStaysFrozen == Spec => FrozenIsFinal
<1> DEFINE Same(l) == /\ leases'[l].phase \in {leases[l].phase, "frozen"}
                      /\ leases'[l].ttl <= leases[l].ttl
                      /\ leases'[l].process_group = leases[l].process_group
           Final == \A l \in Live \cap Live' :
                       leases[l].phase = "frozen" \/ leases[l].ttl = 0 => Same(l)
<1>1. TypeOK /\ PhasesMatchGrants /\ [Next]_vars => [Final]_vars
  <2> SUFFICES ASSUME TypeOK, PhasesMatchGrants, [Next]_vars, NEW m \in Live, m \in Live',
                      leases[m].phase = "frozen" \/ leases[m].ttl = 0
               PROVE  Same(m)
    OBVIOUS
  <2>1. leases[m] \in Row /\ leases[m].ttl \in Nat /\ leases[m].ttl <= leases[m].ttl
    BY RegistryAssumption DEF TypeOK, Row
  <2>2. leases'[m] = leases[m] => Same(m)
    BY <2>1
  <2>3. ~Active(m)
    BY DEF Active, Phase
  <2>4. ASSUME NEW l \in Lease, NEW req \in Requests, NEW p \in Live \cup {NoLease},
               Acquire(l, req, p)
        PROVE  leases'[m] = leases[m]
    <3>1. m # l
      BY <2>4 DEF Acquire, MayAcquire, PhasesMatchGrants
    <3> QED
      BY <2>4, <3>1, AcquireFacts DEF AcquireEffect
  <2>5. ASSUME NEW l \in Lease, Renew(l) \/ Activate(l) \/ BindProcess(l)
        PROVE  leases'[m] = leases[m]
    <3>1. Active(l)
      BY <2>5 DEF Renew, MayRenew, Activate, MayActivate, BindProcess, MayBind
    <3> QED
      BY <2>3, <2>5, <3>1 DEF Renew, Activate, BindProcess, Update, Live
  <2>6. ASSUME NEW l \in Lease, Freeze(l) PROVE Same(m)
    BY <2>1, <2>6 DEF Freeze, Update, Row, TypeOK, Live
  <2>7. ASSUME NEW l \in Lease, NEW b \in BOOLEAN, Release(l, b) \/ Reap(b)
        PROVE  leases'[m] = leases[m]
    BY <2>7 DEF Release, Reap, Without, Live
  <2>8. CASE Tick
    <3>1. leases'[m] = [leases[m] EXCEPT !.ttl = IF @ = 0 THEN 0 ELSE @ - 1]
      BY <2>8 DEF Tick
    <3>2. leases'[m].ttl = IF leases[m].ttl = 0 THEN 0 ELSE leases[m].ttl - 1
      BY <2>1, <3>1 DEF Row
    <3>3. leases'[m].ttl <= leases[m].ttl
      BY <2>1, <3>2
    <3>4. /\ leases'[m].phase = leases[m].phase
          /\ leases'[m].process_group = leases[m].process_group
      BY <2>1, <3>1 DEF Row
    <3> QED
      BY <3>3, <3>4
  <2>9. CASE UNCHANGED leases
    BY <2>2, <2>9
  <2> HIDE DEF Same
  <2>10. CASE \E l \in Lease : Operation(l)
    BY <2>2, <2>4, <2>5, <2>6, <2>7, <2>9, <2>10 DEF Operation, AcquireInterrupted
  <2>11. CASE \E force \in BOOLEAN : Reap(force)
    <3>1. Lease # {}
      BY DEF TypeOK
    <3> QED
      BY <2>2, <2>7, <2>11, <3>1
  <2>12. CASE \/ \E l \in Lease : ManagerStep(l) \/ GroupStarts(l) \/ GroupEnds(l)
              \/ Maintenance
              \/ \E f \in ReceiptFile : DiscardReceipt(f)
              \/ UNCHANGED vars
    BY <2>9, <2>12 DEF Maintenance, DiscardReceipt, ManagerStep, GroupStarts, GroupEnds, vars
  <2> QED
    BY <2>8, <2>10, <2>11, <2>12 DEF Next
<1>2. Init => PhasesMatchGrants
  BY DEF Init, PhasesMatchGrants, Live
<1> QED
  BY <1>1, <1>2, InitTypeOK, TypeStep, PhasesStep, PTL DEF Spec, FrozenIsFinal

-----------------------------------------------------------------------------
(* The registry implements the promise of SharedClaims. *)

\* What a lease holds: nothing before it is granted or after it has left.
LEMMA HeldClaimsOf ==
    ASSUME NEW m \in Lease
    PROVE  HeldClaims[m] = IF m \in Live \cap granted
                           THEN leases[m].claims ELSE {}
  BY DEF HeldClaims

LEMMA NothingConflictsWithNothing ==
    ASSUME NEW C
    PROVE  ~Conflict(C, {})
  BY DEF Conflict

\* The promise and the registry mean the same by a conflict.
LEMMA SameConflict ==
    ASSUME NEW C, NEW D
    PROVE  Promise!Conflict(C, D) <=> Conflict(C, D)
  BY DEF Promise!Conflict, Promise!ClaimConflict, Promise!IntentConflict,
         Promise!Overlaps, Promise!Below, Conflict, ClaimConflict,
         IntentConflict, Overlaps, Below

LEMMA PromiseStep ==
    TypeOK /\ PhasesMatchGrants /\ ClaimsWereAsked /\ [Next]_vars
      => [Promise!Next]_<<HeldClaims, granted>>
<1> SUFFICES ASSUME TypeOK, PhasesMatchGrants, ClaimsWereAsked, [Next]_vars
             PROVE  [Promise!Next]_<<HeldClaims, granted>>
  OBVIOUS
<1> DEFINE Gone == Lease \ (Live' \cap granted)
<1> Gone \in SUBSET Lease
  OBVIOUS
<1>1. ASSUME NEW l \in Lease, NEW req \in Requests, NEW p \in Live \cup {NoLease},
             Acquire(l, req, p)
      PROVE  Promise!Next
  <2>0. AcquireEffect(l, req, p)
    BY <1>1, AcquireFacts
  <2> DEFINE c == ClaimsOf(req.reads, req.writes)
  <2>1. leases'[l].claims = c /\ l \notin granted
    BY <2>0 DEF AcquireEffect, NewRow, PhasesMatchGrants
  <2>2. \A m \in Lease \ Gone : m # l /\ m \in Live' /\ m \in Live /\ m \in granted
                                  /\ leases'[m] = leases[m]
    BY <2>0, <2>1 DEF AcquireEffect
  <2>3. CASE req.drain
    <3>1. granted' = granted
      BY <1>1, <2>3 DEF Acquire
    <3>2. HeldClaims' = [m \in Lease |-> IF m \in Gone THEN {} ELSE HeldClaims[m]]
      BY <2>2, <3>1, HeldClaimsOf DEF HeldClaims
    <3>3. Promise!Drop(Gone)
      BY <3>1, <3>2 DEF Promise!Drop, Promise!Keep
    <3>4. QED
      BY <3>3 DEF Promise!Next
  <2>4. CASE ~req.drain
    <3>1. granted' = granted \cup {l}
      BY <1>1, <2>4 DEF Acquire
    <3>2. \A m \in Lease \ Gone : ~Conflict(c, HeldClaims[m])
      BY <2>0, <2>1, <2>2, <2>4, HeldClaimsOf DEF AcquireEffect
    <3>3. HeldClaims' = [m \in Lease |-> IF m = l THEN c ELSE
                            IF m \in Gone THEN {} ELSE HeldClaims[m]]
      BY <2>0, <2>1, <2>2, <3>1, HeldClaimsOf DEF HeldClaims, AcquireEffect
    <3>4. Promise!Grant(l, c, Gone)
      BY <2>1, <3>1, <3>2, <3>3, SameConflict DEF Promise!Grant, Promise!Keep
    <3>5. c \in Askable
      BY DEF Askable
    <3>6. QED
      BY <3>4, <3>5 DEF Promise!Next
  <2>5. QED
    BY <2>3, <2>4
<1>2. ASSUME NEW l \in Lease, Activate(l), l \notin granted
      PROVE  Promise!Next
  <2>1. /\ l \in Live
        /\ leases[l].phase = "draining"
        /\ \A m \in Live \ {l} : ~Conflict(leases[l].claims, leases[m].claims)
    BY <1>2, ActivePhase
       DEF Activate, MayActivate, Active, Blocked, PhasesMatchGrants
  <2>2. granted' = granted \cup {l}
    BY <1>2 DEF Activate
  <2>3. /\ Live' = Live
        /\ \A m \in Live : leases'[m].claims = leases[m].claims
    BY <1>2 DEF Activate, Update, TypeOK, Row, Live
  <2> DEFINE c == leases[l].claims
  <2>4. \A m \in Lease \ {} : ~Conflict(c, HeldClaims[m])
    BY <1>2, <2>1, HeldClaimsOf, NothingConflictsWithNothing
  <2>5. HeldClaims' = [m \in Lease |-> IF m = l THEN c ELSE HeldClaims[m]]
    BY <2>1, <2>2, <2>3, HeldClaimsOf DEF HeldClaims
  <2> HIDE DEF c
  <2>6. Promise!Grant(l, c, {})
    <3>1. HeldClaims' = [[m \in Lease |-> IF m \in {} THEN {} ELSE HeldClaims[m]]
                            EXCEPT ![l] = c]
      BY <2>5
    <3>2. QED
      BY <1>2, <2>2, <2>4, <3>1, SameConflict DEF Promise!Grant, Promise!Keep
  <2>7. c \in Askable
    BY <2>1 DEF Askable, ClaimsWereAsked, c
  <2>8. QED
    BY <2>6, <2>7 DEF Promise!Next
<1>3. ASSUME ~ \E l \in Lease, req \in Requests, p \in Live \cup {NoLease} :
                  Acquire(l, req, p),
             granted' = granted
      PROVE  [Promise!Next]_<<HeldClaims, granted>>
  <2>1. KeepsRows
    BY <1>3, OnlyAcquireAddsRows
  <2>2. HeldClaims' = [m \in Lease |-> IF m \in Gone THEN {} ELSE HeldClaims[m]]
    BY <1>3, <2>1, HeldClaimsOf DEF HeldClaims, KeepsRows
  <2>3. Promise!Drop(Gone)
    BY <1>3, <2>2 DEF Promise!Drop, Promise!Keep
  <2>4. QED
    BY <2>3 DEF Promise!Next
<1>4. \/ \E l \in Lease, req \in Requests, p \in Live \cup {NoLease} :
            Acquire(l, req, p)
      \/ \E l \in Lease : Activate(l) /\ l \notin granted
      \/ granted' = granted
  BY OnlyGrantsGrant DEF Activate, PhasesMatchGrants
<1>5. QED
  BY <1>1, <1>2, <1>3, <1>4

LEMMA AskedStep == TypeOK /\ ClaimsWereAsked /\ [Next]_vars => ClaimsWereAsked'
<1> SUFFICES ASSUME TypeOK, ClaimsWereAsked, [Next]_vars
             PROVE  ClaimsWereAsked'
  OBVIOUS
<1>1. ASSUME NEW l \in Lease, NEW req \in Requests, NEW p \in Live \cup {NoLease},
             Acquire(l, req, p)
      PROVE  ClaimsWereAsked'
  <2>0. AcquireEffect(l, req, p)
    BY <1>1, AcquireFacts
  <2>1. leases'[l].claims = ClaimsOf(req.reads, req.writes)
    BY <2>0 DEF AcquireEffect, NewRow
  <2>2. \A m \in Live' : m # l => m \in Live /\ leases'[m] = leases[m]
    BY <2>0 DEF AcquireEffect
  <2>3. QED
    BY <2>1, <2>2 DEF ClaimsWereAsked
<1>2. ASSUME ~ \E l \in Lease, req \in Requests, p \in Live \cup {NoLease} :
                  Acquire(l, req, p)
      PROVE  ClaimsWereAsked'
  BY <1>2, OnlyAcquireAddsRows DEF KeepsRows, ClaimsWereAsked
<1>3. QED
  BY <1>1, <1>2

\* The registry keeps the promise of SharedClaims: seen from the claims its
\* leases hold, every operation grants what conflicts with nothing held, or
\* ends grants, or changes none.
THEOREM RegistryKeepsPromise == Spec => ImplementsPromise
<1> DEFINE Inv == TypeOK /\ PhasesMatchGrants /\ ClaimsWereAsked
<1>1. Init => Inv /\ Promise!Init
  BY DEF Init, TypeOK, PhasesMatchGrants, ClaimsWereAsked, Promise!Init,
         HeldClaims, Live
<1>2. Inv /\ [Next]_vars => Inv'
  BY TypeStep, PhasesStep, AskedStep
<1>3. Inv /\ [Next]_vars => [Promise!Next]_<<HeldClaims, granted>>
  BY PromiseStep
<1>4. QED
  BY <1>1, <1>2, <1>3, PTL DEF Spec, ImplementsPromise, Promise!Spec
=============================================================================
