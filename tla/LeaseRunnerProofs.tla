-------------------------- MODULE LeaseRunnerProofs --------------------------
(* Theorems about runners that share a lease registry. *)
EXTENDS LeaseRunner, ResourceRegistryProofs

\* Each step of a runner, of its command, or of the operator is one step of
\* the registry or none.
LEMMA RunnerStepIsRegistryStep == TypeOK /\ [RunnerNext]_allVars => [Next]_vars
<1> SUFFICES ASSUME TypeOK, [RunnerNext]_allVars PROVE [Next]_vars
  OBVIOUS
<1>1. ASSUME NEW l \in Lease, RunnerStep(l) PROVE [Next]_vars
  <2>1. CASE UNCHANGED vars
    BY <2>1
  <2>2. CASE Renew(l) \/ Activate(l) \/ BindProcess(l) \/ Freeze(l) \/ Release(l, TRUE)
    BY <2>2 DEF Next, Operation
  <2>3. CASE GroupStarts(l) \/ GroupEnds(l)
    BY <2>3 DEF Next
  <2>4. CASE ReadStatus(l)
    <3>1. CASE UNCHANGED vars
      BY <3>1
    <3>2. CASE /\ Consistent /\ AllPhasesReadable
               /\ leases' = Without(Reaped)
               /\ UNCHANGED <<maintenance, used, granted, receipts, manager, group>>
      <4>1. CASE AutoRelease
        <5>1. Reap(FALSE)
          BY <3>2, <4>1 DEF Reap, Reaped
        <5>2. QED
          BY <5>1 DEF Next
      <4>2. CASE ~AutoRelease
        <5>1. leases' = leases
          BY <3>2, <4>2 DEF Reaped, Without, TypeOK, Live
        <5>2. QED
          BY <3>2, <5>1 DEF vars
      <4>3. QED
        BY <4>1, <4>2
    <3>3. QED
      BY <2>4, <3>1, <3>2 DEF ReadStatus, Fail
  <2>5. QED
    BY <1>1, <2>1, <2>2, <2>3, <2>4
       DEF RunnerStep, RenewFirst, TryActivate, Wait, Spawn, Bind, Poll,
           Heartbeat, Terminate, AwaitEnd, ReleaseLease, Abort, FreezeLease,
           Fail, Collect, KillGroup
<1>2. ASSUME NEW l \in Lease, NEW req \in Requests, NEW p \in Live \cup {NoLease},
             Begin(l, req, p) \/ BeginInterrupted(l, req, p)
      PROVE  Next
  BY <1>2 DEF Begin, BeginInterrupted, Next, Operation
<1>3. ASSUME NEW l \in Lease, Signal(l) \/ ChildExits(l) PROVE UNCHANGED vars
  BY <1>3 DEF Signal, ChildExits
<1>4. ASSUME NEW l \in Lease, GroupSettles(l) PROVE [Next]_vars
  BY <1>4 DEF GroupSettles, Collect, Next
<1>5. ASSUME NEW l \in Lease, ManagerStep(l) \/ OperatorReleases(l) PROVE Next
  BY <1>5 DEF OperatorReleases, Next, Operation
<1>6. ASSUME NEW force \in BOOLEAN, ReapByHand(force) PROVE Next
  BY <1>6 DEF ReapByHand, Next
<1>7. CASE Tick \/ \E f \in ReceiptFile : DiscardReceipt(f)
  BY <1>7 DEF Next
<1>8. CASE UNCHANGED allVars
  BY <1>8 DEF allVars
<1>9. CASE RunnerNext
  <2>1. CASE \E l \in Lease :
                \/ \E req \in Requests, p \in Live \cup {NoLease} :
                      Begin(l, req, p) \/ BeginInterrupted(l, req, p)
                \/ RunnerStep(l)
                \/ Signal(l) \/ ChildExits(l) \/ GroupSettles(l)
                \/ ManagerStep(l)
                \/ OperatorReleases(l)
    BY <2>1, <1>1, <1>2, <1>3, <1>4, <1>5
  <2>2. QED
    BY <1>9, <2>1, <1>6, <1>7 DEF RunnerNext
<1>10. QED
  BY <1>8, <1>9

\* Runners use the registry as the registry allows: every theorem about
\* ResourceRegistry is one about runners.
THEOREM RunnersImplementRegistry == RunnerSpec => ImplementsRegistry
<1>1. RunnerInit => Init /\ TypeOK
  BY InitTypeOK DEF RunnerInit
<1>2. TypeOK /\ [RunnerNext]_allVars => TypeOK' /\ [Next]_vars
  BY RunnerStepIsRegistryStep, TypeStep
<1>3. QED
  BY <1>1, <1>2, PTL DEF RunnerSpec, ImplementsRegistry, Spec

-----------------------------------------------------------------------------
(* A command runs only under a grant, so registered runs do not contend. *)

\* What a step keeps of a runner's state, when it begins no run.
Quiet ==
    /\ job' = job
    /\ KeepsRows
    /\ granted \subseteq granted'
    /\ \A l \in Lease :
          /\ group'[l] # "none" => child'[l] # "none"
          /\ child'[l] # "none" => l \in granted'
          /\ pc'[l] = "spawn" => l \in granted'

RunnerInv == /\ RunnerTypeOK
             /\ PhasesMatchGrants
             /\ ExclusiveGrants
             /\ RunnersMatchRegistry
             /\ ChildOnlyUnderGrant

\* acquire() is the only operation that uses up an id, and only it adds rows.
LEMMA SameIdsKeepRows ==
    ASSUME TypeOK, [Next]_vars, used' = used
    PROVE  KeepsRows
<1>1. ~ \E l \in Lease, req \in Requests, p \in Live \cup {NoLease} :
           Acquire(l, req, p)
  BY DEF Acquire, MayAcquire
<1>2. QED
  BY <1>1, OnlyAcquireAddsRows

LEMMA GrantsGrow == [Next]_vars => granted \subseteq granted'
  BY DEF Next, Operation, Acquire, AcquireInterrupted, Renew, Activate,
         BindProcess, Freeze, Release, Reap, Tick, Maintenance,
         DiscardReceipt, ManagerStep, GroupStarts, GroupEnds, vars

OwnTypes == /\ pc \in [Lease -> Place]
            /\ job \in [Lease -> SUBSET Claim]
            /\ stopped \in [Lease -> BOOLEAN]
            /\ child \in [Lease -> ChildState]

\* Every variable of the runners keeps its type.
LEMMA RunnerTypeStep == RunnerTypeOK /\ [RunnerNext]_allVars => RunnerTypeOK'
<1> SUFFICES ASSUME RunnerTypeOK, [RunnerNext]_allVars
             PROVE  RunnerTypeOK'
  OBVIOUS
<1> USE DEF OwnTypes
<1>1. TypeOK'
  BY RunnerStepIsRegistryStep, TypeStep DEF RunnerTypeOK
<1>2. OwnTypes
  BY DEF RunnerTypeOK
<1>3. ASSUME NEW l \in Lease, RenewFirst(l) \/ ReadStatus(l) \/ TryActivate(l)
                              \/ Wait(l) \/ Bind(l)
      PROVE  OwnTypes'
  BY <1>2, <1>3 DEF RenewFirst, ReadStatus, TryActivate, Wait, Bind, Fail, Goto, Place
<1>4. ASSUME NEW l \in Lease, Spawn(l) PROVE OwnTypes'
  BY <1>2, <1>4 DEF Spawn, Fail, Goto, Place, ChildState
<1>5. ASSUME NEW l \in Lease, Collect(l) \/ KillGroup(l)
      PROVE  child' \in [Lease -> ChildState]
  BY <1>2, <1>5 DEF Collect, KillGroup, ChildState
<1>6. ASSUME NEW l \in Lease, Poll(l) \/ AwaitEnd(l) \/ Abort(l) PROVE OwnTypes'
  BY <1>2, <1>5, <1>6 DEF Poll, AwaitEnd, Abort, Goto, Place
<1>7. ASSUME NEW l \in Lease, Heartbeat(l) \/ Terminate(l) \/ ReleaseLease(l)
                              \/ FreezeLease(l)
      PROVE  OwnTypes'
  BY <1>2, <1>7 DEF Heartbeat, Terminate, ReleaseLease, FreezeLease, Fail, Goto,
                    Place, runnerVars
<1>8. ASSUME NEW l \in Lease, NEW req \in Requests, NEW p \in Live \cup {NoLease},
             Begin(l, req, p)
      PROVE  OwnTypes'
  <2>1. ClaimsOf(req.reads, req.writes) \in SUBSET Claim
    BY RegistryAssumption, ClaimsOfType DEF Request
  <2>2. QED
    BY <1>2, <1>8, <2>1 DEF Begin, Goto, Place
<1>9. ASSUME NEW l \in Lease, Signal(l) \/ ChildExits(l) \/ GroupSettles(l)
      PROVE  OwnTypes'
  BY <1>2, <1>5, <1>9 DEF Signal, ChildExits, GroupSettles, ChildState
<1>10. ASSUME UNCHANGED runnerVars PROVE OwnTypes'
  <2>1. pc' = pc /\ job' = job /\ stopped' = stopped /\ child' = child
    BY <1>10 DEF runnerVars
  <2>2. QED
    BY <1>2, <2>1
<1> HIDE DEF OwnTypes
<1>11. ASSUME NEW l \in Lease, RunnerStep(l) PROVE OwnTypes'
  BY <1>3, <1>4, <1>6, <1>7, <1>11 DEF RunnerStep
<1>12. ASSUME RunnerNext PROVE OwnTypes'
  BY <1>8, <1>9, <1>10, <1>11, <1>12
     DEF RunnerNext, BeginInterrupted, OperatorReleases, ReapByHand
<1>13. ASSUME UNCHANGED allVars PROVE OwnTypes'
  BY <1>10, <1>13 DEF allVars
<1>14. OwnTypes'
  BY <1>12, <1>13
<1>15. QED
  BY <1>1, <1>14 DEF RunnerTypeOK, OwnTypes

LEMMA QuietKeepsRunners ==
    ASSUME RunnerTypeOK, RunnersMatchRegistry, Quiet
    PROVE  RunnersMatchRegistry' /\ ChildOnlyUnderGrant'
  BY DEF Quiet, KeepsRows, RunnersMatchRegistry, ChildOnlyUnderGrant, Live

\* Leaving the spawn step behind, or reaching it with a grant, is quiet as
\* long as the command and its group go together.
LEMMA CallIsQuiet ==
    ASSUME RunnerInv, [Next]_vars, used' = used, job' = job,
           child' = child, \A m \in Lease : group'[m] # "none" => group[m] # "none",
           \A m \in Lease : pc'[m] = "spawn" => pc[m] = "spawn" \/ m \in granted'
    PROVE  Quiet
<1>1. KeepsRows
  BY SameIdsKeepRows DEF RunnerInv, RunnerTypeOK
<1>2. QED
  BY <1>1, GrantsGrow DEF Quiet, RunnerInv, RunnersMatchRegistry, ChildOnlyUnderGrant

\* Waiting for the leader or killing its group is quiet too.
LEMMA EndIsQuiet ==
    ASSUME RunnerInv, [Next]_vars, NEW l \in Lease, Collect(l) \/ KillGroup(l),
           job' = job, \A m \in Lease : pc'[m] = "spawn" => pc[m] = "spawn"
    PROVE  Quiet
<1>1. /\ used' = used /\ granted' = granted
      /\ child[l] # "none"
      /\ \A m \in Lease \ {l} : child'[m] = child[m]
      /\ \A m \in Lease : group'[m] # "none" => group[m] # "none"
  BY DEF Collect, KillGroup, GroupEnds, vars, RunnerInv, RunnerTypeOK, TypeOK
<1>2. child'[l] # "none"
  BY DEF Collect, KillGroup, RunnerInv, RunnerTypeOK
<1>3. KeepsRows
  BY <1>1, SameIdsKeepRows DEF RunnerInv, RunnerTypeOK
<1>4. QED
  BY <1>1, <1>2, <1>3 DEF Quiet, RunnerInv, RunnersMatchRegistry, ChildOnlyUnderGrant

\* One step of a runner.
LEMMA StepIsQuiet ==
    ASSUME RunnerInv, [Next]_vars, NEW l \in Lease, RunnerStep(l)
    PROVE  Quiet
<1> USE DEF Goto, Fail
<1>0. /\ pc \in [Lease -> Place]
      /\ l \in granted => l \in granted'
  BY GrantsGrow DEF RunnerInv, RunnerTypeOK
<1>1. CASE RenewFirst(l)
  BY <1>0, <1>1, CallIsQuiet DEF RenewFirst, Renew, vars
<1>2. CASE ReadStatus(l)
  <2>1. pc'[l] = "spawn" => l \in granted'
    BY <1>0, <1>2 DEF ReadStatus, RunnerInv, PhasesMatchGrants
  <2>2. QED
    BY <1>0, <1>2, <2>1, CallIsQuiet DEF ReadStatus, vars
<1>3. CASE TryActivate(l)
  BY <1>0, <1>3, CallIsQuiet DEF TryActivate, Activate, vars
<1>4. CASE Wait(l)
  BY <1>0, <1>4, CallIsQuiet DEF Wait, vars
<1>5. CASE Spawn(l)
  <2>1. CASE Fail(l)
    BY <1>0, <2>1, CallIsQuiet DEF vars
  <2>2. CASE GroupStarts(l) /\ child' = [child EXCEPT ![l] = "running"]
             /\ Goto(l, "bind") /\ UNCHANGED <<job, stopped>>
    <3>1. /\ used' = used /\ granted' = granted
          /\ l \in granted
          /\ child'[l] # "none"
          /\ \A m \in Lease \ {l} : child'[m] = child[m] /\ group'[m] = group[m]
          /\ \A m \in Lease : pc'[m] = "spawn" => pc[m] = "spawn"
      BY <1>0, <1>5, <2>2
         DEF Spawn, At, GroupStarts, RunnerInv, RunnerTypeOK, TypeOK,
             RunnersMatchRegistry
    <3>2. KeepsRows
      BY <3>1, SameIdsKeepRows DEF RunnerInv, RunnerTypeOK
    <3>3. QED
      BY <2>2, <3>1, <3>2
         DEF Quiet, RunnerInv, RunnersMatchRegistry, ChildOnlyUnderGrant
  <2>3. QED
    BY <1>5, <2>1, <2>2 DEF Spawn
<1>6. CASE Bind(l)
  BY <1>0, <1>6, CallIsQuiet DEF Bind, BindProcess, vars
<1>7. CASE Poll(l) \/ AwaitEnd(l)
  BY <1>0, <1>7, EndIsQuiet DEF Poll, AwaitEnd
<1>8. CASE Heartbeat(l)
  BY <1>0, <1>8, CallIsQuiet DEF Heartbeat, Renew, vars, runnerVars
<1>9. CASE Terminate(l)
  BY <1>0, <1>9, CallIsQuiet DEF Terminate, vars
<1>10. CASE ReleaseLease(l)
  BY <1>0, <1>10, CallIsQuiet DEF ReleaseLease, Release, vars
<1>11. CASE Abort(l)
  <2>1. CASE UNCHANGED <<vars, child>>
    BY <1>0, <1>11, <2>1, CallIsQuiet DEF Abort, vars
  <2>2. CASE Collect(l) \/ KillGroup(l)
    BY <1>0, <1>11, <2>2, EndIsQuiet DEF Abort
  <2>3. QED
    BY <1>11, <2>1, <2>2 DEF Abort
<1>12. CASE FreezeLease(l)
  BY <1>0, <1>12, CallIsQuiet DEF FreezeLease, Freeze, vars
<1>13. QED
  BY <1>1, <1>2, <1>3, <1>4, <1>5, <1>6, <1>7, <1>8, <1>9, <1>10, <1>11, <1>12
     DEF RunnerStep

LEMMA RunnerInvStep == RunnerInv /\ [RunnerNext]_allVars => RunnerInv'
<1> SUFFICES ASSUME RunnerInv, [RunnerNext]_allVars PROVE RunnerInv'
  OBVIOUS
<1>1. [Next]_vars
  BY RunnerStepIsRegistryStep DEF RunnerInv, RunnerTypeOK
<1>2. RunnerTypeOK' /\ PhasesMatchGrants' /\ ExclusiveGrants'
  BY <1>1, RunnerTypeStep, PhasesStep, ExclusiveStep DEF RunnerInv, RunnerTypeOK
<1>3. ASSUME Quiet PROVE RunnerInv'
  BY <1>2, <1>3, QuietKeepsRunners DEF RunnerInv
<1>4. ASSUME NEW l \in Lease, NEW req \in Requests, NEW p \in Live \cup {NoLease},
             Begin(l, req, p)
      PROVE  RunnerInv'
  <2>1. AcquireEffect(l, req, p)
    BY <1>4, AcquireFacts DEF Begin, RunnerInv, RunnerTypeOK
  <2>2. leases'[l].claims = ClaimsOf(req.reads, req.writes)
    BY <2>1 DEF AcquireEffect, NewRow
  <2>3. /\ \A m \in Lease \ {l} : job'[m] = job[m] /\ pc'[m] = pc[m]
        /\ job'[l] = ClaimsOf(req.reads, req.writes) /\ pc'[l] = "renew"
        /\ child' = child /\ group' = group
    BY <1>4 DEF Begin, Acquire, Goto, RunnerInv, RunnerTypeOK
  <2>4. \A m \in Live' : leases'[m].claims = job'[m]
    BY <2>1, <2>2, <2>3 DEF AcquireEffect, RunnerInv, RunnersMatchRegistry, RunnerTypeOK, TypeOK
  <2>5. RunnersMatchRegistry' /\ ChildOnlyUnderGrant'
    BY <1>1, <2>3, <2>4, GrantsGrow
       DEF RunnerInv, RunnersMatchRegistry, ChildOnlyUnderGrant
  <2>6. QED
    BY <1>2, <2>5 DEF RunnerInv
<1>5. ASSUME NEW l \in Lease, NEW req \in Requests, NEW p \in Live \cup {NoLease},
             BeginInterrupted(l, req, p)
      PROVE  RunnerInv'
  BY <1>2, <1>5
     DEF BeginInterrupted, AcquireInterrupted, runnerVars, RunnerInv,
         RunnersMatchRegistry, ChildOnlyUnderGrant, Live
<1>6. ASSUME NEW l \in Lease, RunnerStep(l) PROVE RunnerInv'
  BY <1>1, <1>3, <1>6, StepIsQuiet
<1>7. ASSUME NEW l \in Lease, Signal(l) PROVE RunnerInv'
  BY <1>1, <1>3, <1>7, CallIsQuiet DEF Signal, vars
<1>8. ASSUME NEW l \in Lease, ChildExits(l) PROVE RunnerInv'
  BY <1>2, <1>8
     DEF ChildExits, vars, RunnerInv, RunnerTypeOK, RunnersMatchRegistry,
         ChildOnlyUnderGrant, Live
<1>9. ASSUME NEW l \in Lease, GroupSettles(l) PROVE RunnerInv'
  <2>1. CASE Collect(l)
    BY <1>1, <1>3, <1>9, <2>1, EndIsQuiet DEF GroupSettles
  <2>2. CASE GroupEnds(l) /\ UNCHANGED child
    BY <1>1, <1>3, <1>9, <2>2, CallIsQuiet
       DEF GroupSettles, GroupEnds, RunnerInv, RunnerTypeOK, TypeOK
  <2>3. QED
    BY <1>9, <2>1, <2>2 DEF GroupSettles
<1>10. ASSUME NEW l \in Lease,
              (ManagerStep(l) /\ UNCHANGED runnerVars) \/ OperatorReleases(l)
       PROVE  RunnerInv'
  BY <1>1, <1>3, <1>10, CallIsQuiet
     DEF ManagerStep, OperatorReleases, Release, runnerVars
<1>11. ASSUME NEW force \in BOOLEAN, ReapByHand(force) PROVE RunnerInv'
  BY <1>1, <1>3, <1>11, CallIsQuiet DEF ReapByHand, Reap, runnerVars
<1>12. ASSUME \/ Tick /\ UNCHANGED runnerVars
              \/ \E f \in ReceiptFile : DiscardReceipt(f) /\ UNCHANGED runnerVars
              \/ UNCHANGED allVars
       PROVE  RunnerInv'
  BY <1>1, <1>3, <1>12, CallIsQuiet
     DEF Tick, DiscardReceipt, allVars, vars, runnerVars
<1>13. CASE RunnerNext
  BY <1>4, <1>5, <1>6, <1>7, <1>8, <1>9, <1>10, <1>11, <1>12, <1>13 DEF RunnerNext
<1>14. QED
  BY <1>12, <1>13

\* Whatever runners do and wherever they are killed: a command starts only
\* when its lease has been granted, and commands of registered leases never
\* work under claims that conflict.
THEOREM RunnersAreSafe ==
    RunnerSpec => [](ChildOnlyUnderGrant /\ NoContentionWhileRegistered)
<1>1. RunnerInit => RunnerInv
  BY InitTypeOK
     DEF RunnerInit, Init, RunnerInv, RunnerTypeOK, Place, ChildState,
         PhasesMatchGrants, ExclusiveGrants, RunnersMatchRegistry,
         ChildOnlyUnderGrant, Live
<1>2. RunnerInv => ChildOnlyUnderGrant /\ NoContentionWhileRegistered
  BY DEF RunnerInv, RunnerTypeOK, TypeOK, ChildOnlyUnderGrant,
         NoContentionWhileRegistered, Contend, Working, RunnersMatchRegistry,
         ExclusiveGrants, Live
<1>3. QED
  BY <1>1, <1>2, RunnerInvStep, PTL DEF RunnerSpec

\* A command never starts before its lease was granted, for any number of
\* runners (run_command_with_lease).
THEOREM CommandsAreGranted == RunnerSpec => []ChildOnlyUnderGrant
BY RunnersAreSafe, PTL

\* The places of the runners, and the registry under them, are well formed.
THEOREM RunnersAreTyped == RunnerSpec => []RunnerTypeOK
<1>1. RunnerInit => RunnerTypeOK
  BY InitTypeOK DEF RunnerInit, Init, RunnerTypeOK, Place, ChildState
<1> QED
  BY <1>1, RunnerTypeStep, PTL DEF RunnerSpec

-----------------------------------------------------------------------------
(* How runs end. *)

\* The places a runner is at once it has started its command.
AfterSpawn == {"bind", "watch", "term", "release", "released", "failed", "freeze",
               "frozen", "unfrozen"}

\* Where a runner is says what has become of its lease and of its group: the
\* lease of a runner that watches names the group until it is gone, and an id
\* that was released is used up.
CourseInv ==
    /\ \A l \in Lease :
          /\ pc[l] # "idle" => l \in used
          /\ group[l] # "none" => pc[l] \in AfterSpawn
          /\ pc[l] = "released" => l \notin Live
    /\ \A l \in Live :
          /\ leases[l].managed
          /\ pc[l] \in {"watch", "term", "release"} => Bound(l)
    /\ ReleasedRunLeftNoGroup
    /\ FailedRunHoldsNoActiveLease

\* The moves that neither start nor bind a group, nor end a run.
Moves(m) ==
    \/ pc'[m] = pc[m]
    \/ pc[m] \notin AfterSpawn \cup {"idle"}
          /\ pc'[m] \in {"renew", "status", "activate", "wait", "spawn", "failed"}
    \/ pc[m] \in {"watch", "term"} /\ pc'[m] \in {"term", "release"}
    \/ pc[m] \in AfterSpawn /\ pc'[m] \in {"failed", "freeze", "unfrozen"}

\* Groups end, and none starts.
GroupsEnd == \A m \in Lease :
                \/ group'[m] = group[m]
                \/ group[m] = "alive" /\ group'[m] = "ended"

\* A registry that refuses everything stays so, and a frozen lease stays
\* frozen or leaves: what was left of a failed run stays inactive.
LEMMA FailedStaysInactive ==
    ASSUME RunnerInv, CourseInv, [Next]_vars, NEW l \in Lease, pc[l] = "frozen"
    PROVE  l \notin Live' \/ leases'[l].phase = "frozen" \/ ~Consistent'
<1>1. l \in used /\ (l \notin Live \/ leases[l].phase = "frozen" \/ ~Consistent)
  BY DEF CourseInv, FailedRunHoldsNoActiveLease
<1>2. RowsAge
  BY RowsOnlyAge DEF RunnerInv, RunnerTypeOK
<1>3. ~Consistent => ~Consistent'
  BY BrokenStaysBroken DEF RunnerInv, RunnerTypeOK
<1>4. QED
  BY <1>1, <1>2, <1>3 DEF RowsAge

\* Steps that neither bind a group nor end a run.
LEMMA MovesKeepCourse ==
    ASSUME RunnerInv, CourseInv, [Next]_vars, used' = used, GroupsEnd,
           \A m \in Lease : Moves(m)
    PROVE  CourseInv'
<1>1. /\ KeepsRows /\ RowsAge
      /\ Live \subseteq Lease
      /\ \A m \in Live' : leases'[m] \in Row
  BY SameIdsKeepRows, RowsOnlyAge, TypeStep DEF RunnerInv, RunnerTypeOK, TypeOK
<1>2. ASSUME NEW l \in Lease
      PROVE  /\ pc'[l] # "idle" => l \in used'
             /\ group'[l] # "none" => pc'[l] \in AfterSpawn
             /\ pc'[l] = "released" => pc[l] = "released"
             /\ pc'[l] = "frozen" => pc[l] = "frozen"
             /\ group'[l] = "alive" => group[l] = "alive"
  BY <1>2 DEF CourseInv, Moves, GroupsEnd, AfterSpawn
<1>3. ASSUME NEW l \in Lease, pc'[l] = "released"
      PROVE  l \notin Live' /\ group'[l] # "alive"
  BY <1>1, <1>2, <1>3 DEF KeepsRows, CourseInv, ReleasedRunLeftNoGroup
<1>4. ASSUME NEW l \in Live'
      PROVE  /\ leases'[l].managed
             /\ pc'[l] \in {"watch", "term", "release"} => Bound(l)'
  <2>1. l \in Lease /\ l \in Live /\ leases'[l].managed = leases[l].managed
    BY <1>1 DEF KeepsRows, RowsAge
  <2>2. pc'[l] \in {"watch", "term", "release"} => pc[l] \in {"watch", "term", "release"}
    BY <2>1 DEF Moves
  <2>3. Bound(l) => Bound(l)'
    BY <1>1, <2>1 DEF RowsAge, Bound
  <2>4. QED
    BY <2>1, <2>2, <2>3 DEF CourseInv
<1>5. ReleasedRunLeftNoGroup'
  BY <1>3 DEF ReleasedRunLeftNoGroup
<1>6. FailedRunHoldsNoActiveLease'
  BY <1>2, FailedStaysInactive DEF FailedRunHoldsNoActiveLease
<1>7. QED
  BY <1>2, <1>3, <1>4, <1>5, <1>6 DEF CourseInv

\* The command starts: the runner goes on to bind its group.
LEMMA SpawnKeepsCourse ==
    ASSUME RunnerInv, CourseInv, [Next]_vars, NEW l \in Lease, GroupStarts(l),
           pc[l] = "spawn", Goto(l, "bind")
    PROVE  CourseInv'
<1>1. /\ used' = used /\ Live' = Live /\ leases' = leases
      /\ \A m \in Lease \ {l} : pc'[m] = pc[m] /\ group'[m] = group[m]
      /\ pc'[l] = "bind" /\ l \in used
      /\ Live \subseteq Lease
  BY DEF GroupStarts, Goto, RunnerInv, RunnerTypeOK, TypeOK, Live, CourseInv
<1>2. FailedRunHoldsNoActiveLease'
  BY <1>1, FailedStaysInactive DEF FailedRunHoldsNoActiveLease
<1>3. QED
  BY <1>1, <1>2 DEF CourseInv, ReleasedRunLeftNoGroup, AfterSpawn, Bound

\* The group is written to the row before the runner watches it.
LEMMA BindKeepsCourse ==
    ASSUME RunnerInv, CourseInv, [Next]_vars, NEW l \in Lease, BindProcess(l),
           pc[l] = "bind", Goto(l, "watch")
    PROVE  CourseInv'
<1>1. /\ used' = used /\ group' = group
      /\ \A m \in Lease \ {l} : pc'[m] = pc[m]
      /\ pc'[l] = "watch" /\ l \in used
      /\ l \in Live /\ Live \subseteq Lease
  BY DEF BindProcess, MayBind, Active, Goto, RunnerInv, RunnerTypeOK, TypeOK, CourseInv
<1>2. KeepsRows /\ RowsAge
  BY <1>1, SameIdsKeepRows, RowsOnlyAge DEF RunnerInv, RunnerTypeOK
<1>3. leases'[l].process_group = l /\ NoLease \notin Lease
  BY <1>1, RegistryAssumption DEF BindProcess, Update, RunnerInv, RunnerTypeOK, TypeOK, Row, Live
<1>4. FailedRunHoldsNoActiveLease'
  BY <1>1, FailedStaysInactive DEF FailedRunHoldsNoActiveLease
<1>5. QED
  BY <1>1, <1>2, <1>3, <1>4
     DEF CourseInv, ReleasedRunLeftNoGroup, AfterSpawn, Bound, KeepsRows, RowsAge

\* release() lets the lease go only when its group has.
LEMMA ReleaseKeepsCourse ==
    ASSUME RunnerInv, CourseInv, [Next]_vars, NEW l \in Lease, Release(l, TRUE),
           pc[l] = "release", Goto(l, "released")
    PROVE  CourseInv'
<1>1. /\ used' = used /\ group' = group
      /\ \A m \in Lease \ {l} : pc'[m] = pc[m]
      /\ pc'[l] = "released" /\ l \in used
      /\ l \in Live /\ Live \subseteq Lease
      /\ l \notin Live'
  BY DEF Release, MayRelease, Without, Live, Goto, RunnerInv, RunnerTypeOK, TypeOK, CourseInv
<1>2. KeepsRows /\ RowsAge
  BY <1>1, SameIdsKeepRows, RowsOnlyAge DEF RunnerInv, RunnerTypeOK
<1>3. group[l] # "alive"
  BY <1>1 DEF CourseInv, Release, MayRelease
<1>4. FailedRunHoldsNoActiveLease'
  BY <1>1, FailedStaysInactive DEF FailedRunHoldsNoActiveLease
<1>5. QED
  BY <1>1, <1>2, <1>3, <1>4
     DEF CourseInv, ReleasedRunLeftNoGroup, AfterSpawn, Bound, KeepsRows, RowsAge

\* A freeze that is refused finds no lease, or a registry that refuses all.
LEMMA FreezeKeepsCourse ==
    ASSUME RunnerInv, CourseInv, [Next]_vars, NEW l \in Lease,
           Freeze(l) \/ (~MayFreeze(l) /\ UNCHANGED vars),
           pc[l] = "freeze", Goto(l, "frozen")
    PROVE  CourseInv'
<1>1. /\ used' = used /\ group' = group
      /\ \A m \in Lease \ {l} : pc'[m] = pc[m]
      /\ pc'[l] = "frozen" /\ pc[l] = "freeze" /\ l \in used
      /\ Live \subseteq Lease
  BY DEF Freeze, vars, Goto, RunnerInv, RunnerTypeOK, TypeOK, CourseInv
<1>2. KeepsRows /\ RowsAge
  BY <1>1, SameIdsKeepRows, RowsOnlyAge DEF RunnerInv, RunnerTypeOK
<1>3. l \notin Live' \/ leases'[l].phase = "frozen" \/ ~Consistent'
  <2>1. CASE Freeze(l)
    BY <2>1 DEF Freeze, MayFreeze, Update, RunnerInv, RunnerTypeOK, TypeOK, Row, Live
  <2>2. CASE ~MayFreeze(l) /\ UNCHANGED vars
    BY <2>2 DEF MayFreeze, vars, Live, Consistent
  <2>3. QED
    BY <2>1, <2>2
<1>4. FailedRunHoldsNoActiveLease'
  BY <1>1, <1>3, FailedStaysInactive DEF FailedRunHoldsNoActiveLease
<1>5. QED
  BY <1>1, <1>2, <1>4
     DEF CourseInv, ReleasedRunLeftNoGroup, AfterSpawn, Bound, KeepsRows, RowsAge

LEMMA StepKeepsCourse ==
    ASSUME RunnerInv, CourseInv, [Next]_vars, NEW l \in Lease, RunnerStep(l)
    PROVE  CourseInv'
<1> DEFINE OnlyMoves == /\ used' = used /\ GroupsEnd
                        /\ \A m \in Lease : Moves(m)
<1> USE DEF Goto, Fail, At, Moves, AfterSpawn, GroupsEnd
<1>0. pc \in [Lease -> Place] /\ group \in [Lease -> {"none", "alive", "ended"}]
  BY DEF RunnerInv, RunnerTypeOK, TypeOK
<1>1. CASE RenewFirst(l) \/ ReadStatus(l) \/ TryActivate(l) \/ Wait(l)
  <2>1. OnlyMoves
    BY <1>0, <1>1 DEF RenewFirst, Renew, ReadStatus, TryActivate, Activate, Wait, vars
  <2> QED
    BY <2>1, MovesKeepCourse
<1>2. CASE Spawn(l)
  <2>1. CASE Fail(l)
    <3>1. OnlyMoves
      BY <1>0, <1>2, <2>1 DEF Spawn, vars
    <3> QED
      BY <3>1, MovesKeepCourse
  <2> QED
    BY <1>2, <2>1, SpawnKeepsCourse DEF Spawn
<1>3. CASE Bind(l)
  <2>1. CASE Fail(l)
    <3>1. OnlyMoves
      BY <1>0, <1>3, <2>1 DEF Bind, vars
    <3> QED
      BY <3>1, MovesKeepCourse
  <2> QED
    BY <1>3, <2>1, BindKeepsCourse DEF Bind
<1>4. ASSUME Collect(l) \/ KillGroup(l)
      PROVE  used' = used /\ GroupsEnd
  BY <1>0, <1>4 DEF Collect, KillGroup, GroupEnds, vars
<1>5. CASE Poll(l) \/ AwaitEnd(l)
  <2>1. OnlyMoves
    BY <1>0, <1>4, <1>5 DEF Poll, AwaitEnd
  <2> QED
    BY <2>1, MovesKeepCourse
<1>6. CASE Heartbeat(l) \/ Terminate(l)
  <2>1. OnlyMoves
    BY <1>0, <1>6 DEF Heartbeat, Renew, Terminate, vars, runnerVars
  <2> QED
    BY <2>1, MovesKeepCourse
<1>7. CASE ReleaseLease(l)
  <2>1. CASE Fail(l)
    <3>1. OnlyMoves
      BY <1>0, <1>7, <2>1 DEF ReleaseLease, vars
    <3> QED
      BY <3>1, MovesKeepCourse
  <2> QED
    BY <1>7, <2>1, ReleaseKeepsCourse DEF ReleaseLease
<1>8. CASE Abort(l)
  <2>1. used' = used /\ GroupsEnd
    BY <1>4, <1>8 DEF Abort, vars
  <2>2. OnlyMoves
    BY <1>0, <1>8, <2>1 DEF Abort
  <2> QED
    BY <2>2, MovesKeepCourse
<1>9. CASE FreezeLease(l)
  <2>1. CASE Goto(l, "unfrozen") /\ UNCHANGED vars
    <3>1. OnlyMoves
      BY <1>0, <1>9, <2>1 DEF FreezeLease, vars
    <3> QED
      BY <3>1, MovesKeepCourse
  <2> QED
    BY <1>9, <2>1, FreezeKeepsCourse DEF FreezeLease
<1>10. QED
  BY <1>1, <1>2, <1>3, <1>5, <1>6, <1>7, <1>8, <1>9 DEF RunnerStep

\* A run begins under a fresh id, which no runner has had; the rows it reaps
\* belonged to others.
LEMMA BeginKeepsCourse ==
    ASSUME RunnerInv, CourseInv, [Next]_vars, NEW l \in Lease, NEW req \in Requests,
           NEW p \in Live \cup {NoLease}, Begin(l, req, p)
    PROVE  CourseInv'
<1>1. AcquireEffect(l, req, p) /\ RowsAge
  BY AcquireFacts, RowsOnlyAge DEF Begin, RunnerInv, RunnerTypeOK
<1>2. /\ used' = used \cup {l} /\ group' = group
      /\ \A m \in Lease \ {l} : pc'[m] = pc[m]
      /\ pc'[l] = "renew" /\ l \notin used
      /\ Live \subseteq Lease
  BY DEF Begin, Acquire, MayAcquire, Goto, RunnerInv, RunnerTypeOK, TypeOK
<1>3. group[l] = "none" /\ Live \subseteq used
  <2>1. pc[l] = "idle"
    BY <1>2 DEF CourseInv
  <2> QED
    BY <2>1 DEF CourseInv, AfterSpawn, RunnerInv, PhasesMatchGrants
<1>4. /\ Live' \subseteq Live \cup {l}
      /\ leases'[l].managed
      /\ \A m \in Live' \ {l} : leases'[m] = leases[m]
  BY <1>1, RunnerAssumption DEF AcquireEffect, NewRow
<1>5. FailedRunHoldsNoActiveLease'
  BY <1>2, FailedStaysInactive DEF FailedRunHoldsNoActiveLease
<1>6. ReleasedRunLeftNoGroup'
  BY <1>2 DEF ReleasedRunLeftNoGroup, CourseInv
<1>7. \A m \in Lease :
         /\ pc'[m] # "idle" => m \in used'
         /\ group'[m] # "none" => pc'[m] \in AfterSpawn
         /\ pc'[m] = "released" => m \notin Live'
  BY <1>2, <1>3, <1>4 DEF CourseInv
<1>8. \A m \in Live' :
         /\ leases'[m].managed
         /\ pc'[m] \in {"watch", "term", "release"} => Bound(m)'
  BY <1>2, <1>4 DEF CourseInv, Bound
<1>9. QED
  BY <1>5, <1>6, <1>7, <1>8 DEF CourseInv

LEMMA CourseStep == RunnerInv /\ CourseInv /\ [RunnerNext]_allVars => CourseInv'
<1> SUFFICES ASSUME RunnerInv, CourseInv, [RunnerNext]_allVars PROVE CourseInv'
  OBVIOUS
<1>1. [Next]_vars
  BY RunnerStepIsRegistryStep DEF RunnerInv, RunnerTypeOK
<1>2. ASSUME UNCHANGED pc, used' = used, GroupsEnd PROVE CourseInv'
  BY <1>1, <1>2, MovesKeepCourse DEF Moves
<1>3. group \in [Lease -> {"none", "alive", "ended"}]
  BY DEF RunnerInv, RunnerTypeOK, TypeOK
<1>4. ASSUME NEW l \in Lease, NEW req \in Requests, NEW p \in Live \cup {NoLease},
             BeginInterrupted(l, req, p)
      PROVE  CourseInv'
  BY <1>4 DEF BeginInterrupted, AcquireInterrupted, runnerVars, CourseInv, Live, Bound,
              ReleasedRunLeftNoGroup, FailedRunHoldsNoActiveLease, Consistent
<1>5. ASSUME NEW l \in Lease, Signal(l) \/ ChildExits(l) PROVE CourseInv'
  BY <1>2, <1>5 DEF Signal, ChildExits, vars, GroupsEnd
<1>6. ASSUME NEW l \in Lease, GroupSettles(l) PROVE CourseInv'
  BY <1>2, <1>3, <1>6 DEF GroupSettles, Collect, GroupEnds, vars, GroupsEnd
<1>7. ASSUME NEW l \in Lease,
             (ManagerStep(l) /\ UNCHANGED runnerVars) \/ OperatorReleases(l)
      PROVE  CourseInv'
  BY <1>2, <1>7 DEF ManagerStep, OperatorReleases, Release, runnerVars, GroupsEnd
<1>8. ASSUME NEW force \in BOOLEAN, ReapByHand(force) PROVE CourseInv'
  BY <1>2, <1>8 DEF ReapByHand, Reap, runnerVars, GroupsEnd
<1>9. ASSUME \/ Tick /\ UNCHANGED runnerVars
             \/ \E f \in ReceiptFile : DiscardReceipt(f) /\ UNCHANGED runnerVars
             \/ UNCHANGED allVars
      PROVE  CourseInv'
  BY <1>2, <1>9 DEF Tick, DiscardReceipt, allVars, vars, runnerVars, GroupsEnd
<1>10. CASE RunnerNext
  BY <1>1, <1>4, <1>5, <1>6, <1>7, <1>8, <1>9, <1>10, BeginKeepsCourse, StepKeepsCourse
     DEF RunnerNext
<1>11. QED
  BY <1>9, <1>10

LEMMA CourseInit == RunnerInit => RunnerInv /\ CourseInv
  BY InitTypeOK
     DEF RunnerInit, Init, RunnerInv, RunnerTypeOK, Place, ChildState,
         PhasesMatchGrants, ExclusiveGrants, RunnersMatchRegistry,
         ChildOnlyUnderGrant, Live, CourseInv, ReleasedRunLeftNoGroup,
         FailedRunHoldsNoActiveLease

LEMMA CourseKept == RunnerSpec => [](RunnerInv /\ CourseInv)
  BY CourseInit, RunnerInvStep, CourseStep, PTL DEF RunnerSpec

\* However long the descendants of a command outlive it, and whoever reaps or
\* kills in between: a run that ended through release() left no member of its
\* process group behind (run_command_with_lease and release()).
THEOREM ReleasedRunsLeaveNothing == RunnerSpec => []ReleasedRunLeftNoGroup
<1>1. CourseInv => ReleasedRunLeftNoGroup
  BY DEF CourseInv
<1> QED
  BY <1>1, CourseKept, PTL

\* A run that ended in the except clause holds no lease that still counts as
\* active, unless the registry refuses every transaction (freeze()).
THEOREM FailedRunsHoldNothing == RunnerSpec => []FailedRunHoldsNoActiveLease
<1>1. CourseInv => FailedRunHoldsNoActiveLease
  BY DEF CourseInv
<1> QED
  BY <1>1, CourseKept, PTL

\* A lease that a live manager releases is released by its own runner, after
\* the watch.
LEMMA OnlyItsRunnerReleases ==
    ASSUME RunnerInv, CourseInv, [RunnerNext]_allVars, NEW m \in Live, m \notin Live',
           m \notin Frozen
    PROVE  /\ ~(Bound(m) /\ group[m] = "alive")
           /\ Runs(m) => pc[m] = "release"
<1>1. [Next]_vars
  BY RunnerStepIsRegistryStep DEF RunnerInv, RunnerTypeOK
<1>2. PICK b \in BOOLEAN : Release(m, b)
  BY <1>1, WhoLeaves DEF RunnerInv, RunnerTypeOK, Frozen
<1>3. ~(Bound(m) /\ group[m] = "alive")
  BY <1>2 DEF Release, MayRelease
<1>4. ASSUME Runs(m) PROVE pc[m] = "release"
  <2> USE DEF Live
  <2>1. UNCHANGED <<used, granted, manager, group>> /\ Consistent
    BY <1>2 DEF Release, MayRelease
  <2>2. ASSUME NEW l \in Lease, RunnerStep(l), ~ReleaseLease(l) PROVE FALSE
    <3>1. CASE UNCHANGED leases
      BY <3>1
    <3>2. CASE Renew(l) \/ Activate(l) \/ BindProcess(l) \/ Freeze(l)
      BY <3>2 DEF Renew, Activate, BindProcess, Freeze, Update
    <3>3. CASE ReadStatus(l)
      BY <3>1, <3>3 DEF ReadStatus, Fail, vars, Without, Reaped
    <3>4. CASE Collect(l) \/ KillGroup(l)
      BY <3>1, <3>4 DEF Collect, KillGroup, GroupEnds, vars
    <3>5. QED
      BY <2>2, <3>1, <3>2, <3>3, <3>4
         DEF RunnerStep, RenewFirst, TryActivate, Wait, Spawn, Bind, Poll, Heartbeat,
             Terminate, AwaitEnd, Abort, FreezeLease, Fail, GroupStarts, vars
  <2>3. ASSUME NEW l \in Lease, ReleaseLease(l) PROVE pc[m] = "release"
    <3>1. Release(l, TRUE)
      BY <2>3 DEF ReleaseLease, Fail, vars
    <3>2. l = m
      BY <3>1 DEF Release, Without
    <3> QED
      BY <2>3, <3>2 DEF ReleaseLease, At
  <2>4. ASSUME NEW l \in Lease, OperatorReleases(l) PROVE FALSE
    <3>1. l = m
      BY <2>4 DEF OperatorReleases, Release, Without
    <3> QED
      BY <1>4, <2>4, <3>1 DEF OperatorReleases, Release, MayRelease, Runs, CourseInv
  <2>5. ASSUME NEW l \in Lease, NEW req \in Requests, NEW p \in Live \cup {NoLease},
               Begin(l, req, p) \/ BeginInterrupted(l, req, p)
        PROVE  FALSE
    <3>1. l \in used' /\ l \notin used
      BY <2>5 DEF Begin, BeginInterrupted, Acquire, AcquireInterrupted, MayAcquire
    <3> QED
      BY <2>1, <3>1
  <2>6. ASSUME NEW force \in BOOLEAN, ReapByHand(force) PROVE FALSE
    BY <2>6 DEF ReapByHand, Reap, Without
  <2>7. ~Tick
    BY DEF Tick
  <2>8. ASSUME NEW l \in Lease,
               Signal(l) \/ ChildExits(l) \/ GroupSettles(l) \/ ManagerStep(l)
        PROVE  FALSE
    BY <2>8 DEF Signal, ChildExits, GroupSettles, Collect, GroupEnds, ManagerStep, vars
  <2>9. ASSUME NEW f \in ReceiptFile, DiscardReceipt(f) PROVE FALSE
    BY <2>9 DEF DiscardReceipt
  <2>10. CASE UNCHANGED allVars
    BY <2>10 DEF allVars, vars
  <2>11. QED
    BY <2>2, <2>3, <2>4, <2>5, <2>6, <2>7, <2>8, <2>9, <2>10 DEF RunnerNext
<1>5. QED
  BY <1>3, <1>4

\* While a member of its group may be at work, a lease leaves the registry by
\* being reaped, or because its runner is gone and never got to watch the
\* group, or failed: bind_process() comes before the watch and nothing undoes
\* it.
THEOREM WorkKeepsItsLease == RunnerSpec => WorkLosesLeaseOnlyByReaping
<1> DEFINE Kept == \A l \in Live \ Live' : Working(l) =>
              \/ l \in Frozen
              \/ ~Runs(l) /\ pc[l] \in {"bind", "failed", "freeze", "frozen", "unfrozen"}
<1>1. RunnerInv /\ CourseInv /\ [RunnerNext]_allVars => [Kept]_allVars
  <2> SUFFICES ASSUME RunnerInv, CourseInv, [RunnerNext]_allVars, NEW l \in Live \ Live',
                      Working(l), l \notin Frozen
               PROVE  ~Runs(l) /\ pc[l] \in {"bind", "failed", "freeze", "frozen", "unfrozen"}
    OBVIOUS
  <2>1. l \in Lease /\ group[l] = "alive"
    BY DEF Working, RunnerInv, RunnerTypeOK, TypeOK
  <2>2. ~Bound(l) /\ (Runs(l) => pc[l] = "release")
    BY <2>1, OnlyItsRunnerReleases
  <2>3. pc[l] \in AfterSpawn \ {"watch", "term", "release", "released"}
    BY <2>1, <2>2 DEF CourseInv
  <2> QED
    BY <2>2, <2>3 DEF AfterSpawn
<1> QED
  BY <1>1, CourseKept, PTL DEF RunnerSpec, WorkLosesLeaseOnlyByReaping
=============================================================================
