----------------------------- MODULE LeaseRunner -----------------------------
(***************************************************************************)
(* adk-resource.py run: a process that acquires a lease, waits for its     *)
(* activation, starts a command in a process group of its own under the    *)
(* lease, renews the lease while the command runs, and releases or freezes *)
(* it at the end.  Any number of runners share one ResourceRegistry.       *)
(*                                                                         *)
(* The runner whose lease is l is called l; its process is manager[l] of   *)
(* the registry, its command's process group is group[l].  pc[l] names the *)
(* call the runner makes next.  A runner that is killed stops where it is: *)
(* its pc stays, manager[l] is no longer "alive".                          *)
(*                                                                         *)
(* Every call of the registry may also fail for a reason of its own (the   *)
(* disk is full, the lock file is unreadable), and then it has changed     *)
(* nothing; a failure after the file was replaced looks like one of the    *)
(* call after it.                                                          *)
(***************************************************************************)
EXTENDS ResourceRegistry

CONSTANT OperatorReaps   \* an operator may call 'reap --force'

ASSUME RunnerAssumption == /\ OperatorReaps \in BOOLEAN
                           /\ \A req \in Requests : req.managed

VARIABLES
    pc,       \* the next step of each runner
    job,      \* the claims each runner was started with
    stopped,  \* SIGTERM or SIGINT has been caught
    child     \* the group leader: a zombie is "exited" or "killed" until
              \* its parent waits for it, then "reaped"; after SIGKILL no
              \* other member of the group is left

runnerVars == <<pc, job, stopped, child>>
allVars    == <<vars, runnerVars>>

Runs(l)      == manager[l] = "alive"
At(l, place) == Runs(l) /\ pc[l] = place
Goto(l, place) == pc' = [pc EXCEPT ![l] = place]

\* A step that ends in the except clause of run_command_with_lease: the call
\* is refused, or fails.
Fail(l) == Goto(l, "failed") /\ UNCHANGED <<vars, job, stopped, child>>

RunnerInit ==
    /\ Init
    /\ pc = [l \in Lease |-> "idle"]
    /\ job = [l \in Lease |-> {}]
    /\ stopped = [l \in Lease |-> FALSE]
    /\ child = [l \in Lease |-> "none"]

-----------------------------------------------------------------------------
(* Up to the start of the command. *)

Begin(l, req, p) ==
    /\ Acquire(l, req, p)
    /\ Goto(l, "renew")
    /\ job' = [job EXCEPT ![l] = ClaimsOf(req.reads, req.writes)]
    /\ UNCHANGED <<stopped, child>>

BeginInterrupted(l, req, p) ==
    AcquireInterrupted(l, req, p) /\ UNCHANGED runnerVars

RenewFirst(l) ==
    /\ At(l, "renew")
    /\ \/ /\ ~stopped[l]
          /\ Renew(l)
          /\ Goto(l, "status")
          /\ UNCHANGED <<job, stopped, child>>
       \/ Fail(l)

\* registry.status() reaps under automatic expiry, then reports every phase.
ReadStatus(l) ==
    /\ At(l, "status")
    /\ \/ /\ Consistent /\ AllPhasesReadable
          /\ leases' = Without(Reaped)
          /\ Goto(l, IF l \notin Live \/ Phase(l) = "frozen" THEN "failed"
                     ELSE IF leases[l].phase = "held" THEN "spawn"
                     ELSE "activate")
          /\ UNCHANGED <<maintenance, used, granted, receipts, manager, group,
                         job, stopped, child>>
       \/ Fail(l)

TryActivate(l) ==
    /\ At(l, "activate")
    /\ \/ /\ Activate(l)
          /\ Goto(l, "spawn")
          /\ UNCHANGED <<job, stopped, child>>
       \/ /\ ~MayActivate(l)
          /\ Consistent /\ Active(l)         \* 'drain_not_finished'
          /\ Goto(l, "wait")
          /\ UNCHANGED <<vars, job, stopped, child>>
       \/ Fail(l)

\* Sleep and try again, or 'drain_wait_timeout'.
Wait(l) ==
    /\ At(l, "wait")
    /\ \/ Goto(l, "renew") /\ UNCHANGED <<vars, job, stopped, child>>
       \/ Fail(l)

\* The command starts before its group is bound to the lease; or Popen raises.
Spawn(l) ==
    /\ At(l, "spawn")
    /\ \/ /\ GroupStarts(l)
          /\ child' = [child EXCEPT ![l] = "running"]
          /\ Goto(l, "bind")
          /\ UNCHANGED <<job, stopped>>
       \/ Fail(l)

\* Faulty variant: the group is written to the row unconditionally.
BindUnchecked(l) ==
    /\ At(l, "bind")
    /\ l \in Live
    /\ Update(l, [leases[l] EXCEPT !.process_group = l])
    /\ Goto(l, "watch")
    /\ UNCHANGED <<maintenance, used, granted, receipts, manager, group,
                   job, stopped, child>>

Bind(l) ==
    /\ At(l, "bind")
    /\ \/ /\ BindProcess(l)
          /\ Goto(l, "watch")
          /\ UNCHANGED <<job, stopped, child>>
       \/ Fail(l)

-----------------------------------------------------------------------------
(* While the command runs, and after. *)

\* The leader is waited for.  Other members of its group may live on, unless
\* the group was sent SIGKILL.
Collect(l) ==
    /\ child[l] \in {"exited", "killed"}
    /\ child' = [child EXCEPT ![l] = "reaped"]
    /\ \/ GroupEnds(l)
       \/ child[l] = "exited" /\ UNCHANGED vars

\* os.killpg(child.pid, SIGKILL) while the leader has not been waited for.
KillGroup(l) ==
    /\ child[l] \in {"running", "exited"}
    /\ child' = [child EXCEPT ![l] = "killed"]
    /\ UNCHANGED vars

Poll(l) ==
    /\ At(l, "watch")
    /\ Collect(l)
    /\ Goto(l, "release")
    /\ UNCHANGED <<job, stopped>>

\* Faulty variant: a refused renewal is ignored.
HeartbeatAnyway(l) ==
    /\ At(l, "watch")
    /\ child[l] = "running"
    /\ ~stopped[l]
    /\ Renew(l) \/ (~MayRenew(l) /\ UNCHANGED vars)
    /\ UNCHANGED runnerVars

Heartbeat(l) ==
    /\ At(l, "watch")
    /\ child[l] = "running"
    /\ ~stopped[l]
    /\ \/ Renew(l) /\ UNCHANGED runnerVars
       \/ Fail(l)

\* SIGTERM to the group, then five seconds for the leader to end; if it does
\* not, SIGKILL, and on to release() without waiting again.
Terminate(l) ==
    /\ At(l, "watch")
    /\ child[l] = "running"
    /\ stopped[l]
    /\ Goto(l, "term")
    /\ UNCHANGED <<vars, job, stopped, child>>

AwaitEnd(l) ==
    /\ At(l, "term")
    /\ Collect(l) \/ KillGroup(l)
    /\ Goto(l, "release")
    /\ UNCHANGED <<job, stopped>>

\* Faulty variant: release is tried until it is not refused.
ReleaseOrRetry(l) ==
    /\ At(l, "release")
    /\ Release(l, TRUE)
    /\ Goto(l, "released")
    /\ UNCHANGED <<job, stopped, child>>

ReleaseLease(l) ==
    /\ At(l, "release")
    /\ \/ /\ Release(l, TRUE)
          /\ Goto(l, "released")
          /\ UNCHANGED <<job, stopped, child>>
       \/ Fail(l)

\* The except clause: a leader still running takes its group with it; one
\* that has exited is only waited for.  A leader that was sent SIGKILL may not
\* have died yet.
Abort(l) ==
    /\ At(l, "failed")
    /\ \/ child[l] = "running" /\ KillGroup(l)
       \/ Collect(l)
       \/ child[l] \in {"none", "killed", "reaped"} /\ UNCHANGED <<vars, child>>
    /\ Goto(l, "freeze")
    /\ UNCHANGED <<job, stopped>>

\* What freeze() raises is swallowed: a refusal, or a failure that leaves the
\* lease as it was.
FreezeLease(l) ==
    /\ At(l, "freeze")
    /\ \/ Freeze(l) /\ Goto(l, "frozen")
       \/ ~MayFreeze(l) /\ UNCHANGED vars /\ Goto(l, "frozen")
       \/ UNCHANGED vars /\ Goto(l, "unfrozen")
    /\ UNCHANGED <<job, stopped, child>>

-----------------------------------------------------------------------------
(* Signals, crashes, the command's own processes, and the operator. *)

Signal(l) ==
    /\ Runs(l)
    /\ ~stopped[l]
    /\ stopped' = [stopped EXCEPT ![l] = TRUE]
    /\ UNCHANGED <<vars, pc, job, child>>

ChildExits(l) ==
    /\ child[l] = "running"
    /\ child' = [child EXCEPT ![l] = "exited"]
    /\ UNCHANGED <<vars, pc, job, stopped>>

\* The last members of a group whose leader is gone end; a leader whose
\* runner has gone is waited for by init.
GroupSettles(l) ==
    /\ \/ child[l] = "reaped" /\ GroupEnds(l) /\ UNCHANGED child
       \/ ~Runs(l) /\ Collect(l)
    /\ UNCHANGED <<pc, job, stopped>>

OperatorReleases(l) == Release(l, FALSE) /\ UNCHANGED runnerVars

ReapByHand(force) ==
    /\ force => OperatorReaps
    /\ Reap(force)
    /\ UNCHANGED runnerVars

RunnerStep(l) ==
    \/ RenewFirst(l) \/ ReadStatus(l) \/ TryActivate(l) \/ Wait(l)
    \/ Spawn(l) \/ Bind(l) \/ Poll(l) \/ Heartbeat(l) \/ Terminate(l)
    \/ AwaitEnd(l) \/ ReleaseLease(l) \/ Abort(l) \/ FreezeLease(l)

RunnerNext ==
    \/ \E l \in Lease :
          \/ \E req \in Requests, p \in Live \cup {NoLease} :
                Begin(l, req, p) \/ BeginInterrupted(l, req, p)
          \/ RunnerStep(l)
          \/ Signal(l) \/ ChildExits(l) \/ GroupSettles(l)
          \/ ManagerStep(l) /\ UNCHANGED runnerVars
          \/ OperatorReleases(l)
    \/ \E force \in BOOLEAN : ReapByHand(force)
    \/ Tick /\ UNCHANGED runnerVars
    \/ \E f \in ReceiptFile : DiscardReceipt(f) /\ UNCHANGED runnerVars

RunnerSpec == RunnerInit /\ [][RunnerNext]_allVars
-----------------------------------------------------------------------------
(* Properties. *)

Place == {"idle", "renew", "status", "activate", "wait", "spawn", "bind",
          "watch", "term", "release", "failed", "freeze", "released", "frozen",
          "unfrozen"}

ChildState == {"none", "running", "exited", "killed", "reaped"}

RunnerTypeOK ==
    /\ TypeOK
    /\ pc \in [Lease -> Place]
    /\ job \in [Lease -> SUBSET Claim]
    /\ stopped \in [Lease -> BOOLEAN]
    /\ child \in [Lease -> ChildState]

\* What runners do to the registry is what the registry allows: everything
\* shown of ResourceRegistry holds when runners are its callers.
ImplementsRegistry == Spec

\* Where a runner stands says what it has obtained, and a registered lease
\* claims what its runner was started with.
RunnersMatchRegistry ==
    /\ \A l \in Live : leases[l].claims = job[l]
    /\ \A l \in Lease :
          /\ group[l] # "none" => child[l] # "none"
          /\ pc[l] = "spawn" => l \in granted

\* A command never starts before its lease was granted: a drain is over
\* before the command it makes room for runs.
ChildOnlyUnderGrant ==
    \A l \in Lease : child[l] # "none" => l \in granted

\* A run that ended through release() left no member of its process group
\* behind: descendants of the command count, not only its leader.
ReleasedRunLeftNoGroup ==
    \A l \in Lease : pc[l] = "released" => group[l] # "alive"

\* A run that ended in the except clause leaves no lease that still counts
\* as active, unless the registry refuses every transaction or the freeze
\* itself failed.
FailedRunHoldsNoActiveLease ==
    \A l \in Lease : pc[l] = "frozen" =>
        l \notin Live \/ leases[l].phase = "frozen" \/ ~Consistent

\* A member of the group may still be at work: not after SIGKILL, when only
\* the zombie of the leader is left.
Working(l) == group[l] = "alive" /\ child[l] # "killed"

Contend(l, m) ==
    l # m /\ Working(l) /\ Working(m) /\ Conflict(job[l], job[m])

\* As long as both leases are registered, their groups do not contend.
NoContentionWhileRegistered == \A l, m \in Live : ~Contend(l, m)

\* While a member of its group may be at work, a lease leaves the registry by
\* being reaped, or because its runner is gone and never got to watch the
\* group, or failed: only then can the lease be released while the group,
\* unbound, is still at work.
WorkLosesLeaseOnlyByReaping ==
    [][\A l \in Live \ Live' : Working(l) =>
          \/ l \in Frozen
          \/ ~Runs(l) /\ pc[l] \in {"bind", "failed", "freeze", "frozen", "unfrozen"}]_allVars

-----------------------------------------------------------------------------
(* Liveness: a runner that has not been killed takes its next step, and a
   command that was sent SIGKILL is dead. *)

FairRunnerSpec == RunnerSpec /\ \A l \in Lease : WF_allVars(RunnerStep(l))

\* A runner whose lease was taken, froze or ran out stops its command, also
\* when that happened before the command was started on the status read
\* earlier: the binding or the next heartbeat is refused and the except clause
\* kills the group.
LostLeaseStopsChild ==
    \A l \in Lease :
        (child[l] = "running" /\ Runs(l) /\ ~Active(l))
            ~> (child[l] # "running" \/ ~Runs(l))

\* When its command has ended, a runner that stays up ends too, and by then
\* its lease is released, frozen or lost.
EndedChildEndsRun ==
    \A l \in Lease :
        (child[l] \in {"exited", "killed"} /\ Runs(l))
            ~> (pc[l] \in {"released", "frozen", "unfrozen"} \/ ~Runs(l))

\* Time passes, and somebody keeps calling status().
StatusIsRead == WF_vars(Tick) /\ WF_vars(Reap(FALSE))

\* A run that failed does not keep its resources, also when the freeze of the
\* except clause failed too and nobody owns the lease any longer: it runs out
\* and the next status() reaps it, whatever has become of the process.
FailedRunLosesItsLease ==
    StatusIsRead =>
        \A l \in Lease : pc[l] \in {"frozen", "unfrozen"} ~> l \notin Live

=============================================================================
