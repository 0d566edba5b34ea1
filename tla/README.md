# Verification of naia-pj-adk

TLA+ modules that model the parts of naia-pj-adk in which several processes,
sessions or devices share state, TLC configurations that check them on small
instances, and theorems that TLAPS proves for every instance. The models are
translated from the source; where a module and the source disagree, the module
is wrong. `PROJECT.json` maps every definition to the lines it stands for.

Contents: [the system](#1-the-system) · [modules](#2-modules-and-the-code) ·
[runs](#3-runs) · [proofs](#4-proofs) · [findings](#5-findings) ·
[limits](#6-what-is-not-shown) · [plan](#7-plan)

## 1. The system

naia-pj-adk is the kit a team keeps beside its products so that people and
agents work under one set of rules. It has no central process. Its parts are
commands and small servers that meet in shared files: a lease registry, a git
repository, an adapter, a state file, a queue. The hard behaviour is therefore
what happens between two commands: locks, crashes between two writes, clocks,
and state that was read before it was used.

| Component | State | Operations | Shares with | What is hard | What makes it correct |
| --- | --- | --- | --- | --- | --- |
| **Lease registry** `scripts/lib/adk_resources.py` | `registry.json` under a file lock: rows with claims, phase, expiry, parent, process group; a receipt file at the path its caller chose | `acquire`, `renew`, `activate`, `bind_process`, `freeze`, `release`, `status`, `reap_expired` | every session of a host; the policy file; process ids of the OS | claims checked at two moments (acquire, activate) while others come and go; interrupted acquire; dead managers and reused pids; parents and children; expiry | granted claims exclude each other; drains do not deadlock; pools and trees stay within their slots; a lease is always authenticated by its receipt; frozen is final |
| **Lease runner** `scripts/adk-resource.py` | position in `run_command_with_lease`, the child process and its group, signals | `run` (renew, status, activate, spawn, bind, heartbeat, terminate, release, freeze), and the plain subcommands | the registry; the OS | the command starts before its group is bound; kill of the runner at any point; zombies and surviving descendants; heartbeat against expiry | a command runs only under a grant; commands under conflicting claims do not run at once; the run always ends, its command with it |
| **QA round queue** `profiles/local/scripts/qa-round.mjs` | `round.json`, claim files, start and end receipts, ledger, all in git; a clone per session | `open`, `claim`, `start`, `finish`, `ledger`, `close`, `status`, `validate` | other devices, through push and pull --rebase | two devices between each other's pull and push; lost answers; withdrawn claims; late results | one holder per bundle and platform; results rest on a start; the ledger is complete and late results do not outvote those in time |
| **Live queue** `packages/live-queue/` | documents with revisions in memory or Postgres | `put` with If-Match, `get`, `list`, `delete` | clients that read, modify and write | lost updates; delete and create again (revisions restart at 1); restart of the memory store; concurrent first insert | a conditional write never overwrites what its writer has not read |
| **Policy guard and gateway command** `scripts/policy-guard.mjs`, `scripts/lib/{adapter-contract,participant-registry,mutation-window,request-recipient,common-policy,messaging-contract}.mjs`, `scripts/native-command-validator.mjs`, `ops/gateway/dcg.sh` | adapter, participant registry, issue assignment, clock (all read only) | `evaluatePolicy`; `dcg.sh` from a message to a command | the bridge; the gateway host | a decision made in one process and used by another; many independent grounds of refusal and their order | nothing runs that the adapter's roles, windows and approvals do not allow |
| **Project policy bridge** `scripts/project-policy-bridge.mjs`, `scripts/project-backend-{command,argv}.mjs` | policy projection in a project workspace | project a decision; run a backend command | the policy guard | a projection that is older than the adapter | the projection allows no more than the guard |
| **Pre-tool guard** `scripts/lib/pretool-guard.mjs`, `scripts/pretool-guard-hook.mjs`, `scripts/approve-high-risk.mjs` | one approval lease file | `verdict`; approve one exact command for some minutes | agents and the human who approves | one lease file that each approval overwrites; a script read by the guard and again by the command; time bounds | an approval covers one command, within its time |
| **Dashboard server and telemetry** `scripts/adk-dashboard-server.py`, `scripts/adk-telemetry-reporter.py` | node table (at most 100), issue cache | record telemetry, snapshot, refresh | request threads, a refresh thread, reporters | the table is pruned only by a reader; failed queries cached as empty | live nodes are not refused; the cache is what the last query said |
| **Dashboard watchdog** `scripts/adk-dashboard-watchdog.py` | failures and time of the last alert, in a locked file | one probe per run | overlapping runs of a timer | the clock is read before the lock; the state is saved after the alert | alerts after the threshold, at most one per cooldown |
| **Gateway notifications** `ops/gateway/{notify-policy,contact-window,alert-unit-failed,selftest}.sh` | streak and alerted flag, kept by the caller | `flap_should_alert`, `notice_may_send` | contact hours | an incident that is due outside the contact window | a recovery follows an incident that was sent, and only such |
| **Gateway audit and environment** `ops/gateway/{audit,gateway-env}.sh`, `audit-report.py` | append-only log | append, report | — | — | — |
| **Model pricing** `scripts/lib/model_pricing.py` | — | look up and multiply | dashboard | — | — |
| **Validators and scanners** `scripts/validate.mjs`, `public-safety-scan.mjs`, `validate-participants.mjs`, `lib/yaml-lite.mjs` | — | one pass over files | — | — | — |
| **Workspace setup** `profiles/local/scripts/workspace.mjs` | — | create directories and links | — | — | — |

The first seven are modelled: the registry and the runner with every operation,
the others but for what [section 6](#6-what-is-not-shown) lists. Dashboard,
watchdog and notifications are in the [plan](#7-plan). The last four keep no
state that a later step depends on and will not be modelled.

The parts interact as follows. A runner calls the registry; sessions and
operators call it directly; nothing else writes `registry.json`, except the
maintenance fence, which tools outside this repository set. The QA queue uses
git alone. `dcg.sh` and the bridge call the policy guard, and each reads the
adapter and the evidence for itself as well; the validators check the same
files before they are installed. The pre-tool guard stands between an agent and
its tools and knows nothing of the rest, and the live queue only its clients.
The dashboard's watchdog probes the dashboard over HTTP, reporters post to it,
and the pricing table serves it.

## 2. Modules and the code

```
SharedClaims ──────┐ (promise)                   GitClones
                   │ INSTANCE WITH                   │ INSTANCE
ResourceClaims ─ ResourceRegistry ── LeaseRunner   QaRound
                   │                     │             │
          MCResourceRegistry      MCLeaseRunner    MCQaRound
          ResourceRegistryProofs ─ LeaseRunnerProofs   QaRoundProofs
          SharedClaimsProofs

WorkWindows ─┬─ AdapterContract ─┐               VersionedRegister
Refusals ────┤  ParticipantRegistry ─ PolicyGuard    │ INSTANCE WITH
             └─ BackendCommand ──┘       │       LiveQueue ── MCLiveQueue
                   NativeCommands ──── Gateway       └─ LiveQueueProofs
                                         │
                                     MCGateway   PretoolGuard ── MCPretoolGuard
                                  GatewayProofs      └─ PretoolGuardProofs
```

**ResourceClaims** is the algebra of `claim_conflict()`: read, write and intent
claims on names that may lie below each other. A name is a constant; only the
relation `Under` between names remains of path syntax and aliases.

**ResourceRegistry** has one action per operation of `Registry`. A transaction
holds an exclusive lock and replaces `registry.json` atomically, so an operation
is one step; one that raises changes nothing, so it is a step that is not
enabled. The exception is `acquire`, which writes the receipt before the
registry: `AcquireInterrupted` stops between the two. `Phase(l)` is `phase(row)`,
including its fourth outcome, an exception. `status()` reaps under automatic
expiry, and that is `Reap(FALSE)`; `reap --force` is `Reap(TRUE)`.
- A lease id stands for the receipt that authenticates it. Ids are random
  128-bit values in the code; here each is used once (`used`).
- `expires_at` is kept as the time that is left (`ttl`), and `Tick` takes one
  unit from every lease, so the state space needs no bound on the clock.
- `manager` and `group` are the processes as the OS sees them: a manager exits,
  its pid is given to another process, that one exits in turn.
- Where a receipt is kept is the caller's choice: `CreateReceipt` takes any path
  of `ReceiptFile` that is free, so an owner who was interrupted may try again
  under another one. To remove a file whose lease is gone is the caller's too,
  and `DiscardReceipt` is external.
- `Maintenance` is the fence other tools write. It is an external definition.

**SharedClaims** is what the registry promises, in a page: a grant does not
conflict with the grants that stay, does not change, and is never given twice
to one id. `ResourceRegistry!ImplementsPromise` maps the registry to it through
`HeldClaims`: what a lease holds once it has been granted, until it leaves.

**LeaseRunner** is `run_command_with_lease`, one action per call it makes, with
`pc` for the place in the function. It extends ResourceRegistry, so every
registry call is the registry's own action; or it fails for a reason of its own
(`Fail`: a full disk, an unreadable lock) and changes nothing. A `freeze()` that
fails in the except clause is swallowed, and the run ends `unfrozen`. A kill is `ManagerStep`: the runner
stays where it is for ever. `Signal` is SIGTERM or SIGINT, noticed where the
code looks at the flag. `child` distinguishes a leader that exited (its
descendants may live on) from one that was sent SIGKILL with its group; both
are zombies, and count as a live group, until somebody waits for them.

**GitClones** is git as `qa-round.mjs` uses it: one origin and a clone per
place, of which only the differences from the origin are kept. A pull merges
changes of different files and fails on changes of the same file; a push is
accepted from a clone that has seen all of the origin.

**QaRound** is a round of test bundles on GitClones. Each command pulls,
derives the state of the round from the files, writes, commits and pushes; the
first four happen in the session's own clone and are one step, the push and
what follows it are others, because only the push meets the other clones.
`PushLands`, `ClaimYields`, `PushRejected`, `PushUnheard`, `GiveUp` and `Crash`
are the ways on from there. A text is a number; `files` says what it contains.
`Named` are the sessions that pass `--session`: a claim that names no session
may be started and finished by every session of its device (`OwnsClaim`).

**Gateway** is one call, from a request to the command that is started or the
answer that is given, by either of two ways: through `dcg.sh`, or through the
bridge. The reads are the steps: route, adapter, registry, the two windows,
evidence, and the second reading of adapter and evidence by the helper that
makes the backend's argv. Between any two of them `Replace` may install another
adapter, registry or evidence and `Pass` move the clock. The clock moves to any
of the instants, so a call may take as long as it likes. What a read decides is
an operator of the modules below it, none of which has state:
- **WorkWindows**: schedules of an adapter and mutation windows of participants.
  An instant is a minute of the week in UTC, a timezone its distance from UTC.
- **AdapterContract**: what `validateAdapter` demands of an adapter. A field
  whose value nothing else depends on is present, sound or as demanded; the
  names of these fields are data (`ProfileRules`). The first key the Discord
  section lacks is kept apart, for a contract without a contact window is
  refused in words that the bridge takes for a closed window.
- **ParticipantRegistry**: how the rows of the registry become participants.
- **BackendCommand**: `project-backend-command.mjs`, which command and argv of
  the adapter serve a request.
- **PolicyGuard**: the grounds on which `evaluatePolicy` refuses, in their order.
- **NativeCommands**: `native-command-validator.mjs`.
- **Refusals**: a check is "ok" or the label of what it refuses; a sequence of
  checks answers with the first refusal, as a function that throws does. The
  bridge derives its public reason from that label, so the order matters.

**LiveQueue** is one document, its clients and its store. Its content is the set
of writes that went into it, which is what "lost" is about. The memory store
puts in one step, under its lock; a put in Postgres is `SelectForUpdate`,
`Insert` and `Commit`, with the row lock and the wait on a primary key that is
being inserted as two variables. `stale` remembers that a document was removed
after a client read it. **VersionedRegister** is what both stores promise.

**PretoolGuard** is a hook of an agent's tool and the human who approves. The
hook reads branch, script, lease and clock one after the other, and the tool
runs after all of them. A command may have several remote scripts, each found
by a rule of the policy; the first rule with something to say decides
(`InspectScripts`). Tools write nothing that the hooks of others read:
what another tool does to this one is `EditScript` and `SwitchBranch`, so the
run has one tool, and the theorems any number. `moved` is what changed since
the hook looked at it; `approvals` is every approval there was, of which the
lease file keeps the last.

Each MC module gives the constants of one family of instances. Definitions
under "Faulty variant" are not used by the specifications: each is the mutant
of the definition that follows it, and shows that a property would notice.

## 3. Runs

| Run | Question | Expected |
| --- | --- | --- |
| `MCRegistryShared` | Do grants exclude each other, do pools and trees keep their bounds, do receipts survive, does the registry implement SharedClaims? | pass, 88,918 states |
| `MCRegistryManaged` | With managers that die: is frozen final, does a busy group keep its lease, is an expired lease reaped? | pass, 145,252 states |
| `MCRegistryOrphan` | Does the integrity check of `transaction()` ever fail on what the operations wrote? | violated |
| `MCRegistryDeadManager` | Does a lease with a dead manager read as frozen? | violated |
| `MCRunnerAuto` | Under automatic expiry, kills, signals and failing calls: what do ended runs leave behind, how can work lose its lease, do commands of registered leases contend, do runners implement the registry? | pass, 1,319,496 states |
| `MCRunnerLive` | Does a lost lease stop the command, does an ended command end the run, does a failed run lose its lease? | pass, 320,264 states |
| `MCQaClaims` | How far do claims of a bundle exclude each other, who can be stuck in a rebase, do results rest on a start? | pass, 461,144 states |
| `MCQaResults` | Is an unforced close complete, do results in time decide? | pass, 725,069 states |
| `MCQaExclusive` | Does a live claim exclude other sessions? | violated |
| `MCGateway` | Who stands behind a deploy, whose issue does a backend get, when is a mutation granted, does the bridge name the right reason? | pass, 659,664 states |
| `MCLiveQueue` | Is an update lost between clients, transactions, restarts and deletions; do both stores implement the register? | pass, 1,607,040 states |
| `MCPretoolGuard` | Does a command run only on its own approval, and has what runs been cleared? | pass, 4,703,168 states |

### Bounds, and why they are enough

*Leases.* Four ids in `MCRegistryShared`: a conflict needs two, a drain that
waits for one lease while another arrives three, and a grandchild that is
registered in the acquisition that reaps its root needs root, parent, sibling
and grandchild. Two ids in the managed and runner runs, where each lease brings
a process, a group and a runner; the properties there relate one lease to its
processes or two leases to each other. Ids are symmetric except in liveness runs.

*Receipts.* Three paths for four ids in `MCRegistryShared`: two leases with
their receipts and one left by an interrupted acquisition, so that callers do
run out of free paths. Two in the managed and runner runs (one per id), one in
`MCRunnerLive`, where receipts decide nothing. Paths are alike.

*Time.* `LeaseTime` is 2 ticks in registry runs (fresh, half over, expired, so
that a renewal makes a difference) and 1 in runner runs (fresh, expired).

*Requests.* `SharedRequests` has a reader of a database, a reader and a writer
of a table in it, drains of the database and of the host, a request of two
slots, and agents of two pools and two issues; three of them can form a chain
of parents. `MaxSlotsPerTree` is 2, below the pools' capacity of 3, so that both
limits are reached. `LoneRequests` are all managed and cannot nest.
`RunRequests` are a run that writes a table and a run that drains the database
around it; `SuccessiveRequests` lets a second run begin after the first.

*QA.* One bundle on one platform; two devices on it, one of them with two
sessions: every race is between two claims of one pair. `MaxClaims` = 3 allows
a claim, its expiry, and a second and third attempt; `MaxReceipts` = 2 one start
and one end or two starts, 4 in `MCQaResults` for two devices that both start
and finish. `MaxReports` = 1: a ledger or a close. `MaxFaults` counts lost
answers, commands that give up, and crashes, of which `MCQaClaims` has one at
any moment of any session (two exceed five minutes; the theorems on these
properties bound nothing). In `MCQaClaims` the two sessions
of one device are alike and pass no `--session`, so each may start and finish
on the claim of the other, which allows more than names do; in the runs with
one session to a device, both have names.

*Gateway.* Six adapters (approval always demanded; demanded at high risk; a
contact window that is invalid, and none at all; the local profile; no file),
three registries (three
people; one person under two aliases; none), four evidences and thirteen
requests, each of which some combination grants or refuses for a reason of its
own. The three instants are those at which the weekday in Seoul and in UTC
differ, on either side of the contributor's window, and the hour at which the
working day ends. One call at a time: calls share only files they do not write.

*Live queue.* Three clients: two that race and one that has read before both.
Two writes each, so that a client writes on top of an answer it did not hear.

*Pre-tool guard.* Leases of up to two minutes, four minutes of time and two
approvals: a lease is replaced, runs out between two steps of the hook, and is
asked for longer than allowed. Three commands: a push of HEAD; a push in
another repository with two remote scripts behind it, each of which may need
approval, be denied, or be missing; and a deletion that needs approval, so that
one command is approved while another is judged.

The `MCQa*` runs do not check deadlock: a round stops when its texts are used
up, which is the end of the instance and not of the program.

`SlowPush` says that a claim may expire before `claim()` returns it: pushes that
are retried for longer than the claim's time to live. `MCQaClaims` excludes it
and `MCQaResults` includes it. With it `OneHolderPerDevice` fails: the second
session of a device, which sees the first one's claim expired, replaces the
file, and the first session's `rmSync` of "its" file after a failed push can
take out the other's claim. Claims last hours and pushes seconds; the run says
so rather than pretending.

### Fairness

`FairSpec` (registry): time passes (`WF(Tick)`), and somebody keeps calling
`status()` (`WF(Reap(FALSE))`), which every runner does and the documentation
asks of operators. Nothing is assumed of callers that hold leases.

`FairRunnerSpec`: a runner that is not killed takes its next step. This is the
scheduling of the OS for a sequential program whose waits all have timeouts;
while the command runs, that step is the next heartbeat. No fairness is assumed
of commands, signals, kills, operators or time: a command may run for ever.
`FailedRunLosesItsLease` is about what happens after the runner: it takes
`StatusIsRead`, the two assumptions of `FairSpec`, as its hypothesis.

The other runs check safety only: nothing makes a session run its next command,
a client its next request or an agent its next tool, and every call of the
gateway and the hook is a straight line that ends.

## 4. Proofs

Every safety invariant that a passing run checks is a theorem, and so is every
action property; two of them, on the claims of a round, under the same
hypothesis as the run, `~SlowPush`. Each holds for every value of the constants that satisfies the named
assumptions: any set of leases that is finite, any requests, pools, capacities,
path relation, lease time and expiry policy (`ResourceAssumption`,
`RegistryAssumption`, and `RunnerAssumption`, which says that runners acquire
managed leases); any clients and number of writes (`QueueAssumption`: nobody is
not a client, no If-Match is not a revision); any tools, commands, branches,
scripts and policies (`GuardAssumption`: times are numbers); any sessions,
devices, bundles and platforms of a round (`QaAssumption`: there are finitely
many devices, and a directory listing puts them in an order); any adapters,
registries, evidences and requests (`GatewayAssumption`: a command line is a
list of words, and no repository, revision, issue number or login of the
tracker is the name of an option). `SharedClaims` assumes nothing.

| Theorem | Says | Argument |
| --- | --- | --- |
| `TypeCorrect` | `TypeOK` always | one step per action |
| `ClaimsSafe` | `ExclusiveGrants` and `DrainsNeverWaitForEachOther` always | `ClaimsInv`, below |
| `DrainsSafe` | `DrainsNeverWaitForEachOther` always | part of `ClaimsInv` |
| `OwnersSafe` | an owner has at most one lease, and each lease has its receipt | both are inductive with `TypeOK` and `PhasesMatchGrants`: the receipt that `DiscardReceipt` removes is of no live lease, and an interrupted acquire writes one only where there was none |
| `TreesSafe` | leases of one root share pool and issue | with `RootsAreUsed`: a new root is an id no row can name yet |
| `SlotsSafe` | `SlotsWithinCapacity` always: pools and trees of agents | `SlotsInv`, below |
| `ParentsAreReleasedLast` | `ParentOutlivesChildUnlessFrozen` | lemma `WhoLeaves`: a row leaves by release, which refuses while it has children or a live group, or by reaping, which takes frozen rows |
| `BusyGroupsKeepTheirLeases` | `BoundGroupKeepsItsLease` | the same lemma |
| `FrozenStaysFrozen` | `FrozenIsFinal` | operations on a lease refuse a frozen one, time only runs down, and a pid that is reused is not the manager it was |
| `RegistryKeepsPromise` | the registry implements `SharedClaims` | with `ClaimsWereAsked`; every step maps to `Drop`, `Grant` or a stutter |
| `PromiseExcludes` | grants of the promise never conflict | a grant is checked against those that stay; conflict is symmetric |
| `RunnersImplementRegistry` | runners implement the registry | each call is an action of the registry or leaves it alone |
| `RunnersAreSafe`, `CommandsAreGranted` | `NoContentionWhileRegistered`, and that a command starts only for a lease that was granted | `RunnerInv`, below |
| `RunnersAreTyped` | `RunnerTypeOK` | one step per call |
| `ReleasedRunsLeaveNothing` | `ReleasedRunLeftNoGroup` | `CourseInv`, below |
| `FailedRunsHoldNothing` | `FailedRunHoldsNoActiveLease` | `CourseInv` |
| `WorkKeepsItsLease` | `WorkLosesLeaseOnlyByReaping` | `CourseInv`: a runner that watches its group releases only when the group is gone |
| `QueueTypesAndLocks` | `QueueTypeOK`, with who holds which lock | `QueueInv`, below |
| `UpdatesAreKept` | `NoUpdateIsLost` | `QueueInv` |
| `StoresAreRegisters` | `ImplementsRegister` | every step maps to `Put`, `Remove` or a stutter |
| `ApprovalsCoverRuns` | `OnlyApprovedCommandsRun` | `GuardInv`, below |
| `EffectsAreCleared` | `OnlyClearedEffects` | `GuardInv` |
| `GatewayProofs!TypeCorrect` | `GatewayTypeOK` | one step per read |
| `NoMutationOutsideItsWindows` | `MutationsInsideWindows` | `CallInv`, below |
| `ClosedWindowsAreClosed` | `WindowReasonIsTrue` | part of `CallInv`; a window that wraps past midnight, or past the end of the week, agrees with its definition |
| `TwoPeopleDeploy` | `NobodyDeploysAlone` | `CallInv` |
| `IssueOfTheSender` | `IssueIsTheActors` | `CallInv` |
| `QaRoundProofs!TypeCorrect` | `QaTypeOK` | part of `RoundInv`, below |
| `NoEndWithoutStart` | `EndHasStart` | `RoundInv` |
| `LoneSessionsNeverStuck` | `LoneSessionNeverStuck` | `RoundInv` |
| `OneHolder` | `OneHolderPerDevice`, unless `SlowPush` | `ClaimsInv` of QaRound, below |
| `OverlapsOnlyUpwards` | `OverlapOnlyUpwards`, unless `SlowPush` | `OverlapInv`, below |
| `ReceiptsInTimeDecide` | `InTimeDecides` | a receipt in time, once it decides, is replaced only by another in time |
| `UnforcedClosesAreComplete` | `UnforcedCloseIsComplete` | `CloseInv`, below |

`ExclusiveGrants` speaks of leases that were ever granted, because a frozen one
still owns its claims. It is not inductive. `activate()` grants a draining
lease after a look at the other rows, and needs that a row in phase 'draining'
was not granted before; `acquire()` lets a drain in beside rows that are 'held',
and the drains among themselves stay apart only because a row that is 'held'
was granted. `PhasesMatchGrants` says both, and that ids are used before they
are granted: without it a new id could already be in `granted`.
`ClaimsInv` is `TypeOK /\ PhasesMatchGrants /\ ExclusiveGrants /\
DrainsNeverWaitForEachOther`. The proof rests on two lemmas that say what each
operation can do: `OnlyAcquireAddsRows` (no other operation adds a row or
changes the claims of one) and `OnlyGrantsGrant`.

`RunnerInv` takes the first three of these, with the types of the runners'
variables, and adds that a registered lease claims what its runner was started with, that a group has a leader, and that a runner that is about to
spawn has been granted its lease (`RunnersMatchRegistry`). The last one is
where a status that is no longer true does not matter: `granted` only grows.
Because runners implement the registry, its lemmas preserve the rest.

`SlotsWithinCapacity` bounds what the code computes as sums over the rows, and a
sum is recursive. The model counts instead: a slot of a lease is a pair `<<lease,
number>>`, the slots of a pool are the cardinality of a set of such cells, and
cardinality is monotonic and additive by the theorems on finite sets. `SlotsInv` keeps the
rows and their slots finite.

`QueueInv` says why If-Match is enough. Until the document is removed, its
revision only grows and tells what it contains (`BasesAreOlder`); a request
keeps what its client has read (`RequestsKeepBase`); and what a transaction has
compared is still so when it commits, since it holds the row, or the key that
nobody else can insert (`ComparisonsHold`). The last is where the row that
FOR UPDATE cannot lock, because it does not exist, is answered. Deletion takes
no part in this: a document that is removed and made again counts from 1, and
the theorem ends there, as the code does.

`GuardInv` says that every lease, in the file or in a hook's memory, goes back
to an approval that was given as it is (`LeasesAreApproved`), that a hook's decision is that of the
branch and script that are there or that changed since (`DecisionsAreCurrent`),
and that what runs was let through (`RunsAreUnblocked`).

`CourseInv` follows a run to its end. A group exists only once the runner has
spawned it, the row of a runner that watches names the group, and an id that
was released is used up. The first two carry `ReleasedRunLeftNoGroup`: what
`release()` asks about the group is asked about the right one. The last keeps a
row that left from coming back. `FailedRunHoldsNoActiveLease` needs two lemmas
about the registry: rows only age (`RowsOnlyAge`: a new row has a new id, and
one that stays keeps its manager and its group, and stays frozen), and a
registry whose integrity check fails fails for ever (`BrokenStaysBroken`, the
first finding below).

`CallInv` of Gateway says for each place of a call which checks it has passed,
and, since files may be replaced under it, of which copy: a mutation has passed
`PolicyGuard` with what the call itself read of adapter, registry, evidence and
clock (`MutationPassed`), the bridge decides on mutations only and starts
nothing (`BridgeCourse`), and the argv is the caller's, or that of the helper,
which read adapter and evidence again (`ArgvCourse`, `Outcome`). The theorems
then follow from lemmas on the guard alone, which has no state: `FirstRefusal`
is "ok" only if every check is. `IssueIsTheActors` is about the argv as its
reader parses it, where the first option of a name counts: the contract binds
the first repository, assignee and issue option to the issue's own
(`BindsFirst`), and no word that is filled in before them is such an option.

`RoundInv` of QaRound is about git. A place changes only files of its own device
(`OwnPath`), so a clone that is alone on its device, the coordinator's included,
is always `Current`: nobody has changed what it has changed. That is why it can
merge, and why it is never stuck. What a clone has committed besides claims is
never undone (`Stays`), so a receipt that reached the origin stays, and no merge
parts an end receipt from its start.

`ClaimsInv` says why git keeps two sessions of one device apart. A claim that
counts, granted or under way and not expired (`Firm`), is what the origin has
(once pushed), and no clone has a change that was made on top of it
(`Harmless`): such a change could replace it. A session that pulls sees the
claim and does not take the bundle; a session that had changed the file before
conflicts with it and fails. If a claim may expire while it is under way, this
breaks, and so does the property: TLC finds `OneHolderPerDevice` violated when
`SlowPush` is true, so the hypothesis cannot be dropped.

`OverlapInv` bounds what happens between devices. A session reads the round
again before its claim is granted, and of the live claims it finds the last of
the listing wins; so a claim that is granted beside another is further down.
That there is a last one uses that devices are finitely many. The order of two
grants says nothing of a pair that was done in between, which is the second way
the property names.

`CloseInv` holds of every closing text, pushed or not: the coordinator closes
what it sees done; it sees no receipts but the origin's, because its clone has
none of its own; and the origin keeps them. The ledger's part, and
`InTimeDecides`, are inductions over the receipts in the order of time. The
provers cannot use the library's induction theorems, so these argue from the
least number for which the claim would fail (`LeastNumber`, from the theorem
that < on Nat is well-founded): `VerdictsExist`, without which the recursive
function would be any value at all, and `VerdictsDecide`.

What stays with TLC: the liveness properties `ExpiredIsReaped`,
`LostLeaseStopsChild`, `EndedChildEndsRun` and `FailedRunLosesItsLease`, since the prover has no
`ENABLED`; and that the inductive invariants are not vacuous, which the runs
show by reaching the states they speak of.

## 5. Findings

Each is a run that is expected to fail, with the counterexample as its result.

1. **A reaped parent makes the registry unusable** (`MCRegistryOrphan`,
   `adk_resources.py:340`). `release()` refuses while a lease has children;
   reaping does not look. Once a frozen parent is dropped under a live child,
   the integrity check of every transaction raises `registry_corrupt`, the
   child's own release and `reap --force` included.
2. **A dead manager makes reads fail** (`MCRegistryDeadManager`,
   `adk_resources.py:103`). `process_identity()` uses `subprocess` without
   importing it. Until the lease of a dead process expires, `status()` and,
   under automatic expiry, every acquisition raise.
3. **Two devices keep one bundle** (`MCQaExclusive`, `qa-round.mjs:295`). The
   rule is that the earlier claim wins; the code keeps the claim that comes
   last in the directory listing. `OverlapOnlyUpwards` bounds the damage.

Noticed while modelling, without a run of their own.
- *Registry and runner*: reaping does not look at the process group, so a runner
  that is late is reaped while its command works and a conflicting command may
  start beside it (`WorkLosesLeaseOnlyByReaping` names the ways this happens);
  a command is started on a status that may be out of date, and may contend
  until its binding or first heartbeat is refused (`LostLeaseStopsChild`);
  `max_lease_seconds` is required in the policy and never read.
- *QA round*: a claim replaces the device's previous claim file, so counting
  claim files does not number attempts, and a session can finish on another
  session's start; repeating `finish` after the claim has expired overwrites an
  end receipt that was in time with a late one; `start` and `finish` do not look
  whether the round is closed, so the final ledger may lack receipts that are
  pushed around the close or after it (every pair has its verdict all the same);
  the commit of a claim that was given up is
  published by the session's next command; the check of `validate()` for two
  live claims of one pair cannot fire, since `deriveState()` keeps one per pair.
- *Gateway*: `README.md:123-125` and `dcg.sh:407-410` say that `service` is
  never forwarded to a project backend; under the operation `launch`,
  `service restart` passes the gate (`dcg.sh:140-143`) and is forwarded to a
  backend that is alive (`dcg.sh:426`). `README.md:137-141` says that the bridge
  returns the exact `argv`; it returns directories and identities
  (`project-policy-bridge.mjs:158-167`). A capability whose command is itself
  called `--revision` passes the adapter's checks (`adapter-contract.mjs:251-253`
  look for the option in the whole argv, `project-backend-command.mjs` only
  behind the command), and then gets no revision. An adapter of the local profile that
  enables the gateway fails every operation that needs the registry, for it
  names no roles.
- *Live queue*: two first writes in Postgres do not conflict but fail on the
  primary key, which the client sees as an error of the server and not as a
  conflict; a revision starts again at 1 after a deletion, and after a restart of
  the memory store, so an old If-Match may fit a new document.
- *Pre-tool guard*: a hook that fails itself lets the command through
  (`pretool-guard-hook.mjs:54-58`), and so does one whose policy file is missing,
  as far as the policy's own patterns go. `gitPushViolation` passes over `-C` and
  `--git-dir` (`pretool-guard.mjs:87-90`) and judges a push in another repository
  by the branch of this one. A remote script is read by the hook and again by
  the command. An earlier script that needs approval hides a later one that
  would be denied (`pretool-guard.mjs:187-207`): who approves the command
  approves both.

## 6. What is not shown

*Registry.* The event history (written, never read), file permissions, name
syntax and the policy digest: the policy is constant, and a changed policy file
refuses every operation. The total age of a lease is not kept. `acquire()` of
the library may be called without a path for the receipt; the command line
always gives one, and only with one does `LeaseHasReceipt` speak of the lease. A host reboot is
the death of all managers and groups, one by one.

*Runner.* Contents and output of commands; that a group id may be reused by the
OS; the plain subcommands of `adk-resource.py`, which are single registry
operations and are covered by ResourceRegistry.

*QA round.* `open` (its result is `Init`), `status` and `validate` (they change
nothing), the mode without synchronisation, the contents of results and
candidates. The five attempts at a push are not counted: a command may give up
whenever it waits, which is more than the code does. Clocks of devices agree.
Every session has a clone of its own, and passes `--session` always or never;
commands of one clone run one after the other. A crash is modelled while a command waits for the network. A
conflict that `--autostash` leaves behind counts as a failed rebase.

*Gateway.* The clock that tests inject; `request-recipient.mjs` and
`messaging-contract.mjs` (whom to answer, and in which words); what the commands
do. A review must be independent of assignee and executor, an approval only of
the assignee: who approves a deploy may start it, and `NobodyDeploysAlone` says
no more than that. Directories do not move while a call looks at them.

*Live queue.* `list`, the limits on number and size, HTTP parsing and
authentication. A revision identifies a document only until it is removed; what
is lost after that is not bounded.

*Pre-tool guard.* How a command line is parsed, and whether the patterns see
through every way to write a command. The hook's own failure, and a git that
does not answer. Between hook and tool branch and script may change; the theorem
says that nothing else makes a difference. What is checked out in another
repository is not modelled: of a push there only the branches it names are.

*The rest of the system*: see the components and `hazards` in `PROJECT.json`,
each with its reason.

## 7. Plan

In this order. The set of runs stays one per question, so a step that brings a
run first merges two that ask nearly the same.

1. **Watchdog and notifications**: overlapping runs of the timer that take the
   clock before the lock, the cooldown, failed deliveries; streaks and the
   contact window. Property: a recovery follows an incident that was sent, and
   at most one alert falls into a cooldown.
2. **Dashboard**: the node table at its limit, and the issue cache between the
   refresh thread and the requests.
3. Proofs: a specification of ownership, per device, that QaRound implements
   for sessions of one device; what VersionedRegister promises of deletions.
