------------------------------- MODULE Gateway -------------------------------
(***************************************************************************)
(* From a message to a command.  ops/gateway/dcg.sh asks the policy guard  *)
(* and then starts the project's backend or the native runtime;            *)
(* project-policy-bridge.mjs asks the policy guard for a runtime that      *)
(* starts its own backend.  Both read the adapter, the participant         *)
(* registry, the evidence of the issue and the clock, each at its own      *)
(* moment, and the owner may replace any of the files between two reads.   *)
(*                                                                         *)
(* Calls share nothing but the files they read, so there is one at a time. *)
(***************************************************************************)
EXTENDS PolicyGuard, NativeCommands

CONSTANTS
    Adapter, Registry, Evidence,   \* what the files may contain
    Instant,                       \* the minutes of the week looked at
    Request,                       \* what is asked of gateway and bridge
    NativeModule,                  \* what may lie under NAIA_ADK_ROOT
    Contract,                      \* native-command-contract.json
    None                           \* nothing was read

\* Token lists are lists.  The values a command line is filled with are names
\* of repositories and revisions, issue numbers and logins of the tracker:
\* none looks like a flag.
ASSUME GatewayAssumption ==
    /\ None \notin Request
    /\ Instant \subseteq Int
    /\ Revision \cap Flag = {}
    /\ \A a \in Adapter :
          /\ a.repository \notin Flag
          /\ \A name \in DOMAIN a.issue_work : a.issue_work[name] \in Seq(STRING)
          /\ \A name \in DOMAIN a.capabilities :
                 a.capabilities[name].argv \in Seq(STRING)
    /\ \A e \in Evidence : {e.assignee, ToString(e.number)} \cap Flag = {}

VARIABLES
    adapter, registry, evidence,   \* the files
    clock,
    pc,                            \* the next step of the call
    request,
    stamp,                         \* nowMs of the bridge
    readAdapter, participants,     \* what the guard has read
    readEvidence,
    workAt, actorAt,               \* when it looked at the two windows
    argvAdapter,                   \* what the argv helper has read
    result

files    == <<adapter, registry, evidence, clock>>
decision == <<readAdapter, participants, readEvidence, workAt, actorAt>>
vars     == <<files, pc, request, stamp, decision, argvAdapter, result>>

-----------------------------------------------------------------------------
(* dcg.sh up to the guard: operation, command and arguments fit together. *)

HighImpact == {"production-deploy", "database-write", "rollback"}

NativeReadCommands == {"status", "health-check", "jobs", "job", "watch", "logs",
                       "monitor", "history", "latest"}

NativeRuntimeCommands ==
    NativeReadCommands \cup {"cancel", "restart", "amend", "submit", "attachment",
                             "reply", "service", "cutover", "artifacts"}

ManagedCommands ==
    ({"service"} \X {"status", "start", "stop", "restart", "unit"})
        \cup ({"cutover"} \X {"prepare", "verify", "canary", "rollback"})

Subcommand(req) == IF req.args = <<>> THEN "" ELSE req.args[1]

NativeReadonly(req) ==
    \/ req.command \in NativeReadCommands
    \/ req.command = "artifacts" /\ Subcommand(req) = "list"

PolicyOperation(req) ==
    IF req.operation # "" THEN req.operation
    ELSE IF NativeReadonly(req) THEN "read-only"
    ELSE IF req.command \in {"service", "cutover", "cancel"} THEN "runtime-management"
    ELSE ""

OperationFits(req) ==
    LET operation == PolicyOperation(req) IN
    CASE operation = "read-only" -> NativeReadonly(req)
      [] operation = "launch" ->
             req.command = "service" /\ Subcommand(req) \in {"start", "stop", "restart"}
      [] operation = "runtime-management" ->
             \/ <<req.command, Subcommand(req)>> \in ManagedCommands
             \/ req.command = "cancel" /\ HasOne(req.args, "--job") /\ Len(req.args) = 2
      [] operation = "contact-window" -> req.command = "contact-window" /\ req.args = <<>>
      [] operation = "issue-work" ->
             /\ req.command \in IssueWorkCommands
             /\ req.command = "restart" => HasOne(req.args, "--job")
      [] operation = "attachment-download" ->
             req.command = "attachment" /\ HasOne(req.args, "--output")
      [] operation \in HighImpact -> req.command \notin NativeRuntimeCommands
      [] OTHER -> FALSE

\* The revision of a high-impact operation is the one in its arguments.
RevisionFits(req) ==
    IF PolicyOperation(req) \in HighImpact
    THEN /\ HasOne(req.args, "--revision")
         /\ ValueOf(req.args, "--revision") \in Revision
         /\ req.revision \in {"", ValueOf(req.args, "--revision")}
    ELSE Occurrences(req.args, "--revision") = {}

GateAccepts(req) ==
    LET operation == PolicyOperation(req) IN
    /\ OperationFits(req)
    /\ ValidateNativeCommandInvocation(Contract, req.command, req.args, req.output)
    /\ req.instance => operation \notin Mutation
    /\ RevisionFits(req)
    /\ operation \in HighImpact => req.backend = "project" /\ req.ctl
    /\ operation \in Mutation \cup {"attachment-download"} =>
           req.workspace \in DOMAIN Canonical

GatewayCall(req) ==
    [operation |-> PolicyOperation(req),
     command   |-> req.command,
     args      |-> req.args,
     sender    |-> req.sender,
     alias     |-> req.alias,
     workspace |-> req.workspace,
     output    |-> req.output,
     revision  |-> IF PolicyOperation(req) \in HighImpact
                   THEN ValueOf(req.args, "--revision") ELSE req.revision]

-----------------------------------------------------------------------------
(* The bridge up to the guard.  A request to it is a route of the host and *)
(* the input of the runtime; `routeSound' and `inputSound' are the checks  *)
(* of the shape of their fields.                                           *)

FileExists(file) == file.state # "missing"

ValidateRoute(req) ==
    /\ req.routeSound
    /\ req.operation \in Mutation
    /\ req.workspace \in DOMAIN Canonical
    /\ FileExists(adapter)
    /\ FileExists(registry)
    /\ FileExists(evidence)
    /\ req.revision \in Revision \cup {""}

ValidateInput(req) ==
    /\ req.inputSound
    /\ req.profile.sender = req.sender
    /\ req.cwd \in DOMAIN Canonical
    /\ req.allowedPaths \subseteq DOMAIN Canonical
    /\ Canonical[req.cwd] \in {Canonical[p] : p \in req.allowedPaths}
    /\ req.access # "read-only"

SameIdentity(req, a) ==
    FirstRefusal(
        <<Require(Canonical[req.workspace] = Canonical[req.cwd], "workspace"),
          Require(/\ req.project = a.project
                  /\ req.project = req.profile.project
                  /\ req.routeSender = req.sender
                  /\ req.sameBinding
                  /\ req.alias = req.profile.alias, "identity")>>)

\* The adapter as everybody but the guard reads it.
AdapterText(a) == IF a.state = "present" THEN AdapterContract(a) ELSE "adapter"

BridgeCall(req) ==
    [operation |-> req.operation,
     command   |-> req.command,
     args      |-> req.args,
     sender    |-> req.sender,
     alias     |-> req.alias,
     workspace |-> req.cwd,
     revision  |-> req.revision]

RouteReason(label) ==
    CASE label \in {"window", "contact_window"} -> "window_closed"
      [] label \in {"workspace", "output"} -> "workspace_mismatch"
      [] label \in {"registry", "role", "sender", "actor", "participant", "assignee",
                    "approval", "authority", "revision", "identity",
                    "production_deploy_role", "issue_work_roles", "database_authority",
                    "chat_grants_authority", "issue_assignee", "guards"} ->
             "authority_changed"
      [] label \in {"exception", "reviewer", "approver", "restart_job"} ->
             "participant_rejected"
      [] OTHER -> "contract_invalid"

-----------------------------------------------------------------------------
Call == IF request.via = "bridge" THEN BridgeCall(request) ELSE GatewayCall(request)

\* The guard looks at the clock, unless the bridge gave it an instant.
Now == IF request.via = "bridge" THEN stamp ELSE clock

Actor == RowOfSender(participants, request.sender)

\* Faulty variant: the reason is lost.
RefusedSilently(label) == pc' = "done" /\ UNCHANGED result

Refused(label) ==
    /\ pc' = "done"
    /\ result' = [kind   |-> "refused",
                  reason |-> IF request.via = "bridge" THEN RouteReason(label) ELSE label]

\* The step passes, or the call ends with its refusal.
PassesTo(next, refusal) ==
    IF refusal = "ok" THEN pc' = next /\ UNCHANGED result ELSE Refused(refusal)

Executed(kind, command, args, of) ==
    /\ pc' = "done"
    /\ result' = [kind |-> kind, command |-> command, args |-> args, evidence |-> of]

Pending == [kind |-> "pending"]

Init ==
    /\ adapter \in Adapter /\ registry \in Registry /\ evidence \in Evidence
    /\ clock \in Instant
    /\ pc = "idle" /\ request = None /\ stamp = None
    /\ readAdapter = None /\ participants = {} /\ readEvidence = None
    /\ workAt = None /\ actorAt = None
    /\ argvAdapter = None /\ result = Pending

\* A call begins.  What the gateway does not understand goes no further.
Begin ==
    /\ pc = "idle"
    /\ \E req \in Request :
           /\ req.via = "gateway" => GateAccepts(req)
           /\ request' = req
           /\ pc' = IF req.via = "bridge" THEN "route" ELSE "adapter"
    /\ stamp' = clock
    /\ UNCHANGED <<files, decision, argvAdapter, result>>

\* readRoute(): the route is looked at when the bridge starts ...
ReadRoute ==
    /\ pc = "route"
    /\ IF ValidateRoute(request)
       THEN pc' = "authorize" /\ UNCHANGED result
       ELSE /\ pc' = "done"
            /\ result' = [kind |-> "refused", reason |-> "route_unavailable"]
    /\ UNCHANGED <<files, request, stamp, decision, argvAdapter>>

\* ... and again with the input, and an adapter that is read for it.
Authorize ==
    /\ pc = "authorize"
    /\ PassesTo("adapter",
           IF ~(ValidateRoute(request) /\ ValidateInput(request)) THEN "exception"
           ELSE IF AdapterText(adapter) # "ok" THEN "adapter"
           ELSE SameIdentity(request, adapter))
    /\ UNCHANGED <<files, request, stamp, decision, argvAdapter>>

\* The guard reads the adapter.
ReadAdapter ==
    /\ pc = "adapter"
    /\ readAdapter' = adapter
    /\ LET refusal == AdapterRefusal(adapter, Call.operation) IN
       IF refusal = "ok" /\ Call.operation = "contact-window"
       THEN PassesTo("checked", RequireCurrentWindow(adapter.contact_window, Now))
       ELSE PassesTo(IF Call.operation \in NeedsNoParticipant THEN "dispatch" ELSE "registry",
                     refusal)
    /\ UNCHANGED <<files, request, stamp, participants, readEvidence, workAt, actorAt,
                   argvAdapter>>

ReadRegistry ==
    /\ pc = "registry"
    /\ PassesTo(IF Call.operation \in Mutation THEN "work" ELSE "actor",
                RegistryRefusal(readAdapter, registry))
    /\ participants' = IF RegistryRefusal(readAdapter, registry) = "ok"
                       THEN LoadParticipants(readAdapter, registry) ELSE {}
    /\ UNCHANGED <<files, request, stamp, readAdapter, readEvidence, workAt, actorAt,
                   argvAdapter>>

CheckWorkWindow ==
    /\ pc = "work"
    /\ workAt' = Now
    /\ PassesTo("actor", RequireCurrentWindow(readAdapter.work_hours, Now))
    /\ UNCHANGED <<files, request, stamp, readAdapter, participants, readEvidence, actorAt,
                   argvAdapter>>

CheckActor ==
    /\ pc = "actor"
    /\ actorAt' = Now
    /\ PassesTo(IF Call.operation \in Mutation THEN "evidence" ELSE "dispatch",
                ActorRefusal(participants, Call, Now))
    /\ UNCHANGED <<files, request, stamp, readAdapter, participants, readEvidence, workAt,
                   argvAdapter>>

\* The last read decides.  The bridge is done with it.
ReadEvidence ==
    /\ pc = "evidence"
    /\ readEvidence' = evidence
    /\ LET refusal == EvidenceRefusal(Call, readAdapter, participants, Actor, evidence) IN
       IF refusal = "ok" /\ request.via = "bridge"
       THEN Executed("allowed", Call.command, Call.args, evidence)
       ELSE PassesTo("dispatch", refusal)
    /\ UNCHANGED <<files, request, stamp, readAdapter, participants, workAt, actorAt,
                   argvAdapter>>

-----------------------------------------------------------------------------
(* dcg.sh after the guard.  None of these steps is taken by the bridge.    *)

\* A contact window is looked at, and nothing more.
Checked ==
    /\ pc = "checked"
    /\ Executed("checked", Call.command, Call.args, None)
    /\ UNCHANGED <<files, request, stamp, decision, argvAdapter>>

DispatchIssue ==
    /\ pc = "dispatch"
    /\ Call.operation = "issue-work"
    /\ PassesTo("argv", Require(request.backend = "project" /\ request.ctl, "backend"))
    /\ UNCHANGED <<files, request, stamp, decision, argvAdapter>>

\* The helper that makes the argv reads adapter and evidence for itself.
ReadArgvAdapter ==
    /\ pc = "argv"
    /\ argvAdapter' = adapter
    /\ PassesTo("argv evidence", AdapterText(adapter))
    /\ UNCHANGED <<files, request, stamp, decision>>

ReadArgvEvidence ==
    /\ pc = "argv evidence"
    /\ LET refusal == BackendArgsRefusal(argvAdapter, evidence, Call.command, Call.args) IN
       IF refusal = "ok"
       THEN Executed("project", Call.command,
                     Tail(DelegatedArgs(argvAdapter.issue_work[Call.command], Call.args,
                                        evidence)), evidence)
       ELSE Refused(refusal)
    /\ UNCHANGED <<files, request, stamp, decision, argvAdapter>>

StartNative ==
    \E module \in NativeModule :
        IF request.script /\ ValidateNativeDependency(Contract, module)
        THEN Executed("native", Call.command, Call.args, None)
        ELSE Refused("native")

OwnerLocal == {"runtime-management", "attachment-download"}

DispatchNative ==
    /\ pc = "dispatch"
    /\ Call.operation \in OwnerLocal
    /\ IF request.backend # "project" THEN StartNative ELSE Refused("backend")
    /\ UNCHANGED <<files, request, stamp, decision, argvAdapter>>

DispatchHighImpact ==
    /\ pc = "dispatch"
    /\ Call.operation \in HighImpact
    /\ Executed("project", Call.command, Call.args, readEvidence)
    /\ UNCHANGED <<files, request, stamp, decision, argvAdapter>>

\* The project's backend if it was chosen or is alive, else the runtime.
DispatchReading ==
    /\ pc = "dispatch"
    /\ Call.operation \in {"read-only", "launch"}
    /\ \E alive \in BOOLEAN :
           IF /\ request.ctl
              /\ request.backend = "project" \/ (request.backend = "auto" /\ alive)
           THEN Executed("project", Call.command, Call.args, None)
           ELSE IF request.backend # "project" THEN StartNative ELSE Refused("backend")
    /\ UNCHANGED <<files, request, stamp, decision, argvAdapter>>

Finish ==
    /\ pc = "done"
    /\ pc' = "idle" /\ request' = None /\ stamp' = None
    /\ readAdapter' = None /\ participants' = {} /\ readEvidence' = None
    /\ workAt' = None /\ actorAt' = None
    /\ argvAdapter' = None /\ result' = Pending
    /\ UNCHANGED files

-----------------------------------------------------------------------------
(* The owner replaces a file, and time passes. *)

Replace ==
    /\ \/ adapter' \in Adapter /\ UNCHANGED <<registry, evidence>>
       \/ registry' \in Registry /\ UNCHANGED <<adapter, evidence>>
       \/ evidence' \in Evidence /\ UNCHANGED <<adapter, registry>>
    /\ UNCHANGED <<clock, pc, request, stamp, decision, argvAdapter, result>>

Pass ==
    /\ clock' \in Instant
    /\ UNCHANGED <<adapter, registry, evidence, pc, request, stamp, decision, argvAdapter,
                   result>>

Guard == \/ ReadAdapter \/ ReadRegistry \/ CheckWorkWindow \/ CheckActor \/ ReadEvidence

Dispatch ==
    \/ Checked \/ DispatchIssue \/ ReadArgvAdapter \/ ReadArgvEvidence
    \/ DispatchNative \/ DispatchHighImpact \/ DispatchReading

GatewayNext ==
    \/ Begin \/ ReadRoute \/ Authorize \/ Guard \/ Dispatch \/ Finish
    \/ Replace \/ Pass

GatewaySpec == Init /\ [][GatewayNext]_vars

-----------------------------------------------------------------------------
(* Properties. *)

Place == {"idle", "route", "authorize", "adapter", "registry", "work", "actor", "evidence",
          "checked", "dispatch", "argv", "argv evidence", "done"}

\* The variables have their types, and a call is over exactly when it has a
\* result.
GatewayTypeOK ==
    /\ adapter \in Adapter /\ registry \in Registry /\ evidence \in Evidence
    /\ clock \in Instant
    /\ pc \in Place
    /\ request \in Request \cup {None}
    /\ {stamp, workAt, actorAt} \subseteq Instant \cup {None}
    /\ {readAdapter, argvAdapter} \subseteq Adapter \cup {None}
    /\ readEvidence \in Evidence \cup {None}
    /\ participants \subseteq UNION {ToSet(r.rows) : r \in Registry}
    /\ pc = "idle" <=> request = None
    /\ pc = "done" <=> result.kind # "pending"

Granted(operations) ==
    /\ pc = "done"
    /\ result.kind \in {"project", "allowed"}
    /\ Call.operation \in operations

\* The value behind the first occurrence of a flag.
FirstValueOf(args, flag) ==
    args[(CHOOSE i \in DOMAIN args :
              /\ args[i] = flag
              /\ \A j \in DOMAIN args : j < i => args[j] # flag) + 1]

\* Two people stand behind a production deploy that was granted: the assignee
\* of the issue, and somebody else, a release owner, who approved or reviewed
\* the very revision that was asked for, which is the one in the argv if there
\* is one.  They are two senders, not only two aliases (policy-guard.mjs,
\* production-deploy).
NobodyDeploysAlone ==
    Granted({"production-deploy"}) =>
        \E assignee, owner \in participants :
            /\ assignee.alias = readEvidence.assignee
            /\ owner.sender # assignee.sender
            /\ HasRole(owner, readAdapter.roles.release_owners)
            /\ \E word \in {readEvidence.approval, readEvidence.review} :
                   /\ word.by = owner.alias
                   /\ word.revision = Call.revision
                   /\ "--revision" \in ToSet(result.args) =>
                          word.revision = FirstValueOf(result.args, "--revision")

\* The issue a backend is told to work on belongs to the repository of the
\* adapter, whatever was replaced since the decision, and its assignee is the
\* authenticated sender unless the evidence itself was replaced (dcg.sh
\* decides with one reading of the files and makes the argv from another).
IssueIsTheActors ==
    Granted({"issue-work"}) /\ result.kind = "project" =>
        /\ FirstValueOf(result.args, "--issue-repository") = argvAdapter.repository
        /\ \/ result.evidence # readEvidence
           \/ FirstValueOf(result.args, "--issue-assignee") = Actor.alias

\* The reference: a minute is in a weekly window when it lies at most
\* `to - from' minutes behind the start of the window on one of its days.
InWindow(timezone, days, from, to, t) ==
    \E d \in ToSet(days) : (t + Offset[timezone] - (d - 1) * Day - from) % Week < to - from

InWorkHours(a, t) ==
    LET w == a.work_hours
    IN  InWindow(w.timezone, w.days, 60 * w.start_hour, 60 * w.end_hour, t)

InOwnWindow(row, t) ==
    \A i \in DOMAIN row.window :
        LET w == row.window[i] IN InWindow(w.timezone, w.days, w.start, w.end, t)

\* No mutation is granted outside the work hours of the project or the window
\* of the sender, each at the moment it was looked at; for the bridge that is
\* the instant the runtime named, however long the decision takes.
MutationsInsideWindows ==
    Granted(Mutation) =>
        /\ InWorkHours(readAdapter, workAt)
        /\ InOwnWindow(Actor, actorAt)
        /\ request.via = "bridge" => {workAt, actorAt} = {stamp}

\* When the bridge answers that a window is closed, one is, at the instant of
\* the request.  The exception is an adapter that was replaced between its two
\* readings by one whose contact window is missing or broken: the reason is
\* taken from the words of the message (project-policy-bridge.mjs,
\* routeErrorReason).
WindowReasonIsTrue ==
    pc = "done" /\ request.via = "bridge" /\ result.kind = "refused"
        /\ result.reason = "window_closed" =>
            \/ AdapterContract(readAdapter) = "contact_window"
            \/ ~InWorkHours(readAdapter, stamp)
            \/ ~InOwnWindow(Actor, stamp)
=============================================================================
