---------------------------- MODULE GatewayProofs ----------------------------
(* Theorems about the way from a message to a command. *)
EXTENDS Gateway, TLAPS, SequenceTheorems

-----------------------------------------------------------------------------
(* Refusals. *)

\* Checks are refused for one of their reasons, and pass only if all pass.
LEMMA FirstRefusalIsOne ==
    ASSUME NEW checks, NEW n \in 1 .. 7, DOMAIN checks = 1 .. n
    PROVE  /\ FirstRefusal(checks) = "ok" <=> \A i \in 1 .. n : checks[i] = "ok"
           /\ \E i \in 1 .. n : FirstRefusal(checks) = checks[i]
<1> DEFINE First(i) == /\ checks[i] # "ok"
                       /\ \A j \in DOMAIN checks : j < i => checks[j] = "ok"
<1>1. CASE \A i \in 1 .. n : checks[i] = "ok"
  BY <1>1 DEF FirstRefusal
<1>2. CASE \E i \in 1 .. n : checks[i] # "ok"
  <2>1. \E i \in DOMAIN checks : First(i)
    <3> QED
      BY <1>2
  <2>2. First(CHOOSE i \in DOMAIN checks : First(i))
             /\ (CHOOSE i \in DOMAIN checks : First(i)) \in 1 .. n
    BY <2>1
  <2>3. FirstRefusal(checks) = checks[CHOOSE i \in DOMAIN checks : First(i)]
    BY <1>2 DEF FirstRefusal
  <2> QED
    BY <1>2, <2>2, <2>3
<1> QED
  BY <1>1, <1>2

LEMMA RefusalOf2 ==
    ASSUME NEW a, NEW b
    PROVE  LET r == FirstRefusal(<<a, b>>) IN
           /\ r = "ok" <=> a = "ok" /\ b = "ok"
           /\ r \in {a, b}
<1>1. DOMAIN <<a, b>> = 1 .. 2
  OBVIOUS
<1>2. \A i \in 1 .. 2 : i = 1 \/ i = 2
  OBVIOUS
<1> QED
  BY <1>1, <1>2, FirstRefusalIsOne

LEMMA RefusalOf3 ==
    ASSUME NEW a, NEW b, NEW c
    PROVE  LET r == FirstRefusal(<<a, b, c>>) IN
           /\ r = "ok" <=> a = "ok" /\ b = "ok" /\ c = "ok"
           /\ r \in {a, b, c}
<1>1. DOMAIN <<a, b, c>> = 1 .. 3
  OBVIOUS
<1>2. \A i \in 1 .. 3 : i = 1 \/ i = 2 \/ i = 3
  OBVIOUS
<1> QED
  BY <1>1, <1>2, FirstRefusalIsOne

LEMMA RefusalOf4 ==
    ASSUME NEW a, NEW b, NEW c, NEW d
    PROVE  LET r == FirstRefusal(<<a, b, c, d>>) IN
           /\ r = "ok" <=> a = "ok" /\ b = "ok" /\ c = "ok" /\ d = "ok"
           /\ r \in {a, b, c, d}
<1>1. DOMAIN <<a, b, c, d>> = 1 .. 4
  OBVIOUS
<1>2. \A i \in 1 .. 4 : i = 1 \/ i = 2 \/ i = 3 \/ i = 4
  OBVIOUS
<1> QED
  BY <1>1, <1>2, FirstRefusalIsOne

LEMMA RefusalOf5 ==
    ASSUME NEW a, NEW b, NEW c, NEW d, NEW e
    PROVE  LET r == FirstRefusal(<<a, b, c, d, e>>) IN
           /\ r = "ok" <=> a = "ok" /\ b = "ok" /\ c = "ok" /\ d = "ok" /\ e = "ok"
           /\ r \in {a, b, c, d, e}
<1>1. DOMAIN <<a, b, c, d, e>> = 1 .. 5
  OBVIOUS
<1>2. \A i \in 1 .. 5 : i = 1 \/ i = 2 \/ i = 3 \/ i = 4 \/ i = 5
  OBVIOUS
<1> QED
  BY <1>1, <1>2, FirstRefusalIsOne

LEMMA RefusalOf6 ==
    ASSUME NEW a, NEW b, NEW c, NEW d, NEW e, NEW f
    PROVE  LET r == FirstRefusal(<<a, b, c, d, e, f>>) IN
           /\ r = "ok" <=> a = "ok" /\ b = "ok" /\ c = "ok" /\ d = "ok" /\ e = "ok" /\ f = "ok"
           /\ r \in {a, b, c, d, e, f}
<1>1. DOMAIN <<a, b, c, d, e, f>> = 1 .. 6
  OBVIOUS
<1>2. \A i \in 1 .. 6 : i = 1 \/ i = 2 \/ i = 3 \/ i = 4 \/ i = 5 \/ i = 6
  OBVIOUS
<1> QED
  BY <1>1, <1>2, FirstRefusalIsOne

LEMMA RefusalOf7 ==
    ASSUME NEW a, NEW b, NEW c, NEW d, NEW e, NEW f, NEW g
    PROVE  LET r == FirstRefusal(<<a, b, c, d, e, f, g>>) IN
           /\ r = "ok" <=> a = "ok" /\ b = "ok" /\ c = "ok" /\ d = "ok" /\ e = "ok" /\ f = "ok" /\ g = "ok"
           /\ r \in {a, b, c, d, e, f, g}
<1>1. DOMAIN <<a, b, c, d, e, f, g>> = 1 .. 7
  OBVIOUS
<1>2. \A i \in 1 .. 7 : i = 1 \/ i = 2 \/ i = 3 \/ i = 4 \/ i = 5 \/ i = 6 \/ i = 7
  OBVIOUS
<1> QED
  BY <1>1, <1>2, FirstRefusalIsOne

-----------------------------------------------------------------------------
(* Windows. *)

\* A minute is behind the start of a window by less than its length exactly
\* when its day is the day of the window and its minute of the day is between
\* start and end: no window goes over midnight.
LEMMA MinuteInWindow ==
    ASSUME NEW x \in Int, NEW d \in 1 .. 7, NEW from \in Int, NEW to \in Int,
           0 <= from, from < to, to <= Day
    PROVE  (x - (d - 1) * Day - from) % Week < to - from
               <=> /\ (x % Week) \div Day + 1 = d
                   /\ from <= (x % Week) % Day
                   /\ (x % Week) % Day < to
  BY DEF Week, Day

\* The computation by day and minute of the day agrees with the reference.
LEMMA WindowIsReference ==
    ASSUME NEW tz \in DOMAIN Offset, NEW days, ToSet(days) \subseteq 1 .. 7,
           NEW from \in Int, NEW to \in Int, 0 <= from, from < to, to <= Day,
           NEW t \in Int
    PROVE  InWindow(tz, days, from, to, t)
               <=> /\ LocalDay(tz, t) \in ToSet(days)
                   /\ from <= MinuteOfDay(tz, t)
                   /\ MinuteOfDay(tz, t) < to
<1>1. Offset[tz] \in Int /\ t + Offset[tz] \in Int
  BY OffsetAssumption
<1>2. ASSUME NEW d \in ToSet(days)
      PROVE  (t + Offset[tz] - (d - 1) * Day - from) % Week < to - from
                 <=> /\ LocalDay(tz, t) = d
                     /\ from <= MinuteOfDay(tz, t)
                     /\ MinuteOfDay(tz, t) < to
  <2> DEFINE x == t + Offset[tz]
  <2>1. x \in Int /\ d \in 1 .. 7
    BY <1>1
  <2> HIDE DEF x
  <2>2. (x - (d - 1) * Day - from) % Week < to - from
            <=> /\ (x % Week) \div Day + 1 = d
                /\ from <= (x % Week) % Day
                /\ (x % Week) % Day < to
    BY <2>1, MinuteInWindow
  <2>3. LocalDay(tz, t) = (x % Week) \div Day + 1 /\ MinuteOfDay(tz, t) = (x % Week) % Day
    BY Zenon DEF LocalDay, MinuteOfDay, LocalMinute, x
  <2>4. t + Offset[tz] - (d - 1) * Day - from = x - (d - 1) * Day - from
    BY <1>1, <2>1 DEF x, Day
  <2> QED
    BY <2>2, <2>3, <2>4, Zenon
<1> QED
  BY <1>2, Zenon DEF InWindow

LEMMA ScheduleIsReference ==
    ASSUME NEW s, RequireSchedule(s), NEW t \in Int
    PROVE  ContactWindowStatus(s, t)
               <=> InWindow(s.timezone, s.days, 60 * s.start_hour, 60 * s.end_hour, t)
<1>1. /\ s.timezone \in DOMAIN Offset
      /\ ToSet(s.days) \subseteq 1 .. 7
      /\ s.start_hour \in 0 .. 24 /\ s.end_hour \in 0 .. 24
      /\ s.start_hour < s.end_hour
  BY DEF RequireSchedule, DaysAreValid
<1> DEFINE m == MinuteOfDay(s.timezone, t)
           x == t + Offset[s.timezone]
<1>2. m \in Int
  <2>1. x \in Int
    BY <1>1, OffsetAssumption
  <2> HIDE DEF x
  <2>2. (x % Week) % Day \in Int
    BY <2>1 DEF Week, Day
  <2> QED
    BY <2>2, Zenon DEF MinuteOfDay, LocalMinute, x
<1>3. /\ s.start_hour <= LocalHour(s.timezone, t) <=> 60 * s.start_hour <= m
      /\ LocalHour(s.timezone, t) < s.end_hour <=> m < 60 * s.end_hour
  <2>1. LocalHour(s.timezone, t) = m \div 60
    BY Zenon DEF LocalHour
  <2> HIDE DEF m
  <2> QED
    BY <1>1, <1>2, <2>1
<1>4. /\ 60 * s.start_hour \in Int /\ 60 * s.end_hour \in Int
      /\ 0 <= 60 * s.start_hour /\ 60 * s.start_hour < 60 * s.end_hour
      /\ 60 * s.end_hour <= Day
  BY <1>1 DEF Day
<1>5. InWindow(s.timezone, s.days, 60 * s.start_hour, 60 * s.end_hour, t)
         <=> /\ LocalDay(s.timezone, t) \in ToSet(s.days)
             /\ 60 * s.start_hour <= MinuteOfDay(s.timezone, t)
             /\ MinuteOfDay(s.timezone, t) < 60 * s.end_hour
  BY <1>1, <1>4, WindowIsReference
<1> QED
  BY <1>3, <1>5 DEF ContactWindowStatus

LEMMA OwnWindowIsReference ==
    ASSUME NEW w, NormalizeMutationWindow(w), NEW t \in Int
    PROVE  InWindow(w.timezone, w.days, w.start, w.end, t)
               <=> /\ LocalDay(w.timezone, t) \in ToSet(w.days)
                   /\ w.start <= MinuteOfDay(w.timezone, t)
                   /\ MinuteOfDay(w.timezone, t) < w.end
<1> DEFINE tz == w.timezone   days == w.days   from == w.start   to == w.end
<1>1. /\ tz \in DOMAIN Offset /\ ToSet(days) \subseteq 1 .. 7
      /\ from \in 0 .. Day - 1 /\ to \in 0 .. Day - 1 /\ from < to
  BY Zenon DEF NormalizeMutationWindow, DaysAreValid
<1> HIDE DEF tz, days, from, to
<1>2. from \in Int /\ to \in Int /\ 0 <= from /\ to <= Day
  BY <1>1 DEF Day
<1>3. InWindow(tz, days, from, to, t)
          <=> /\ LocalDay(tz, t) \in ToSet(days)
              /\ from <= MinuteOfDay(tz, t)
              /\ MinuteOfDay(tz, t) < to
  BY <1>1, <1>2, WindowIsReference
<1> QED
  BY <1>3, Zenon DEF tz, days, from, to

LEMMA MutationWindowIsReference ==
    ASSUME NEW row, RowIsValid(row), NEW t \in Int
    PROVE  MutationWindowStatus(row.window, t) <=> InOwnWindow(row, t)
<1>1. ASSUME NEW i \in DOMAIN row.window
      PROVE  /\ NormalizeMutationWindow(row.window[i])
             /\ LET w == row.window[i] IN
                InWindow(w.timezone, w.days, w.start, w.end, t)
                    <=> /\ LocalDay(w.timezone, t) \in ToSet(w.days)
                        /\ w.start <= MinuteOfDay(w.timezone, t)
                        /\ MinuteOfDay(w.timezone, t) < w.end
  <2>1. NormalizeMutationWindow(row.window[i])
    BY DEF RowIsValid
  <2> QED
    BY <2>1, OwnWindowIsReference, Zenon
<1> QED
  BY <1>1, Zenon DEF MutationWindowStatus, InOwnWindow

-----------------------------------------------------------------------------
(* The course of a call.  `Passed' facts are what the guard has found, and  *)
(* stay true of what it read whatever is replaced meanwhile.                *)

AdapterPassed ==
    /\ readAdapter \in Adapter
    /\ AdapterRefusal(readAdapter, Call.operation) = "ok"

RegistryPassed ==
    \E r \in Registry :
        /\ RegistryRefusal(readAdapter, r) = "ok"
        /\ participants = LoadParticipants(readAdapter, r)

WorkPassed ==
    /\ workAt \in Instant
    /\ RequireCurrentWindow(readAdapter.work_hours, workAt) = "ok"
    /\ request.via = "bridge" => workAt = stamp

ActorPassed ==
    /\ actorAt \in Instant
    /\ ActorRefusal(participants, Call, actorAt) = "ok"
    /\ request.via = "bridge" => actorAt = stamp

EvidencePassed ==
    /\ readEvidence \in Evidence
    /\ EvidenceRefusal(Call, readAdapter, participants, Actor, readEvidence) = "ok"

\* The guard has let the call through.
Allowed ==
    \/ pc \in {"dispatch", "argv", "argv evidence"}
    \/ pc = "done" /\ result.kind \in {"project", "allowed"}

\* A mutation has passed every check that lies behind it.
MutationPassed ==
    /\ pc \in {"registry", "work", "actor", "evidence"} \/ Allowed => AdapterPassed
    /\ pc \in {"work", "actor", "evidence"} \/ Allowed => RegistryPassed
    /\ pc \in {"actor", "evidence"} \/ Allowed => WorkPassed
    /\ pc = "evidence" \/ Allowed => ActorPassed
    /\ Allowed => EvidencePassed

\* The bridge asks for mutations only, and starts nothing itself.
BridgeCourse ==
    /\ pc \in {"authorize", "adapter", "registry", "work", "actor", "evidence"} =>
           Call.operation \in Mutation
    /\ pc \notin {"checked", "dispatch", "argv", "argv evidence"}

\* The argv of an issue command is made by the helper, from a contract it has
\* checked itself; every other command keeps the arguments it was asked with.
ArgvCourse ==
    /\ pc \in {"argv", "argv evidence"} => Call.operation = "issue-work"
    /\ pc = "argv evidence" => argvAdapter \in Adapter

MadeByHelper ==
    /\ argvAdapter \in Adapter
    /\ result.evidence \in Evidence
    /\ BackendArgsRefusal(argvAdapter, result.evidence, Call.command, Call.args) = "ok"
    /\ result.args = Tail(DelegatedArgs(argvAdapter.issue_work[Call.command], Call.args,
                                        result.evidence))

Outcome ==
    pc = "done" /\ result.kind \in {"project", "allowed"} =>
        IF Call.operation = "issue-work" /\ result.kind = "project"
        THEN MadeByHelper
        ELSE result.args = Call.args

\* The inductive invariant behind the theorems about what is granted.
CallInv ==
    /\ pc # "idle" => request \in Request /\ stamp \in Instant
    /\ pc # "idle" /\ request.via = "bridge" => BridgeCourse
    /\ pc # "idle" /\ Call.operation \in Mutation => MutationPassed
    /\ ArgvCourse
    /\ Outcome
    /\ WindowReasonIsTrue

-----------------------------------------------------------------------------
(* Types. *)

LEMMA TypeInit == Init => GatewayTypeOK
  BY GatewayAssumption DEF Init, GatewayTypeOK, Place, Pending

\* A refusal ends the call and has a reason.
LEMMA RefusedEnds ==
    ASSUME NEW label, Refused(label)
    PROVE  /\ pc' = "done" /\ result'.kind = "refused"
           /\ result'.reason = IF request.via = "bridge" THEN RouteReason(label) ELSE label
<1> DEFINE why == IF request.via = "bridge" THEN RouteReason(label) ELSE label
<1>1. pc' = "done" /\ result' = [kind |-> "refused", reason |-> why]
  BY Zenon DEF Refused
<1> HIDE DEF why
<1>2. result'.kind = "refused" /\ result'.reason = why
  BY <1>1
<1> QED
  BY <1>1, <1>2, Zenon DEF why

LEMMA TypeStep == GatewayTypeOK /\ [GatewayNext]_vars => GatewayTypeOK'
<1> SUFFICES ASSUME GatewayTypeOK, [GatewayNext]_vars
             PROVE  GatewayTypeOK'
  OBVIOUS
<1> USE GatewayAssumption DEF GatewayTypeOK, Place, files, decision
<1>1. ASSUME NEW next \in Place \ {"done", "idle"}, NEW refusal, PassesTo(next, refusal),
             pc \notin {"idle", "done"}
      PROVE  pc' \in Place \ {"idle"} /\ (pc' = "done" <=> result'.kind # "pending")
  BY <1>1, RefusedEnds DEF PassesTo
<1>2. ASSUME NEW kind \in {"allowed", "checked", "native", "project"}, NEW command,
             NEW args, NEW of, Executed(kind, command, args, of)
      PROVE  pc' = "done" /\ result'.kind # "pending"
  BY <1>2 DEF Executed
<1>3. CASE Begin
  BY <1>3 DEF Begin
<1>4. CASE ReadRoute
  <2>1. CASE ValidateRoute(request)
    BY <1>4, <2>1 DEF ReadRoute
  <2>2. CASE ~ValidateRoute(request)
    BY <1>4, <2>2 DEF ReadRoute
  <2> QED
    BY <2>1, <2>2
<1>5. CASE Authorize
  BY <1>1, <1>5 DEF Authorize
<1>6. CASE ReadAdapter
  BY <1>1, <1>6 DEF ReadAdapter
<1>7. CASE ReadRegistry
  <2>1. LoadParticipants(readAdapter, registry) \subseteq ToSet(registry.rows)
    BY DEF LoadParticipants, ActiveParticipantsForProject
  <2>2. participants' \subseteq UNION {ToSet(r.rows) : r \in Registry}
    BY <1>7, <2>1 DEF ReadRegistry
  <2> QED
    BY <1>1, <1>7, <2>2 DEF ReadRegistry
<1>8. ASSUME NEW t, t \in {workAt', actorAt'}, CheckWorkWindow \/ CheckActor
      PROVE  t \in Instant \cup {None}
  BY <1>8 DEF CheckWorkWindow, CheckActor, Now
<1>9. CASE CheckWorkWindow
  BY <1>1, <1>8, <1>9 DEF CheckWorkWindow
<1>10. CASE CheckActor
  BY <1>1, <1>8, <1>10 DEF CheckActor
<1>11. CASE ReadEvidence
  BY <1>1, <1>2, <1>11 DEF ReadEvidence
<1>12. CASE Checked
  BY <1>2, <1>12 DEF Checked
<1>13. CASE DispatchIssue
  BY <1>1, <1>13 DEF DispatchIssue
<1>14. CASE ReadArgvAdapter
  BY <1>1, <1>14 DEF ReadArgvAdapter
<1>15. CASE ReadArgvEvidence
  BY <1>2, <1>15, RefusedEnds DEF ReadArgvEvidence
<1>16. ASSUME StartNative
       PROVE  pc' = "done" /\ result'.kind # "pending"
  BY <1>2, <1>16, RefusedEnds DEF StartNative
<1>17. CASE DispatchNative
  BY <1>16, <1>17, RefusedEnds DEF DispatchNative
<1>18. CASE DispatchHighImpact
  BY <1>2, <1>18 DEF DispatchHighImpact
<1>19. CASE DispatchReading
  BY <1>2, <1>16, <1>19, RefusedEnds DEF DispatchReading
<1>20. CASE Finish
  BY <1>20 DEF Finish, Pending
<1>21. CASE Replace
  BY <1>21 DEF Replace
<1>22. CASE Pass
  BY <1>22 DEF Pass
<1>23. CASE UNCHANGED vars
  BY <1>23 DEF vars
<1> QED
  BY <1>3, <1>4, <1>5, <1>6, <1>7, <1>9, <1>10, <1>11, <1>12, <1>13, <1>14, <1>15, <1>17,
     <1>18, <1>19, <1>20, <1>21, <1>22, <1>23 DEF GatewayNext, Guard, Dispatch

\* Whatever the owner replaces and however long a call takes, the variables
\* have their types, and a call is over exactly when it has a result.
THEOREM TypeCorrect == GatewaySpec => []GatewayTypeOK
  BY TypeInit, TypeStep, PTL DEF GatewaySpec

-----------------------------------------------------------------------------
(* What a check that passed has found, and what one that failed may say.   *)

\* The contract of an adapter never speaks of a window that is closed.
LEMMA ContractLabels ==
    ASSUME NEW a
    PROVE  AdapterContract(a) # "window"
<1>1. RequireProfile(a, FALSE) # "window"
  BY RefusalOf7 DEF RequireProfile, Require
<1>2. RequireAuthorization(a) # "window"
  BY RefusalOf6 DEF RequireAuthorization, Require
<1>3. RequireTeamPolicy(a) # "window"
  BY <1>2, RefusalOf7 DEF RequireTeamPolicy, Require
<1>4. RequireDeployment(a) # "window"
  BY RefusalOf3 DEF RequireDeployment, Require
<1>5. CASE a.profile \in DOMAIN ProfileRules
  <2>1. AdapterContract(a) \in
            {RequireProfile(a, FALSE),
             Require(RequireSchedule(a.contact_window), "contact_window"),
             Require(RequireGateway(a), "gateway"),
             RequireTeamPolicy(a),
             Require("commands" \in a.sound, "commands"),
             RequireDeployment(a),
             Require(RequireOpsProfile(a), "ops_profile")}
    BY <1>5, RefusalOf7 DEF AdapterContract, ContractRefusal
  <2> QED
    BY <1>1, <1>3, <1>4, <2>1 DEF Require
<1> QED
  BY <1>5 DEF AdapterContract, ContractRefusal

\* What later steps rely on in an adapter that has passed its contract.
LEMMA ContractFacts ==
    ASSUME NEW a, AdapterContract(a) = "ok"
    PROVE  /\ RequireGateway(a)
           /\ RequireSchedule(a.work_hours)
           /\ ReleaseRoles(a) \subseteq a.roles.release_owners
<1>1. RequireGateway(a) /\ RequireTeamPolicy(a) = "ok"
  BY RefusalOf7 DEF AdapterContract, ContractRefusal, Require
<1>2. RequireAuthorization(a) = "ok" /\ RequireSchedule(a.work_hours)
  BY <1>1, RefusalOf7 DEF RequireTeamPolicy, Require
<1>3. ReleaseRoles(a) \subseteq a.roles.release_owners
  BY <1>2, RefusalOf6 DEF RequireAuthorization, Require, ReleaseRoles
<1> QED
  BY <1>1, <1>2, <1>3

LEMMA AdapterLabels ==
    ASSUME NEW a, NEW operation
    PROVE  /\ AdapterRefusal(a, operation) = "ok" => AdapterContract(a) = "ok"
           /\ AdapterRefusal(a, operation) # "window"
           /\ AdapterRefusal(a, operation) = "contact_window"
                  => AdapterContract(a) = "contact_window"
  BY ContractLabels, RefusalOf4 DEF AdapterRefusal, Require

LEMMA RegistryLabels ==
    ASSUME NEW a, NEW r
    PROVE  /\ RegistryRefusal(a, r) = "ok" => ValidateParticipantRegistry(r.rows)
           /\ RegistryRefusal(a, r) \notin {"window", "contact_window"}
<1>1. ValidateRoleProjection(a, LoadParticipants(a, r)) \in {"ok", "role", "exception"}
  BY RefusalOf4 DEF ValidateRoleProjection, Require
<1> QED
  BY <1>1, RefusalOf3 DEF RegistryRefusal, Require

\* Only a closed window is called one, and an actor who passes is in the
\* registry.
LEMMA ActorLabels ==
    ASSUME NEW people, NEW call, NEW t
    PROVE  LET actor == RowOfSender(people, call.sender) IN
           /\ ActorRefusal(people, call, t) = "ok" =>
                  /\ actor \in people
                  /\ call.operation \in Mutation => MutationWindowStatus(actor.window, t)
           /\ ActorRefusal(people, call, t) = "window" =>
                  /\ actor \in people
                  /\ ~MutationWindowStatus(actor.window, t)
           /\ ActorRefusal(people, call, t) # "contact_window"
<1> DEFINE actor == RowOfSender(people, call.sender)
           Known == \E p \in people : p.sender = call.sender
<1>1. Known => actor \in people
  BY DEF RowOfSender
<1>2. /\ RequireActor(people, call) \in {"ok", "sender", "actor"}
      /\ RequireActor(people, call) = "ok" => Known
  BY DEF RequireActor, Require
<1>3. /\ RequireTargetWorkspace(actor, call.workspace) \in {"ok", "workspace"}
      /\ RequireAttachmentOutput(call.workspace, call.output) \in {"ok", "output"}
  BY DEF RequireTargetWorkspace, RequireAttachmentOutput, Require
<1> HIDE DEF Known
<1> QED
  BY <1>1, <1>2, <1>3 DEF ActorRefusal

LEMMA CommandLabels ==
    ASSUME NEW a, NEW operation, NEW command, NEW args, NEW revision, NEW e
    PROVE  /\ RequireBackendCommand(a, operation, command, args, revision)
                  \in {"ok", "capability", "command"}
           /\ ExpandIssueCapability(a, command, args, e)
                  \in {"ok", "capability", "restart_job", "command"}
  BY DEF RequireBackendCommand, ExpandIssueCapability, Require

LEMMA EvidenceLabels ==
    ASSUME NEW call, call.operation \in Mutation, NEW a, NEW people, NEW actor, NEW e
    PROVE  EvidenceRefusal(call, a, people, actor, e) \notin {"window", "contact_window"}
<1> DEFINE Speaks(label) == label \notin {"window", "contact_window"}
<1>1. Speaks(Command(call, a)) /\ Speaks(ExpandIssueCapability(a, call.command, call.args, e))
  BY CommandLabels DEF Command
<1>2. Speaks(ParseIssueEvidence(e, a))
  BY RefusalOf2 DEF ParseIssueEvidence, Require
<1>3. ASSUME NEW alias, NEW label, Speaks(label)
      PROVE  Speaks(IsReleaseOwner(a, people, alias, label))
  BY <1>3, RefusalOf2 DEF IsReleaseOwner, Require
<1>4. Speaks(ReviewRefusal(call, a, people, actor, e))
  BY <1>3, RefusalOf3 DEF ReviewRefusal, Require
<1>5. Speaks(ApprovalRefusal(call, a, people, e))
  BY <1>3, RefusalOf3 DEF ApprovalRefusal, Require
<1>6. Speaks(IssueRefusal(call, a, actor, e))
  BY <1>1, RefusalOf3 DEF IssueRefusal, Require
<1>7. Speaks(DeployRefusal(call, a, people, actor, e))
  BY <1>1, <1>4, <1>5, RefusalOf6 DEF DeployRefusal, Require
<1>8. Speaks(DatabaseRefusal(call, a, actor, e))
  BY <1>1, RefusalOf5 DEF DatabaseRefusal, Require
<1>9. Speaks(RollbackRefusal(call, a, people, actor, e))
  BY <1>1, RefusalOf5 DEF RollbackRefusal, Require
<1> QED
  BY <1>2, <1>6, <1>7, <1>8, <1>9 DEF EvidenceRefusal, Mutation

-----------------------------------------------------------------------------
(* The invariant of a call. *)

\* What WindowReasonIsTrue says of a refusal for a closed window.
SomeWindowClosed ==
    \/ AdapterContract(readAdapter) = "contact_window"
    \/ ~InWorkHours(readAdapter, stamp)
    \/ ~InOwnWindow(Actor, stamp)

LEMMA CallInit == Init => CallInv
  BY DEF Init, CallInv, BridgeCourse, MutationPassed, ArgvCourse, Outcome, Allowed,
         WindowReasonIsTrue, Pending

\* The call is what was asked, and the actor is the sender's row.
LEMMA SameCall ==
    ASSUME request' = request
    PROVE  /\ Call' = Call
           /\ participants' = participants => Actor' = Actor
<1>1. Call' = Call
  BY Zenon DEF Call
<1>2. participants' = participants => Actor' = Actor
  BY Zenon DEF Actor
<1> QED
  BY <1>1, <1>2

LEMMA ActorIsOfCall == Actor = RowOfSender(participants, Call.sender)
<1>1. Call.sender = request.sender
  BY DEF Call, BridgeCall, GatewayCall
<1> QED
  BY <1>1, Zenon DEF Actor

LEMMA WindowClosedLabels ==
    ASSUME NEW label, RouteReason(label) = "window_closed"
    PROVE  label \in {"window", "contact_window"}
  BY DEF RouteReason

\* A refusal keeps the invariant, if it speaks of a closed window only when
\* there is one.
LEMMA RefusedKeeps ==
    ASSUME CallInv, pc # "idle", request' = request, stamp' = stamp,
           NEW label, Refused(label),
           request.via = "bridge" /\ label \in {"window", "contact_window"} => SomeWindowClosed'
    PROVE  CallInv'
<1>1. /\ pc' = "done" /\ result'.kind = "refused"
      /\ result'.reason = IF request.via = "bridge" THEN RouteReason(label) ELSE label
  BY RefusedEnds
<1>2. request' \in Request /\ stamp' \in Instant
  BY DEF CallInv
<1>3. WindowReasonIsTrue'
  BY <1>1, WindowClosedLabels DEF WindowReasonIsTrue, SomeWindowClosed
<1>4. BridgeCourse' /\ MutationPassed' /\ ArgvCourse' /\ Outcome'
  BY <1>1 DEF BridgeCourse, MutationPassed, ArgvCourse, Outcome, Allowed
<1> QED
  BY <1>2, <1>3, <1>4 DEF CallInv

\* What changes neither the call nor what was read for it keeps the
\* invariant.
LEMMA FrameKeeps ==
    ASSUME CallInv, UNCHANGED <<pc, request, stamp, decision, argvAdapter, result>>
    PROVE  CallInv'
<1>1. Call' = Call /\ Actor' = Actor
  BY SameCall DEF decision
<1>2. UNCHANGED <<AdapterPassed, RegistryPassed, WorkPassed, ActorPassed, EvidencePassed>>
  BY <1>1 DEF AdapterPassed, RegistryPassed, WorkPassed, ActorPassed, EvidencePassed, decision
<1>3. UNCHANGED <<BridgeCourse, MutationPassed, ArgvCourse, Outcome>>
  BY <1>1, <1>2 DEF BridgeCourse, MutationPassed, ArgvCourse, Outcome, MadeByHelper, Allowed,
                    decision
<1>4. UNCHANGED WindowReasonIsTrue
  BY <1>1 DEF WindowReasonIsTrue, decision
<1> QED
  BY <1>1, <1>3, <1>4 DEF CallInv

LEMMA BeginKeeps ==
    ASSUME GatewayTypeOK, CallInv, Begin
    PROVE  CallInv'
<1>1. /\ request' \in Request /\ stamp' \in Instant
      /\ pc' = IF request'.via = "bridge" THEN "route" ELSE "adapter"
  BY DEF Begin, GatewayTypeOK
<1>2. request'.via = "bridge" => BridgeCourse'
  BY <1>1 DEF BridgeCourse
<1>3. MutationPassed' /\ ArgvCourse' /\ Outcome' /\ WindowReasonIsTrue'
  BY <1>1 DEF MutationPassed, ArgvCourse, Outcome, Allowed, WindowReasonIsTrue
<1> QED
  BY <1>1, <1>2, <1>3 DEF CallInv

LEMMA ReadRouteKeeps ==
    ASSUME GatewayTypeOK, CallInv, ReadRoute
    PROVE  CallInv'
<1>1. /\ pc = "route" /\ UNCHANGED <<request, stamp, decision, argvAdapter>>
      /\ request' \in Request /\ stamp' \in Instant /\ Call' = Call
  BY SameCall DEF ReadRoute, CallInv
<1>2. CASE ValidateRoute(request)
  <2>1. pc' = "authorize"
    BY <1>2 DEF ReadRoute
  <2>2. request.via = "bridge" => Call.operation \in Mutation
    BY <1>2 DEF ValidateRoute, Call, BridgeCall
  <2>3. request.via = "bridge" => BridgeCourse'
    BY <1>1, <2>1, <2>2 DEF BridgeCourse
  <2>4. MutationPassed' /\ ArgvCourse' /\ Outcome' /\ WindowReasonIsTrue'
    BY <2>1 DEF MutationPassed, ArgvCourse, Outcome, Allowed, WindowReasonIsTrue
  <2> QED
    BY <1>1, <2>3, <2>4 DEF CallInv
<1>3. CASE ~ValidateRoute(request)
  <2>1. pc' = "done" /\ result'.kind = "refused" /\ result'.reason = "route_unavailable"
    BY <1>3 DEF ReadRoute
  <2>2. BridgeCourse' /\ MutationPassed' /\ ArgvCourse' /\ Outcome' /\ WindowReasonIsTrue'
    BY <2>1 DEF BridgeCourse, MutationPassed, ArgvCourse, Outcome, Allowed, WindowReasonIsTrue
  <2> QED
    BY <1>1, <2>2 DEF CallInv
<1> QED
  BY <1>2, <1>3

LEMMA AuthorizeKeeps ==
    ASSUME GatewayTypeOK, CallInv, Authorize
    PROVE  CallInv'
<1> DEFINE refusal == IF ~(ValidateRoute(request) /\ ValidateInput(request)) THEN "exception"
                      ELSE IF AdapterText(adapter) # "ok" THEN "adapter"
                      ELSE SameIdentity(request, adapter)
<1>1. /\ pc = "authorize" /\ UNCHANGED <<request, stamp, decision, argvAdapter>>
      /\ request' \in Request /\ stamp' \in Instant /\ Call' = Call
      /\ PassesTo("adapter", refusal)
  BY SameCall DEF Authorize, CallInv
<1>2. refusal \notin {"window", "contact_window"}
  BY RefusalOf2 DEF SameIdentity, Require
<1> HIDE DEF refusal
<1>3. CASE refusal = "ok"
  <2>1. pc' = "adapter"
    BY <1>1, <1>3 DEF PassesTo
  <2>2. request.via = "bridge" => BridgeCourse'
    BY <1>1, <2>1 DEF BridgeCourse, CallInv
  <2>3. MutationPassed' /\ ArgvCourse' /\ Outcome' /\ WindowReasonIsTrue'
    BY <2>1 DEF MutationPassed, ArgvCourse, Outcome, Allowed, WindowReasonIsTrue
  <2> QED
    BY <1>1, <2>2, <2>3 DEF CallInv
<1>4. CASE refusal # "ok"
  BY <1>1, <1>2, <1>4, RefusedKeeps DEF PassesTo
<1> QED
  BY <1>3, <1>4

LEMMA ReadAdapterKeeps ==
    ASSUME GatewayTypeOK, CallInv, ReadAdapter
    PROVE  CallInv'
<1> DEFINE refusal == AdapterRefusal(adapter, Call.operation)
           window  == RequireCurrentWindow(adapter.contact_window, Now)
<1>1. /\ pc = "adapter" /\ UNCHANGED <<request, stamp, argvAdapter>>
      /\ readAdapter' = adapter /\ adapter \in Adapter
      /\ request' \in Request /\ stamp' \in Instant /\ Call' = Call
      /\ request.via = "bridge" => Call.operation \in Mutation
  BY SameCall DEF ReadAdapter, CallInv, GatewayTypeOK, BridgeCourse
<1>2. CASE refusal = "ok" /\ Call.operation = "contact-window"
  <2>1. Call.operation \notin Mutation /\ request.via # "bridge"
    BY <1>1, <1>2 DEF Mutation
  <2>2. PassesTo("checked", window)
    BY <1>2 DEF ReadAdapter
  <2>3. CASE window = "ok"
    <3>1. pc' = "checked"
      BY <2>2, <2>3 DEF PassesTo
    <3>2. ArgvCourse' /\ Outcome' /\ WindowReasonIsTrue'
      BY <3>1 DEF ArgvCourse, Outcome, WindowReasonIsTrue
    <3> QED
      BY <1>1, <2>1, <3>2 DEF CallInv
  <2>4. CASE window # "ok"
    <3>1. Refused(window)
      BY <2>2, <2>4 DEF PassesTo
    <3> HIDE DEF window
    <3> QED
      BY <1>1, <2>1, <3>1, RefusedKeeps
  <2> QED
    BY <2>3, <2>4
<1>3. CASE ~(refusal = "ok" /\ Call.operation = "contact-window")
  <2> DEFINE next == IF Call.operation \in NeedsNoParticipant THEN "dispatch" ELSE "registry"
  <2>1. PassesTo(next, refusal)
    BY <1>3 DEF ReadAdapter
  <2>2. CASE refusal = "ok"
    <3>1. pc' = next
      BY <2>1, <2>2 DEF PassesTo
    <3>2. Call.operation \in Mutation => pc' = "registry"
      BY <3>1 DEF Mutation, NeedsNoParticipant
    <3>3. Call.operation \in Mutation => MutationPassed'
      BY <1>1, <2>2, <3>2 DEF MutationPassed, AdapterPassed, Allowed
    <3>4. request.via = "bridge" => BridgeCourse'
      BY <1>1, <3>2 DEF BridgeCourse
    <3>5. ArgvCourse' /\ Outcome' /\ WindowReasonIsTrue'
      BY <3>1 DEF ArgvCourse, Outcome, WindowReasonIsTrue
    <3> QED
      BY <1>1, <3>3, <3>4, <3>5 DEF CallInv
  <2>3. CASE refusal # "ok"
    <3>1. Refused(refusal)
      BY <2>1, <2>3 DEF PassesTo
    <3>2. refusal \in {"window", "contact_window"} => SomeWindowClosed'
      BY <1>1, AdapterLabels DEF SomeWindowClosed
    <3> HIDE DEF refusal
    <3> QED
      BY <1>1, <3>1, <3>2, RefusedKeeps
  <2> QED
    BY <2>2, <2>3
<1> QED
  BY <1>2, <1>3

LEMMA ReadRegistryKeeps ==
    ASSUME GatewayTypeOK, CallInv, ReadRegistry
    PROVE  CallInv'
<1> DEFINE refusal == RegistryRefusal(readAdapter, registry)
           next    == IF Call.operation \in Mutation THEN "work" ELSE "actor"
<1>1. /\ pc = "registry" /\ UNCHANGED <<request, stamp, readAdapter, argvAdapter>>
      /\ registry \in Registry /\ PassesTo(next, refusal)
      /\ request' \in Request /\ stamp' \in Instant /\ Call' = Call
      /\ refusal = "ok" => participants' = LoadParticipants(readAdapter, registry)
      /\ request.via = "bridge" => Call.operation \in Mutation
      /\ Call.operation \in Mutation => AdapterPassed
  BY SameCall DEF ReadRegistry, CallInv, GatewayTypeOK, BridgeCourse, MutationPassed
<1>2. CASE refusal = "ok"
  <2>1. pc' = next
    BY <1>1, <1>2 DEF PassesTo
  <2>2. AdapterPassed' = AdapterPassed
    BY <1>1 DEF AdapterPassed
  <2>3. RegistryPassed'
    BY <1>1, <1>2 DEF RegistryPassed
  <2>4. Call.operation \in Mutation => MutationPassed'
    BY <1>1, <2>1, <2>2, <2>3 DEF MutationPassed, Allowed
  <2>5. request.via = "bridge" => BridgeCourse'
    BY <1>1, <2>1 DEF BridgeCourse
  <2>6. ArgvCourse' /\ Outcome' /\ WindowReasonIsTrue'
    BY <2>1 DEF ArgvCourse, Outcome, WindowReasonIsTrue
  <2> QED
    BY <1>1, <2>4, <2>5, <2>6 DEF CallInv
<1>3. CASE refusal # "ok"
  <2>1. Refused(refusal)
    BY <1>1, <1>3 DEF PassesTo
  <2>2. refusal \notin {"window", "contact_window"}
    BY RegistryLabels
  <2> HIDE DEF refusal
  <2> QED
    BY <1>1, <2>1, <2>2, RefusedKeeps
<1> QED
  BY <1>2, <1>3

\* The schedule of a contract that passed is valid, so that a check of it
\* fails only outside the hours of the reference.
LEMMA WorkWindowIsReference ==
    ASSUME NEW a, AdapterContract(a) = "ok", NEW t \in Int
    PROVE  RequireCurrentWindow(a.work_hours, t) = "ok" <=> InWorkHours(a, t)
<1> DEFINE s == a.work_hours
<1>1. RequireSchedule(s)
  BY ContractFacts
<1> HIDE DEF s
<1>2. ContactWindowStatus(s, t)
          <=> InWindow(s.timezone, s.days, 60 * s.start_hour, 60 * s.end_hour, t)
  BY <1>1, ScheduleIsReference
<1>3. RequireCurrentWindow(s, t) = "ok" <=> ContactWindowStatus(s, t)
  BY DEF RequireCurrentWindow, Require
<1> QED
  BY <1>2, <1>3, Zenon DEF InWorkHours, s

LEMMA CheckWorkWindowKeeps ==
    ASSUME GatewayTypeOK, CallInv, CheckWorkWindow
    PROVE  CallInv'
<1> DEFINE refusal == RequireCurrentWindow(readAdapter.work_hours, Now)
<1>1. /\ pc = "work" /\ workAt' = Now
      /\ UNCHANGED <<request, stamp, readAdapter, participants, argvAdapter>>
      /\ PassesTo("actor", refusal)
      /\ request' \in Request /\ stamp' \in Instant /\ Call' = Call
      /\ request.via = "bridge" => Call.operation \in Mutation
      /\ Call.operation \in Mutation => AdapterPassed /\ RegistryPassed
  BY SameCall DEF CheckWorkWindow, CallInv, BridgeCourse, MutationPassed
<1>2. /\ Now \in Instant /\ Now \in Int
      /\ request.via = "bridge" => Now = stamp
  BY <1>1, GatewayAssumption DEF Now, GatewayTypeOK
<1>3. CASE refusal = "ok"
  <2>1. pc' = "actor"
    BY <1>1, <1>3 DEF PassesTo
  <2>2. AdapterPassed' = AdapterPassed /\ RegistryPassed' = RegistryPassed
    BY <1>1 DEF AdapterPassed, RegistryPassed
  <2>3. WorkPassed'
    BY <1>1, <1>2, <1>3 DEF WorkPassed
  <2>4. Call.operation \in Mutation => MutationPassed'
    BY <1>1, <2>1, <2>2, <2>3 DEF MutationPassed, Allowed
  <2>5. request.via = "bridge" => BridgeCourse'
    BY <1>1, <2>1 DEF BridgeCourse
  <2>6. ArgvCourse' /\ Outcome' /\ WindowReasonIsTrue'
    BY <2>1 DEF ArgvCourse, Outcome, WindowReasonIsTrue
  <2> QED
    BY <1>1, <2>4, <2>5, <2>6 DEF CallInv
<1>4. CASE refusal # "ok"
  <2>1. Refused(refusal)
    BY <1>1, <1>4 DEF PassesTo
  <2>2. request.via = "bridge" => SomeWindowClosed'
    <3>1. request.via = "bridge" => AdapterContract(readAdapter) = "ok"
      BY <1>1, AdapterLabels DEF AdapterPassed
    <3>2. request.via = "bridge" => ~InWorkHours(readAdapter, stamp)
      BY <1>2, <1>4, <3>1, WorkWindowIsReference
    <3> QED
      BY <1>1, <3>2 DEF SomeWindowClosed
  <2> HIDE DEF refusal
  <2> QED
    BY <1>1, <2>1, <2>2, RefusedKeeps
<1> QED
  BY <1>3, <1>4

\* A row of a registry that has passed is valid.
LEMMA RowsAreValid ==
    ASSUME RegistryPassed, NEW row \in participants
    PROVE  RowIsValid(row)
<1>1. PICK r \in Registry : /\ RegistryRefusal(readAdapter, r) = "ok"
                            /\ participants = LoadParticipants(readAdapter, r)
  BY DEF RegistryPassed
<1>2. row \in ToSet(r.rows) /\ ValidateParticipantRegistry(r.rows)
  BY <1>1, RegistryLabels DEF LoadParticipants, ActiveParticipantsForProject
<1> QED
  BY <1>2 DEF ValidateParticipantRegistry, ToSet

LEMMA CheckActorKeeps ==
    ASSUME GatewayTypeOK, CallInv, CheckActor
    PROVE  CallInv'
<1> DEFINE refusal == ActorRefusal(participants, Call, Now)
           next    == IF Call.operation \in Mutation THEN "evidence" ELSE "dispatch"
<1>1. /\ pc = "actor" /\ actorAt' = Now
      /\ UNCHANGED <<request, stamp, readAdapter, participants, workAt, argvAdapter>>
      /\ PassesTo(next, refusal)
      /\ request' \in Request /\ stamp' \in Instant /\ Call' = Call /\ Actor' = Actor
      /\ request.via = "bridge" => Call.operation \in Mutation
      /\ Call.operation \in Mutation => AdapterPassed /\ RegistryPassed /\ WorkPassed
  BY SameCall DEF CheckActor, CallInv, BridgeCourse, MutationPassed
<1>2. /\ Now \in Instant /\ Now \in Int
      /\ request.via = "bridge" => Now = stamp
  BY <1>1, GatewayAssumption DEF Now, GatewayTypeOK
<1>3. CASE refusal = "ok"
  <2>1. pc' = next
    BY <1>1, <1>3 DEF PassesTo
  <2>2. /\ AdapterPassed' = AdapterPassed /\ RegistryPassed' = RegistryPassed
        /\ WorkPassed' = WorkPassed
    BY <1>1 DEF AdapterPassed, RegistryPassed, WorkPassed
  <2>3. ActorPassed'
    BY <1>1, <1>2, <1>3 DEF ActorPassed
  <2>4. Call.operation \in Mutation => MutationPassed'
    BY <1>1, <2>1, <2>2, <2>3 DEF MutationPassed, Allowed
  <2>5. request.via = "bridge" => BridgeCourse'
    BY <1>1, <2>1 DEF BridgeCourse
  <2>6. ArgvCourse' /\ Outcome' /\ WindowReasonIsTrue'
    BY <2>1 DEF ArgvCourse, Outcome, WindowReasonIsTrue
  <2> QED
    BY <1>1, <2>4, <2>5, <2>6 DEF CallInv
<1>4. CASE refusal # "ok"
  <2>1. Refused(refusal)
    BY <1>1, <1>4 DEF PassesTo
  <2>2. refusal # "contact_window"
    BY ActorLabels
  <2>3. request.via = "bridge" /\ refusal = "window" => SomeWindowClosed'
    <3> SUFFICES ASSUME request.via = "bridge", refusal = "window"
                 PROVE  ~InOwnWindow(Actor, stamp)
      BY <1>1 DEF SomeWindowClosed
    <3>1. Actor \in participants /\ ~MutationWindowStatus(Actor.window, Now)
      BY ActorLabels, ActorIsOfCall
    <3>2. RowIsValid(Actor)
      BY <1>1, <3>1, RowsAreValid
    <3> QED
      BY <1>2, <3>1, <3>2, MutationWindowIsReference
  <2> HIDE DEF refusal
  <2> QED
    BY <1>1, <2>1, <2>2, <2>3, RefusedKeeps
<1> QED
  BY <1>3, <1>4

LEMMA ReadEvidenceKeeps ==
    ASSUME GatewayTypeOK, CallInv, ReadEvidence
    PROVE  CallInv'
<1> DEFINE refusal == EvidenceRefusal(Call, readAdapter, participants, Actor, evidence)
<1>1. /\ pc = "evidence" /\ readEvidence' = evidence /\ evidence \in Evidence
      /\ UNCHANGED <<request, stamp, readAdapter, participants, workAt, actorAt, argvAdapter>>
      /\ IF refusal = "ok" /\ request.via = "bridge"
         THEN Executed("allowed", Call.command, Call.args, evidence)
         ELSE PassesTo("dispatch", refusal)
      /\ request' \in Request /\ stamp' \in Instant /\ Call' = Call /\ Actor' = Actor
      /\ request.via = "bridge" => Call.operation \in Mutation
      /\ Call.operation \in Mutation =>
             AdapterPassed /\ RegistryPassed /\ WorkPassed /\ ActorPassed
  BY SameCall DEF ReadEvidence, CallInv, GatewayTypeOK, BridgeCourse, MutationPassed
<1>2. CASE refusal = "ok"
  <2>1. /\ AdapterPassed' = AdapterPassed /\ RegistryPassed' = RegistryPassed
        /\ WorkPassed' = WorkPassed /\ ActorPassed' = ActorPassed
    BY <1>1 DEF AdapterPassed, RegistryPassed, WorkPassed, ActorPassed
  <2>2. EvidencePassed'
    BY <1>1, <1>2 DEF EvidencePassed
  <2>3. Call.operation \in Mutation => MutationPassed'
    BY <1>1, <2>1, <2>2 DEF MutationPassed
  <2>4. IF request.via = "bridge"
        THEN pc' = "done" /\ result'.kind = "allowed" /\ result'.args = Call.args
        ELSE pc' = "dispatch"
    BY <1>1, <1>2 DEF Executed, PassesTo
  <2>5. request.via = "bridge" => BridgeCourse'
    BY <1>1, <2>4 DEF BridgeCourse
  <2>6. ArgvCourse' /\ Outcome' /\ WindowReasonIsTrue'
    BY <1>1, <2>4 DEF ArgvCourse, Outcome, WindowReasonIsTrue
  <2> QED
    BY <1>1, <2>3, <2>5, <2>6 DEF CallInv
<1>3. CASE refusal # "ok"
  <2>1. Refused(refusal)
    BY <1>1, <1>3 DEF PassesTo
  <2>2. request.via = "bridge" => refusal \notin {"window", "contact_window"}
    BY <1>1, EvidenceLabels
  <2> HIDE DEF refusal
  <2> QED
    BY <1>1, <2>1, <2>2, RefusedKeeps
<1> QED
  BY <1>2, <1>3

\* A step of the dispatcher: what was read for the decision is what it was.
LEMMA DispatchFrame ==
    ASSUME CallInv, pc \in {"checked", "dispatch", "argv", "argv evidence"},
           UNCHANGED <<request, stamp, decision>>
    PROVE  /\ request' \in Request /\ stamp' \in Instant /\ Call' = Call
           /\ request.via # "bridge"
           /\ pc # "checked" /\ Call.operation \in Mutation => MutationPassed'
<1>1. Call' = Call /\ Actor' = Actor
  BY SameCall DEF decision
<1>2. /\ AdapterPassed' = AdapterPassed /\ RegistryPassed' = RegistryPassed
      /\ WorkPassed' = WorkPassed /\ ActorPassed' = ActorPassed
      /\ EvidencePassed' = EvidencePassed
  BY <1>1 DEF AdapterPassed, RegistryPassed, WorkPassed, ActorPassed, EvidencePassed, decision
<1>3. request' \in Request /\ stamp' \in Instant /\ request.via # "bridge"
  BY DEF CallInv, BridgeCourse
<1>4. ASSUME pc # "checked", Call.operation \in Mutation
      PROVE  MutationPassed'
  <2>1. AdapterPassed /\ RegistryPassed /\ WorkPassed /\ ActorPassed /\ EvidencePassed
    BY <1>4 DEF CallInv, MutationPassed, Allowed
  <2> QED
    BY <1>2, <2>1 DEF MutationPassed
<1> QED
  BY <1>1, <1>3, <1>4

\* A command that was started without a mutation, or with the arguments it
\* was asked with.
LEMMA ExecutedKeeps ==
    ASSUME CallInv, pc \in {"checked", "dispatch"}, UNCHANGED <<request, stamp, decision>>,
           NEW kind, NEW of, Executed(kind, Call.command, Call.args, of),
           \/ kind \in {"checked", "native"}
           \/ kind = "project" /\ pc = "dispatch" /\ Call.operation # "issue-work"
    PROVE  CallInv'
<1>1. pc' = "done" /\ result'.kind = kind /\ result'.args = Call.args
  BY DEF Executed
<1>2. kind \in {"checked", "native"} => MutationPassed'
  BY <1>1 DEF MutationPassed, Allowed
<1>3. ArgvCourse' /\ Outcome' /\ WindowReasonIsTrue'
  BY <1>1, DispatchFrame DEF ArgvCourse, Outcome, WindowReasonIsTrue
<1> QED
  BY <1>2, <1>3, DispatchFrame DEF CallInv

LEMMA StartNativeKeeps ==
    ASSUME CallInv, pc = "dispatch", UNCHANGED <<request, stamp, decision>>, StartNative
    PROVE  CallInv'
<1>1. CASE Refused("native")
  BY <1>1, RefusedKeeps
<1>2. CASE Executed("native", Call.command, Call.args, None)
  BY <1>2, ExecutedKeeps
<1> QED
  BY <1>1, <1>2 DEF StartNative

LEMMA CheckedKeeps ==
    ASSUME GatewayTypeOK, CallInv, Checked
    PROVE  CallInv'
  BY ExecutedKeeps DEF Checked

LEMMA DispatchIssueKeeps ==
    ASSUME GatewayTypeOK, CallInv, DispatchIssue
    PROVE  CallInv'
<1>1. /\ pc = "dispatch" /\ Call.operation = "issue-work"
      /\ UNCHANGED <<request, stamp, decision, argvAdapter>>
      /\ \/ pc' = "argv"
         \/ Refused("backend")
  BY DEF DispatchIssue, PassesTo, Require
<1>2. CASE Refused("backend")
  BY <1>1, <1>2, RefusedKeeps
<1>3. CASE pc' = "argv"
  <2>1. ArgvCourse' /\ Outcome' /\ WindowReasonIsTrue'
    BY <1>1, <1>3, DispatchFrame DEF ArgvCourse, Outcome, WindowReasonIsTrue
  <2> QED
    BY <1>1, <2>1, DispatchFrame DEF CallInv
<1> QED
  BY <1>1, <1>2, <1>3

LEMMA ReadArgvAdapterKeeps ==
    ASSUME GatewayTypeOK, CallInv, ReadArgvAdapter
    PROVE  CallInv'
<1>1. /\ pc = "argv" /\ Call.operation = "issue-work"
      /\ UNCHANGED <<request, stamp, decision>>
      /\ argvAdapter' = adapter /\ adapter \in Adapter
      /\ PassesTo("argv evidence", AdapterText(adapter))
  BY DEF ReadArgvAdapter, CallInv, ArgvCourse, GatewayTypeOK
<1>2. CASE AdapterText(adapter) # "ok"
  BY <1>1, <1>2, RefusedKeeps, DispatchFrame DEF PassesTo
<1>3. CASE AdapterText(adapter) = "ok"
  <2>1. pc' = "argv evidence"
    BY <1>1, <1>3 DEF PassesTo
  <2>2. ArgvCourse' /\ Outcome' /\ WindowReasonIsTrue'
    BY <1>1, <2>1, DispatchFrame DEF ArgvCourse, Outcome, WindowReasonIsTrue
  <2> QED
    BY <1>1, <2>2, DispatchFrame DEF CallInv
<1> QED
  BY <1>2, <1>3

LEMMA ReadArgvEvidenceKeeps ==
    ASSUME GatewayTypeOK, CallInv, ReadArgvEvidence
    PROVE  CallInv'
<1> DEFINE refusal == BackendArgsRefusal(argvAdapter, evidence, Call.command, Call.args)
           made == Tail(DelegatedArgs(argvAdapter.issue_work[Call.command], Call.args, evidence))
<1>1. /\ pc = "argv evidence" /\ Call.operation = "issue-work"
      /\ UNCHANGED <<request, stamp, decision, argvAdapter>>
      /\ argvAdapter \in Adapter /\ evidence \in Evidence
      /\ IF refusal = "ok" THEN Executed("project", Call.command, made, evidence)
         ELSE Refused(refusal)
  BY DEF ReadArgvEvidence, CallInv, ArgvCourse, GatewayTypeOK
<1>2. CASE refusal # "ok"
  <2>1. Refused(refusal)
    BY <1>1, <1>2
  <2> HIDE DEF refusal
  <2> QED
    BY <1>1, <2>1, RefusedKeeps, DispatchFrame
<1>3. CASE refusal = "ok"
  <2>1. Executed("project", Call.command, made, evidence)
    BY <1>1, <1>3
  <2>2. /\ argvAdapter' \in Adapter
        /\ argvAdapter' = argvAdapter /\ Call' = Call
    BY <1>1, DispatchFrame
  <2> HIDE DEF made
  <2>3. /\ pc' = "done" /\ result'.kind = "project" /\ result'.args = made
        /\ result'.evidence = evidence
    BY <2>1 DEF Executed
  <2>4. /\ result'.evidence \in Evidence
        /\ BackendArgsRefusal(argvAdapter', result'.evidence, Call'.command, Call'.args) = "ok"
    BY <1>1, <1>3, <2>2, <2>3
  <2>5. result'.args = Tail(DelegatedArgs(argvAdapter'.issue_work[Call'.command], Call'.args,
                                          result'.evidence))
    BY <2>2, <2>3, Zenon DEF made
  <2>6. MadeByHelper'
    BY <2>2, <2>4, <2>5, Zenon DEF MadeByHelper
  <2>7. ArgvCourse' /\ Outcome' /\ WindowReasonIsTrue'
    BY <1>1, <2>2, <2>3, <2>6 DEF ArgvCourse, Outcome, WindowReasonIsTrue
  <2> QED
    BY <1>1, <2>7, DispatchFrame DEF CallInv
<1> QED
  BY <1>2, <1>3

LEMMA DispatchNativeKeeps ==
    ASSUME GatewayTypeOK, CallInv, DispatchNative
    PROVE  CallInv'
<1>1. CASE StartNative
  BY <1>1, StartNativeKeeps DEF DispatchNative
<1>2. CASE Refused("backend")
  BY <1>2, RefusedKeeps, DispatchFrame DEF DispatchNative
<1> QED
  BY <1>1, <1>2 DEF DispatchNative

LEMMA DispatchHighImpactKeeps ==
    ASSUME GatewayTypeOK, CallInv, DispatchHighImpact
    PROVE  CallInv'
  BY ExecutedKeeps DEF DispatchHighImpact, HighImpact

LEMMA DispatchReadingKeeps ==
    ASSUME GatewayTypeOK, CallInv, DispatchReading
    PROVE  CallInv'
<1>1. CASE Executed("project", Call.command, Call.args, None)
  BY <1>1, ExecutedKeeps DEF DispatchReading
<1>2. CASE StartNative
  BY <1>2, StartNativeKeeps DEF DispatchReading
<1>3. CASE Refused("backend")
  BY <1>3, RefusedKeeps, DispatchFrame DEF DispatchReading
<1> QED
  BY <1>1, <1>2, <1>3 DEF DispatchReading

LEMMA FinishKeeps ==
    ASSUME GatewayTypeOK, CallInv, Finish
    PROVE  CallInv'
  BY DEF Finish, CallInv, ArgvCourse, Outcome, WindowReasonIsTrue

LEMMA CallStep == GatewayTypeOK /\ CallInv /\ [GatewayNext]_vars => CallInv'
<1> SUFFICES ASSUME GatewayTypeOK, CallInv, [GatewayNext]_vars
             PROVE  CallInv'
  OBVIOUS
<1>1. CASE Begin \/ ReadRoute \/ Authorize
  BY <1>1, BeginKeeps, ReadRouteKeeps, AuthorizeKeeps
<1>2. CASE Guard
  BY <1>2, ReadAdapterKeeps, ReadRegistryKeeps, CheckWorkWindowKeeps, CheckActorKeeps,
     ReadEvidenceKeeps DEF Guard
<1>3. CASE Dispatch
  BY <1>3, CheckedKeeps, DispatchIssueKeeps, ReadArgvAdapterKeeps, ReadArgvEvidenceKeeps,
     DispatchNativeKeeps, DispatchHighImpactKeeps, DispatchReadingKeeps DEF Dispatch
<1>4. CASE Finish
  BY <1>4, FinishKeeps
<1>5. CASE Replace \/ Pass \/ UNCHANGED vars
  BY <1>5, FrameKeeps DEF Replace, Pass, vars
<1> QED
  BY <1>1, <1>2, <1>3, <1>4, <1>5 DEF GatewayNext

THEOREM CallKept == GatewaySpec => [](GatewayTypeOK /\ CallInv)
  BY TypeInit, TypeStep, CallInit, CallStep, PTL DEF GatewaySpec

\* When the bridge answers that a window is closed, the work hours or the
\* window of the sender do not include the instant the runtime named, or the
\* adapter the guard has read has no valid contact window.
THEOREM ClosedWindowsAreClosed == GatewaySpec => []WindowReasonIsTrue
<1>1. CallInv => WindowReasonIsTrue
  BY DEF CallInv
<1> QED
  BY <1>1, CallKept, PTL

-----------------------------------------------------------------------------
(* Mutations inside the windows. *)

LEMMA GrantedPassed ==
    ASSUME GatewayTypeOK, CallInv, Granted(Mutation)
    PROVE  /\ AdapterPassed /\ RegistryPassed /\ WorkPassed /\ ActorPassed /\ EvidencePassed
           /\ AdapterContract(readAdapter) = "ok"
           /\ Actor \in participants
<1>1. pc # "idle" /\ Call.operation \in Mutation /\ Allowed
  BY DEF Granted, Allowed
<1>2. AdapterPassed /\ RegistryPassed /\ WorkPassed /\ ActorPassed /\ EvidencePassed
  BY <1>1 DEF CallInv, MutationPassed
<1>3. AdapterContract(readAdapter) = "ok"
  BY <1>2, AdapterLabels DEF AdapterPassed
<1>4. Actor \in participants
  BY <1>2, ActorLabels, ActorIsOfCall DEF ActorPassed
<1> QED
  BY <1>2, <1>3, <1>4

\* No mutation is granted outside the work hours of the project or the window
\* of the sender, both by the reference; the bridge looks at the instant that
\* the runtime named, and at no other.
THEOREM NoMutationOutsideItsWindows == GatewaySpec => []MutationsInsideWindows
<1>1. ASSUME GatewayTypeOK, CallInv PROVE MutationsInsideWindows
  <2> SUFFICES ASSUME Granted(Mutation)
               PROVE  /\ InWorkHours(readAdapter, workAt)
                      /\ InOwnWindow(Actor, actorAt)
                      /\ request.via = "bridge" => {workAt, actorAt} = {stamp}
    BY <1>1 DEF MutationsInsideWindows
  <2>1. /\ RegistryPassed /\ WorkPassed /\ ActorPassed /\ Actor \in participants
        /\ AdapterContract(readAdapter) = "ok"
    BY <1>1, GrantedPassed
  <2>2. workAt \in Int /\ actorAt \in Int
    BY <2>1, GatewayAssumption DEF WorkPassed, ActorPassed
  <2>3. InWorkHours(readAdapter, workAt)
    BY <2>1, <2>2, WorkWindowIsReference DEF WorkPassed
  <2>4. MutationWindowStatus(Actor.window, actorAt)
    BY <2>1, ActorLabels, ActorIsOfCall DEF ActorPassed, Granted
  <2>5. InOwnWindow(Actor, actorAt)
    BY <2>1, <2>2, <2>4, RowsAreValid, MutationWindowIsReference
  <2>6. request.via = "bridge" => workAt = stamp /\ actorAt = stamp
    BY <2>1 DEF WorkPassed, ActorPassed
  <2> QED
    BY <2>3, <2>5, <2>6
<1> QED
  BY <1>1, CallKept, PTL

-----------------------------------------------------------------------------
(* Two people behind a production deploy. *)

\* Two participants of a project whose aliases differ are two senders.
LEMMA AliasesAreSenders ==
    ASSUME RegistryPassed, NEW p \in participants, NEW q \in participants,
           p.alias # q.alias
    PROVE  p.sender # q.sender
<1>1. PICK r \in Registry : /\ RegistryRefusal(readAdapter, r) = "ok"
                            /\ participants = LoadParticipants(readAdapter, r)
  BY DEF RegistryPassed
<1>2. /\ p \in ToSet(r.rows) /\ q \in ToSet(r.rows)
      /\ p.enabled /\ q.enabled /\ p.project = q.project
  BY <1>1 DEF LoadParticipants, ActiveParticipantsForProject
<1>3. PICK i \in DOMAIN r.rows, j \in DOMAIN r.rows : p = r.rows[i] /\ q = r.rows[j]
  BY <1>2 DEF ToSet
<1>4. NoRowTwice(r.rows)
  BY <1>1, RegistryLabels DEF ValidateParticipantRegistry, UniqueAliasAndSender
<1> QED
  BY <1>2, <1>3, <1>4 DEF NoRowTwice

\* A release owner other than the assignee stands behind the revision.
LEMMA DeployFacts ==
    ASSUME NEW call, NEW a, NEW people, NEW actor, NEW e,
           DeployRefusal(call, a, people, actor, e) = "ok"
    PROVE  /\ \E p \in people : p.alias = e.assignee
           /\ \E word \in {e.approval, e.review} :
                  /\ word.revision = call.revision
                  /\ word.by # e.assignee
                  /\ \E p \in people : p.alias = word.by /\ HasRole(p, ReleaseRoles(a))
           /\ Command(call, a) = "ok"
<1> DEFINE byRisk == a.production_approval = "high_risk_only"
           review == ReviewRefusal(call, a, people, actor, e)
           approval == ApprovalRefusal(call, a, people, e)
           Owner(alias) == \E p \in people : p.alias = alias /\ HasRole(p, ReleaseRoles(a))
<1>1. /\ IsActive(people, e.assignee)
      /\ byRisk => review = "ok"
      /\ ~byRisk => approval = "ok"
      /\ Command(call, a) = "ok"
  <2> HIDE DEF review, approval
  <2> QED
    BY RefusalOf6 DEF DeployRefusal, Require, review, approval
<1>2. ASSUME NEW alias, NEW label, label # "ok",
             IsReleaseOwner(a, people, alias, label) = "ok"
      PROVE  Owner(alias)
  BY <1>2, RefusalOf2 DEF IsReleaseOwner, Require
<1>3. review = "ok" => /\ e.review.revision = call.revision
                       /\ e.review.by # e.assignee
                       /\ Owner(e.review.by)
  BY <1>2, RefusalOf3 DEF ReviewRefusal, Require
<1>4. approval = "ok" => /\ e.approval.revision = call.revision
                         /\ e.approval.by # e.assignee
                         /\ Owner(e.approval.by)
  BY <1>2, RefusalOf3 DEF ApprovalRefusal, Require
<1>5. \E p \in people : p.alias = e.assignee
  BY <1>1 DEF IsActive
<1> HIDE DEF review, approval, Owner
<1>6. \E word \in {e.approval, e.review} :
          word.revision = call.revision /\ word.by # e.assignee /\ Owner(word.by)
  BY <1>1, <1>3, <1>4
<1> QED
  BY <1>1, <1>5, <1>6 DEF Owner

\* The first value behind a flag is the one behind its first occurrence.
LEMMA FirstValueIsThere ==
    ASSUME NEW args, NEW flag, NEW i \in DOMAIN args, DOMAIN args \subseteq Int, args[i] = flag,
           \A j \in DOMAIN args : j < i => args[j] # flag
    PROVE  FirstValueOf(args, flag) = args[i + 1]
<1> DEFINE First(k) == args[k] = flag /\ \A j \in DOMAIN args : j < k => args[j] # flag
<1>1. \A k \in DOMAIN args : First(k) <=> k = i
  OBVIOUS
<1>2. (CHOOSE k \in DOMAIN args : First(k)) = i
  <2> HIDE DEF First
  <2> QED
    BY <1>1
<1> QED
  BY <1>2 DEF FirstValueOf

LEMMA InsertBehind ==
    ASSUME NEW S, NEW s \in Seq(S), NEW k \in 1 .. Len(s), NEW e
    PROVE  LET t == InsertAt(s, k + 1, e) IN
           /\ DOMAIN t = 1 .. Len(s) + 1
           /\ \A i \in 1 .. k : t[i] = s[i]
           /\ t[k + 1] = e
<1> DEFINE T == S \cup {e}
           before == SubSeq(s, 1, k)
           after == SubSeq(s, k + 1, Len(s))
<1>1. Len(s) \in Nat /\ k \in Nat /\ \A i \in 1 .. Len(s) : s[i] \in T
  BY LenProperties, ElementOfSeq
<1>2. /\ before \in Seq(T) /\ Len(before) = k
      /\ \A i \in 1 .. k : before[i] = s[i]
  <2>1. \A i \in 1 .. k : s[i] \in T
    BY <1>1
  <2> HIDE DEF T
  <2> QED
    BY <1>1, <2>1, SubSeqProperties
<1>3. after \in Seq(T) /\ Len(after) = Len(s) - k
  <2>1. \A i \in k + 1 .. Len(s) : s[i] \in T
    BY <1>1
  <2> HIDE DEF T
  <2> QED
    BY <1>1, <2>1, SubSeqProperties
<1>4. <<e>> \in Seq(T) /\ Len(<<e>>) = 1 /\ <<e>>[1] = e
  OBVIOUS
<1> DEFINE upTo == before \o <<e>>
<1> HIDE DEF T, before, after
<1>5. /\ upTo \in Seq(T) /\ Len(upTo) = k + 1 /\ upTo[k + 1] = e
      /\ \A i \in 1 .. k : upTo[i] = s[i]
  BY <1>1, <1>2, <1>4, ConcatProperties
<1> HIDE DEF upTo
<1>6. /\ upTo \o after \in Seq(T) /\ Len(upTo \o after) = Len(s) + 1
      /\ (upTo \o after)[k + 1] = e
      /\ \A i \in 1 .. k : (upTo \o after)[i] = s[i]
  <2>1. /\ upTo \o after \in Seq(T) /\ Len(upTo \o after) = Len(upTo) + Len(after)
        /\ \A i \in 1 .. Len(upTo) + Len(after) :
               (upTo \o after)[i] = IF i <= Len(upTo) THEN upTo[i] ELSE after[i - Len(upTo)]
    BY <1>3, <1>5, ConcatProperties
  <2>2. Len(upTo) + Len(after) = Len(s) + 1 /\ k + 1 \in 1 .. Len(s) + 1
    BY <1>1, <1>3, <1>5
  <2>3. \A i \in 1 .. k + 1 : (upTo \o after)[i] = upTo[i]
    BY <1>1, <1>5, <2>1, <2>2
  <2> QED
    BY <1>1, <1>5, <2>1, <2>2, <2>3
<1>7. DOMAIN (upTo \o after) = 1 .. Len(s) + 1
  BY <1>6, LenProperties
<1>8. InsertAt(s, k + 1, e) = upTo \o after
  <2>1. (k + 1) - 1 = k
    BY <1>1
  <2> QED
    BY <2>1 DEF InsertAt, upTo, before, after
<1> QED
  BY <1>6, <1>7, <1>8

\* A declared argv has one marker, so that its first value is the revision.
LEMMA RevisionIsAsked ==
    ASSUME NEW c, c.argv \in Seq(STRING), c.argv # <<>>, OneRevisionMarker(c), NEW revision,
           "--revision" \in ToSet(ExpectedArgs(c, revision))
    PROVE  FirstValueOf(ExpectedArgs(c, revision), "--revision") = revision
<1> DEFINE argv == c.argv
           rest == Tail(argv)
           k    == CHOOSE i \in DOMAIN rest : rest[i] = "--revision"
           args == ExpectedArgs(c, revision)
<1>1. /\ rest \in Seq(STRING) /\ Len(argv) \in Nat /\ Len(rest) = Len(argv) - 1
      /\ Len(rest) \in Nat
      /\ \A i \in 1 .. Len(rest) : rest[i] = argv[i + 1]
      /\ DOMAIN argv = 1 .. Len(argv) /\ DOMAIN rest = 1 .. Len(rest)
  BY HeadTailProperties, LenProperties
<1>2. PICK m \in DOMAIN argv : \A j \in DOMAIN argv : argv[j] = "--revision" <=> j = m
  BY DEF OneRevisionMarker
<1>3. c.revision_arg = "--revision"
  BY DEF OneRevisionMarker
<1>4. args = IF "--revision" \in ToSet(rest) THEN InsertAt(rest, k + 1, revision) ELSE rest
  BY <1>3 DEF ExpectedArgs
<1>5. "--revision" \in ToSet(rest)
  BY <1>4
<1>6. k \in 1 .. Len(rest) /\ rest[k] = "--revision"
  BY <1>1, <1>5 DEF ToSet
<1> HIDE DEF argv, rest, k, args
<1>7. /\ DOMAIN args = 1 .. Len(rest) + 1
      /\ \A i \in 1 .. k : args[i] = rest[i]
      /\ args[k + 1] = revision
  BY <1>1, <1>4, <1>5, <1>6, InsertBehind
<1>8. \A j \in DOMAIN args : j < k => args[j] # "--revision"
  <2> SUFFICES ASSUME NEW j \in DOMAIN args, j < k, args[j] = "--revision"
               PROVE  FALSE
    OBVIOUS
  <2>1. j \in 1 .. Len(rest) /\ rest[j] = "--revision"
    BY <1>1, <1>6, <1>7
  <2>2. argv[j + 1] = "--revision" /\ argv[k + 1] = "--revision"
    BY <1>1, <1>6, <2>1
  <2>3. j + 1 \in DOMAIN argv /\ k + 1 \in DOMAIN argv
    BY <1>1, <1>6, <2>1
  <2>4. j + 1 = m /\ k + 1 = m
    BY <1>2, <2>2, <2>3
  <2> QED
    BY <1>6, <2>1, <2>4
<1>9. k \in DOMAIN args /\ DOMAIN args \subseteq Int /\ args[k] = "--revision"
  BY <1>1, <1>6, <1>7
<1>10. FirstValueOf(args, "--revision") = args[k + 1]
  BY <1>8, <1>9, FirstValueIsThere
<1> QED
  BY <1>7, <1>10 DEF args

\* Whatever is replaced meanwhile, a production deploy that was granted has an
\* assignee and, as another sender, a release owner whose word is about the
\* revision in the argv.
THEOREM TwoPeopleDeploy == GatewaySpec => []NobodyDeploysAlone
<1>1. ASSUME GatewayTypeOK, CallInv PROVE NobodyDeploysAlone
  <2> DEFINE a == readAdapter   e == readEvidence
  <2> SUFFICES ASSUME Granted({"production-deploy"})
               PROVE  \E assignee, owner \in participants :
                          /\ assignee.alias = e.assignee
                          /\ owner.sender # assignee.sender
                          /\ HasRole(owner, a.roles.release_owners)
                          /\ \E word \in {e.approval, e.review} :
                                /\ word.by = owner.alias
                                /\ word.revision = Call.revision
                                /\ "--revision" \in ToSet(result.args) =>
                                      word.revision = FirstValueOf(result.args, "--revision")
    BY DEF NobodyDeploysAlone
  <2>1. /\ pc = "done" /\ result.kind \in {"project", "allowed"}
        /\ Call.operation = "production-deploy"
    BY DEF Granted
  <2>2. Granted(Mutation)
    BY DEF Granted, Mutation
  <2>3. /\ AdapterPassed /\ RegistryPassed /\ EvidencePassed /\ AdapterContract(a) = "ok"
    BY <1>1, <2>2, GrantedPassed
  <2>4. DeployRefusal(Call, a, participants, Actor, e) = "ok"
    BY <2>1, <2>3 DEF EvidencePassed, EvidenceRefusal
  <2>5. PICK assignee \in participants : assignee.alias = e.assignee
    BY <2>4, DeployFacts
  <2>6. PICK word \in {e.approval, e.review}, owner \in participants :
            /\ word.revision = Call.revision
            /\ word.by # e.assignee
            /\ owner.alias = word.by /\ HasRole(owner, ReleaseRoles(a))
    BY <2>4, DeployFacts
  <2>7. owner.sender # assignee.sender
    BY <2>3, <2>5, <2>6, AliasesAreSenders
  <2>8. HasRole(owner, a.roles.release_owners)
    BY <2>3, <2>6, ContractFacts DEF HasRole
  <2>9. ASSUME "--revision" \in ToSet(result.args)
        PROVE  FirstValueOf(result.args, "--revision") = Call.revision
    <3> DEFINE c == a.capabilities["production_deploy"]
    <3>1. result.args = Call.args
      BY <1>1, <2>1 DEF CallInv, Outcome
    <3>2. Command(Call, a) = "ok"
      BY <2>4, DeployFacts
    <3>3. CapabilityOf["production-deploy"] = "production_deploy"
      BY DEF CapabilityOf
    <3>4. /\ "production_deploy" \in DOMAIN a.capabilities
          /\ Call.args = ExpectedArgs(c, Call.revision)
      BY <2>1, <3>2, <3>3 DEF Command, RequireBackendCommand, Require
    <3>5. c.argv # <<>> /\ OneRevisionMarker(c) /\ c.argv \in Seq(STRING)
      BY <2>3, <3>4, ContractFacts, GatewayAssumption
         DEF AdapterPassed, RequireGateway, RevisionBound
    <3> HIDE DEF c
    <3> QED
      BY <2>9, <3>1, <3>4, <3>5, RevisionIsAsked
  <2> QED
    BY <2>5, <2>6, <2>7, <2>8, <2>9
<1> QED
  BY <1>1, CallKept, PTL

-----------------------------------------------------------------------------
(* The issue in the argv. *)

LEMMA MarkersAre ==
    /\ DOMAIN IssueProjectionMarkers =
           {"{{issue_repository}}", "{{issue_number}}", "{{issue_assignee}}"}
    /\ \A p \in DOMAIN IssueProjectionMarkers :
           /\ IssueProjectionMarkers[p]
                  \in {"--issue-repository", "--issue-number", "--issue-assignee"}
           /\ IssueProjectionMarkers[p] \in Flag
  BY DEF IssueProjectionMarkers, Flag

LEMMA JobIsNoFlag ==
    ASSUME NEW args, HasOne(args, "--job")
    PROVE  IssueJobId(args) \notin Flag
<1>1. PICK i : Occurrences(args, "--job") = {i} /\ args[i + 1] \notin Flag
  BY DEF HasOne
<1>2. \A j \in DOMAIN args : args[j] = "--job" <=> j = i
  BY <1>1 DEF Occurrences
<1>3. i \in DOMAIN args
  BY <1>1 DEF Occurrences
<1>4. (CHOOSE j \in DOMAIN args : args[j] = "--job") = i
  BY <1>2, <1>3
<1> QED
  BY <1>1, <1>4 DEF IssueJobId, ValueOf

\* In the argv the helper writes, the first value behind the marker of a
\* field is the field of the evidence: no other slot is filled with what looks
\* like a marker.
LEMMA EvidenceIsBound ==
    ASSUME NEW a \in Adapter, RequireIssueWork(a.issue_work),
           NEW command \in DOMAIN a.issue_work, NEW args,
           command = "restart" => HasOne(args, "--job"),
           NEW e \in Evidence, e.repository = a.repository,
           NEW p \in DOMAIN IssueProjectionMarkers
    PROVE  FirstValueOf(Tail(DelegatedArgs(a.issue_work[command], args, e)),
                        IssueProjectionMarkers[p]) = IssueValues(e)[p]
<1> DEFINE argv == a.issue_work[command]
           marker == IssueProjectionMarkers[p]
           D == DelegatedArgs(argv, args, e)
           S == {D[i] : i \in DOMAIN argv}
<1>1. /\ argv \in Seq(STRING) /\ argv # <<>> /\ argv[1] = command
      /\ command \in IssueWorkCommands
      /\ BindsFirst(argv, marker, p)
      /\ command # "restart" => Job \notin ToSet(argv)
  BY GatewayAssumption DEF RequireIssueWork
<1>2. /\ Len(argv) \in Nat /\ DOMAIN argv = 1 .. Len(argv) /\ Len(argv) > 0
  BY <1>1, LenProperties
<1>3. PICK m \in 1 .. Len(argv) - 1 :
          /\ argv[m] = marker /\ argv[m + 1] = p
          /\ \A j \in 1 .. m - 1 : argv[j] # marker
  BY <1>1 DEF BindsFirst
<1>4. marker \in {"--issue-repository", "--issue-number", "--issue-assignee"}
          /\ marker \in Flag
  BY MarkersAre
<1>5. m > 1 /\ m < Len(argv)
  <2>1. m # 1
    BY <1>1, <1>3, <1>4 DEF IssueWorkCommands
  <2> QED
    BY <1>2, <1>3, <2>1
<1>6. DOMAIN D = 1 .. Len(argv)
  BY <1>2 DEF DelegatedArgs
<1>7. \A i \in 1 .. Len(argv) :
          D[i] = IF EvidenceSlot(argv, i) THEN IssueValues(e)[argv[i]]
                 ELSE IF JobSlot(argv, i) THEN IssueJobId(args)
                 ELSE argv[i]
  BY <1>2 DEF DelegatedArgs
<1> HIDE DEF D, argv
<1>8. D[m + 1] = IssueValues(e)[p]
  <2>1. EvidenceSlot(argv, m + 1)
    BY <1>2, <1>3, <1>5 DEF EvidenceSlot
  <2> QED
    BY <1>2, <1>3, <1>5, <1>7, <2>1
<1>9. D[m] = marker
  <2>1. ~EvidenceSlot(argv, m) /\ ~JobSlot(argv, m)
    BY <1>3, <1>4, MarkersAre DEF EvidenceSlot, JobSlot, Job
  <2> QED
    BY <1>2, <1>3, <1>5, <1>7, <2>1
<1>10. \A q \in DOMAIN IssueProjectionMarkers : IssueValues(e)[q] \notin Flag
  <2>1. {e.repository, ToString(e.number), e.assignee} \cap Flag = {}
    BY GatewayAssumption
  <2> QED
    BY <2>1, MarkersAre DEF IssueValues
<1>11. \A j \in 1 .. m - 1 : D[j] # marker
  <2> SUFFICES ASSUME NEW j \in 1 .. m - 1
               PROVE  D[j] # marker
    OBVIOUS
  <2>1. j \in 1 .. Len(argv) /\ argv[j] # marker
    BY <1>2, <1>3
  <2>2. CASE EvidenceSlot(argv, j)
    BY <1>4, <1>7, <1>10, <2>1, <2>2 DEF EvidenceSlot
  <2>3. CASE ~EvidenceSlot(argv, j) /\ JobSlot(argv, j)
    <3>1. Job \in ToSet(argv)
      BY <1>2, <2>1, <2>3 DEF JobSlot, ToSet
    <3>2. IssueJobId(args) \notin Flag
      BY <1>1, <3>1, JobIsNoFlag
    <3> QED
      BY <1>4, <1>7, <2>1, <2>3, <3>2
  <2>4. CASE ~EvidenceSlot(argv, j) /\ ~JobSlot(argv, j)
    BY <1>7, <2>1, <2>4
  <2> QED
    BY <2>2, <2>3, <2>4
<1>12. D \in Seq(S) /\ Len(D) = Len(argv) /\ D # <<>>
  <2>1. D \in [1 .. Len(argv) -> S]
    BY <1>2, <1>6 DEF D, DelegatedArgs
  <2> HIDE DEF S
  <2>2. D \in Seq(S)
    BY <1>2, <2>1, SeqDef
  <2>3. Len(D) = Len(argv)
    BY <1>2, <1>6, <2>2, LenProperties
  <2> QED
    BY <1>2, <2>2, <2>3, EmptySeq
<1> DEFINE made == Tail(D)
<1> HIDE DEF S, marker
<1>13. /\ DOMAIN made = 1 .. Len(argv) - 1
       /\ \A i \in 1 .. Len(argv) - 1 : made[i] = D[i + 1]
  <2>1. /\ Tail(D) \in Seq(S) /\ Len(Tail(D)) = Len(D) - 1
        /\ \A i \in 1 .. Len(Tail(D)) : Tail(D)[i] = D[i + 1]
    BY <1>12, HeadTailProperties
  <2>2. DOMAIN Tail(D) = 1 .. Len(Tail(D))
    BY <2>1, LenProperties
  <2> QED
    BY <1>12, <2>1, <2>2
<1> HIDE DEF made
<1>14. /\ m - 1 \in DOMAIN made /\ DOMAIN made \subseteq Int
       /\ made[m - 1] = marker
       /\ made[(m - 1) + 1] = IssueValues(e)[p]
       /\ \A j \in DOMAIN made : j < m - 1 => made[j] # marker
  BY <1>2, <1>3, <1>5, <1>8, <1>9, <1>11, <1>13
<1>15. FirstValueOf(made, marker) = made[(m - 1) + 1]
  BY <1>14, FirstValueIsThere
<1> QED
  BY <1>14, <1>15 DEF made, D, argv, marker

\* Whatever is replaced between the decision and the argv, the first
\* repository in the argv of issue work is that of the adapter the argv was
\* made from, and its first assignee is the authenticated sender unless the
\* evidence itself has changed.
THEOREM IssueOfTheSender == GatewaySpec => []IssueIsTheActors
<1>1. ASSUME GatewayTypeOK, CallInv PROVE IssueIsTheActors
  <2> DEFINE a == argvAdapter   e == result.evidence
  <2> SUFFICES ASSUME Granted({"issue-work"}), result.kind = "project"
               PROVE  /\ FirstValueOf(result.args, "--issue-repository") = a.repository
                      /\ \/ e # readEvidence
                         \/ FirstValueOf(result.args, "--issue-assignee") = Actor.alias
    BY DEF IssueIsTheActors
  <2>1. pc = "done" /\ Call.operation = "issue-work" /\ Granted(Mutation)
    BY DEF Granted, Mutation
  <2>2. MadeByHelper
    BY <1>1, <2>1 DEF CallInv, Outcome
  <2>3. /\ AdapterContract(a) = "ok" /\ ParseIssueEvidence(e, a) = "ok"
        /\ ExpandIssueCapability(a, Call.command, Call.args, e) = "ok"
    BY <2>2, RefusalOf3 DEF MadeByHelper, BackendArgsRefusal, Require
  <2>4. RequireIssueWork(a.issue_work)
    BY <2>3, ContractFacts DEF RequireGateway
  <2>5. e.repository = a.repository
    <3> DEFINE identified == /\ e.repository = a.repository
                             /\ e.number > 0
                             /\ e.open
                             /\ e.assignee # ""
               present == Require(e.state = "present", "evidence_unreadable")
    <3>1. FirstRefusal(<<present, Require(identified, "evidence")>>) = "ok"
      BY <2>3, Zenon DEF ParseIssueEvidence
    <3> HIDE DEF identified, present
    <3>2. identified
      BY <3>1, RefusalOf2 DEF Require
    <3> QED
      BY <3>2 DEF identified
  <2>6. /\ Call.command \in DOMAIN a.issue_work
        /\ Call.command = "restart" => HasOne(Call.args, "--job")
    BY <2>3 DEF ExpandIssueCapability
  <2>7. \A p \in DOMAIN IssueProjectionMarkers :
            FirstValueOf(result.args, IssueProjectionMarkers[p]) = IssueValues(e)[p]
    <3>1. /\ a \in Adapter /\ e \in Evidence
          /\ result.args = Tail(DelegatedArgs(a.issue_work[Call.command], Call.args, e))
      BY <2>2 DEF MadeByHelper
    <3> DEFINE command == Call.command   args == Call.args
    <3>2. /\ a \in Adapter /\ RequireIssueWork(a.issue_work)
          /\ command \in DOMAIN a.issue_work
          /\ command = "restart" => HasOne(args, "--job")
          /\ e \in Evidence /\ e.repository = a.repository
      BY <2>4, <2>5, <2>6, <3>1
    <3>3. result.args = Tail(DelegatedArgs(a.issue_work[command], args, e))
      BY <3>1
    <3> HIDE DEF a, e, command, args
    <3>4. ASSUME NEW p \in DOMAIN IssueProjectionMarkers
          PROVE  FirstValueOf(Tail(DelegatedArgs(a.issue_work[command], args, e)),
                              IssueProjectionMarkers[p]) = IssueValues(e)[p]
      BY <3>2, EvidenceIsBound
    <3> QED
      BY <3>3, <3>4
  <2>8. /\ FirstValueOf(result.args, "--issue-repository") = e.repository
        /\ FirstValueOf(result.args, "--issue-assignee") = e.assignee
    <3> DEFINE V(flag) == FirstValueOf(result.args, flag)
    <3>1. \A p \in DOMAIN IssueProjectionMarkers :
              V(IssueProjectionMarkers[p]) = IssueValues(e)[p]
      BY <2>7
    <3> HIDE DEF V
    <3>2. V("--issue-repository") = e.repository /\ V("--issue-assignee") = e.assignee
      BY <3>1 DEF IssueProjectionMarkers, IssueValues
    <3> QED
      BY <3>2 DEF V
  <2>9. EvidencePassed
    BY <1>1, <2>1, GrantedPassed
  <2>10. IssueRefusal(Call, readAdapter, Actor, readEvidence) = "ok"
    BY <2>1, <2>9 DEF EvidencePassed, EvidenceRefusal
  <2>11. readEvidence.assignee = Actor.alias
    BY <2>10, RefusalOf3 DEF IssueRefusal, Require
  <2> QED
    BY <2>5, <2>8, <2>11
<1> QED
  BY <1>1, CallKept, PTL
=============================================================================
