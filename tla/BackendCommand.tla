--------------------------- MODULE BackendCommand ---------------------------
(***************************************************************************)
(* project-backend-command.mjs: the command a request asks for, bound to   *)
(* the argv the adapter declares for it.  A command line is a sequence of  *)
(* tokens; a request has its first token in `command' and the others in    *)
(* `args'.                                                                 *)
(***************************************************************************)
EXTENDS AdapterContract

\* The file with the evidence of an issue identifies an open issue of this
\* repository, with an assignee.
ParseIssueEvidence(evidence, a) ==
    FirstRefusal(
        <<Require(evidence.state = "present", "evidence_unreadable"),
          Require(/\ evidence.repository = a.repository
                  /\ evidence.number > 0
                  /\ evidence.open
                  /\ evidence.assignee # "", "evidence")>>)

CapabilityOf ==
    [operation \in {"production-deploy", "database-write", "rollback"} |->
        CASE operation = "production-deploy" -> "production_deploy"
          [] operation = "database-write"    -> "database_write"
          [] operation = "rollback"          -> "rollback"]

Flag == {"--job", "--revision", "--output", "--instance"}
            \cup {IssueProjectionMarkers[p] : p \in DOMAIN IssueProjectionMarkers}

Occurrences(args, flag) == {i \in DOMAIN args : args[i] = flag}

\* A flag is given once, with a value.
HasOne(args, flag) ==
    \E i \in 1 .. Len(args) - 1 :
        /\ Occurrences(args, flag) = {i}
        /\ args[i + 1] \notin Flag

ValueOf(args, flag) == args[(CHOOSE i \in DOMAIN args : args[i] = flag) + 1]

IssueJobId(args) == ValueOf(args, "--job")

-----------------------------------------------------------------------------
(* Issue work.  Token i of a declared argv is a slot of the evidence when  *)
(* it is a placeholder behind its own marker.                              *)

EvidenceSlot(argv, i) ==
    /\ i > 2
    /\ argv[i] \in DOMAIN IssueProjectionMarkers
    /\ argv[i - 1] = IssueProjectionMarkers[argv[i]]

JobSlot(argv, i) == i > 2 /\ argv[i] = Job /\ argv[i - 1] = "--job"

Unbound(argv, i) ==
    /\ i > 1
    /\ argv[i] \in DOMAIN IssueProjectionMarkers \cup {Job}
    /\ ~EvidenceSlot(argv, i)
    /\ ~JobSlot(argv, i)

IssueValues(evidence) ==
    [p \in DOMAIN IssueProjectionMarkers |->
        CASE p = "{{issue_repository}}" -> evidence.repository
          [] p = "{{issue_number}}"     -> ToString(evidence.number)
          [] p = "{{issue_assignee}}"   -> evidence.assignee]

\* The argv the backend gets: the evidence is in the slots.
DelegatedArgs(argv, args, evidence) ==
    [i \in DOMAIN argv |->
        IF EvidenceSlot(argv, i) THEN IssueValues(evidence)[argv[i]]
        ELSE IF JobSlot(argv, i) THEN IssueJobId(args)
        ELSE argv[i]]

\* The arguments the caller has to give: all but the evidence and its
\* markers.
InputArgs(argv, args, evidence) ==
    LET Given(i) == /\ i > 1
                    /\ ~EvidenceSlot(argv, i)
                    /\ ~(i < Len(argv) /\ EvidenceSlot(argv, i + 1))
        kept     == SelectSeq([i \in DOMAIN argv |-> i], Given)
    IN  [k \in DOMAIN kept |-> DelegatedArgs(argv, args, evidence)[kept[k]]]

ExpandIssueCapability(a, command, args, evidence) ==
    IF command \notin DOMAIN a.issue_work
    THEN "capability"
    ELSE IF command = "restart" /\ ~HasOne(args, "--job")
    THEN "restart_job"
    ELSE LET argv == a.issue_work[command] IN
         Require(/\ \A i \in DOMAIN argv : ~Unbound(argv, i)
                 /\ args = InputArgs(argv, args, evidence), "command")

-----------------------------------------------------------------------------
(* High-impact commands: the declared argv, with the revision behind its   *)
(* marker, unless the marker is the command itself.                        *)

ExpectedArgs(c, revision) ==
    LET rest == Tail(c.argv)
        k    == CHOOSE i \in DOMAIN rest : rest[i] = c.revision_arg
    IN  IF c.revision_arg \in ToSet(rest) THEN InsertAt(rest, k + 1, revision) ELSE rest

RequireBackendCommand(a, operation, command, args, revision) ==
    IF CapabilityOf[operation] \notin DOMAIN a.capabilities
    THEN "capability"
    ELSE LET c == a.capabilities[CapabilityOf[operation]] IN
         Require(command = c.argv[1] /\ args = ExpectedArgs(c, revision), "command")

\* Faulty variant: the evidence is not checked again.
ArgsOfAnyEvidence(a, evidence, command, args) ==
    FirstRefusal(
        <<Require(AdapterContract(a) = "ok", "contract"),
          ExpandIssueCapability(a, command, args, evidence)>>)

\* project-backend-argv.mjs reads adapter and evidence again, and writes the
\* argv of an issue command.
BackendArgsRefusal(a, evidence, command, args) ==
    FirstRefusal(
        <<Require(AdapterContract(a) = "ok", "contract"),
          ParseIssueEvidence(evidence, a),
          ExpandIssueCapability(a, command, args, evidence)>>)
=============================================================================
