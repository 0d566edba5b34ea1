----------------------------- MODULE PolicyGuard -----------------------------
(***************************************************************************)
(* policy-guard.mjs: may this call do what it asks for?  evaluatePolicy()  *)
(* reads adapter, registry, clock, directories and evidence one after the  *)
(* other, and refuses at the first thing that is wrong.  There is one      *)
(* operator for what it decides after each read; Gateway puts the reads    *)
(* in their order.                                                         *)
(*                                                                         *)
(* A call has the fields operation, command, args, sender, alias,          *)
(* workspace, output and revision.  "" is a field that is not given.  The  *)
(* output of a download is the directory it is in, with `absolute' and     *)
(* `exists' for the file itself.                                           *)
(***************************************************************************)
EXTENDS BackendCommand, ParticipantRegistry

CONSTANTS
    Revision,     \* the full revision names
    Canonical,    \* what each directory resolves to; other paths are none
    Inside        \* the directories at or below a canonical one

Mutation == {"issue-work", "production-deploy", "database-write", "rollback"}

Operation == Mutation \cup {"read-only", "launch", "runtime-management",
                            "contact-window", "attachment-download"}

\* The service of the owner can be looked at and recovered when the registry
\* is damaged.
NeedsNoParticipant == {"read-only", "launch", "runtime-management"}

-----------------------------------------------------------------------------
(* What is decided from the adapter, and from the adapter and the clock. *)

AdapterRefusal(a, operation) ==
    IF operation \notin Operation THEN "operation"
    ELSE FirstRefusal(<<Require(a.state = "present", "adapter"),
                        Require(a.version # 0, "policy_contract_version"),
                        Require("team_policy" \in a.present, "sections"),
                        AdapterContract(a)>>)

RequireCurrentWindow(schedule, now) ==
    Require(ContactWindowStatus(schedule, now), "window")

-----------------------------------------------------------------------------
(* What is decided from the registry. *)

AllKnownRoles(a) == UNION {a.roles[g] : g \in RoleGroup}

\* A local adapter has no tiers: to look at them is an exception.
ValidateRoleProjection(a, participants) ==
    FirstRefusal(
        <<Require(RoleTokenResolves(a.production_deploy_role, a.roles) # {}, "role"),
          Require(\A t \in a.issue_work_roles : RoleTokenResolves(t, a.roles) # {}, "role"),
          IF a.profile = "local"
          THEN "exception"
          ELSE Require(\A tier \in DOMAIN a.tiers : \A t \in a.tiers[tier].deployable_by :
                           RoleTokenResolves(t, a.roles) # {}, "role"),
          Require(\A p \in participants : p.roles \subseteq AllKnownRoles(a), "role")>>)

LoadParticipants(a, registry) ==
    ActiveParticipantsForProject(registry.rows, a.project)

RegistryRefusal(a, registry) ==
    FirstRefusal(<<Require(registry.state = "present", "registry"),
                   Require(ValidateParticipantRegistry(registry.rows), "registry"),
                   ValidateRoleProjection(a, LoadParticipants(a, registry))>>)

-----------------------------------------------------------------------------
(* What is decided from the sender, the clock and the directories. *)

RowOfSender(participants, sender) == CHOOSE p \in participants : p.sender = sender

IsActive(participants, alias) == \E p \in participants : p.alias = alias

RequireActor(participants, call) ==
    IF ~ \E p \in participants : p.sender = call.sender
    THEN "sender"
    ELSE Require(call.alias \in {"", RowOfSender(participants, call.sender).alias}, "actor")

RequireTargetWorkspace(actor, workspace) ==
    Require(/\ actor.workspace \in DOMAIN Canonical
            /\ workspace \in DOMAIN Canonical
            /\ Canonical[workspace] = Canonical[actor.workspace], "workspace")

RequireAttachmentOutput(workspace, output) ==
    Require(/\ output.absolute
            /\ output.parent \in DOMAIN Canonical
            /\ Canonical[output.parent] \in Inside[Canonical[workspace]]
            /\ ~output.exists, "output")

ActorRefusal(participants, call, now) ==
    LET refusal == RequireActor(participants, call)
        actor   == RowOfSender(participants, call.sender)
        target  == RequireTargetWorkspace(actor, call.workspace)
    IN  IF refusal # "ok" THEN refusal
        ELSE IF call.operation \in Mutation /\ ~MutationWindowStatus(actor.window, now)
             THEN "window"
        ELSE IF target # "ok" \/ call.operation # "attachment-download"
             THEN target
        ELSE RequireAttachmentOutput(call.workspace, call.output)

-----------------------------------------------------------------------------
(* What is decided from the evidence of the issue. *)

Risk == {"low", "medium", "high"}

\* common-policy.mjs, with the environments a deploy of this guard has.
DeploymentApprovalRequirement(policy, review) ==
    IF policy \notin DeployApproval \/ ~({review.system_risk, review.traffic_risk} \subseteq Risk)
    THEN "agent_preparation"
    ELSE IF \/ review.human_only
            \/ policy = "required"
            \/ "high" \in {review.system_risk, review.traffic_risk}
         THEN "approval_required"
         ELSE "continue_host_gates"

ReleaseRoles(a) == RoleTokenResolves(a.production_deploy_role, a.roles)

HasRole(row, roles) == row.roles \cap roles # {}

IsReleaseOwner(a, participants, alias, label) ==
    FirstRefusal(
        <<Require(IsActive(participants, alias), "participant"),
          Require(\E p \in participants : p.alias = alias /\ HasRole(p, ReleaseRoles(a)),
                  label)>>)

\* A review of the risks, by a release owner who is neither the one who
\* deploys nor the assignee.
ReviewRefusal(call, a, participants, actor, evidence) ==
    LET review == evidence.review IN
    FirstRefusal(
        <<Require(/\ review.complete
                  /\ review.revision = call.revision
                  /\ {review.system_risk, review.traffic_risk} \subseteq Risk, "revision"),
          IsReleaseOwner(a, participants, review.by, "reviewer"),
          Require(review.by \notin {actor.alias, evidence.assignee}, "assignee")>>)

\* The approval of this revision, by a release owner other than the assignee.
ApprovalRefusal(call, a, participants, evidence) ==
    LET approval == evidence.approval IN
    FirstRefusal(
        <<Require(approval.approved /\ approval.revision = call.revision, "approval"),
          IsReleaseOwner(a, participants, approval.by, "approver"),
          Require(approval.by # evidence.assignee, "approval")>>)

Command(call, a) ==
    RequireBackendCommand(a, call.operation, call.command, call.args, call.revision)

IssueRefusal(call, a, actor, evidence) ==
    FirstRefusal(
        <<Require(evidence.assignee = actor.alias, "assignee"),
          Require(HasRole(actor, UNION {RoleTokenResolves(t, a.roles) : t \in a.issue_work_roles}),
                  "role"),
          ExpandIssueCapability(a, call.command, call.args, evidence)>>)

DeployRefusal(call, a, participants, actor, evidence) ==
    LET byRisk == a.production_approval = "high_risk_only"
        review == IF byRisk THEN ReviewRefusal(call, a, participants, actor, evidence) ELSE "ok"
        settled == byRisk /\ DeploymentApprovalRequirement(a.production_approval, evidence.review)
                                 = "continue_host_gates"
    IN  FirstRefusal(
            <<Require(HasRole(actor, ReleaseRoles(a)), "role"),
              Require(IsActive(participants, evidence.assignee), "assignee"),
              Require(call.revision \in Revision, "revision"),
              review,
              IF settled THEN "ok" ELSE ApprovalRefusal(call, a, participants, evidence),
              Command(call, a)>>)

DatabaseRefusal(call, a, actor, evidence) ==
    FirstRefusal(
        <<Require(evidence.assignee = actor.alias, "assignee"),
          Require(HasRole(actor, a.roles.integrators \cup a.roles.release_owners), "role"),
          Require(evidence.explicit_authority, "authority"),
          Require(call.revision \in Revision, "revision"),
          Command(call, a)>>)

RollbackRefusal(call, a, participants, actor, evidence) ==
    FirstRefusal(
        <<Require(HasRole(actor, ReleaseRoles(a)), "role"),
          Require(IsActive(participants, evidence.assignee), "assignee"),
          Require(evidence.previous_revision \in Revision /\ evidence.artifact, "revision"),
          Require(call.revision = evidence.previous_revision, "revision"),
          Command(call, a)>>)

EvidenceRefusal(call, a, participants, actor, evidence) ==
    IF ParseIssueEvidence(evidence, a) # "ok" THEN ParseIssueEvidence(evidence, a)
    ELSE CASE call.operation = "issue-work" -> IssueRefusal(call, a, actor, evidence)
           [] call.operation = "production-deploy" ->
                  DeployRefusal(call, a, participants, actor, evidence)
           [] call.operation = "database-write" -> DatabaseRefusal(call, a, actor, evidence)
           [] call.operation = "rollback" ->
                  RollbackRefusal(call, a, participants, actor, evidence)
=============================================================================
