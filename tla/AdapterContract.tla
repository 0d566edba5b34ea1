--------------------------- MODULE AdapterContract ---------------------------
(***************************************************************************)
(* adapter-contract.mjs: what a project adapter must look like before any  *)
(* policy is read from it.                                                 *)
(*                                                                         *)
(* An adapter is a record.  Of its text it keeps `present', the dotted     *)
(* paths the profile rules ask about; `sound', the sections whose fields   *)
(* are all there with the right types; `discord_misses', the first key its *)
(* discord section lacks, or "none"; `asDemanded', the fields for which    *)
(* the contract allows one value and which have it; and the values that    *)
(* decide something: profile, version, project, repository, the roles of   *)
(* each group, the two schedules, the tokens of the authorization section, *)
(* the deploy approval, the guards, the responders, the tiers and the      *)
(* capabilities of the project backend.  The refusal names the field the   *)
(* message of the source names.                                            *)
(***************************************************************************)
EXTENDS WorkWindows, Refusals

CoreSections == {"project", "workspace", "roles", "discord", "commands",
                 "team_policy", "ops_profile"}

ProfileRules ==
    [server |->
        [sections  |-> CoreSections \cup {"guards", "execution", "tiers"},
         required  |-> {"workspace.ssh_home_pattern", "workspace.branch_pattern",
                        "commands.validate", "commands.deploy_dev",
                        "commands.deploy_production", "guards", "execution", "tiers"},
         forbidden |-> {"local_workspace"}],
     local |->
        [sections  |-> CoreSections \cup {"local_workspace"},
         required  |-> {"workspace.branch_pattern", "commands.validate",
                        "local_workspace.devices_dir"},
         forbidden |-> {"workspace.ssh_home_pattern", "tiers", "execution",
                        "commands.deploy_dev", "commands.deploy_production"}]]

PolicyContractVersion == 1

RoleGroup == {"contributors", "integrators", "release_owners"}

RoleGroupAliases ==
    [contributors   |-> "contributors",   contributor   |-> "contributors",
     integrators    |-> "integrators",    integrator    |-> "integrators",
     release_owners |-> "release_owners", release_owner |-> "release_owners"]

\* The roles a token of the adapter stands for: those of a group, or itself.
RoleTokenResolves(token, roles) ==
    IF token \in DOMAIN RoleGroupAliases
    THEN roles[RoleGroupAliases[token]]
    ELSE {token} \cap UNION {roles[g] : g \in RoleGroup}

-----------------------------------------------------------------------------
(* The project backend: what argv a command of a capability has. *)

RevisionBound     == {"production_deploy", "database_write", "rollback"}
IssueWorkCommands == {"submit", "restart", "amend"}

\* The marker in an argv after which each field of the issue evidence goes.
IssueProjectionMarkers ==
    [p \in {"{{issue_repository}}", "{{issue_number}}", "{{issue_assignee}}"} |->
        CASE p = "{{issue_repository}}" -> "--issue-repository"
          [] p = "{{issue_number}}"     -> "--issue-number"
          [] p = "{{issue_assignee}}"   -> "--issue-assignee"]

Job == "{{job_id}}"

\* The placeholder follows the first occurrence of the marker.
BindsFirst(argv, marker, placeholder) ==
    \E i \in 1 .. Len(argv) - 1 :
        /\ argv[i] = marker
        /\ argv[i + 1] = placeholder
        /\ \A j \in 1 .. i - 1 : argv[j] # marker

RequireIssueWork(commands) ==
    \A name \in DOMAIN commands :
        LET argv == commands[name] IN
        /\ name \in IssueWorkCommands
        /\ argv # <<>>
        /\ argv[1] = name
        /\ \A p \in DOMAIN IssueProjectionMarkers :
               BindsFirst(argv, IssueProjectionMarkers[p], p)
        /\ IF name = "restart" THEN BindsFirst(argv, "--job", Job)
                               ELSE Job \notin ToSet(argv)

OneRevisionMarker(c) ==
    /\ c.revision_arg = "--revision"
    /\ \E i \in DOMAIN c.argv : \A j \in DOMAIN c.argv :
           c.argv[j] = "--revision" <=> j = i

RequireGateway(a) ==
    /\ "gateway" \in a.sound
    /\ RequireIssueWork(a.issue_work)
    /\ \A name \in DOMAIN a.capabilities :
           /\ a.capabilities[name].argv # <<>>
           /\ name \in RevisionBound => OneRevisionMarker(a.capabilities[name])

-----------------------------------------------------------------------------
(* The sections, in the order they are checked. *)

RequireProfile(a, policyOnly) ==
    LET rules   == ProfileRules[a.profile]
        inherit == {"workspace.ssh_home_pattern", "workspace.branch_pattern",
                    "commands.validate"}
        require(full, shared) == (IF policyOnly THEN shared ELSE full) \subseteq a.present
    IN  FirstRefusal(
            <<Require(require(rules.sections, CoreSections), "sections"),
              Require(a.version = PolicyContractVersion, "policy_contract_version"),
              Require(require(rules.required, rules.required \cap inherit), "required"),
              Require(rules.forbidden \cap a.present = {}, "forbidden"),
              Require({"project", "workspace", "roles"} \subseteq a.sound, "core"),
              Require(a.discord_misses # "contact_window", "contact_window"),
              Require("discord" \in a.sound, "core")>>)

\* The production role is one of release owners only, and the roles for
\* issue work are roles of the project.
RequireAuthorization(a) ==
    LET deployers == RoleTokenResolves(a.production_deploy_role, a.roles) IN
    FirstRefusal(
        <<Require("authorization" \in a.sound, "authorization"),
          Require("issue_required" \in a.asDemanded, "issue_required"),
          Require("chat_grants_authority" \in a.asDemanded, "chat_grants_authority"),
          Require(deployers # {} /\ deployers \subseteq a.roles.release_owners,
                  "production_deploy_role"),
          Require(\A t \in a.issue_work_roles : RoleTokenResolves(t, a.roles) # {},
                  "issue_work_roles"),
          Require("database_authority" \in a.asDemanded, "database_authority")>>)

DeployApproval == {"required", "high_risk_only"}

RequireTeamPolicy(a) ==
    FirstRefusal(
        <<Require("team_policy" \in a.sound, "team_policy"),
          RequireAuthorization(a),
          Require(RequireSchedule(a.work_hours), "work_hours"),
          Require(/\ a.production_approval \in DeployApproval
                  /\ {"high_system_risk", "incident_rollback"} \subseteq a.asDemanded,
                  "approval"),
          Require("issue_assignee_required" \in a.asDemanded, "issue_assignee"),
          Require("unanswered_thread_recipient" \in a.asDemanded, "recipient"),
          Require(a.responder = a.discord_responder, "responder")>>)

RequireGuards(a) ==
    /\ "guards" \in a.sound
    /\ a.guards_approval = (a.production_approval = "required")
    /\ "guards_database" \in a.asDemanded

RequireTiers(a) ==
    /\ "tiers" \in a.sound
    /\ \A tier \in {"development", "production"} :
           a.tiers[tier].reachable => a.tiers[tier].deployable_by # {}

\* What a profile asks for beyond the policy that a host can inherit.
RequireDeployment(a) ==
    IF a.profile = "local"
    THEN Require("local_workspace" \in a.sound, "local_workspace")
    ELSE FirstRefusal(<<Require(RequireGuards(a), "guards"),
                        Require("execution" \in a.sound, "execution"),
                        Require(RequireTiers(a), "tiers")>>)

\* A project that answers on Discord must not stall or hand its work back.
RequireOpsProfile(a) ==
    /\ "ops_profile" \in a.sound
    /\ a.enabled => {"stall_forbidden", "bot_work", "our_turn", "re_ask"} \subseteq a.asDemanded

ContractRefusal(a, policyOnly) ==
    IF a.profile \notin DOMAIN ProfileRules
    THEN "profile"
    ELSE FirstRefusal(
            <<RequireProfile(a, policyOnly),
              Require(RequireSchedule(a.contact_window), "contact_window"),
              Require(RequireGateway(a), "gateway"),
              RequireTeamPolicy(a),
              Require("commands" \in a.sound, "commands"),
              IF policyOnly THEN "ok" ELSE RequireDeployment(a),
              Require(RequireOpsProfile(a), "ops_profile")>>)

AdapterContract(a)       == ContractRefusal(a, FALSE)
AdapterPolicyContract(a) == ContractRefusal(a, TRUE)
=============================================================================
