----------------------------- MODULE MCGateway -----------------------------
(***************************************************************************)
(* A project with a contributor and two release owners, Monday morning.    *)
(***************************************************************************)
EXTENDS Gateway

Hosts == ("UTC" :> 0) @@ ("Asia/Seoul" :> 540)

\* Seoul: Monday 8:30 (Sunday in UTC), Monday 18:00, Tuesday 8:30 (Monday in
\* UTC).
Instants == {10050, 540, 1410}

Directories == ("/w/kim" :> "/w/kim") @@ ("/link" :> "/w/kim") @@ ("/w/lee" :> "/w/lee")
                   @@ ("/w/park" :> "/w/park") @@ ("/w/kim/in" :> "/w/kim/in")
Below == ("/w/kim" :> {"/w/kim", "/w/kim/in"}) @@ ("/w/lee" :> {"/w/lee"})
             @@ ("/w/park" :> {"/w/park"}) @@ ("/w/kim/in" :> {"/w/kim/in"})

IssueArgs == <<"--issue-repository", "{{issue_repository}}", "--issue-number",
               "{{issue_number}}", "--issue-assignee", "{{issue_assignee}}">>

WorkDay == [timezone |-> "Asia/Seoul", days |-> <<1, 2, 3, 4, 5>>,
            start_hour |-> 8, end_hour |-> 18]

Approved ==
    [state |-> "present", profile |-> "server", version |-> 1,
     present  |-> ProfileRules.server.sections \cup ProfileRules.server.required,
     sound    |-> {"project", "workspace", "roles", "discord", "gateway", "team_policy",
                   "authorization", "commands", "guards", "execution", "tiers", "ops_profile"},
     asDemanded |-> {"issue_required", "chat_grants_authority", "database_authority",
                     "high_system_risk", "incident_rollback", "issue_assignee_required",
                     "unanswered_thread_recipient", "guards_database", "stall_forbidden",
                     "bot_work", "our_turn", "re_ask"},
     project |-> "shop", repository |-> "org/shop",
     roles |-> [contributors |-> {"dev"}, integrators |-> {"lead"}, release_owners |-> {"owner"}],
     discord_misses |-> "none", enabled |-> TRUE, contact_window |-> WorkDay, work_hours |-> WorkDay,
     production_deploy_role |-> "release_owners",
     issue_work_roles |-> {"contributors", "owner"},
     production_approval |-> "required", guards_approval |-> TRUE,
     responder |-> "bot", discord_responder |-> "bot",
     tiers |-> [development |-> [deployable_by |-> {"contributors"}, reachable |-> TRUE],
                production  |-> [deployable_by |-> {"owner"}, reachable |-> FALSE]],
     issue_work |-> ("submit" :> <<"submit">> \o IssueArgs)
                    @@ ("restart" :> <<"restart", "--job", "{{job_id}}">> \o IssueArgs),
     capabilities |->
         ("production_deploy" :> [argv |-> <<"ship", "--revision">>, revision_arg |-> "--revision"])
         @@ ("database_write" :> [argv |-> <<"migrate", "--revision">>, revision_arg |-> "--revision"])
         @@ ("rollback" :> [argv |-> <<"unship", "--revision">>, revision_arg |-> "--revision"])]

ByRisk == [Approved EXCEPT !.production_approval = "high_risk_only", !.guards_approval = FALSE]

NeverContacted == [Approved EXCEPT !.contact_window.end_hour = 8]

OnOneMachine ==
    [Approved EXCEPT !.profile = "local",
                     !.present = ProfileRules.local.sections \cup ProfileRules.local.required,
                     !.sound   = @ \cup {"local_workspace"}]

\* No key at all for the contact window, and no file.
Uncontacted == [Approved EXCEPT !.discord_misses = "contact_window"]
Gone        == [Approved EXCEPT !.state = "missing"]

Adapters == {Approved, ByRisk, NeverContacted, OnOneMachine, Uncontacted, Gone}

Row(sender, alias, role, workspace, window) ==
    [sender |-> sender, alias |-> alias, project |-> "shop", workspace |-> workspace,
     roles |-> {role}, enabled |-> TRUE, window |-> window, wellFormed |-> TRUE]

Monday == <<[timezone |-> "Asia/Seoul", days |-> <<1>>, start |-> 480, end |-> 720]>>
Kim    == Row("1", "kim", "dev", "/w/kim", Monday)
Lee    == Row("2", "lee", "owner", "/w/lee", <<>>)
Park   == Row("3", "park", "owner", "/w/park", <<>>)

\* The second registry has one person under two aliases.
Registries ==
    {[state |-> "present", rows |-> <<Kim, Lee, Park>>],
     [state |-> "present", rows |-> <<Kim, Row("1", "kim2", "owner", "/w/kim", <<>>), Park>>],
     [state |-> "missing", rows |-> <<>>]}

Issue(assignee, by, risk) ==
    [state |-> "present", repository |-> "org/shop", number |-> 7, open |-> TRUE,
     assignee |-> assignee,
     approval |-> [approved |-> TRUE, by |-> by, revision |-> "r1"],
     review   |-> [complete |-> TRUE, revision |-> "r1", system_risk |-> risk,
                   traffic_risk |-> "low", human_only |-> FALSE, by |-> by],
     explicit_authority |-> assignee = "lee", previous_revision |-> "r2", artifact |-> TRUE]

Evidences == {Issue("kim", "lee", "low"), Issue("kim", "kim2", "high"), Issue("lee", "park", "high"),
              [Issue("kim", "lee", "low") EXCEPT !.repository = "org/other"]}

ToGateway(operation, command, args, row, backend) ==
    [via |-> "gateway", operation |-> operation, command |-> command, args |-> args,
     sender |-> row.sender, alias |-> row.alias, workspace |-> row.workspace,
     output |-> [absolute |-> TRUE, parent |-> "/w/kim/in", exists |-> FALSE],
     revision |-> "", instance |-> FALSE, backend |-> backend, ctl |-> TRUE, script |-> TRUE]

ToBridge(operation, command, args, row, revision) ==
    [via |-> "bridge", operation |-> operation, command |-> command, args |-> args,
     sender |-> row.sender, alias |-> row.alias, workspace |-> row.workspace,
     revision |-> revision, routeSound |-> TRUE, inputSound |-> TRUE, project |-> "shop",
     routeSender |-> row.sender, sameBinding |-> TRUE, access |-> "workspace-write",
     profile |-> [sender |-> row.sender, alias |-> row.alias, project |-> "shop"],
     cwd |-> row.workspace, allowedPaths |-> {row.workspace}]

Requests ==
    {ToGateway("production-deploy", "ship", <<"--revision", "r1">>, Park, "project"),
     ToGateway("production-deploy", "ship", <<"--revision", "r2">>, Park, "project"),
     ToGateway("database-write", "migrate", <<"--revision", "r1">>, Lee, "project"),
     ToGateway("rollback", "unship", <<"--revision", "r2">>, Park, "project"),
     ToGateway("issue-work", "submit", <<>>, Kim, "project"),
     ToGateway("issue-work", "restart", <<"--job", "j">>, Lee, "project"),
     ToGateway("attachment-download", "attachment", <<"--output", "f">>, Kim, "adk"),
     ToGateway("", "service", <<"restart">>, Kim, "adk"),
     ToGateway("launch", "service", <<"restart">>, Kim, "auto"),
     ToGateway("contact-window", "contact-window", <<>>, Kim, "auto"),
     ToBridge("production-deploy", "ship", <<"--revision", "r1">>, Park, "r1"),
     ToBridge("issue-work", "submit", <<>>, [Kim EXCEPT !.workspace = "/link"], ""),
     [ToBridge("issue-work", "submit", <<>>, Kim, "") EXCEPT !.cwd = "/w/lee",
                                                            !.allowedPaths = {"/w/lee"}]}

Shared == {<<"artifacts", "list">>}

Declared ==
    [kind |-> "dependency", sound |-> TRUE,
     dependency |-> [pinned |-> TRUE, module_digest |-> "d", required_options |-> {"--job", "--output"},
                     readonly_commands |-> Shared,
                     unsupported_commands |-> {<<"artifacts", "prune">>, <<"retry">>}]]

Pinned ==
    [inRoot |-> TRUE, digest |-> "d",
     contract |->
        [kind |-> "surface", sound |-> TRUE, fixed |-> {"cancel", "attachment", "revision"},
         readonly_commands |-> Shared \cup {<<"status">>}, service_commands |-> {"restart"},
         cutover_commands |-> {"prepare"}, unsupported_commands |-> {<<"retry">>},
         cli |-> [known_commands |-> {"status", "artifacts", "cancel", "service"},
                  option_flags |-> ("--job" :> "job" @@ "--output" :> "output"),
                  boolean_options |-> {}, value_options |-> {"job", "output"},
                  numeric_options |-> {}, command_options |-> ("cancel" :> {"job"}),
                  positional_arity |-> ("service" :> 1),
                  actions |-> ("artifacts" :> {"list", "prune"})]]]

Modules == {Pinned, [Pinned EXCEPT !.digest = "e"]}
=============================================================================
