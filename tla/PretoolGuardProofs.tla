-------------------------- MODULE PretoolGuardProofs --------------------------
(***************************************************************************)
(* The pre-tool guard for all commands, policies, tools and times: nothing *)
(* runs on another command's approval, and what runs does what was         *)
(* cleared.                                                                *)
(***************************************************************************)
EXTENDS PretoolGuard, TLAPS

Lease == [command : Command, created : Nat, expires : Nat]

Stages == {"idle", "evaluate", "lease", "verdict", "run", "blocked"}

GuardTypes ==
    /\ branch \in Branch
    /\ lease \in Lease \cup {None}
    /\ clock \in Nat
    /\ pc \in [Tool -> Stages]
    /\ command \in [Tool -> Command \cup {None}]
    /\ seenBranch \in [Tool -> Branch \cup {None}]
    /\ decision \in [Tool -> Judgement \cup {None}]
    /\ seenLease \in [Tool -> Lease \cup {None}]
    /\ judgedAt \in [Tool -> Nat]
    /\ moved \in [Tool -> SUBSET {"branch", "script"}]

\* A lease, if it is one, is a human's.
Approved(l) == l # None => l \in approvals

LeasesAreApproved == Approved(lease) /\ \A t \in Tool : Approved(seenLease[t])

\* A hook that has decided did so by what it saw of branch and scripts, and
\* either this is how they still are or it is recorded that they changed.
DecisionsAreCurrent ==
    \A t \in Tool :
        /\ pc[t] # "idle" => "branch" \in moved[t] \/ seenBranch[t] = branch
        /\ pc[t] \in {"lease", "verdict", "run"} =>
               \E content :
                   /\ decision[t] = EvaluateCommand(command[t], seenBranch[t], content)
                   /\ "script" \in moved[t] \/ content = script

\* What runs was let through.
RunsAreUnblocked ==
    \A t \in Tool : pc[t] = "run" =>
        ~Blocked(decision[t], seenLease[t], command[t], judgedAt[t])

GuardInv ==
    /\ GuardTypes
    /\ LeasesAreApproved
    /\ DecisionsAreCurrent
    /\ RunsAreUnblocked

-----------------------------------------------------------------------------
(* What the judgement means. *)

\* A push without a violation names no protected branch, and if it pushes the
\* current branch, that is not protected.
LEMMA ClearedPush ==
    ASSUME NEW push, NEW current, ~GitPushViolation(push, current)
    PROVE  /\ \A r \in push.refspecs : IsCurrent(r.to) \/ r.to \notin ProtectedBranch
           /\ PushesCurrent(push) => current \notin ProtectedBranch
BY DEF GitPushViolation, IsCurrent, PushesCurrent, BranchName

\* A command is not denied only if no push of it is a violation; and a script
\* of it that is denied, as it was read, comes after one that has to be
\* approved.
LEMMA ClearedCommand ==
    ASSUME NEW c, NEW current, NEW content,
           EvaluateCommand(c, current, content) # "deny"
    PROVE  /\ \A i \in DOMAIN c.push : ~GitPushViolation(c.push[i], current)
           /\ \A i \in DOMAIN c.script :
                  content[c.script[i]] = "deny" =>
                      /\ EvaluateCommand(c, current, content) = "approval"
                      /\ \E j \in DOMAIN c.script : j < i /\ content[c.script[j]] # "allow"
<1>1. \A i \in DOMAIN c.push : ~GitPushViolation(c.push[i], current)
  BY DEF EvaluateCommand
<1>2. InspectScripts(c.script, content) # "deny"
  BY DEF EvaluateCommand
<1>3. ASSUME NEW i \in DOMAIN c.script, content[c.script[i]] = "deny"
      PROVE  /\ EvaluateCommand(c, current, content) = "approval"
             /\ \E j \in DOMAIN c.script : j < i /\ content[c.script[j]] # "allow"
  <2>1. \E j \in DOMAIN c.script : j < i /\ content[c.script[j]] # "allow"
    BY <1>2, <1>3 DEF InspectScripts
  <2>2. InspectScripts(c.script, content) = "approval"
    BY <1>2, <1>3 DEF InspectScripts
  <2>3. EvaluateCommand(c, current, content) = "approval"
    BY <2>2 DEF EvaluateCommand
  <2> QED
    BY <2>1, <2>3
<1> QED
  BY <1>1, <1>3

LEMMA JudgementType ==
    ASSUME NEW c, NEW current, NEW content
    PROVE  EvaluateCommand(c, current, content) \in Judgement
BY DEF EvaluateCommand, Judgement

-----------------------------------------------------------------------------
THEOREM GuardInit == Init => GuardInv
<1> SUFFICES ASSUME Init PROVE GuardInv
  OBVIOUS
<1>1. GuardTypes
  BY DEF Init, GuardTypes, Stages
<1>2. LeasesAreApproved /\ DecisionsAreCurrent /\ RunsAreUnblocked
  BY DEF Init, LeasesAreApproved, Approved, DecisionsAreCurrent, RunsAreUnblocked
<1> QED
  BY <1>1, <1>2 DEF GuardInv

\* A step of one hook: the others, and the repository, stay as they are.
LEMMA HookKeepsInv ==
    ASSUME GuardInv, NEW t \in Tool,
           ReadBranch(t) \/ Evaluate(t) \/ ReadLease(t) \/ Verdict(t) \/ Finish(t)
    PROVE  GuardInv'
<1>0. GuardTypes
  BY DEF GuardInv
<1>1. UNCHANGED <<repository, lease, clock, approvals>>
  BY DEF ReadBranch, Evaluate, ReadLease, Verdict, Finish
<1>2. \A r \in Tool \ {t} :
          /\ pc'[r] = pc[r] /\ command'[r] = command[r]
          /\ seenBranch'[r] = seenBranch[r] /\ decision'[r] = decision[r]
          /\ seenLease'[r] = seenLease[r] /\ judgedAt'[r] = judgedAt[r]
          /\ moved'[r] = moved[r]
  BY <1>0 DEF ReadBranch, Evaluate, ReadLease, Verdict, Finish, GuardTypes
<1>3. SUFFICES /\ GuardTypes'
               /\ Approved(seenLease[t])'
               /\ pc'[t] # "idle" => "branch" \in moved'[t] \/ seenBranch'[t] = branch
               /\ pc'[t] \in {"lease", "verdict", "run"} =>
                      \E content :
                          /\ decision'[t] = EvaluateCommand(command'[t], seenBranch'[t], content)
                          /\ "script" \in moved'[t] \/ content = script
               /\ pc'[t] = "run" =>
                      ~Blocked(decision'[t], seenLease'[t], command'[t], judgedAt'[t])
  <2>1. LeasesAreApproved'
    BY <1>1, <1>2, <1>3 DEF GuardInv, LeasesAreApproved, Approved
  <2>2. branch' = branch /\ script' = script
    BY <1>1 DEF repository
  <2>3. DecisionsAreCurrent'
    BY <1>2, <1>3, <2>2 DEF GuardInv, DecisionsAreCurrent
  <2>4. RunsAreUnblocked'
    BY <1>2, <1>3 DEF GuardInv, RunsAreUnblocked
  <2> QED
    BY <1>3, <2>1, <2>3, <2>4 DEF GuardInv
<1>4. CASE ReadBranch(t)
  <2>1. GuardTypes' /\ pc'[t] = "evaluate" /\ seenBranch'[t] = branch
    BY <1>0, <1>1, <1>4 DEF ReadBranch, GuardTypes, Stages, repository
  <2>2. Approved(seenLease[t])'
    BY <1>1, <1>4 DEF ReadBranch, GuardInv, LeasesAreApproved, Approved
  <2> QED
    BY <2>1, <2>2
<1>5. CASE Evaluate(t)
  <2>1. /\ GuardTypes' /\ pc[t] = "evaluate" /\ pc'[t] = "lease"
        /\ decision'[t] = EvaluateCommand(command[t], seenBranch[t], script)
        /\ moved'[t] = moved[t] \ {"script"}
        /\ UNCHANGED <<command, seenBranch, seenLease>>
    BY <1>0, <1>1, <1>5, JudgementType DEF Evaluate, GuardTypes, Stages, repository
  <2>2. Approved(seenLease[t])'
    BY <1>1, <2>1 DEF GuardInv, LeasesAreApproved, Approved
  <2>3. "branch" \in moved[t] \/ seenBranch[t] = branch
    BY <2>1 DEF GuardInv, DecisionsAreCurrent
  <2> QED
    BY <2>1, <2>2, <2>3
<1>6. CASE ReadLease(t)
  <2>1. /\ GuardTypes' /\ pc[t] = "lease" /\ pc'[t] = "verdict"
        /\ seenLease'[t] = lease
        /\ UNCHANGED <<command, seenBranch, decision, moved>>
    BY <1>0, <1>1, <1>6 DEF ReadLease, GuardTypes, Stages, repository
  <2>2. Approved(seenLease[t])'
    BY <1>1, <2>1 DEF GuardInv, LeasesAreApproved, Approved
  <2> QED
    BY <2>1, <2>2 DEF GuardInv, DecisionsAreCurrent
<1>7. CASE Verdict(t)
  <2>1. /\ GuardTypes' /\ pc[t] = "verdict"
        /\ judgedAt'[t] = clock
        /\ pc'[t] = IF Blocked(decision[t], seenLease[t], command[t], clock)
                    THEN "blocked" ELSE "run"
        /\ UNCHANGED <<command, seenBranch, decision, seenLease, moved>>
    BY <1>0, <1>1, <1>7 DEF Verdict, GuardTypes, Stages, repository
  <2>2. Approved(seenLease[t])'
    BY <1>1, <2>1 DEF GuardInv, LeasesAreApproved, Approved
  <2> QED
    BY <2>1, <2>2 DEF GuardInv, DecisionsAreCurrent
<1>8. CASE Finish(t)
  <2>1. GuardTypes' /\ pc'[t] = "idle" /\ seenLease'[t] = None
    BY <1>0, <1>1, <1>8 DEF Finish, GuardTypes, Stages, repository
  <2> QED
    BY <2>1 DEF Approved
<1> QED
  BY <1>4, <1>5, <1>6, <1>7, <1>8

\* An approval replaces the lease, and is remembered.
LEMMA ApproveKeepsInv ==
    ASSUME GuardInv, NEW c \in Command, NEW minutes \in 1 .. MaxMinutes + 1,
           Approve(c, minutes)
    PROVE  GuardInv'
<1> USE GuardAssumption
<1>1. /\ UNCHANGED <<repository, clock, hook, moved>>
      /\ approvals' = approvals \cup {lease'}
      /\ lease' = [command |-> c, created |-> clock,
                   expires |-> clock + (IF minutes < MaxMinutes THEN minutes ELSE MaxMinutes)]
  BY DEF Approve
<1>2. lease' \in Lease
  BY <1>1 DEF GuardInv, GuardTypes, Lease
<1>3. GuardTypes'
  BY <1>1, <1>2 DEF GuardInv, GuardTypes, hook, repository
<1>4. Approved(lease)'
  BY <1>1 DEF Approved
<1>5. LeasesAreApproved'
  BY <1>1, <1>4 DEF GuardInv, LeasesAreApproved, Approved, hook
<1>6. DecisionsAreCurrent' /\ RunsAreUnblocked'
  BY <1>1 DEF GuardInv, DecisionsAreCurrent, RunsAreUnblocked, hook, repository
<1> QED
  BY <1>3, <1>5, <1>6 DEF GuardInv

\* Others change a script or the branch, and every hook at work is marked.
LEMMA OthersKeepInv ==
    ASSUME GuardInv, SwitchBranch \/ \E s \in Script : EditScript(s)
    PROVE  GuardInv'
<1> DEFINE what == IF SwitchBranch THEN "branch" ELSE "script"
<1>1. /\ UNCHANGED <<lease, clock, hook, approvals>>
      /\ branch' \in Branch
      /\ moved' = [t \in Tool |-> IF pc[t] = "idle" THEN {} ELSE moved[t] \cup {what}]
      /\ what = "branch" => script' = script
      /\ what = "script" => branch' = branch
      /\ what \in {"branch", "script"}
  BY DEF SwitchBranch, EditScript, GuardInv, GuardTypes
<1> HIDE DEF what
<1>2. GuardTypes'
  BY <1>1 DEF GuardInv, GuardTypes, hook
<1>3. LeasesAreApproved' /\ RunsAreUnblocked'
  BY <1>1 DEF GuardInv, LeasesAreApproved, Approved, RunsAreUnblocked, hook
<1>4. DecisionsAreCurrent'
  <2> SUFFICES ASSUME NEW t \in Tool, pc[t] # "idle"
               PROVE  /\ "branch" \in moved'[t] \/ seenBranch[t] = branch'
                      /\ pc[t] \in {"lease", "verdict", "run"} =>
                             \E content :
                                 /\ decision[t] = EvaluateCommand(command[t], seenBranch[t], content)
                                 /\ "script" \in moved'[t] \/ content = script'
    BY <1>1 DEF DecisionsAreCurrent, hook
  <2>1. moved'[t] = moved[t] \cup {what}
    BY <1>1
  <2> QED
    BY <1>1, <2>1 DEF GuardInv, DecisionsAreCurrent
<1> QED
  BY <1>2, <1>3, <1>4 DEF GuardInv

THEOREM GuardStep == GuardInv /\ [GuardNext]_vars => GuardInv'
<1> SUFFICES ASSUME GuardInv, [GuardNext]_vars PROVE GuardInv'
  OBVIOUS
<1>1. CASE \E t \in Tool :
              ReadBranch(t) \/ Evaluate(t) \/ ReadLease(t) \/ Verdict(t) \/ Finish(t)
  BY <1>1, HookKeepsInv
<1>2. CASE \E c \in Command, minutes \in 1 .. MaxMinutes + 1 : Approve(c, minutes)
  BY <1>2, ApproveKeepsInv
<1>3. CASE SwitchBranch \/ \E s \in Script : EditScript(s)
  BY <1>3, OthersKeepInv
<1>4. CASE Tick \/ UNCHANGED vars
  <2>1. UNCHANGED <<repository, lease, hook, moved, approvals>> /\ clock' \in Nat
    BY <1>4 DEF Tick, vars, GuardInv, GuardTypes
  <2>2. GuardTypes'
    BY <2>1 DEF GuardInv, GuardTypes, hook, repository
  <2>3. LeasesAreApproved' /\ DecisionsAreCurrent' /\ RunsAreUnblocked'
    BY <2>1 DEF GuardInv, LeasesAreApproved, Approved, DecisionsAreCurrent, RunsAreUnblocked,
                hook, repository
  <2> QED
    BY <2>2, <2>3 DEF GuardInv
<1> QED
  BY <1>1, <1>2, <1>3, <1>4 DEF GuardNext

-----------------------------------------------------------------------------
\* A command that needs approval runs on an approval of itself that has not run
\* out, for every policy, lease time and number of approvals (leaseCovers).
THEOREM ApprovalsCoverRuns == GuardSpec => []OnlyApprovedCommandsRun
<1>1. GuardInv => OnlyApprovedCommandsRun
  <2> SUFFICES ASSUME GuardInv, NEW t \in Tool, pc[t] = "run", decision[t] = "approval"
               PROVE  \E a \in approvals :
                          /\ a.command = command[t]
                          /\ a.created <= judgedAt[t] /\ judgedAt[t] < a.expires
                          /\ judgedAt[t] < a.created + MaxMinutes
    BY DEF OnlyApprovedCommandsRun
  <2>1. LeaseCovers(seenLease[t], command[t], judgedAt[t])
    BY DEF GuardInv, RunsAreUnblocked, Blocked
  <2>2. seenLease[t] \in approvals /\ seenLease[t].command = command[t]
    BY <2>1 DEF GuardInv, LeasesAreApproved, Approved, LeaseCovers
  <2>3. /\ seenLease[t].created \in Nat /\ seenLease[t].expires \in Nat
        /\ judgedAt[t] \in Nat /\ MaxMinutes \in Nat
    BY <2>1, GuardAssumption DEF GuardInv, GuardTypes, Lease, LeaseCovers
  <2> QED
    BY <2>1, <2>2, <2>3 DEF LeaseCovers
<1> QED
  BY <1>1, GuardInit, GuardStep, PTL DEF GuardSpec

\* What runs pushes to no protected branch it names, and to none that is
\* checked out here or runs a denied script unless they changed after the hook
\* looked or an earlier script was approved; for every command, and every
\* judgement of scripts and text by the policy (evaluateCommand).
THEOREM EffectsAreCleared == GuardSpec => []OnlyClearedEffects
<1>1. GuardInv => OnlyClearedEffects
  <2> SUFFICES ASSUME GuardInv, NEW t \in Tool, pc[t] = "run"
               PROVE  /\ \A i \in DOMAIN command[t].push :
                             LET push == command[t].push[i] IN
                             /\ \A r \in push.refspecs :
                                    IsCurrent(r.to) \/ r.to \notin ProtectedBranch
                             /\ PushesCurrent(push) /\ ~push.elsewhere =>
                                    "branch" \in moved[t] \/ branch \notin ProtectedBranch
                      /\ \A i \in DOMAIN command[t].script :
                             script[command[t].script[i]] = "deny" =>
                                 \/ "script" \in moved[t]
                                 \/ /\ decision[t] = "approval"
                                    /\ \E j \in DOMAIN command[t].script :
                                           j < i /\ script[command[t].script[j]] # "allow"
    BY DEF OnlyClearedEffects
  <2>1. "branch" \in moved[t] \/ seenBranch[t] = branch
    BY DEF GuardInv, DecisionsAreCurrent
  <2>2. PICK content :
            /\ decision[t] = EvaluateCommand(command[t], seenBranch[t], content)
            /\ "script" \in moved[t] \/ content = script
    BY DEF GuardInv, DecisionsAreCurrent
  <2>3. EvaluateCommand(command[t], seenBranch[t], content) # "deny"
    BY <2>2 DEF GuardInv, RunsAreUnblocked, Blocked
  <2>4. /\ \A i \in DOMAIN command[t].push :
               ~GitPushViolation(command[t].push[i], seenBranch[t])
        /\ \A i \in DOMAIN command[t].script :
               content[command[t].script[i]] = "deny" =>
                   /\ EvaluateCommand(command[t], seenBranch[t], content) = "approval"
                   /\ \E j \in DOMAIN command[t].script :
                          j < i /\ content[command[t].script[j]] # "allow"
    BY <2>3, ClearedCommand
  <2>5. \A i \in DOMAIN command[t].push :
            LET push == command[t].push[i] IN
            /\ \A r \in push.refspecs : IsCurrent(r.to) \/ r.to \notin ProtectedBranch
            /\ PushesCurrent(push) => seenBranch[t] \notin ProtectedBranch
    BY <2>4, ClearedPush
  <2> QED
    BY <2>1, <2>2, <2>4, <2>5
<1> QED
  BY <1>1, GuardInit, GuardStep, PTL DEF GuardSpec
=============================================================================
