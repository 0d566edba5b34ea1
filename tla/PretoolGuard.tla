---------------------------- MODULE PretoolGuard ----------------------------
(***************************************************************************)
(* The pre-tool guard: a hook that judges a command of an agent before the *)
(* tool runs it (pretool-guard-hook.mjs, lib/pretool-guard.mjs), and a     *)
(* human who approves one exact command for some minutes by writing the    *)
(* one lease file there is (approve-high-risk.mjs).  Several tools are at  *)
(* work in one repository, so branch and scripts may change between the    *)
(* hook and the command.                                                   *)
(*                                                                         *)
(* A command is a record: `push' and `removal' are its git push and its    *)
(* rm, each a sequence of at most one; `script' are the scripts it runs    *)
(* remotely, as the rules for scripts that match the command find them,    *)
(* one for each rule and in the order of the rules; `protectedPath' says   *)
(* that it names a protected path; `rule' is what the other patterns of    *)
(* the policy say of its text.  What a script contains is what the         *)
(* patterns of its rule say of it, or "missing": a file that two rules     *)
(* find, and a text in the command itself, are scripts of their own.       *)
(***************************************************************************)
EXTENDS Integers, Sequences, FiniteSets

CONSTANTS
    Tool,
    Command,
    Branch, ProtectedBranch,
    Script, ProtectedScript,
    Target, Root,            \* directories never to be removed; of the repository
    MaxMinutes,              \* of a lease
    Last,                    \* bound: the last minute looked at
    MaxApprovals,            \* bound: how many approvals there are
    None

ASSUME GuardAssumption == MaxMinutes \in Nat \ {0} /\ Last \in Nat

Judgement == {"allow", "approval", "deny"}

VARIABLES
    branch, script,          \* the repository
    lease,                   \* the lease file
    clock,
    pc, command,             \* of each tool
    seenBranch, decision,    \* what its hook has read and decided
    seenLease, judgedAt,
    moved,                   \* what changed since its hook looked at it
    approvals                \* every approval there was

repository == <<branch, script>>
hook       == <<pc, command, seenBranch, decision, seenLease, judgedAt>>
vars       == <<repository, lease, clock, hook, moved, approvals>>

-----------------------------------------------------------------------------
(* lib/pretool-guard.mjs.  The command line is split into simple commands; *)
(* a push has the flags that were given and the refspecs it names, without *)
(* `refs/heads/', and says whether it is about a repository elsewhere      *)
(* (git -C).                                                               *)

\* Faulty variant: HEAD is taken for the name of a branch.
NameOnly(ref, current) == ref

BranchName(ref, current) == IF ref \in {"HEAD", "@"} THEN current ELSE ref

\* The repository is taken to be the one of the hook, wherever the push is.
GitPushViolation(push, current) ==
    \/ push.force
    \/ push.delete
    \/ push.all
    \/ push.refspecs = {} /\ current \in ProtectedBranch
    \/ \E r \in push.refspecs :
           \/ r.force
           \/ r.delete
           \/ BranchName(r.to, current) \in ProtectedBranch

CatastrophicDelete(removal) ==
    \/ removal.noPreserveRoot
    \/ (removal.recursive /\ removal.operands \cap (Target \cup Root) # {})

\* The first rule that has something to say decides.  A script that cannot
\* be read cannot be cleared.
InspectScripts(scripts, content) ==
    IF \E i \in DOMAIN scripts :
           /\ content[scripts[i]] = "deny"
           /\ \A j \in DOMAIN scripts : j < i => content[scripts[j]] = "allow"
    THEN "deny"
    ELSE IF \E i \in DOMAIN scripts : content[scripts[i]] # "allow" THEN "approval"
    ELSE "allow"

EvaluateCommand(c, current, content) ==
    LET inspected == InspectScripts(c.script, content) IN
    IF \/ \E i \in DOMAIN c.push : GitPushViolation(c.push[i], current)
       \/ \E i \in DOMAIN c.removal : CatastrophicDelete(c.removal[i])
       \/ c.protectedPath
       \/ c.rule = "deny"
       \/ inspected = "deny"
    THEN "deny"
    ELSE IF "approval" \in {inspected, c.rule} THEN "approval"
    ELSE "allow"

EvaluateEdit(s) == IF s \in ProtectedScript THEN "deny" ELSE "allow"

\* Faulty variant: a lease covers every command.
LeaseInForce(l, c, now) ==
    /\ l # None
    /\ l.expires - l.created <= MaxMinutes
    /\ l.created <= now /\ now < l.expires

LeaseCovers(l, c, now) ==
    /\ l # None
    /\ l.expires - l.created <= MaxMinutes
    /\ l.created <= now /\ now < l.expires
    /\ l.command = c

Blocked(d, l, c, now) ==
    \/ d = "deny"
    \/ d = "approval" /\ ~LeaseCovers(l, c, now)

-----------------------------------------------------------------------------
Init ==
    /\ branch \in Branch
    /\ script \in [Script -> Judgement \cup {"missing"}]
    /\ lease = None
    /\ clock = 0
    /\ pc = [t \in Tool |-> "idle"]
    /\ command = [t \in Tool |-> None]
    /\ seenBranch = [t \in Tool |-> None]
    /\ decision = [t \in Tool |-> None]
    /\ seenLease = [t \in Tool |-> None]
    /\ judgedAt = [t \in Tool |-> 0]
    /\ moved = [t \in Tool |-> {}]
    /\ approvals = {}

\* The agent wants a command run: the hook starts, and asks git for the branch.
ReadBranch(t) ==
    /\ pc[t] = "idle"
    /\ \E c \in Command : command' = [command EXCEPT ![t] = c]
    /\ seenBranch' = [seenBranch EXCEPT ![t] = branch]
    /\ moved' = [moved EXCEPT ![t] = {}]
    /\ pc' = [pc EXCEPT ![t] = "evaluate"]
    /\ UNCHANGED <<repository, lease, clock, decision, seenLease, judgedAt, approvals>>

\* It reads the scripts, if there are any, and evaluates the command.
Evaluate(t) ==
    /\ pc[t] = "evaluate"
    /\ decision' = [decision EXCEPT ![t] = EvaluateCommand(command[t], seenBranch[t], script)]
    /\ moved' = [moved EXCEPT ![t] = @ \ {"script"}]
    /\ pc' = [pc EXCEPT ![t] = "lease"]
    /\ UNCHANGED <<repository, lease, clock, command, seenBranch, seenLease, judgedAt, approvals>>

ReadLease(t) ==
    /\ pc[t] = "lease"
    /\ seenLease' = [seenLease EXCEPT ![t] = lease]
    /\ pc' = [pc EXCEPT ![t] = "verdict"]
    /\ UNCHANGED <<repository, lease, clock, command, seenBranch, decision, judgedAt, moved,
                   approvals>>

Verdict(t) ==
    /\ pc[t] = "verdict"
    /\ judgedAt' = [judgedAt EXCEPT ![t] = clock]
    /\ pc' = [pc EXCEPT ![t] =
                 IF Blocked(decision[t], seenLease[t], command[t], clock) THEN "blocked" ELSE "run"]
    /\ UNCHANGED <<repository, lease, clock, command, seenBranch, decision, seenLease, moved,
                   approvals>>

\* The tool runs what was not blocked, and in either case goes on.
Finish(t) ==
    /\ pc[t] \in {"run", "blocked"}
    /\ pc' = [pc EXCEPT ![t] = "idle"]
    /\ command' = [command EXCEPT ![t] = None]
    /\ seenBranch' = [seenBranch EXCEPT ![t] = None]
    /\ decision' = [decision EXCEPT ![t] = None]
    /\ seenLease' = [seenLease EXCEPT ![t] = None]
    /\ judgedAt' = [judgedAt EXCEPT ![t] = 0]
    /\ moved' = [moved EXCEPT ![t] = {}]
    /\ UNCHANGED <<repository, lease, clock, approvals>>

\* A human approves a command.  The file holds one lease: the one before is
\* gone.
Approve(c, minutes) ==
    /\ clock < Last
    /\ Cardinality(approvals) < MaxApprovals
    /\ minutes > 0
    /\ LET a == [command |-> c, created |-> clock,
                 expires |-> clock + (IF minutes < MaxMinutes THEN minutes ELSE MaxMinutes)]
       IN  lease' = a /\ approvals' = approvals \cup {a}
    /\ UNCHANGED <<repository, clock, hook, moved>>

\* Another tool edits a script, which the guard allows of most, or changes
\* the branch.
EditScript(s) ==
    /\ EvaluateEdit(s) = "allow"
    /\ \E content \in Judgement \cup {"missing"} : script' = [script EXCEPT ![s] = content]
    /\ moved' = [t \in Tool |-> IF pc[t] = "idle" THEN {} ELSE moved[t] \cup {"script"}]
    /\ UNCHANGED <<branch, lease, clock, hook, approvals>>

SwitchBranch ==
    /\ branch' \in Branch
    /\ moved' = [t \in Tool |-> IF pc[t] = "idle" THEN {} ELSE moved[t] \cup {"branch"}]
    /\ UNCHANGED <<script, lease, clock, hook, approvals>>

Tick ==
    /\ clock < Last
    /\ clock' = clock + 1
    /\ UNCHANGED <<repository, lease, hook, moved, approvals>>

GuardNext ==
    \/ \E t \in Tool :
           ReadBranch(t) \/ Evaluate(t) \/ ReadLease(t) \/ Verdict(t) \/ Finish(t)
    \/ \E c \in Command, minutes \in 1 .. MaxMinutes + 1 : Approve(c, minutes)
    \/ \E s \in Script : EditScript(s)
    \/ SwitchBranch
    \/ Tick

GuardSpec == Init /\ [][GuardNext]_vars

-----------------------------------------------------------------------------
(* Properties. *)

\* A command that needs approval runs only when a human approved this very
\* command, for a time that had begun and was not over at the verdict and that
\* was no longer than a lease may last; however many other approvals have
\* replaced the file since, or commands been judged by it
\* (approve-high-risk.mjs; leaseCovers).
OnlyApprovedCommandsRun ==
    \A t \in Tool :
        pc[t] = "run" /\ decision[t] = "approval" =>
            \E a \in approvals :
                /\ a.command = command[t]
                /\ a.created <= judgedAt[t] /\ judgedAt[t] < a.expires
                /\ judgedAt[t] < a.created + MaxMinutes

\* A ref that stands for the branch that is checked out, where git pushes.
IsCurrent(ref) == ref \in {"HEAD", "@"}

PushesCurrent(push) ==
    push.refspecs = {} \/ \E r \in push.refspecs : IsCurrent(r.to)

\* What runs does not push to a protected branch: never to one it names, and
\* not to the branch checked out here unless that was switched after the hook
\* looked.  A push about another repository is judged by the branch of this
\* one, and what is checked out there is not claimed.  And what runs has no
\* script the policy denies, unless the script changed after the hook looked,
\* or it was approved for a script that an earlier rule had found: the hook
\* clears what it has read, and the command reads again (pretool-guard.mjs,
\* gitPushViolation and inspectScripts).
OnlyClearedEffects ==
    \A t \in Tool :
        pc[t] = "run" =>
            /\ \A i \in DOMAIN command[t].push :
                   LET push == command[t].push[i] IN
                   /\ \A r \in push.refspecs : IsCurrent(r.to) \/ r.to \notin ProtectedBranch
                   /\ PushesCurrent(push) /\ ~push.elsewhere =>
                          "branch" \in moved[t] \/ branch \notin ProtectedBranch
            /\ \A i \in DOMAIN command[t].script :
                   script[command[t].script[i]] = "deny" =>
                       \/ "script" \in moved[t]
                       \/ /\ decision[t] = "approval"
                          /\ \E j \in DOMAIN command[t].script :
                                 j < i /\ script[command[t].script[j]] # "allow"
=============================================================================
