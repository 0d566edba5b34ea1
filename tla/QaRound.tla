------------------------------ MODULE QaRound ------------------------------
(***************************************************************************)
(* qa-round.mjs: a round of test bundles as files in a git repository.     *)
(* Sessions on the devices claim bundles, start and finish them; a         *)
(* coordinator derives the ledger and closes the round.  Every command     *)
(* pulls, derives the state of the round from the files, writes and        *)
(* commits its own files, and pushes until the push is accepted.           *)
(*                                                                         *)
(* Each session works in a clone of its own, one command after the other.  *)
(* A claim expires at any time (--ttl-minutes is free); the clocks of the  *)
(* devices agree.  The five attempts at a push, and at a claim, are not    *)
(* counted: a command may give up whenever it waits for the network.       *)
(***************************************************************************)
EXTENDS Sequences, SequencesExt, FiniteSets

CONSTANTS
    Session, Coordinator,
    Named,                  \* the sessions that pass --session
    Device, DeviceOf,       \* the device each session runs on
    Rank,                   \* the place of each device in a directory listing
    Platform, PlatformOf,   \* the platform of each device (its lane)
    Bundle, PlatformsOf,    \* the platforms each bundle is to run on
    SlowPush,               \* a claim may expire before claim() returns it
    \* bounds: texts of each kind, and lost answers, abandoned commands and
    \* crashes, in one behaviour
    MaxClaims, MaxReceipts, MaxReports, MaxFaults

ASSUME QaAssumption ==
    /\ Coordinator \notin Session
    /\ Named \subseteq Session
    /\ \A s \in Session : DeviceOf[s] \in Device
    /\ IsFiniteSet(Device)
    /\ \A d \in Device : PlatformOf[d] \in Platform /\ Rank[d] \in 1 .. Cardinality(Device)
    /\ \A d, e \in Device : Rank[d] = Rank[e] => d = e
    /\ \A b \in Bundle : PlatformsOf[b] \subseteq Platform
    /\ SlowPush \in BOOLEAN
    /\ MaxFaults \in Nat

VARIABLES
    origin, clones,   \* the repository
    files,            \* the texts written so far
    op,               \* the command that waits for its push, in each place
    expired,          \* the claims whose time is over
    granted,          \* the claims claim() has returned, in order
    faults            \* how often something has gone wrong

vars == <<origin, clones, files, op, expired, granted, faults>>

Place   == Session \cup {Coordinator}
Attempt == 1 .. Cardinality(Device) + 1

\* Faulty variant: one claim file per bundle.
ClaimOfBundle(d, b) == <<"claim", CHOOSE e \in Device : TRUE, b, 0>>

ClaimFile(d, b)    == <<"claim", d, b, 0>>
StartFile(d, b, n) == <<"start", d, b, n>>
EndFile(d, b, n)   == <<"end", d, b, n>>
RoundFile          == <<"round", Coordinator, Coordinator, 0>>
LedgerFile         == <<"ledger", Coordinator, Coordinator, 0>>

Path == {ClaimFile(d, b) : d \in Device, b \in Bundle}
        \cup {StartFile(d, b, n) : d \in Device, b \in Bundle, n \in Attempt}
        \cup {EndFile(d, b, n) : d \in Device, b \in Bundle, n \in Attempt}
        \cup {RoundFile, LedgerFile}

INSTANCE GitClones

\* The texts written so far, by what they say.
ClaimTexts   == {f \in DOMAIN files : "attempt" \in DOMAIN files[f]}
ReceiptTexts == {f \in DOMAIN files : "claim" \in DOMAIN files[f]}
EndTexts     == {f \in DOMAIN files : "late" \in DOMAIN files[f]}
Reports      == {f \in DOMAIN files : "ledger" \in DOMAIN files[f]}

-----------------------------------------------------------------------------
(* The state of the round, derived from a tree t. *)

\* A bundle on a platform is the unit of work.
Pairs == UNION {{<<b, pf>> : pf \in PlatformsOf[b] \cap {PlatformOf[d] : d \in Device}}
                    : b \in Bundle}

On(pf) == {d \in Device : PlatformOf[d] = pf}

Ends(t, pair) ==
    {t[EndFile(d, pair[1], n)] : d \in On(pair[2]), n \in Attempt} \ {0}

Done(t) == {pair \in Pairs : Ends(t, pair) # {}}

\* The devices with a claim file for the pair.
Claimants(t, pair) == {d \in On(pair[2]) : t[ClaimFile(d, pair[1])] # 0}

\* Faulty variant: started attempts are counted beside their claims.
AttemptAfterStarts(t, pair) ==
    Cardinality(Claimants(t, pair)) + 1 +
    Cardinality({n \in Attempt : \E d \in On(pair[2]) : t[StartFile(d, pair[1], n)] # 0})

\* The number of the next attempt at the pair.
AttemptAt(t, pair) == Cardinality(Claimants(t, pair)) + 1

\* Faulty variant: only a started claim counts.
StartedClaimants(t, pair) ==
    {d \in Claimants(t, pair) :
        /\ t[ClaimFile(d, pair[1])] \notin expired
        /\ t[StartFile(d, pair[1], files[t[ClaimFile(d, pair[1])]].attempt)] # 0}

LiveClaimants(t, pair) ==
    {d \in Claimants(t, pair) : t[ClaimFile(d, pair[1])] \notin expired}

Live(t) == {pair \in Pairs \ Done(t) : LiveClaimants(t, pair) # {}}
Open(t) == Pairs \ (Done(t) \cup Live(t))

\* 'live' keeps one claim of a pair: the last one in the directory listing.
Winner(t, pair) ==
    CHOOSE d \in LiveClaimants(t, pair) :
        \A e \in LiveClaimants(t, pair) : Rank[e] <= Rank[d]

\* Faulty variant: the latest receipt decides.
LatestEnd(t, pair) == FoldLeft(LAMBDA cur, e : IF e > cur THEN e ELSE cur, 0,
                               SetToSeq(Ends(t, pair)))

\* The receipts E are applied in the order in which they were written: a late
\* one does not replace one in time.
Replaces(n, cur) == ~(cur # 0 /\ ~files[cur].late /\ files[n].late)

Verdicts(E) ==
    LET verdict[n \in 0 .. Len(files)] ==
            IF n = 0 THEN 0
            ELSE IF n \in E /\ Replaces(n, verdict[n - 1]) THEN n ELSE verdict[n - 1]
    IN  verdict

\* The end receipt that decides a pair.
Verdict(t, pair) == Verdicts(Ends(t, pair))[Len(files)]

Ledger(t) == [pair \in Pairs |-> Verdict(t, pair)]

IsClosed(t) == t[RoundFile] # 0

-----------------------------------------------------------------------------
Idle == [kind |-> "none"]

Init ==
    /\ GitInit
    /\ files = <<>>
    /\ op = [s \in Place |-> Idle]
    /\ expired = {}
    /\ granted = <<>>
    /\ faults = 0

\* What a command of s sees once it has pulled.
Seen(s) == WorkTree(Settled(clones[s]))

MayCommand(s) ==
    /\ op[s] = Idle
    /\ ~clones[s].stuck
    /\ ~Conflicts(clones[s])

\* The command writes a text under the names ps, commits, and goes on to
\* push.
Write(s, ps, text, todo) ==
    /\ files' = Append(files, text)
    /\ clones' = [clones EXCEPT ![s] = Commit(origin, Pulled(@), ps, Len(files'))]
    /\ op' = [op EXCEPT ![s] = todo]
    /\ UNCHANGED <<origin, expired, granted, faults>>

JustPush == [kind |-> "push"]

\* Any command whose pull fails.  One that pulls and then refuses changes
\* nothing: a clone that is not in use counts as up to date.
PullFails(s) ==
    /\ op[s] = Idle
    /\ ~clones[s].stuck
    /\ Conflicts(clones[s])
    /\ clones' = [clones EXCEPT ![s] = Pulled(@)]
    /\ UNCHANGED <<origin, files, op, expired, granted, faults>>

-----------------------------------------------------------------------------
(* The commands. *)

\* A session may ask for the bundle it prefers, so any open one may come
\* first.
Claim(s, b) ==
    LET d    == DeviceOf[s]
        pair == <<b, PlatformOf[d]>>
    IN  /\ MayCommand(s)
        /\ ~IsClosed(Seen(s))
        /\ pair \in Open(Seen(s))
        /\ Cardinality(ClaimTexts) < MaxClaims
        /\ Write(s, {ClaimFile(d, b)},
                 [by |-> s, bundle |-> b,
                  attempt |-> AttemptAt(Seen(s), pair)],
                 [kind |-> "claim", bundle |-> b, claim |-> Len(files) + 1])

\* ownClaim(): the claim file of the device is there, and names the session
\* or none.
OwnClaim(s, b) == Seen(s)[ClaimFile(DeviceOf[s], b)]

OwnsClaim(s, b) ==
    LET c == OwnClaim(s, b) IN
    c # 0 /\ (files[c].by = s \/ files[c].by \notin Named)

Start(s, b) ==
    LET c == OwnClaim(s, b) IN
    /\ MayCommand(s)
    /\ OwnsClaim(s, b)
    /\ c \notin expired
    /\ Cardinality(ReceiptTexts) < MaxReceipts
    /\ Write(s, {StartFile(DeviceOf[s], b, files[c].attempt)},
             [by |-> s, claim |-> c], JustPush)

\* Faulty variant: any start receipt of the bundle will do.
StartedAnyAttempt(s, b) ==
    \E n \in Attempt : Seen(s)[StartFile(DeviceOf[s], b, n)] # 0

StartedBefore(s, b) ==
    Seen(s)[StartFile(DeviceOf[s], b, files[OwnClaim(s, b)].attempt)] # 0

Finish(s, b) ==
    LET c == OwnClaim(s, b) IN
    /\ MayCommand(s)
    /\ OwnsClaim(s, b)
    /\ StartedBefore(s, b)
    /\ Cardinality(ReceiptTexts) < MaxReceipts
    /\ Write(s, {EndFile(DeviceOf[s], b, files[c].attempt)},
             [by |-> s, claim |-> c, late |-> c \in expired], JustPush)

WriteLedger ==
    /\ MayCommand(Coordinator)
    /\ Cardinality(Reports) < MaxReports
    /\ Write(Coordinator, {LedgerFile},
             [ledger |-> Ledger(Seen(Coordinator))], JustPush)

\* Faulty variant: pairs under a live claim are not waited for.
NothingOpen(t, force) == force \/ Open(t) = {}

MayClose(t, force) == force \/ (Open(t) = {} /\ Live(t) = {})

Close(force) ==
    LET t == Seen(Coordinator) IN
    /\ MayCommand(Coordinator)
    /\ ~IsClosed(t)
    /\ MayClose(t, force)
    /\ Cardinality(Reports) < MaxReports
    /\ Write(Coordinator, {RoundFile, LedgerFile},
             [forced |-> force, ledger |-> Ledger(t)], JustPush)

-----------------------------------------------------------------------------
(* The push of a command, and what claim() does about its answer. *)

IsClaim(s) == op[s].kind = "claim"
Finished(s) == op' = [op EXCEPT ![s] = Idle]

OwnFile(s) == ClaimFile(DeviceOf[s], op[s].bundle)

\* Faulty variant: the round is not read again after the push.
NeverLoses(s) == FALSE

\* The claim of s is pushed, and another device's claim of the same pair is
\* the one deriveState() keeps.
Loses(s) ==
    LET pair == <<op[s].bundle, PlatformOf[DeviceOf[s]]>>
    IN  pair \in Live(Seen(s)) /\ Winner(Seen(s), pair) # DeviceOf[s]

Landed(s) == Unfresh(Settled(Acknowledged(clones[s])))

PushLands(s) ==
    /\ op[s] # Idle
    /\ IsClaim(s) => ~Loses(s)
    /\ Push(s, Landed(s))
    /\ granted' = IF IsClaim(s) THEN Append(granted, op[s].claim) ELSE granted
    /\ Finished(s)
    /\ UNCHANGED <<files, expired, faults>>

\* The claim is withdrawn by a commit of its own, which is pushed like any.
ClaimYields(s) ==
    /\ op[s] # Idle
    /\ IsClaim(s)
    /\ Loses(s)
    /\ Push(s, Commit(HeadTree(clones[s]), Settled(Acknowledged(clones[s])),
                      {OwnFile(s)}, 0))
    /\ op' = [op EXCEPT ![s] = JustPush]
    /\ UNCHANGED <<files, expired, granted, faults>>

Fault == faults < MaxFaults /\ faults' = faults + 1

\* The push is accepted, but its answer is lost.
PushUnheard(s) ==
    /\ op[s] # Idle
    /\ Fault
    /\ Push(s, Unfresh(Acknowledged(clones[s])))
    /\ UNCHANGED <<files, op, expired, granted>>

\* The push is rejected, or its answer was lost: the command pulls, and
\* fails with the pull.
PushRejected(s) ==
    /\ op[s] # Idle
    /\ ~clones[s].fresh
    /\ clones' = [clones EXCEPT ![s] = Pulled(@)]
    /\ op' = [op EXCEPT ![s] = IF Conflicts(clones[s]) THEN Idle ELSE @]
    /\ UNCHANGED <<origin, files, expired, granted, faults>>

\* The command gives up.  Its commit stays; claim() removes the claim file
\* without committing that.
GiveUp(s) ==
    /\ op[s] # Idle
    /\ Fault
    /\ clones' = [clones EXCEPT ![s] =
                     Unfresh(Settled(IF IsClaim(s) THEN Unlink(@, OwnFile(s)) ELSE @))]
    /\ Finished(s)
    /\ UNCHANGED <<origin, files, expired, granted>>

\* The process dies while it waits for the network.
Crash(s) ==
    /\ op[s] # Idle
    /\ Fault
    /\ clones' = [clones EXCEPT ![s] = Unfresh(Settled(@))]
    /\ Finished(s)
    /\ UNCHANGED <<origin, files, expired, granted>>

-----------------------------------------------------------------------------
(* The world around the commands. *)

Expire(c) ==
    /\ c \in ClaimTexts \ expired
    /\ ~SlowPush => \A s \in {r \in Session : IsClaim(r)} : op[s].claim # c
    /\ expired' = expired \cup {c}
    /\ UNCHANGED <<origin, clones, files, op, granted, faults>>

\* Somebody replaces a clone that is stuck by a new one.
FreshClone(s) ==
    /\ clones[s].stuck
    /\ clones' = [clones EXCEPT ![s] = NewClone]
    /\ UNCHANGED <<origin, files, op, expired, granted, faults>>

Next ==
    \/ \E s \in Session, b \in Bundle : Claim(s, b) \/ Start(s, b) \/ Finish(s, b)
    \/ WriteLedger
    \/ \E force \in BOOLEAN : Close(force)
    \/ \E s \in Place : \/ PullFails(s)
                        \/ PushLands(s)
                        \/ ClaimYields(s)
                        \/ PushUnheard(s)
                        \/ PushRejected(s)
                        \/ GiveUp(s)
                        \/ Crash(s)
                        \/ FreshClone(s)
    \/ \E c \in DOMAIN files : Expire(c)

Spec == Init /\ [][Next]_vars

-----------------------------------------------------------------------------
(* Properties. *)

QaTypeOK ==
    /\ origin \in Tree
    /\ DOMAIN clones = Place /\ \A s \in Place : CloneTypeOK(clones[s])
    /\ \A c \in ClaimTexts : files[c].attempt \in Attempt
    /\ op \in [Place -> {Idle, JustPush} \cup
                         [kind : {"claim"}, bundle : Bundle, claim : ClaimTexts]]
    /\ expired \subseteq ClaimTexts
    /\ granted \in Seq(ClaimTexts)
    /\ faults \in 0 .. MaxFaults

Trees == {origin} \cup {HeadTree(clones[s]) : s \in Place}

\* Whatever is merged, an end receipt never goes without the start receipt
\* of its attempt: what validate() looks for in a checked-out round.
EndHasStart ==
    \A t \in Trees, d \in Device, b \in Bundle, n \in Attempt :
        t[EndFile(d, b, n)] # 0 => t[StartFile(d, b, n)] # 0

PairOf(c)   == <<files[c].bundle, PlatformOf[DeviceOf[files[c].by]]>>
DeviceBy(f) == DeviceOf[files[f].by]

\* claim() has handed the bundle out, the claim has not expired, and no
\* result has been written under it.
Held(c) == /\ c \in ToSet(granted) \ expired
           /\ \A f \in EndTexts : files[f].claim # c

\* Two sessions on one device never hold the same pair: their claims are one
\* file, and git refuses to merge two versions of it.
OneHolderPerDevice ==
    \A i, j \in DOMAIN granted :
        /\ i # j
        /\ Held(granted[i]) /\ Held(granted[j])
        /\ PairOf(granted[i]) = PairOf(granted[j])
        => DeviceBy(granted[i]) # DeviceBy(granted[j])

\* Sessions on two devices can hold the same pair at once, but only if the
\* device that got it last comes last in the directory listing, or if the
\* pair was done while the claims were under way.
OverlapOnlyUpwards ==
    \A i, j \in DOMAIN granted :
        /\ i < j
        /\ Held(granted[i]) /\ Held(granted[j])
        /\ PairOf(granted[i]) = PairOf(granted[j])
        => \/ Rank[DeviceBy(granted[i])] < Rank[DeviceBy(granted[j])]
           \/ PairOf(granted[i]) \in Done(origin)

\* A round that was closed without force has an end receipt for every pair,
\* and its final ledger a verdict, whatever was pushed before and after.
UnforcedCloseIsComplete ==
    IsClosed(origin) /\ ~files[origin[RoundFile]].forced =>
        \A pair \in Pairs : /\ pair \in Done(origin)
                            /\ files[origin[RoundFile]].ledger[pair] # 0

\* Sessions of different devices, and the coordinator, never change the same
\* file: a session that has its device to itself is never stuck in a rebase.
LoneSessionNeverStuck ==
    \A s \in Place :
        (s \in Session => \A r \in Session \ {s} : DeviceOf[r] # DeviceOf[s])
            => ~clones[s].stuck

\* As long as there is a receipt in time, no late one decides the pair.
InTimeDecides ==
    \A t \in Trees, pair \in Pairs :
        (\E e \in Ends(t, pair) : ~files[e].late) => ~files[Verdict(t, pair)].late

\* What the protocol says and the code does not keep.

\* No other session takes a bundle with a live claim.
LiveClaimIsExclusive ==
    \A i, j \in DOMAIN granted :
        i # j /\ Held(granted[i]) /\ Held(granted[j])
            => PairOf(granted[i]) # PairOf(granted[j])
=============================================================================
