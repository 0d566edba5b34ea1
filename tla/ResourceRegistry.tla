-------------------------- MODULE ResourceRegistry --------------------------
(***************************************************************************)
(* The cooperative lease registry of scripts/lib/adk_resources.py.         *)
(*                                                                         *)
(* Every operation is one transaction: it takes the exclusive file lock,   *)
(* reads registry.json, and replaces the file atomically when it returns   *)
(* normally; an exception leaves the file as it was.  So each operation is *)
(* one action, and an operation that raises is an action that is disabled. *)
(*                                                                         *)
(* A lease id stands for the receipt that authenticates it: acting on id l *)
(* is acting with the receipt of l, and a receipt whose lease has gone is  *)
(* refused by l \in Live.  The clock is kept relative: ttl is the time     *)
(* left of expires_at, and Tick takes one unit from every lease.           *)
(*                                                                         *)
(* The event history of the registry is written by every operation, read   *)
(* by none, and left out.                                                  *)
(***************************************************************************)
EXTENDS ResourceClaims, Integers, FiniteSets

CONSTANTS Lease,            \* registry ids, each generated at most once
          NoLease,          \* the absence of one
          ReceiptFile,      \* the paths callers keep receipts at
          Owner, Issue, Pool,
          Interactive,      \* the pool whose leases may drain others
          Capacity,         \* [Pool -> Nat], the slots of each pool
          MaxSlotsPerTree,
          LeaseTime,        \* lease_seconds, in ticks
          AutoRelease,      \* automatic_expiry_release
          Requests          \* the acquisitions callers may ask for

Request == [owner: Owner, issue: Issue, pool: Pool, slots: Nat \ {0},
            reads: SUBSET Resource, writes: SUBSET Resource,
            drain: BOOLEAN, managed: BOOLEAN]

ASSUME RegistryAssumption ==
    /\ NoLease \notin Lease
    /\ IsFiniteSet(Lease)
    /\ Capacity \in [Pool -> Nat]
    /\ MaxSlotsPerTree \in Nat
    /\ LeaseTime \in Nat \ {0}
    /\ AutoRelease \in BOOLEAN
    /\ Requests \subseteq Request

VARIABLES
    leases,       \* the rows of registry.json: a function on the live ids
    maintenance,  \* the maintenance fence of registry.json is set
    used,         \* ids that have been generated
    granted,      \* history: ids that were at some time in phase 'held'
    receipts,     \* the receipt in each file: an id, or NoLease for no file
    manager,      \* the process that holds each lease, as the OS sees it
    group         \* the process group started under each lease

vars == <<leases, maintenance, used, granted, receipts, manager, group>>

Row == [owner: Owner, issue: Issue, pool: Pool, slots: Nat \ {0},
        claims: SUBSET Claim, root: Lease, parent: Lease \cup {NoLease},
        phase: {"held", "draining", "frozen"}, ttl: 0..LeaseTime,
        managed: BOOLEAN, process_group: Lease \cup {NoLease}]

Live == DOMAIN leases

-----------------------------------------------------------------------------
(* The transaction and the phase of a row. *)

\* transaction() refuses a registry in which a row names a parent that is
\* not registered ('registry_corrupt'), whatever the operation.
Consistent ==
    \A l \in Live : leases[l].parent \in Live \cup {NoLease}

\* Faulty variant: the manager is looked at before the clock.
PhaseManagerFirst(l) ==
    LET row == leases[l] IN
    IF row.phase = "frozen" THEN "frozen"
    ELSE IF row.managed /\ manager[l] = "gone" THEN "raises"
    ELSE IF row.ttl = 0 \/ (row.managed /\ manager[l] = "reused") THEN "frozen"
    ELSE row.phase

\* phase(row).  A manager whose pid no longer exists makes process_identity
\* raise: the module never imports subprocess.  A pid that another process
\* has taken over compares unequal and freezes the lease.
Phase(l) ==
    LET row == leases[l] IN
    IF row.phase = "frozen" \/ row.ttl = 0 THEN "frozen"
    ELSE IF row.managed /\ manager[l] = "gone" THEN "raises"
    ELSE IF row.managed /\ manager[l] = "reused" THEN "frozen"
    ELSE row.phase

Frozen == {l \in Live : Phase(l) = "frozen"}

\* An operation that looks at the phase of every row completes.
AllPhasesReadable == \A l \in Live : Phase(l) # "raises"

\* Faulty variant: only a lease that was marked frozen is refused.
ActiveUnlessMarked(l) == l \in Live /\ leases[l].phase # "frozen"

\* authenticate(receipt, active=True)
Active(l) == l \in Live /\ Phase(l) \in {"held", "draining"}

\* Faulty variant: frozen leases no longer stand in the way.
BlockedByUnfrozen(claims, S) ==
    {l \in S : leases[l].phase # "frozen" /\ Conflict(claims, leases[l].claims)}

Blocked(claims, S) == {l \in S : Conflict(claims, leases[l].claims)}

\* The row names the process group of its command; groups are named by the
\* lease they run under.
Bound(l) == leases[l].process_group # NoLease

\* The slots a set of leases takes: one pair for each slot of each lease.
SlotsOf(S) == Cardinality(UNION {{l} \X (1 .. leases[l].slots) : l \in S})

Without(S)      == [l \in Live \ S |-> leases[l]]
Update(l, row)  == leases' = [leases EXCEPT ![l] = row]

-----------------------------------------------------------------------------
Init ==
    /\ leases = [l \in {} |-> NoLease]
    /\ maintenance = FALSE
    /\ used = {}
    /\ granted = {}
    /\ receipts = [f \in ReceiptFile |-> NoLease]
    /\ manager = [l \in Lease |-> "none"]
    /\ group = [l \in Lease |-> "none"]

(***************************************************************************)
(* acquire.  Reaped is what automatic expiry takes out first; it is        *)
(* written only if the acquisition succeeds.  Every caller in the          *)
(* repository's tools names a file for its receipt; the library also       *)
(* allows a caller to keep it in memory, which is left out.                *)
(***************************************************************************)
Reaped == IF AutoRelease THEN Frozen ELSE {}

\* Faulty variant: the root of a lease is its parent.
RootIsParent(l, p) == p

RootOf(l, p) == IF p = NoLease THEN l ELSE leases[p].root

\* Faulty variant: a receipt is enough, whatever it was issued for.
AnyParent(req, p, rest) ==
    p # NoLease => p \in rest /\ Active(p) /\ leases[p].phase = "held"

\* 'parent_scope_mismatch', and the authentication of the parent's receipt.
ParentFits(req, p, rest) ==
    p # NoLease => /\ p \in rest
                   /\ Active(p)
                   /\ leases[p].phase = "held"
                   /\ leases[p].pool = req.pool
                   /\ leases[p].issue = req.issue

\* Faulty variant: the slots asked for are not counted.
PoolHasSlot(req, rest) ==
    SlotsOf({m \in rest : leases[m].pool = req.pool}) < Capacity[req.pool]

PoolFits(req, rest) ==
    req.slots + SlotsOf({m \in rest : leases[m].pool = req.pool})
        <= Capacity[req.pool]

\* Faulty variant: only the siblings are counted.
SiblingsFit(l, req, p, rest) ==
    req.slots + SlotsOf({m \in rest : p # NoLease /\ leases[m].parent = p})
        <= MaxSlotsPerTree

TreeFits(l, req, p, rest) ==
    req.slots + SlotsOf({m \in rest : leases[m].root = RootOf(l, p)})
        <= MaxSlotsPerTree

\* Faulty variant: a drain may be let in beside anything.
DrainsPass(req, rest) ==
    req.drain \/ Blocked(ClaimsOf(req.reads, req.writes), rest) = {}

\* A drain may be let in beside conflicting leases, if they are all held.
Unopposed(req, rest) ==
    \A m \in Blocked(ClaimsOf(req.reads, req.writes), rest) :
        req.drain /\ Phase(m) = "held"

MayAcquire(l, req, p) ==
    LET rest == Live \ Reaped IN
    /\ l \in Lease \ used
    /\ req.drain => req.pool = Interactive /\ p = NoLease /\ req.writes # {}
    /\ Consistent
    /\ ~maintenance
    /\ AutoRelease => AllPhasesReadable
    /\ \A m \in rest : leases[m].owner # req.owner
    /\ ParentFits(req, p, rest)
    /\ PoolFits(req, rest)
    /\ TreeFits(l, req, p, rest)
    /\ Unopposed(req, rest)

NewRow(l, req, p) ==
    [owner |-> req.owner, issue |-> req.issue, pool |-> req.pool,
     slots |-> req.slots, claims |-> ClaimsOf(req.reads, req.writes),
     root |-> RootOf(l, p), parent |-> p,
     phase |-> IF req.drain THEN "draining" ELSE "held",
     ttl |-> LeaseTime, managed |-> req.managed, process_group |-> NoLease]

\* create_receipt(), at a path of the caller's choice: a file that exists is
\* never overwritten, so a retry after a failure needs another path or the
\* old file removed.
CreateReceipt(l) ==
    \E f \in ReceiptFile :
        receipts[f] = NoLease /\ receipts' = [receipts EXCEPT ![f] = l]

Acquire(l, req, p) ==
    /\ MayAcquire(l, req, p)
    /\ leases' = [m \in (Live \ Reaped) \cup {l} |->
                     IF m = l THEN NewRow(l, req, p) ELSE leases[m]]
    /\ used' = used \cup {l}
    /\ granted' = IF req.drain THEN granted ELSE granted \cup {l}
    /\ CreateReceipt(l)
    /\ manager' = [manager EXCEPT ![l] = IF req.managed THEN "alive" ELSE @]
    /\ UNCHANGED <<maintenance, group>>

\* Faulty variant: the lease is committed before its receipt is written.
CommittedFirst(l, req, p) ==
    /\ MayAcquire(l, req, p)
    /\ leases' = [m \in (Live \ Reaped) \cup {l} |->
                     IF m = l THEN NewRow(l, req, p) ELSE leases[m]]
    /\ used' = used \cup {l}
    /\ granted' = IF req.drain THEN granted ELSE granted \cup {l}
    /\ UNCHANGED <<maintenance, receipts, manager, group>>

\* The process dies, or the write of registry.json fails, after the receipt
\* was created and before the registry was replaced.
AcquireInterrupted(l, req, p) ==
    /\ MayAcquire(l, req, p)
    /\ used' = used \cup {l}
    /\ CreateReceipt(l)
    /\ UNCHANGED <<leases, maintenance, granted, manager, group>>

MayRenew(l) ==
    /\ Consistent
    /\ Active(l)
    /\ leases[l].parent # NoLease => Active(leases[l].parent)

Renew(l) ==
    /\ MayRenew(l)
    /\ Update(l, [leases[l] EXCEPT !.ttl = LeaseTime])
    /\ UNCHANGED <<maintenance, used, granted, receipts, manager, group>>

\* Faulty variant: a drain ends when its holder says so.
ActivateAnyTime(l) == Consistent /\ Active(l)

MayActivate(l) ==
    /\ Consistent
    /\ Active(l)
    /\ leases[l].phase = "draining" =>
         Blocked(leases[l].claims, Live \ {l}) = {}

Activate(l) ==
    /\ MayActivate(l)
    /\ Update(l, [leases[l] EXCEPT !.phase = "held"])
    /\ granted' = granted \cup {l}
    /\ UNCHANGED <<maintenance, used, receipts, manager, group>>

MayBind(l) ==
    /\ Consistent
    /\ Active(l)
    /\ leases[l].phase = "held"
    /\ leases[l].process_group = NoLease

\* The caller passes the group of the child it has just started.
BindProcess(l) ==
    /\ MayBind(l)
    /\ group[l] # "none"
    /\ Update(l, [leases[l] EXCEPT !.process_group = l])
    /\ UNCHANGED <<maintenance, used, granted, receipts, manager, group>>

\* Faulty variant: an expired lease cannot be frozen.
FreezeActiveOnly(l) == Consistent /\ Active(l)

MayFreeze(l) == Consistent /\ l \in Live

Freeze(l) ==
    /\ MayFreeze(l)
    /\ Update(l, [leases[l] EXCEPT !.phase = "frozen"])
    /\ UNCHANGED <<maintenance, used, granted, receipts, manager, group>>

\* Faulty variant: the children are not looked at.
ReleaseBeforeChildren(l, byManager) ==
    /\ Consistent
    /\ l \in Live
    /\ leases[l].managed => \/ manager[l] = "alive" /\ byManager
                            \/ manager[l] = "reused"
    /\ ~(Bound(l) /\ group[l] = "alive")

\* Faulty variant: the process group is not looked at.
ReleaseWhileBusy(l, byManager) ==
    /\ Consistent
    /\ l \in Live
    /\ \A m \in Live : leases[m].parent # l
    /\ leases[l].managed => \/ manager[l] = "alive" /\ byManager
                            \/ manager[l] = "reused"

\* byManager: the caller is the manager of the lease and says it is done.
\* A manager that is gone makes process_identity raise here too.
MayRelease(l, byManager) ==
    /\ Consistent
    /\ l \in Live
    /\ \A m \in Live : leases[m].parent # l
    /\ leases[l].managed => \/ manager[l] = "alive" /\ byManager
                            \/ manager[l] = "reused"
    /\ ~(Bound(l) /\ group[l] = "alive")

Release(l, byManager) ==
    /\ MayRelease(l, byManager)
    /\ leases' = Without({l})
    /\ UNCHANGED <<maintenance, used, granted, receipts, manager, group>>

\* reap_expired(force), and the reconciliation status() starts with.
Reap(force) ==
    /\ Consistent
    /\ AllPhasesReadable
    /\ force \/ AutoRelease
    /\ leases' = Without(Frozen)
    /\ UNCHANGED <<maintenance, used, granted, receipts, manager, group>>

-----------------------------------------------------------------------------
(* What happens around the registry. *)

Tick ==
    /\ \E l \in Live : leases[l].ttl > 0
    /\ leases' = [l \in Live |->
          [leases[l] EXCEPT !.ttl = IF @ = 0 THEN 0 ELSE @ - 1]]
    /\ UNCHANGED <<maintenance, used, granted, receipts, manager, group>>

\* The maintenance entry is written by tools outside this repository.
Maintenance ==
    /\ maintenance' = ~maintenance
    /\ UNCHANGED <<leases, used, granted, receipts, manager, group>>

\* A caller removes a receipt file whose lease is not, or no longer,
\* registered.
DiscardReceipt(f) ==
    /\ receipts[f] \notin Live \cup {NoLease}
    /\ receipts' = [receipts EXCEPT ![f] = NoLease]
    /\ UNCHANGED <<leases, maintenance, used, granted, manager, group>>

\* A manager exits; later another process may be given its pid, and exit.
ManagerStep(l) ==
    /\ \/ manager[l] \in {"alive", "reused"}
          /\ manager' = [manager EXCEPT ![l] = "gone"]
       \/ manager[l] = "gone" /\ manager' = [manager EXCEPT ![l] = "reused"]
    /\ UNCHANGED <<leases, maintenance, used, granted, receipts, group>>

\* A manager starts one process group, which may outlive it.
GroupStarts(l) ==
    /\ manager[l] = "alive"
    /\ group[l] = "none"
    /\ group' = [group EXCEPT ![l] = "alive"]
    /\ UNCHANGED <<leases, maintenance, used, granted, receipts, manager>>

GroupEnds(l) ==
    /\ group[l] = "alive"
    /\ group' = [group EXCEPT ![l] = "ended"]
    /\ UNCHANGED <<leases, maintenance, used, granted, receipts, manager>>

Operation(l) ==
    \/ \E req \in Requests, p \in Live \cup {NoLease} :
          Acquire(l, req, p) \/ AcquireInterrupted(l, req, p)
    \/ Renew(l) \/ Activate(l) \/ BindProcess(l) \/ Freeze(l)
    \/ \E byManager \in BOOLEAN : Release(l, byManager)

Next ==
    \/ \E l \in Lease : Operation(l) \/ ManagerStep(l) \/ GroupStarts(l)
                         \/ GroupEnds(l)
    \/ \E force \in BOOLEAN : Reap(force)
    \/ Tick
    \/ Maintenance
    \/ \E f \in ReceiptFile : DiscardReceipt(f)

Spec == Init /\ [][Next]_vars

-----------------------------------------------------------------------------
(* Properties. *)

TypeOK ==
    /\ Live \subseteq Lease
    /\ leases \in [Live -> Row]
    /\ maintenance \in BOOLEAN
    /\ used \subseteq Lease
    /\ granted \subseteq Lease
    /\ receipts \in [ReceiptFile -> Lease \cup {NoLease}]
    /\ manager \in [Lease -> {"none", "alive", "gone", "reused"}]
    /\ group \in [Lease -> {"none", "alive", "ended"}]

\* What the safety properties rest on: an id is registered or granted only
\* after it was generated, a lease in phase 'held' has been granted, and a
\* draining one has not.
PhasesMatchGrants ==
    /\ Live \cup granted \subseteq used
    /\ \A l \in Live :
          /\ leases[l].phase = "held" => l \in granted
          /\ leases[l].phase = "draining" => l \notin granted

\* A root is an id that was generated: no later lease starts a tree there.
RootsAreUsed == \A l \in Live : leases[l].root \in used

\* A row claims what one of the requests asked for.
ClaimsWereAsked ==
    \A l \in Live : \E req \in Requests :
        leases[l].claims = ClaimsOf(req.reads, req.writes)

\* Two registered leases that were both granted what they claim (phase
\* 'held', now or before they froze) never claim in conflict, however
\* drains, expiry, reaping and parents interleave: conflicts() with
\* acquire() and activate().
ExclusiveGrants ==
    \A l, m \in Live \cap granted :
        l # m => ~Conflict(leases[l].claims, leases[m].claims)

\* Two leases that wait for a drain never claim in conflict: each would wait
\* for the other for ever.  acquire() lets a drain in only beside leases
\* that are all 'held'.
DrainsNeverWaitForEachOther ==
    \A l, m \in Live \ granted :
        l # m => ~Conflict(leases[l].claims, leases[m].claims)

\* The leases of a pool never take more slots than it has: acquire() counts
\* frozen and draining leases until they leave the registry.
PoolCapacity ==
    \A p \in Pool :
        SlotsOf({l \in Live : leases[l].pool = p}) <= Capacity[p]

\* One tree of agents, a lease with all that descend from it, stays within
\* max_slots_per_tree, also when the acquisition that adds a descendant reaps
\* the root: acquire() counts by the inherited root, not by the parents.
TreeCapacity ==
    \A r \in Lease :
        SlotsOf({l \in Live : leases[l].root = r}) <= MaxSlotsPerTree

\* Neither limit is ever exceeded.
SlotsWithinCapacity == PoolCapacity /\ TreeCapacity

\* The leases of one tree share pool and issue: 'parent_scope_mismatch' is
\* checked one generation at a time, roots are inherited.
TreeIsOneScope ==
    \A l, m \in Live : leases[l].root = leases[m].root =>
        /\ leases[l].pool = leases[m].pool
        /\ leases[l].issue = leases[m].issue

\* An owner never has two leases: 'owner_already_reserved'.
OneLeasePerOwner ==
    \A l, m \in Live : leases[l].owner = leases[m].owner => l = m

\* Whatever is interrupted and wherever it is tried again, a registered lease
\* has its receipt on disk: the capability is persisted before the lease is
\* committed, and no later acquisition writes over it.
LeaseHasReceipt ==
    \A l \in Live : \E f \in ReceiptFile : receipts[f] = l

\* A lease that is frozen or has expired is never renewed, activated or
\* bound again; it stays as it is until it leaves the registry.
FrozenIsFinal ==
    [][\A l \in Live \cap Live' :
          leases[l].phase = "frozen" \/ leases[l].ttl = 0 =>
             /\ leases'[l].phase \in {leases[l].phase, "frozen"}
             /\ leases'[l].ttl <= leases[l].ttl
             /\ leases'[l].process_group = leases[l].process_group]_vars

\* A parent leaves the registry before its child only if the parent was
\* frozen: release() refuses while 'children_still_reserved'.
ParentOutlivesChildUnlessFrozen ==
    [][\A l \in Live \cap Live' :
          leases[l].parent \in Live \ Live' => Phase(leases[l].parent) = "frozen"]_vars

\* A granted lease stays covered: the only steps that take a lease whose
\* process group is bound and alive out of the registry are reapings of a
\* frozen lease.
BoundGroupKeepsItsLease ==
    [][\A l \in Live \ Live' :
          Bound(l) /\ group[l] = "alive" => Phase(l) = "frozen"]_vars

\* What the code says and does not keep.

\* The integrity check of transaction() never fails on what the operations
\* themselves wrote.
RegistryStaysConsistent == Consistent

\* A lease whose manager's pid no longer exists reads as frozen:
\* process_identity is to return None then, which no manager equals.
DeadManagerFreezes ==
    \A l \in Live :
        leases[l].managed /\ manager[l] = "gone" => Phase(l) = "frozen"

-----------------------------------------------------------------------------
(* The promise the registry implements. *)

HeldClaims == [l \in Lease |->
                  IF l \in Live \cap granted THEN leases[l].claims ELSE {}]

Askable == {ClaimsOf(req.reads, req.writes) : req \in Requests}

Promise == INSTANCE SharedClaims WITH grants <- HeldClaims, spent <- granted

\* Every operation of the registry is, seen through HeldClaims, a step of
\* the promise: reaping drops, an acquisition or the end of a drain grants,
\* the rest changes no grant.
ImplementsPromise == Promise!Spec

-----------------------------------------------------------------------------
(* Liveness under automatic expiry. *)

\* Time passes, and somebody keeps calling status().
FairSpec == Spec /\ WF_vars(Tick) /\ WF_vars(Reap(FALSE))

\* An expired lease is eventually reaped, although one lease whose manager
\* is gone makes every status() raise until that lease expires too.
ExpiredIsReaped ==
    \A l \in Lease : (l \in Live /\ Phase(l) = "frozen") ~> l \notin Live

=============================================================================
