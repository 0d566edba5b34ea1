---------------------------- MODULE QaRoundProofs ----------------------------
(***************************************************************************)
(* Theorems about a round of test bundles in a git repository.             *)
(*                                                                         *)
(* Two facts carry them.  A clone changes only the files of its own device *)
(* (or of the coordinator), so that what one device has written reaches    *)
(* the others as it was; and of two changes of the same file git accepts   *)
(* only the one that was made on top of the other.                         *)
(***************************************************************************)
EXTENDS QaRound, TLAPS, SequenceTheorems, FiniteSetTheorems, WellFoundedInduction

ClaimPath == {ClaimFile(d, b) : d \in Device, b \in Bundle}

\* The files that a place writes.
OwnPath(s) ==
    IF s = Coordinator THEN {RoundFile, LedgerFile}
    ELSE {ClaimFile(DeviceOf[s], b) : b \in Bundle}
             \cup {StartFile(DeviceOf[s], b, n) : b \in Bundle, n \in Attempt}
             \cup {EndFile(DeviceOf[s], b, n) : b \in Bundle, n \in Attempt}

\* The texts that close a round.
CloseTexts == {f \in DOMAIN files : "forced" \in DOMAIN files[f]}

\* What the files may contain: nothing, or a text; a claim file has a claim,
\* and the round file a text that closes the round.
Content ==
    [p \in Path |-> {0} \cup IF p \in ClaimPath THEN ClaimTexts
                            ELSE IF p = RoundFile THEN CloseTexts
                            ELSE DOMAIN files]

\* A session that has its device to itself, or the coordinator.
Lone(s) == s \in Session => \A r \in Session \ {s} : DeviceOf[r] # DeviceOf[s]

-----------------------------------------------------------------------------
(* The invariant of the repository: o is the origin and V the Content. *)

EndsHaveStarts(o) ==
    \A d \in Device, b \in Bundle, n \in Attempt :
        o[EndFile(d, b, n)] # 0 => o[StartFile(d, b, n)] # 0

OriginInv(o, V) == /\ o \in Tree
                   /\ \A p \in Path : o[p] \in V[p]
                   /\ EndsHaveStarts(o)

IsClone(c) == c = [mine |-> c.mine, fresh |-> c.fresh, stuck |-> c.stuck]

IsChange(c, p, V) ==
    /\ c.mine[p] \in Change
    /\ {c.mine[p].was, c.mine[p].head, c.mine[p].work} \subseteq V[p]

\* Nobody has changed what the clone has changed.
Current(c, o) == \A p \in DOMAIN c.mine : c.mine[p].was = o[p]

\* A receipt or report is never removed, and is not changed by halves.
Stays(c, o, p) ==
    /\ c.mine[p].head # 0 /\ c.mine[p].work = c.mine[p].head
    /\ c.mine[p].was # 0 => o[p] # 0

CloneInv(s, c, o, V) ==
    /\ IsClone(c)
    /\ c.mine = [p \in DOMAIN c.mine |-> c.mine[p]]
    /\ c.fresh \in BOOLEAN /\ c.stuck \in BOOLEAN
    /\ DOMAIN c.mine \subseteq OwnPath(s) \cap Path
    /\ \A p \in DOMAIN c.mine : IsChange(c, p, V)
    /\ c.fresh => Current(c, o)
    /\ Lone(s) => Current(c, o) /\ ~c.stuck
    /\ \A p \in DOMAIN c.mine \ ClaimPath : Stays(c, o, p)
    /\ \A d \in Device, b \in Bundle, n \in Attempt :
           EndFile(d, b, n) \in DOMAIN c.mine =>
               StartFile(d, b, n) \in DOMAIN c.mine \/ o[StartFile(d, b, n)] # 0

RepositoryInv ==
    /\ OriginInv(origin, Content)
    /\ DOMAIN clones = Place
    /\ \A s \in Place : CloneInv(s, clones[s], origin, Content)

\* The texts are a sequence, and a claim names a session and a bundle.
TextsInv ==
    /\ \E S : files \in Seq(S)
    /\ \A c \in ClaimTexts : /\ files[c].by \in Session /\ files[c].bundle \in Bundle
                             /\ files[c].attempt \in Attempt

\* Only sessions claim.
ClaimsBySessions == \A s \in Place : IsClaim(s) => s \in Session

RoundInv == QaTypeOK /\ TextsInv /\ ClaimsBySessions /\ RepositoryInv

-----------------------------------------------------------------------------
(* The invariant of the claims, as long as no claim expires under way. *)

\* Claims that are under way or that were granted, and have not expired.
Pending == {op[s].claim : s \in {r \in Place : IsClaim(r)}}
Firm    == (ToSet(granted) \cup Pending) \ expired

\* A claim that is under way is in the clone of its session, and once the
\* origin has it nobody has replaced it there.
PendingInv(s) ==
    LET c == op[s].claim IN
    /\ s \in Session /\ ~clones[s].stuck
    /\ <<op[s].bundle, PlatformOf[DeviceOf[s]]>> \in Pairs
    /\ c \notin ToSet(granted) \cup expired
    /\ files[c].by = s /\ files[c].bundle = op[s].bundle
    /\ OwnFile(s) \in DOMAIN clones[s].mine
    /\ clones[s].mine[OwnFile(s)].head = c
    /\ clones[s].mine[OwnFile(s)].work = c
    /\ clones[s].mine[OwnFile(s)].was = c => origin[OwnFile(s)] = c

FileOf(c) == ClaimFile(DeviceBy(c), files[c].bundle)

\* No clone has a change that was made on top of a claim that counts.
Harmless(c, firm) ==
    \A p \in DOMAIN c.mine \cap ClaimPath :
        /\ c.mine[p].head # c.mine[p].was => c.mine[p].was \notin firm
        /\ c.mine[p].work # c.mine[p].head => /\ c.mine[p].was \notin firm
                                              /\ c.mine[p].head \notin firm

ClaimsInv ==
    /\ \A s \in Place : IsClaim(s) => PendingInv(s)
    /\ \A c \in ToSet(granted) \ expired : origin[FileOf(c)] = c
    /\ \A s \in Place : Harmless(clones[s], Firm)
    /\ \A i, j \in DOMAIN granted : i # j => granted[i] # granted[j]

\* Of two claims that count, the later one comes from a device further down
\* in the listing, or the pair is done.
OverlapInv ==
    \A i, j \in DOMAIN granted :
        /\ i < j
        /\ granted[i] \notin expired /\ granted[j] \notin expired
        /\ PairOf(granted[i]) = PairOf(granted[j])
        => \/ Rank[DeviceBy(granted[i])] < Rank[DeviceBy(granted[j])]
           \/ PairOf(granted[i]) \in Done(origin)

-----------------------------------------------------------------------------
(* File names. *)

LEMMA PathParts ==
    /\ \A d, b : ClaimFile(d, b)[1] = "claim" /\ ClaimFile(d, b)[2] = d /\ ClaimFile(d, b)[3] = b
    /\ \A d, b, n : /\ StartFile(d, b, n)[1] = "start" /\ StartFile(d, b, n)[2] = d
                    /\ EndFile(d, b, n)[1] = "end" /\ EndFile(d, b, n)[2] = d
    /\ RoundFile[1] = "round" /\ LedgerFile[1] = "ledger"
  BY DEF ClaimFile, StartFile, EndFile, RoundFile, LedgerFile

LEMMA PathsAre ==
    /\ \A d \in Device, b \in Bundle : ClaimFile(d, b) \in ClaimPath
    /\ ClaimPath \subseteq Path
    /\ \A d \in Device, b \in Bundle, n \in Attempt :
           /\ StartFile(d, b, n) \in Path \ ClaimPath
           /\ EndFile(d, b, n) \in Path \ ClaimPath
    /\ {RoundFile, LedgerFile} \subseteq Path \ ClaimPath
<1>1. \A p \in ClaimPath : p[1] = "claim"
  BY PathParts DEF ClaimPath
<1>2. \A d \in Device, b \in Bundle, n \in Attempt :
          /\ StartFile(d, b, n) \in Path /\ EndFile(d, b, n) \in Path
  BY DEF Path
<1>3. {RoundFile, LedgerFile} \subseteq Path
  BY DEF Path
<1> QED
  BY <1>1, <1>2, <1>3, PathParts DEF ClaimPath, Path

LEMMA SessionsOwn ==
    ASSUME NEW s \in Session
    PROVE  /\ DeviceOf[s] \in Device /\ s # Coordinator
           /\ \A b \in Bundle : ClaimFile(DeviceOf[s], b) \in OwnPath(s)
           /\ \A b \in Bundle, n \in Attempt : /\ StartFile(DeviceOf[s], b, n) \in OwnPath(s)
                                               /\ EndFile(DeviceOf[s], b, n) \in OwnPath(s)
           /\ \A p \in OwnPath(s) : p[1] \in {"claim", "start", "end"} /\ p[2] = DeviceOf[s]
<1>1. DeviceOf[s] \in Device /\ s # Coordinator
  BY QaAssumption
<1>2. \A p \in OwnPath(s) : p[1] \in {"claim", "start", "end"} /\ p[2] = DeviceOf[s]
  BY <1>1, PathParts DEF OwnPath
<1> QED
  BY <1>1, <1>2 DEF OwnPath

LEMMA CoordinatorOwns == OwnPath(Coordinator) = {RoundFile, LedgerFile}
  BY DEF OwnPath

\* Nobody else writes the files of one who has a device for himself.
LEMMA LoneOwnsAlone ==
    ASSUME NEW s \in Place, NEW q \in Place, q # s, Lone(s)
    PROVE  OwnPath(s) \cap OwnPath(q) = {}
<1>1. CASE s = Coordinator
  BY <1>1, CoordinatorOwns, SessionsOwn, PathParts DEF Place
<1>2. CASE q = Coordinator
  BY <1>2, CoordinatorOwns, SessionsOwn, PathParts DEF Place
<1>3. CASE s # Coordinator /\ q # Coordinator
  <2>1. s \in Session /\ q \in Session /\ DeviceOf[s] # DeviceOf[q]
    BY <1>3 DEF Place, Lone
  <2> QED
    BY <2>1, SessionsOwn
<1> QED
  BY <1>1, <1>2, <1>3

LEMMA ContentIs ==
    /\ \A p \in ClaimPath : Content[p] = {0} \cup ClaimTexts
    /\ Content[RoundFile] = {0} \cup CloseTexts
    /\ \A p \in Path : 0 \in Content[p]
    /\ \A p \in Path : Content[p] \subseteq {0} \cup DOMAIN files
<1>1. ClaimTexts \subseteq DOMAIN files /\ CloseTexts \subseteq DOMAIN files
  BY DEF ClaimTexts, CloseTexts
<1> QED
  BY <1>1, PathsAre DEF Content

-----------------------------------------------------------------------------
(* What the commands of git preserve in a clone c of place s. *)

LEMMA NewCloneKeeps ==
    ASSUME NEW s \in Place, NEW o, NEW V
    PROVE  CloneInv(s, NewClone, o, V)
<1>1. /\ NewClone.mine = <<>> /\ NewClone.fresh = FALSE /\ NewClone.stuck = FALSE
      /\ IsClone(NewClone)
  BY DEF NewClone, IsClone
<1>2. DOMAIN NewClone.mine = {} /\ NewClone.mine = [p \in DOMAIN NewClone.mine |-> NewClone.mine[p]]
  BY <1>1
<1> QED
  BY <1>1, <1>2 DEF CloneInv, Current

\* A clone is what its three fields are.
LEMMA CloneFields ==
    ASSUME NEW m, NEW fresh, NEW stuck, NEW c, c = [mine |-> m, fresh |-> fresh, stuck |-> stuck]
    PROVE  IsClone(c) /\ c.mine = m /\ c.fresh = fresh /\ c.stuck = stuck
  BY DEF IsClone

\* Having less to say about what it has seen does not disturb a clone.
LEMMA SameChanges ==
    ASSUME NEW s \in Place, NEW c, NEW r, NEW o, NEW V, CloneInv(s, c, o, V),
           IsClone(r), r.mine = c.mine, r.fresh = FALSE, r.stuck \in BOOLEAN,
           Lone(s) => ~r.stuck
    PROVE  CloneInv(s, r, o, V)
<1>1. /\ r.mine = [p \in DOMAIN r.mine |-> r.mine[p]]
      /\ DOMAIN r.mine \subseteq OwnPath(s) \cap Path
  BY DEF CloneInv
<1>2. /\ \A p \in DOMAIN r.mine : IsChange(r, p, V)
      /\ \A p \in DOMAIN r.mine \ ClaimPath : Stays(r, o, p)
  BY DEF CloneInv, IsChange, Stays
<1>3. Lone(s) => Current(r, o)
  BY DEF CloneInv, Current
<1>4. \A d \in Device, b \in Bundle, n \in Attempt :
          EndFile(d, b, n) \in DOMAIN r.mine =>
              StartFile(d, b, n) \in DOMAIN r.mine \/ o[StartFile(d, b, n)] # 0
  BY DEF CloneInv
<1> QED
  BY <1>1, <1>2, <1>3, <1>4 DEF CloneInv

LEMMA UnfreshKeeps ==
    ASSUME NEW s \in Place, NEW c, NEW o, NEW V, CloneInv(s, c, o, V)
    PROVE  /\ CloneInv(s, Unfresh(c), o, V)
           /\ Unfresh(c).mine = c.mine /\ Unfresh(c).fresh = FALSE /\ Unfresh(c).stuck = c.stuck
<1> DEFINE u == Unfresh(c)
<1>0. c = [mine |-> c.mine, fresh |-> c.fresh, stuck |-> c.stuck]
  BY DEF CloneInv, IsClone
<1>1. u = [mine |-> c.mine, fresh |-> FALSE, stuck |-> c.stuck]
  <2>1. \A f : [c EXCEPT !.fresh = f] = [mine |-> c.mine, fresh |-> f, stuck |-> c.stuck]
    BY <1>0, Z3
  <2> QED
    BY <2>1, Zenon DEF Unfresh
<1>2. IsClone(u) /\ u.mine = c.mine /\ u.fresh = FALSE /\ u.stuck = c.stuck
  BY <1>1, CloneFields
<1> HIDE DEF u
<1>3. CloneInv(s, u, o, V)
  <2>1. c.stuck \in BOOLEAN /\ (Lone(s) => ~c.stuck)
    BY DEF CloneInv
  <2> QED
    BY <1>2, <2>1, SameChanges
<1> QED
  BY <1>2, <1>3 DEF u

\* Only files that do not differ from what was fetched are dropped.
LEMMA SettledIs ==
    ASSUME NEW s \in Place, NEW c, NEW o, NEW V, CloneInv(s, c, o, V)
    PROVE  /\ IsClone(Settled(c))
           /\ Settled(c).fresh = c.fresh /\ Settled(c).stuck = c.stuck
           /\ Settled(c).mine = [p \in Changed(c) |-> c.mine[p]]
           /\ Changed(c) \subseteq DOMAIN c.mine
           /\ \A p \in DOMAIN c.mine \ Changed(c) :
                  c.mine[p].head = c.mine[p].was /\ c.mine[p].work = c.mine[p].head
<1> DEFINE m == [p \in Changed(c) |-> c.mine[p]]
<1>1. Settled(c) = [mine |-> m, fresh |-> c.fresh, stuck |-> c.stuck]
  BY DEF Settled, Restrict, CloneInv, IsClone
<1>2. /\ Changed(c) \subseteq DOMAIN c.mine
      /\ \A p \in DOMAIN c.mine \ Changed(c) :
             c.mine[p].head = c.mine[p].was /\ c.mine[p].work = c.mine[p].head
  BY DEF Changed
<1> HIDE DEF m
<1>3. IsClone(Settled(c)) /\ Settled(c).fresh = c.fresh /\ Settled(c).stuck = c.stuck
          /\ Settled(c).mine = m
  BY <1>1, CloneFields
<1> QED
  BY <1>2, <1>3 DEF m

LEMMA SettledKeeps ==
    ASSUME NEW s \in Place, NEW c, NEW o, NEW V, CloneInv(s, c, o, V)
    PROVE  CloneInv(s, Settled(c), o, V)
<1> DEFINE r == Settled(c)
<1>1. /\ IsClone(r) /\ r.fresh = c.fresh /\ r.stuck = c.stuck
      /\ r.mine = [p \in Changed(c) |-> c.mine[p]]
      /\ Changed(c) \subseteq DOMAIN c.mine
      /\ \A p \in DOMAIN c.mine \ Changed(c) :
             c.mine[p].head = c.mine[p].was /\ c.mine[p].work = c.mine[p].head
  BY SettledIs
<1> HIDE DEF r
<1>2. /\ DOMAIN r.mine = Changed(c) /\ r.mine = [p \in DOMAIN r.mine |-> r.mine[p]]
      /\ \A p \in DOMAIN r.mine : r.mine[p] = c.mine[p]
  BY <1>1
<1>3. \A d \in Device, b \in Bundle, n \in Attempt :
          EndFile(d, b, n) \in DOMAIN r.mine =>
              StartFile(d, b, n) \in DOMAIN r.mine \/ o[StartFile(d, b, n)] # 0
  <2> SUFFICES ASSUME NEW d \in Device, NEW b \in Bundle, NEW n \in Attempt,
                      EndFile(d, b, n) \in DOMAIN r.mine,
                      StartFile(d, b, n) \notin DOMAIN r.mine
               PROVE  o[StartFile(d, b, n)] # 0
    OBVIOUS
  <2> DEFINE p == StartFile(d, b, n)
  <2>1. p \in DOMAIN c.mine => Stays(c, o, p)
    BY PathsAre DEF CloneInv
  <2>2. p \in DOMAIN c.mine \/ o[p] # 0
    BY <1>1, <1>2 DEF CloneInv
  <2> HIDE DEF p
  <2>3. o[p] # 0
    BY <1>1, <1>2, <2>1, <2>2 DEF Stays, p
  <2> QED
    BY <2>3 DEF p
<1>4. /\ r.fresh \in BOOLEAN /\ r.stuck \in BOOLEAN
      /\ DOMAIN r.mine \subseteq OwnPath(s) \cap Path
      /\ \A p \in DOMAIN r.mine : IsChange(r, p, V)
      /\ r.fresh => Current(r, o)
      /\ Lone(s) => Current(r, o) /\ ~r.stuck
      /\ \A p \in DOMAIN r.mine \ ClaimPath : Stays(r, o, p)
  BY <1>1, <1>2 DEF CloneInv, IsChange, Current, Stays
<1>5. CloneInv(s, r, o, V)
  BY <1>1, <1>2, <1>3, <1>4 DEF CloneInv
<1> QED
  BY <1>5 DEF r

LEMMA PulledIs ==
    ASSUME NEW s \in Place, NEW c, NEW V, CloneInv(s, c, origin, V), OriginInv(origin, V)
    PROVE  /\ IsClone(Pulled(c))
           /\ Conflicts(c) => /\ Pulled(c).mine = c.mine
                            /\ Pulled(c).fresh = FALSE /\ Pulled(c).stuck = TRUE
           /\ ~Conflicts(c) =>
                 /\ Pulled(c).fresh = TRUE /\ Pulled(c).stuck = c.stuck
                 /\ Pulled(c).mine = [p \in DOMAIN c.mine |->
                                         IF p \in Changed(c) THEN c.mine[p] ELSE Same(origin[p])]
                 /\ \A p \in Changed(c) : origin[p] = c.mine[p].was
<1>1. CASE Conflicts(c)
  <2>1. Pulled(c) = [mine |-> c.mine, fresh |-> FALSE, stuck |-> TRUE]
    BY <1>1 DEF Pulled, CloneInv, IsClone
  <2> QED
    BY <1>1, <2>1, CloneFields
<1>2. CASE ~Conflicts(c)
  <2> DEFINE m == [p \in DOMAIN c.mine |->
                      IF p \in Changed(c) THEN c.mine[p] ELSE Same(origin[p])]
  <2>1. Pulled(c) = [mine |-> m, fresh |-> TRUE, stuck |-> c.stuck]
    BY <1>2 DEF Pulled, CloneInv, IsClone
  <2>2. \A p \in Changed(c) : origin[p] = c.mine[p].was
    BY <1>2 DEF Conflicts
  <2> HIDE DEF m
  <2>3. IsClone(Pulled(c)) /\ Pulled(c).mine = m /\ Pulled(c).fresh = TRUE /\ Pulled(c).stuck = c.stuck
    BY <2>1, CloneFields
  <2> QED
    BY <1>2, <2>2, <2>3 DEF m
<1> QED
  BY <1>1, <1>2

LEMMA PulledKeeps ==
    ASSUME NEW s \in Place, NEW c, NEW V, CloneInv(s, c, origin, V), OriginInv(origin, V)
    PROVE  CloneInv(s, Pulled(c), origin, V)
<1> DEFINE r == Pulled(c)
<1>1. CASE Conflicts(c)
  <2>1. IsClone(r) /\ r.mine = c.mine /\ r.fresh = FALSE /\ r.stuck = TRUE
    BY <1>1, PulledIs
  <2>2. ~Lone(s)
    BY <1>1 DEF CloneInv, Conflicts, Current, Changed
  <2> HIDE DEF r
  <2>3. CloneInv(s, r, origin, V)
    BY <2>1, <2>2, SameChanges
  <2> QED
    BY <2>3 DEF r
<1>2. CASE ~Conflicts(c)
  <2>1. /\ IsClone(r) /\ r.fresh = TRUE /\ r.stuck = c.stuck
        /\ r.mine = [p \in DOMAIN c.mine |->
                        IF p \in Changed(c) THEN c.mine[p] ELSE Same(origin[p])]
        /\ \A p \in Changed(c) : origin[p] = c.mine[p].was
    BY <1>2, PulledIs
  <2> HIDE DEF r
  <2>2. DOMAIN r.mine = DOMAIN c.mine /\ r.mine = [p \in DOMAIN r.mine |-> r.mine[p]]
    BY <2>1
  <2>3. \A p \in DOMAIN r.mine : /\ IsChange(r, p, V)
                                 /\ r.mine[p].was = origin[p]
                                 /\ p \notin ClaimPath => Stays(r, origin, p)
    <3> SUFFICES ASSUME NEW p \in DOMAIN c.mine
                 PROVE  /\ IsChange(r, p, V)
                        /\ r.mine[p].was = origin[p]
                        /\ p \notin ClaimPath => Stays(r, origin, p)
      BY <2>2
    <3>1. /\ p \in Path /\ origin[p] \in V[p] /\ origin[p] \in Nat
          /\ IsChange(c, p, V) /\ (p \notin ClaimPath => Stays(c, origin, p))
      BY DEF CloneInv, OriginInv, Tree
    <3>2. CASE p \in Changed(c)
      BY <2>1, <3>1, <3>2 DEF IsChange, Stays
    <3>3. CASE p \notin Changed(c)
      <4>1. r.mine[p] = Same(origin[p])
        BY <2>1, <3>3
      <4>2. /\ r.mine[p].was = origin[p] /\ r.mine[p].head = origin[p]
            /\ r.mine[p].work = origin[p] /\ r.mine[p] \in Change
        BY <3>1, <4>1 DEF Same, Change
      <4>3. p \notin ClaimPath => origin[p] # 0
        BY <3>1, <3>3 DEF Stays, Changed
      <4> QED
        BY <3>1, <4>2, <4>3 DEF IsChange, Stays
    <3> QED
      BY <3>2, <3>3
  <2>4. CloneInv(s, r, origin, V)
    BY <2>1, <2>2, <2>3 DEF CloneInv, Current
  <2> QED
    BY <2>4 DEF r
<1> QED
  BY <1>1, <1>2

\* A commit of files that the place owns: receipts and reports are only
\* written, and an end receipt only where there is a start receipt.
LEMMA CommitIs ==
    ASSUME NEW s \in Place, NEW c, NEW o, NEW V, CloneInv(s, c, o, V), NEW ps, NEW f
    PROVE  LET r == Commit(o, c, ps, f) IN
           /\ IsClone(r) /\ r.fresh = c.fresh /\ r.stuck = c.stuck
           /\ DOMAIN r.mine = DOMAIN c.mine \cup ps
           /\ r.mine = [p \in DOMAIN r.mine |-> r.mine[p]]
           /\ \A p \in DOMAIN c.mine \ ps : r.mine[p] = c.mine[p]
           /\ \A p \in ps : r.mine[p] = [was |-> IF p \in DOMAIN c.mine THEN c.mine[p].was ELSE o[p],
                                         head |-> f, work |-> f]
<1> DEFINE r == Commit(o, c, ps, f)
           m == [p \in DOMAIN c.mine \cup ps |->
                    IF p \notin ps THEN c.mine[p]
                    ELSE [was |-> IF p \in DOMAIN c.mine THEN c.mine[p].was ELSE o[p],
                          head |-> f, work |-> f]]
<1>1. c = [mine |-> c.mine, fresh |-> c.fresh, stuck |-> c.stuck]
  BY DEF CloneInv, IsClone
<1>2. r = [mine |-> m, fresh |-> c.fresh, stuck |-> c.stuck]
  BY <1>1 DEF Commit
<1>3. /\ DOMAIN m = DOMAIN c.mine \cup ps
      /\ m = [p \in DOMAIN m |-> m[p]]
      /\ \A p \in DOMAIN c.mine \ ps : m[p] = c.mine[p]
      /\ \A p \in ps : m[p] = [was |-> IF p \in DOMAIN c.mine THEN c.mine[p].was ELSE o[p],
                               head |-> f, work |-> f]
  OBVIOUS
<1> HIDE DEF m, r
<1>4. IsClone(r) /\ r.mine = m /\ r.fresh = c.fresh /\ r.stuck = c.stuck
  BY <1>2, CloneFields
<1> QED
  BY <1>3, <1>4 DEF r

\* r is the clone c after it has committed f in the file x.
CommitsOne(r, c, o, x, f) ==
    /\ r.stuck = c.stuck
    /\ DOMAIN r.mine = DOMAIN c.mine \cup {x}
    /\ \A p \in DOMAIN c.mine \ {x} : r.mine[p] = c.mine[p]
    /\ r.mine[x].was = IF x \in DOMAIN c.mine THEN c.mine[x].was ELSE o[x]
    /\ r.mine[x].head = f /\ r.mine[x].work = f

LEMMA CommitOne ==
    ASSUME NEW s \in Place, NEW c, NEW o, NEW V, CloneInv(s, c, o, V),
           NEW x, NEW ps, ps = {x}, NEW f
    PROVE  CommitsOne(Commit(o, c, ps, f), c, o, x, f)
<1> DEFINE r == Commit(o, c, ps, f)
           w == IF x \in DOMAIN c.mine THEN c.mine[x].was ELSE o[x]
<1>1. /\ IsClone(r) /\ r.fresh = c.fresh /\ r.stuck = c.stuck
      /\ DOMAIN r.mine = DOMAIN c.mine \cup ps
      /\ r.mine = [p \in DOMAIN r.mine |-> r.mine[p]]
      /\ \A p \in DOMAIN c.mine \ ps : r.mine[p] = c.mine[p]
      /\ \A p \in ps : r.mine[p] = [was |-> IF p \in DOMAIN c.mine THEN c.mine[p].was ELSE o[p],
                                    head |-> f, work |-> f]
  BY CommitIs
<1> HIDE DEF r
<1>2. r.mine[x] = [was |-> w, head |-> f, work |-> f]
  BY <1>1
<1>3. r.mine[x].was = w /\ r.mine[x].head = f /\ r.mine[x].work = f
  BY <1>2
<1>4. CommitsOne(r, c, o, x, f)
  BY <1>1, <1>3 DEF CommitsOne
<1> QED
  BY <1>4 DEF r

LEMMA CommitKeeps ==
    ASSUME NEW s \in Place, NEW c, NEW o, NEW V, CloneInv(s, c, o, V), OriginInv(o, V),
           NEW ps, ps \subseteq OwnPath(s) \cap Path, NEW f \in Nat,
           \A p \in ps : f \in V[p] /\ (p \notin ClaimPath => f # 0),
           \A d \in Device, b \in Bundle, n \in Attempt :
               EndFile(d, b, n) \in ps =>
                   StartFile(d, b, n) \in DOMAIN c.mine \/ o[StartFile(d, b, n)] # 0
    PROVE  CloneInv(s, Commit(o, c, ps, f), o, V)
<1> DEFINE r == Commit(o, c, ps, f)
<1>1. /\ IsClone(r) /\ r.fresh = c.fresh /\ r.stuck = c.stuck
      /\ DOMAIN r.mine = DOMAIN c.mine \cup ps
      /\ r.mine = [p \in DOMAIN r.mine |-> r.mine[p]]
      /\ \A p \in DOMAIN c.mine \ ps : r.mine[p] = c.mine[p]
      /\ \A p \in ps : r.mine[p] = [was |-> IF p \in DOMAIN c.mine THEN c.mine[p].was ELSE o[p],
                                    head |-> f, work |-> f]
  BY CommitIs
<1> HIDE DEF r
<1>2. \A p \in DOMAIN r.mine :
          /\ IsChange(r, p, V)
          /\ p \notin ClaimPath => Stays(r, o, p)
          /\ Current(c, o) => r.mine[p].was = o[p]
  <2> SUFFICES ASSUME NEW p \in DOMAIN r.mine
               PROVE  /\ IsChange(r, p, V)
                      /\ p \notin ClaimPath => Stays(r, o, p)
                      /\ Current(c, o) => r.mine[p].was = o[p]
    OBVIOUS
  <2>1. CASE p \notin ps
    <3>1. /\ p \in DOMAIN c.mine /\ r.mine[p] = c.mine[p]
          /\ IsChange(c, p, V) /\ (p \notin ClaimPath => Stays(c, o, p))
      BY <1>1, <2>1 DEF CloneInv
    <3> QED
      BY <3>1 DEF IsChange, Stays, Current
  <2>2. CASE p \in ps
    <3> DEFINE w == IF p \in DOMAIN c.mine THEN c.mine[p].was ELSE o[p]
    <3>1. r.mine[p] = [was |-> w, head |-> f, work |-> f]
      BY <1>1, <2>2
    <3>2. p \in Path /\ o[p] \in Nat /\ o[p] \in V[p]
      BY <2>2 DEF OriginInv, Tree
    <3>3. /\ w \in Nat /\ w \in V[p]
          /\ Current(c, o) => w = o[p]
          /\ p \notin ClaimPath => (w # 0 => o[p] # 0)
      <4>1. CASE p \in DOMAIN c.mine
        <5>1. IsChange(c, p, V) /\ (p \notin ClaimPath => Stays(c, o, p))
          BY <4>1 DEF CloneInv
        <5> QED
          BY <4>1, <5>1 DEF IsChange, Stays, Current, Change
      <4>2. CASE p \notin DOMAIN c.mine
        BY <4>2, <3>2
      <4> QED
        BY <4>1, <4>2
    <3> HIDE DEF w
    <3>4. r.mine[p].was = w /\ r.mine[p].head = f /\ r.mine[p].work = f /\ r.mine[p] \in Change
      BY <3>1, <3>3 DEF Change
    <3> QED
      BY <2>2, <3>3, <3>4 DEF IsChange, Stays
  <2> QED
    BY <2>1, <2>2
<1>3. \A d \in Device, b \in Bundle, n \in Attempt :
          EndFile(d, b, n) \in DOMAIN r.mine =>
              StartFile(d, b, n) \in DOMAIN r.mine \/ o[StartFile(d, b, n)] # 0
  BY <1>1 DEF CloneInv
<1>4. /\ r.fresh \in BOOLEAN /\ r.stuck \in BOOLEAN
      /\ DOMAIN r.mine \subseteq OwnPath(s) \cap Path
      /\ r.fresh => Current(r, o)
      /\ Lone(s) => Current(r, o) /\ ~r.stuck
  BY <1>1, <1>2 DEF CloneInv, Current
<1>5. CloneInv(s, r, o, V)
  BY <1>1, <1>2, <1>3, <1>4 DEF CloneInv
<1> QED
  BY <1>5 DEF r

\* A claim file that is removed from the file system only.
LEMMA UnlinkIs ==
    ASSUME NEW s \in Place, NEW c, NEW o, NEW V, CloneInv(s, c, o, V), NEW x
    PROVE  LET r == Unlink(c, x) IN
           /\ IsClone(r) /\ r.fresh = c.fresh /\ r.stuck = c.stuck
           /\ DOMAIN r.mine = DOMAIN c.mine
           /\ r.mine = [p \in DOMAIN r.mine |-> r.mine[p]]
           /\ \A p \in DOMAIN c.mine \ {x} : r.mine[p] = c.mine[p]
           /\ x \in DOMAIN c.mine => r.mine[x] = [c.mine[x] EXCEPT !.work = 0]
<1> DEFINE r == Unlink(c, x)
           m == [c.mine EXCEPT ![x] = [@ EXCEPT !.work = 0]]
<1>1. c = [mine |-> c.mine, fresh |-> c.fresh, stuck |-> c.stuck]
  BY DEF CloneInv, IsClone
<1>2. r = [mine |-> m, fresh |-> c.fresh, stuck |-> c.stuck]
  BY <1>1 DEF Unlink
<1>3. /\ DOMAIN m = DOMAIN c.mine
      /\ m = [p \in DOMAIN m |-> m[p]]
      /\ \A p \in DOMAIN c.mine \ {x} : m[p] = c.mine[p]
      /\ x \in DOMAIN c.mine => m[x] = [c.mine[x] EXCEPT !.work = 0]
  OBVIOUS
<1> HIDE DEF m, r
<1>4. IsClone(r) /\ r.mine = m /\ r.fresh = c.fresh /\ r.stuck = c.stuck
  BY <1>2, CloneFields
<1> QED
  BY <1>3, <1>4 DEF r

LEMMA UnlinkKeeps ==
    ASSUME NEW s \in Place, NEW c, NEW o, NEW V, CloneInv(s, c, o, V),
           NEW x \in ClaimPath, 0 \in V[x]
    PROVE  CloneInv(s, Unlink(c, x), o, V)
<1> DEFINE r == Unlink(c, x)
<1>1. /\ IsClone(r) /\ r.fresh = c.fresh /\ r.stuck = c.stuck
      /\ DOMAIN r.mine = DOMAIN c.mine
      /\ r.mine = [p \in DOMAIN r.mine |-> r.mine[p]]
      /\ \A p \in DOMAIN c.mine \ {x} : r.mine[p] = c.mine[p]
      /\ x \in DOMAIN c.mine => r.mine[x] = [c.mine[x] EXCEPT !.work = 0]
  BY UnlinkIs
<1> HIDE DEF r
<1>2. \A p \in DOMAIN r.mine : IsChange(r, p, V) /\ r.mine[p].was = c.mine[p].was
  <2> SUFFICES ASSUME NEW p \in DOMAIN c.mine
               PROVE  IsChange(r, p, V) /\ r.mine[p].was = c.mine[p].was
    BY <1>1
  <2>1. IsChange(c, p, V)
    BY DEF CloneInv
  <2>2. CASE p # x
    BY <1>1, <2>1, <2>2 DEF IsChange
  <2>3. CASE p = x
    BY <1>1, <2>1, <2>3 DEF IsChange, Change
  <2> QED
    BY <2>2, <2>3
<1>3. \A p \in DOMAIN r.mine \ ClaimPath : Stays(r, o, p)
  BY <1>1 DEF CloneInv, Stays
<1>4. \A d \in Device, b \in Bundle, n \in Attempt :
          EndFile(d, b, n) \in DOMAIN r.mine =>
              StartFile(d, b, n) \in DOMAIN r.mine \/ o[StartFile(d, b, n)] # 0
  BY <1>1 DEF CloneInv
<1>5. /\ r.fresh \in BOOLEAN /\ r.stuck \in BOOLEAN
      /\ DOMAIN r.mine \subseteq OwnPath(s) \cap Path
      /\ r.fresh => Current(r, o)
      /\ Lone(s) => Current(r, o) /\ ~r.stuck
  BY <1>1, <1>2 DEF CloneInv, Current
<1>6. CloneInv(s, r, o, V)
  BY <1>1, <1>2, <1>3, <1>4, <1>5 DEF CloneInv
<1> QED
  BY <1>6 DEF r

-----------------------------------------------------------------------------
(* What a push preserves. *)

\* The newest commit of a clone keeps what the origin keeps.
LEMMA HeadKeeps ==
    ASSUME NEW s \in Place, NEW c, NEW V, CloneInv(s, c, origin, V), OriginInv(origin, V)
    PROVE  /\ OriginInv(HeadTree(c), V)
           /\ \A p \in DOMAIN c.mine : HeadTree(c)[p] = c.mine[p].head
           /\ \A p \in Path \ DOMAIN c.mine : HeadTree(c)[p] = origin[p]
           /\ \A p \in Path \ ClaimPath : origin[p] # 0 => HeadTree(c)[p] # 0
<1> DEFINE h == HeadTree(c)
<1>1. /\ \A p \in DOMAIN c.mine : p \in Path /\ IsChange(c, p, V)
      /\ \A p \in DOMAIN c.mine \ ClaimPath : Stays(c, origin, p)
  BY DEF CloneInv
<1>2. /\ DOMAIN h = Path
      /\ \A p \in DOMAIN c.mine : h[p] = c.mine[p].head
      /\ \A p \in Path \ DOMAIN c.mine : h[p] = origin[p]
      /\ h = [p \in Path |-> h[p]]
  BY <1>1 DEF HeadTree
<1> HIDE DEF h
<1>3. \A p \in Path : h[p] \in Nat /\ h[p] \in V[p]
  BY <1>1, <1>2 DEF OriginInv, Tree, IsChange, Change
<1>4. \A p \in Path \ ClaimPath : origin[p] # 0 => h[p] # 0
  BY <1>1, <1>2 DEF Stays
<1>5. EndsHaveStarts(h)
  <2> SUFFICES ASSUME NEW d \in Device, NEW b \in Bundle, NEW n \in Attempt,
                      h[EndFile(d, b, n)] # 0
               PROVE  h[StartFile(d, b, n)] # 0
    BY DEF EndsHaveStarts
  <2> DEFINE e == EndFile(d, b, n)
             p == StartFile(d, b, n)
  <2>1. e \in Path /\ p \in Path \ ClaimPath
    BY PathsAre
  <2>2. p \in DOMAIN c.mine \/ origin[p] # 0
    <3>1. CASE e \in DOMAIN c.mine
      BY <3>1 DEF CloneInv
    <3>2. CASE e \notin DOMAIN c.mine
      BY <3>2, <1>2, <2>1 DEF OriginInv, EndsHaveStarts
    <3> QED
      BY <3>1, <3>2
  <2> HIDE DEF e, p
  <2>3. h[p] # 0
    BY <1>1, <1>2, <1>4, <2>1, <2>2 DEF Stays
  <2> QED
    BY <2>3 DEF p
<1>6. h \in Tree
  BY <1>2, <1>3 DEF Tree
<1>7. OriginInv(h, V)
  BY <1>3, <1>5, <1>6 DEF OriginInv
<1> QED
  BY <1>2, <1>4, <1>7 DEF h

LEMMA AcknowledgedIs ==
    ASSUME NEW s \in Place, NEW c, NEW o, NEW V, CloneInv(s, c, o, V)
    PROVE  LET r == Acknowledged(c) IN
           /\ IsClone(r) /\ r.fresh = c.fresh /\ r.stuck = c.stuck
           /\ DOMAIN r.mine = DOMAIN c.mine
           /\ r.mine = [p \in DOMAIN r.mine |-> r.mine[p]]
           /\ \A p \in DOMAIN c.mine :
                  r.mine[p] = [was |-> c.mine[p].head, head |-> c.mine[p].head,
                               work |-> c.mine[p].work]
           /\ \A p \in DOMAIN c.mine : /\ r.mine[p].was = c.mine[p].head
                                        /\ r.mine[p].head = c.mine[p].head
                                        /\ r.mine[p].work = c.mine[p].work
<1> DEFINE r == Acknowledged(c)
           m == [p \in DOMAIN c.mine |-> [was |-> c.mine[p].head, head |-> c.mine[p].head,
                                          work |-> c.mine[p].work]]
<1>1. c = [mine |-> c.mine, fresh |-> c.fresh, stuck |-> c.stuck]
  BY DEF CloneInv, IsClone
<1>2. r = [mine |-> m, fresh |-> c.fresh, stuck |-> c.stuck]
  BY <1>1 DEF Acknowledged
<1>3. /\ DOMAIN m = DOMAIN c.mine
      /\ m = [p \in DOMAIN m |-> m[p]]
      /\ \A p \in DOMAIN c.mine :
             m[p] = [was |-> c.mine[p].head, head |-> c.mine[p].head, work |-> c.mine[p].work]
  OBVIOUS
<1> HIDE DEF m, r
<1>4. IsClone(r) /\ r.mine = m /\ r.fresh = c.fresh /\ r.stuck = c.stuck
  BY <1>2, CloneFields
<1>5. \A p \in DOMAIN c.mine : /\ m[p].was = c.mine[p].head
                               /\ m[p].head = c.mine[p].head
                               /\ m[p].work = c.mine[p].work
  <2> TAKE p \in DOMAIN c.mine
  <2>1. m[p] = [was |-> c.mine[p].head, head |-> c.mine[p].head, work |-> c.mine[p].work]
    BY <1>3
  <2> QED
    BY <2>1
<1> QED
  BY <1>3, <1>4, <1>5 DEF r

\* What the clone has committed is what the origin has got.
LEMMA AcknowledgedKeeps ==
    ASSUME NEW s \in Place, NEW c, NEW V, CloneInv(s, c, origin, V), OriginInv(origin, V)
    PROVE  CloneInv(s, Acknowledged(c), HeadTree(c), V)
<1> DEFINE r == Acknowledged(c)
           h == HeadTree(c)
<1>1. /\ IsClone(r) /\ r.fresh = c.fresh /\ r.stuck = c.stuck
      /\ DOMAIN r.mine = DOMAIN c.mine
      /\ r.mine = [p \in DOMAIN r.mine |-> r.mine[p]]
      /\ \A p \in DOMAIN c.mine :
             r.mine[p] = [was |-> c.mine[p].head, head |-> c.mine[p].head,
                          work |-> c.mine[p].work]
      /\ \A p \in DOMAIN c.mine : /\ r.mine[p].was = c.mine[p].head
                                   /\ r.mine[p].head = c.mine[p].head
                                   /\ r.mine[p].work = c.mine[p].work
  BY AcknowledgedIs
<1>2. /\ \A p \in DOMAIN c.mine : h[p] = c.mine[p].head
      /\ \A p \in Path \ ClaimPath : origin[p] # 0 => h[p] # 0
  BY HeadKeeps
<1> HIDE DEF r, h
<1>3. \A p \in DOMAIN r.mine : IsChange(r, p, V) /\ r.mine[p].was = h[p]
  <2> SUFFICES ASSUME NEW p \in DOMAIN c.mine
               PROVE  IsChange(r, p, V) /\ r.mine[p].was = h[p]
    BY <1>1
  <2>1. IsChange(c, p, V)
    BY DEF CloneInv
  <2>2. /\ r.mine[p] = [was |-> c.mine[p].head, head |-> c.mine[p].head,
                         work |-> c.mine[p].work]
        /\ r.mine[p].was = c.mine[p].head /\ r.mine[p].head = c.mine[p].head
        /\ r.mine[p].work = c.mine[p].work
    BY <1>1
  <2>3. r.mine[p] \in Change
    BY <2>1, <2>2 DEF IsChange, Change
  <2> QED
    BY <1>2, <2>1, <2>2, <2>3 DEF IsChange
<1>4. \A p \in DOMAIN r.mine \ ClaimPath : Stays(r, h, p)
  BY <1>1, <1>2 DEF CloneInv, Stays
<1>5. \A d \in Device, b \in Bundle, n \in Attempt :
          EndFile(d, b, n) \in DOMAIN r.mine =>
              StartFile(d, b, n) \in DOMAIN r.mine \/ h[StartFile(d, b, n)] # 0
  BY <1>1, <1>2, PathsAre DEF CloneInv
<1>6. /\ r.fresh \in BOOLEAN /\ r.stuck \in BOOLEAN
      /\ DOMAIN r.mine \subseteq OwnPath(s) \cap Path
      /\ r.fresh => Current(r, h)
      /\ Lone(s) => Current(r, h) /\ ~r.stuck
  BY <1>1, <1>3 DEF CloneInv, Current
<1>7. CloneInv(s, r, h, V)
  BY <1>1, <1>3, <1>4, <1>5, <1>6 DEF CloneInv
<1> QED
  BY <1>7 DEF r, h

\* The push of one clone leaves the others as they are, but behind.
LEMMA OthersKeep ==
    ASSUME NEW s \in Place, NEW q \in Place, q # s, NEW V, OriginInv(origin, V),
           NEW c, CloneInv(s, c, origin, V), NEW k, CloneInv(q, k, origin, V)
    PROVE  CloneInv(q, Unfresh(k), HeadTree(c), V)
<1> DEFINE r == Unfresh(k)
           h == HeadTree(c)
<1>1. CloneInv(q, r, origin, V) /\ r.fresh = FALSE
  BY UnfreshKeeps
<1>2. /\ \A p \in Path \ DOMAIN c.mine : h[p] = origin[p]
      /\ \A p \in Path \ ClaimPath : origin[p] # 0 => h[p] # 0
  BY HeadKeeps
<1> HIDE DEF r, h
<1>3. Lone(q) => Current(r, h)
  <2> SUFFICES ASSUME Lone(q), NEW p \in DOMAIN r.mine PROVE r.mine[p].was = h[p]
    BY DEF Current
  <2>1. p \in OwnPath(q) \cap Path /\ r.mine[p].was = origin[p]
    BY <1>1 DEF CloneInv, Current
  <2>2. p \notin DOMAIN c.mine
    BY <2>1, LoneOwnsAlone DEF CloneInv
  <2> QED
    BY <1>2, <2>1, <2>2
<1>4. \A p \in DOMAIN r.mine \ ClaimPath : Stays(r, h, p)
  BY <1>1, <1>2 DEF CloneInv, Stays
<1>5. \A d \in Device, b \in Bundle, n \in Attempt :
          EndFile(d, b, n) \in DOMAIN r.mine =>
              StartFile(d, b, n) \in DOMAIN r.mine \/ h[StartFile(d, b, n)] # 0
  BY <1>1, <1>2, PathsAre DEF CloneInv
<1>6. CloneInv(q, r, h, V)
  BY <1>1, <1>3, <1>4, <1>5 DEF CloneInv
<1> QED
  BY <1>6 DEF r, h

-----------------------------------------------------------------------------
(* Texts are added and never changed. *)

LEMMA TextAdded ==
    ASSUME \E S : files \in Seq(S), NEW text, files' = Append(files, text)
    PROVE  /\ Len(files) \in Nat /\ Len(files') = Len(files) + 1
           /\ DOMAIN files = 1 .. Len(files)
           /\ DOMAIN files' = DOMAIN files \cup {Len(files) + 1}
           /\ Len(files) + 1 \notin DOMAIN files
           /\ files'[Len(files) + 1] = text
           /\ \A i \in DOMAIN files : files'[i] = files[i]
           /\ \E S : files' \in Seq(S)
<1>1. PICK S : files \in Seq(S)
  OBVIOUS
<1>2. files \in Seq(S \cup {text})
  BY <1>1
<1>3. /\ Append(files, text) \in Seq(S \cup {text})
      /\ Len(Append(files, text)) = Len(files) + 1
      /\ \A i \in 1 .. Len(files) : Append(files, text)[i] = files[i]
      /\ Append(files, text)[Len(files) + 1] = text
  BY <1>2
<1>4. /\ Len(files) \in Nat /\ DOMAIN files = 1 .. Len(files)
      /\ DOMAIN Append(files, text) = 1 .. Len(files) + 1
  BY <1>2, <1>3
<1> QED
  BY <1>3, <1>4

LEMMA ClaimsGrow ==
    ASSUME \E S : files \in Seq(S), NEW text, files' = Append(files, text)
    PROVE  /\ ClaimTexts' = ClaimTexts \cup
                  IF "attempt" \in DOMAIN text THEN {Len(files) + 1} ELSE {}
           /\ CloseTexts' = CloseTexts \cup
                  IF "forced" \in DOMAIN text THEN {Len(files) + 1} ELSE {}
           /\ \A p \in Path : Content[p] \subseteq Content'[p]
           /\ \A p \in Path : /\ p \in ClaimPath => "attempt" \in DOMAIN text
                              /\ p = RoundFile => "forced" \in DOMAIN text
                              => Len(files') \in Content'[p]
           /\ Path' = Path /\ ClaimPath' = ClaimPath
<1>1. /\ DOMAIN files' = DOMAIN files \cup {Len(files) + 1}
      /\ Len(files) + 1 \notin DOMAIN files
      /\ files'[Len(files) + 1] = text
      /\ \A i \in DOMAIN files : files'[i] = files[i]
      /\ Len(files') = Len(files) + 1
  BY TextAdded
<1>2. ClaimTexts' = ClaimTexts \cup IF "attempt" \in DOMAIN text THEN {Len(files) + 1} ELSE {}
  BY <1>1 DEF ClaimTexts
<1>3. Path' = Path /\ ClaimPath' = ClaimPath
  BY DEF Path, ClaimPath
<1>4. \A p \in Path : /\ p \in ClaimPath => Content[p] = {0} \cup ClaimTexts
                                            /\ Content'[p] = {0} \cup ClaimTexts'
                      /\ p \notin ClaimPath /\ p = RoundFile
                             => /\ Content[p] = {0} \cup CloseTexts
                                /\ Content'[p] = {0} \cup CloseTexts'
                      /\ p \notin ClaimPath /\ p # RoundFile
                             => /\ Content[p] = {0} \cup DOMAIN files
                                /\ Content'[p] = {0} \cup DOMAIN files'
  BY <1>3 DEF Content
<1>5. CloseTexts' = CloseTexts \cup IF "forced" \in DOMAIN text THEN {Len(files) + 1} ELSE {}
  BY <1>1 DEF CloseTexts
<1>6. \A p \in Path : Content[p] \subseteq Content'[p]
  BY <1>1, <1>2, <1>4, <1>5
<1>7. \A p \in Path : /\ p \in ClaimPath => "attempt" \in DOMAIN text
                      /\ p = RoundFile => "forced" \in DOMAIN text
                      => Len(files') \in Content'[p]
  BY <1>1, <1>2, <1>4, <1>5
<1> QED
  BY <1>2, <1>3, <1>5, <1>6, <1>7

\* An invariant stays true of more texts.
LEMMA MoreContent ==
    ASSUME NEW V, NEW W, \A p \in Path : V[p] \subseteq W[p], NEW s \in Place, NEW c, NEW o
    PROVE  /\ OriginInv(o, V) => OriginInv(o, W)
           /\ CloneInv(s, c, o, V) => CloneInv(s, c, o, W)
<1>1. OriginInv(o, V) => OriginInv(o, W)
  BY DEF OriginInv
<1>2. ASSUME CloneInv(s, c, o, V) PROVE CloneInv(s, c, o, W)
  <2>1. \A p \in DOMAIN c.mine : p \in Path /\ IsChange(c, p, V)
    BY <1>2 DEF CloneInv
  <2>2. \A p \in DOMAIN c.mine : IsChange(c, p, W)
    BY <2>1 DEF IsChange
  <2> QED
    BY <1>2, <2>2 DEF CloneInv
<1> QED
  BY <1>1, <1>2

\* A step that changes one clone, and perhaps adds a text.
LEMMA LocalStep ==
    ASSUME RepositoryInv, NEW s \in Place, NEW c, origin' = origin,
           clones' = [clones EXCEPT ![s] = c],
           \A p \in Path : Content[p] \subseteq Content'[p],
           CloneInv(s, c, origin, Content')
    PROVE  RepositoryInv'
<1>1. OriginInv(origin, Content')
  BY MoreContent DEF RepositoryInv
<1>2. DOMAIN clones' = Place /\ clones'[s] = c /\ \A q \in Place \ {s} : clones'[q] = clones[q]
  BY DEF RepositoryInv
<1>3. \A q \in Place : CloneInv(q, clones'[q], origin, Content')
  BY <1>2, MoreContent DEF RepositoryInv
<1> QED
  BY <1>1, <1>2, <1>3 DEF RepositoryInv

\* A push of the clone s, after which it is c.
LEMMA PushStep ==
    ASSUME RepositoryInv, NEW s \in Place, NEW c, Push(s, c), files' = files,
           CloneInv(s, c, HeadTree(clones[s]), Content)
    PROVE  RepositoryInv'
<1> DEFINE h == HeadTree(clones[s])
<1>1. OriginInv(h, Content)
  BY HeadKeeps DEF RepositoryInv
<1>2. origin' = h /\ Content' = Content
  BY DEF Push, Content, ClaimTexts, CloseTexts
<1>3. DOMAIN clones' = Place /\ clones'[s] = c
      /\ \A q \in Place \ {s} : clones'[q] = Unfresh(clones[q])
  BY DEF Push
<1>4. \A q \in Place \ {s} : CloneInv(q, Unfresh(clones[q]), h, Content)
  BY OthersKeep DEF RepositoryInv
<1> HIDE DEF h
<1>5. \A q \in Place : CloneInv(q, clones'[q], h, Content)
  <2>1. CloneInv(s, c, h, Content)
    BY DEF h
  <2> QED
    BY <1>3, <1>4, <2>1
<1> QED
  BY <1>1, <1>2, <1>3, <1>5 DEF RepositoryInv

-----------------------------------------------------------------------------
(* The steps of the commands. *)

LEMMA CloneTypes ==
    ASSUME NEW s \in Place, NEW c, NEW o, NEW V, CloneInv(s, c, o, V)
    PROVE  CloneTypeOK(c)
<1>1. \A p \in DOMAIN c.mine : c.mine[p] \in Change
  BY DEF CloneInv, IsChange
<1> QED
  BY <1>1 DEF CloneTypeOK, CloneInv, Range

\* What a command sees are texts, and claims in the claim files.
LEMMA SeenIs ==
    ASSUME RoundInv, NEW s \in Place
    PROVE  /\ \A p \in Path : Seen(s)[p] \in Content[p] /\ Seen(s)[p] \in Nat
           /\ \A d \in Device, b \in Bundle : Seen(s)[ClaimFile(d, b)] \in {0} \cup ClaimTexts
           /\ \A p \in Path : Seen(s)[p] # origin[p] => p \in DOMAIN clones[s].mine
<1> DEFINE c == Settled(clones[s])
<1>1. CloneInv(s, c, origin, Content) /\ DOMAIN c.mine \subseteq DOMAIN clones[s].mine
  BY SettledKeeps, SettledIs DEF RoundInv, RepositoryInv
<1>2. OriginInv(origin, Content)
  BY DEF RoundInv, RepositoryInv
<1> HIDE DEF c
<1>3. \A p \in DOMAIN c.mine : c.mine[p].work \in Nat /\ c.mine[p].work \in Content[p]
  BY <1>1 DEF CloneInv, IsChange, Change
<1>4. \A p \in Path : WorkTree(c)[p] = IF p \in DOMAIN c.mine THEN c.mine[p].work ELSE origin[p]
  BY DEF WorkTree
<1>5. \A p \in Path : /\ WorkTree(c)[p] \in Content[p] /\ WorkTree(c)[p] \in Nat
                      /\ WorkTree(c)[p] # origin[p] => p \in DOMAIN clones[s].mine
  BY <1>1, <1>2, <1>3, <1>4 DEF OriginInv, Tree
<1> QED
  BY <1>5, PathsAre, ContentIs DEF Seen, c

LEMMA PulledIsThere ==
    ASSUME RoundInv, NEW s \in Place
    PROVE  /\ CloneInv(s, Pulled(clones[s]), origin, Content)
           /\ DOMAIN Pulled(clones[s]).mine = DOMAIN clones[s].mine
<1>1. CloneInv(s, clones[s], origin, Content) /\ OriginInv(origin, Content)
  BY DEF RoundInv, RepositoryInv
<1>2. DOMAIN Pulled(clones[s]).mine = DOMAIN clones[s].mine
  BY <1>1, PulledIs
<1> QED
  BY <1>1, <1>2, PulledKeeps

\* The types that do not depend on the clones.
OtherTypes ==
    /\ op \in [Place -> {Idle, JustPush} \cup
                         [kind : {"claim"}, bundle : Bundle, claim : ClaimTexts]]
    /\ expired \subseteq ClaimTexts
    /\ granted \in Seq(ClaimTexts)
    /\ faults \in 0 .. MaxFaults

LEMMA RoundParts ==
    /\ RoundInv <=> RepositoryInv /\ TextsInv /\ ClaimsBySessions /\ OtherTypes
    /\ RoundInv' <=> RepositoryInv' /\ TextsInv' /\ ClaimsBySessions' /\ OtherTypes'
<1>1. RepositoryInv => \A s \in Place : CloneTypeOK(clones[s])
  BY CloneTypes DEF RepositoryInv
<1>2. RepositoryInv' => \A s \in Place : CloneTypeOK(clones'[s])
  BY CloneTypes DEF RepositoryInv
<1>3. RoundInv <=> RepositoryInv /\ TextsInv /\ ClaimsBySessions /\ OtherTypes
  BY <1>1 DEF RoundInv, QaTypeOK, OtherTypes, RepositoryInv, TextsInv, OriginInv
<1>4. RoundInv' <=> RepositoryInv' /\ TextsInv' /\ ClaimsBySessions' /\ OtherTypes'
  BY <1>2 DEF RoundInv, QaTypeOK, OtherTypes, RepositoryInv, TextsInv, OriginInv
<1> QED
  BY <1>3, <1>4

\* A command that writes a text and commits it.
LEMMA WriteKeeps ==
    ASSUME RoundInv, NEW s \in Place, NEW ps, ps \subseteq OwnPath(s) \cap Path,
           NEW text, NEW todo, Write(s, ps, text, todo),
           \A p \in ps : /\ p \in ClaimPath => "attempt" \in DOMAIN text
                         /\ p = RoundFile => "forced" \in DOMAIN text,
           "attempt" \in DOMAIN text =>
               text.by \in Session /\ text.bundle \in Bundle /\ text.attempt \in Attempt,
           \/ todo = JustPush
           \/ /\ s \in Session /\ "attempt" \in DOMAIN text
              /\ todo \in [kind : {"claim"}, bundle : Bundle, claim : {Len(files) + 1}],
           \A d \in Device, b \in Bundle, n \in Attempt :
               EndFile(d, b, n) \in ps =>
                   StartFile(d, b, n) \in DOMAIN clones[s].mine \/ origin[StartFile(d, b, n)] # 0
    PROVE  RoundInv'
<1> DEFINE c == Pulled(clones[s])
           f == Len(files')
<1>1. /\ files' = Append(files, text)
      /\ \E S : files \in Seq(S)
      /\ clones' = [clones EXCEPT ![s] = Commit(origin, c, ps, f)]
      /\ op' = [op EXCEPT ![s] = todo]
      /\ UNCHANGED <<origin, expired, granted, faults>>
  BY DEF Write, RoundInv, TextsInv
<1>2. /\ f = Len(files) + 1 /\ f \in Nat /\ f # 0
      /\ ClaimTexts' = ClaimTexts \cup IF "attempt" \in DOMAIN text THEN {f} ELSE {}
      /\ \A p \in Path : Content[p] \subseteq Content'[p]
      /\ \A p \in Path : /\ p \in ClaimPath => "attempt" \in DOMAIN text
                         /\ p = RoundFile => "forced" \in DOMAIN text
                         => f \in Content'[p]
      /\ files'[f] = text
      /\ \A i \in DOMAIN files : files'[i] = files[i]
      /\ \E S : files' \in Seq(S)
  BY <1>1, TextAdded, ClaimsGrow
<1>3. CloneInv(s, c, origin, Content') /\ OriginInv(origin, Content')
  BY <1>2, PulledIsThere, MoreContent DEF RoundInv, RepositoryInv
<1>4. DOMAIN c.mine = DOMAIN clones[s].mine
  BY PulledIsThere
<1> HIDE DEF c, f
<1>5. CloneInv(s, Commit(origin, c, ps, f), origin, Content')
  <2>1. \A p \in ps : f \in Content'[p] /\ (p \notin ClaimPath => f # 0)
    <3> TAKE p \in ps
    <3>1. /\ p \in Path
          /\ p \in ClaimPath => "attempt" \in DOMAIN text
          /\ p = RoundFile => "forced" \in DOMAIN text
      OBVIOUS
    <3> QED
      BY <1>2, <3>1
  <2> QED
    BY <1>2, <1>3, <1>4, <2>1, CommitKeeps
<1>6. RepositoryInv'
  BY <1>1, <1>2, <1>5, LocalStep DEF RoundInv
<1>7. TextsInv'
  <2>1. \A k \in ClaimTexts : k \in DOMAIN files
    BY DEF ClaimTexts
  <2>2. \A k \in ClaimTexts' : /\ files'[k].by \in Session /\ files'[k].bundle \in Bundle
                               /\ files'[k].attempt \in Attempt
    BY <1>2, <2>1 DEF RoundInv, TextsInv
  <2> QED
    BY <1>2, <2>2 DEF TextsInv
<1>8. OtherTypes'
  <2>1. ClaimTexts \subseteq ClaimTexts'
    BY <1>2
  <2>2. todo \in {Idle, JustPush} \cup [kind : {"claim"}, bundle : Bundle, claim : ClaimTexts']
    BY <1>2
  <2>3. op' \in [Place -> {Idle, JustPush} \cup
                             [kind : {"claim"}, bundle : Bundle, claim : ClaimTexts']]
    <3>1. \A q \in Place : op'[q] = IF q = s THEN todo ELSE op[q]
      BY <1>1, RoundParts DEF OtherTypes
    <3>2. DOMAIN op' = Place /\ op' = [q \in Place |-> op'[q]]
      BY <1>1, RoundParts DEF OtherTypes
    <3>3. \A q \in Place : op[q] \in {Idle, JustPush} \cup
                             [kind : {"claim"}, bundle : Bundle, claim : ClaimTexts']
      BY <2>1, RoundParts DEF OtherTypes
    <3> QED
      BY <2>2, <3>1, <3>2, <3>3
  <2>4. granted' \in Seq(ClaimTexts')
    BY <1>1, <2>1, RoundParts DEF OtherTypes
  <2> QED
    BY <1>1, <2>1, <2>3, <2>4, RoundParts DEF OtherTypes
<1>9. ClaimsBySessions'
  <2>1. todo.kind = "claim" => s \in Session
    BY DEF JustPush
  <2>2. \A q \in Place : op'[q] = IF q = s THEN todo ELSE op[q]
    BY <1>1, RoundParts DEF OtherTypes
  <2> QED
    BY <2>1, <2>2 DEF ClaimsBySessions, IsClaim, RoundInv
<1> QED
  BY <1>6, <1>7, <1>8, <1>9, RoundParts

LEMMA AttemptsAre ==
    ASSUME NEW t, NEW pair
    PROVE  AttemptAt(t, pair) \in Attempt
<1>1. Claimants(t, pair) \subseteq Device
  BY DEF Claimants, On
<1>2. /\ IsFiniteSet(Claimants(t, pair))
      /\ Cardinality(Claimants(t, pair)) <= Cardinality(Device)
  BY <1>1, FS_Subset, QaAssumption
<1>3. Cardinality(Claimants(t, pair)) \in Nat /\ Cardinality(Device) \in Nat
  BY <1>2, FS_CardinalityType, QaAssumption
<1> QED
  BY <1>2, <1>3 DEF AttemptAt, Attempt

LEMMA ClaimKeeps ==
    ASSUME RoundInv, NEW s \in Session, NEW b \in Bundle, Claim(s, b)
    PROVE  RoundInv'
<1> DEFINE text == [by |-> s, bundle |-> b,
                    attempt |-> AttemptAt(Seen(s), <<b, PlatformOf[DeviceOf[s]]>>)]
           todo == [kind |-> "claim", bundle |-> b, claim |-> Len(files) + 1]
           ps == {ClaimFile(DeviceOf[s], b)}
<1>1. Write(s, ps, text, todo)
  BY DEF Claim
<1>2. s \in Place /\ ps \subseteq OwnPath(s) \cap Path /\ ps \subseteq ClaimPath
  BY SessionsOwn, PathsAre DEF Place
<1>3. /\ "attempt" \in DOMAIN text
      /\ text.by \in Session /\ text.bundle \in Bundle /\ text.attempt \in Attempt
  BY AttemptsAre
<1>4. todo \in [kind : {"claim"}, bundle : Bundle, claim : {Len(files) + 1}]
  OBVIOUS
<1>5. /\ \A d \in Device, e \in Bundle, n \in Attempt : EndFile(d, e, n) \notin ps
      /\ RoundFile \notin ps
  BY <1>2, PathsAre
<1> HIDE DEF text, todo, ps
<1> QED
  BY <1>1, <1>2, <1>3, <1>4, <1>5, WriteKeeps

\* The claim that a command works under is one that was written.
LEMMA OwnClaimIs ==
    ASSUME RoundInv, NEW s \in Session, NEW b \in Bundle, OwnsClaim(s, b)
    PROVE  /\ OwnClaim(s, b) \in ClaimTexts
           /\ files[OwnClaim(s, b)].attempt \in Attempt
<1>1. OwnClaim(s, b) \in ClaimTexts
  BY SeenIs, SessionsOwn DEF OwnsClaim, OwnClaim, Place
<1> QED
  BY <1>1 DEF RoundInv, TextsInv

LEMMA StartKeeps ==
    ASSUME RoundInv, NEW s \in Session, NEW b \in Bundle, Start(s, b)
    PROVE  RoundInv'
<1> DEFINE c == OwnClaim(s, b)
           text == [by |-> s, claim |-> c]
           ps == {StartFile(DeviceOf[s], b, files[c].attempt)}
<1>1. Write(s, ps, text, JustPush) /\ OwnsClaim(s, b)
  BY DEF Start
<1>2. c \in ClaimTexts /\ files[c].attempt \in Attempt
  BY <1>1, OwnClaimIs
<1>3. s \in Place /\ ps \subseteq OwnPath(s) \cap Path /\ ps \cap ClaimPath = {}
  BY <1>2, SessionsOwn, PathsAre DEF Place
<1>4. "attempt" \notin DOMAIN text
  OBVIOUS
<1>5. /\ \A d \in Device, e \in Bundle, n \in Attempt : EndFile(d, e, n) \notin ps
      /\ RoundFile \notin ps
  BY PathParts
<1> HIDE DEF text, c, ps
<1> QED
  BY <1>1, <1>3, <1>4, <1>5, WriteKeeps

LEMMA FinishKeeps ==
    ASSUME RoundInv, NEW s \in Session, NEW b \in Bundle, Finish(s, b)
    PROVE  RoundInv'
<1> DEFINE c == OwnClaim(s, b)
           text == [by |-> s, claim |-> c, late |-> c \in expired]
           k == files[c].attempt
           ps == {EndFile(DeviceOf[s], b, k)}
           p == StartFile(DeviceOf[s], b, k)
<1>1. Write(s, ps, text, JustPush) /\ OwnsClaim(s, b)
  BY DEF Finish
<1>2. c \in ClaimTexts /\ k \in Attempt
  BY <1>1, OwnClaimIs
<1>3. s \in Place /\ ps \subseteq OwnPath(s) \cap Path /\ ps \cap ClaimPath = {} /\ p \in Path
  BY <1>2, SessionsOwn, PathsAre DEF Place
<1>4. "attempt" \notin DOMAIN text
  OBVIOUS
<1>5. p \in DOMAIN clones[s].mine \/ origin[p] # 0
  <2>1. Seen(s)[p] # 0
    BY DEF Finish, StartedBefore
  <2> QED
    BY <2>1, <1>3, SeenIs
<1>6. \A d \in Device, e \in Bundle, n \in Attempt :
          EndFile(d, e, n) \in ps =>
              StartFile(d, e, n) \in DOMAIN clones[s].mine \/ origin[StartFile(d, e, n)] # 0
  <2> SUFFICES ASSUME NEW d \in Device, NEW e \in Bundle, NEW n \in Attempt,
                      EndFile(d, e, n) = EndFile(DeviceOf[s], b, k)
               PROVE  StartFile(d, e, n) = p
    BY <1>5
  <2> QED
    BY DEF EndFile, StartFile
<1>7. RoundFile \notin ps
  BY PathParts
<1> HIDE DEF text, c, ps
<1> QED
  BY <1>1, <1>3, <1>4, <1>6, <1>7, WriteKeeps

LEMMA ReportKeeps ==
    ASSUME RoundInv, NEW ps, NEW text, Write(Coordinator, ps, text, JustPush),
           ps \subseteq {RoundFile, LedgerFile}, "attempt" \notin DOMAIN text,
           RoundFile \in ps => "forced" \in DOMAIN text
    PROVE  RoundInv'
<1>1. Coordinator \in Place /\ ps \subseteq OwnPath(Coordinator) \cap Path /\ ps \cap ClaimPath = {}
  BY CoordinatorOwns, PathsAre DEF Place
<1>2. \A d \in Device, e \in Bundle, n \in Attempt : EndFile(d, e, n) \notin ps
  BY PathParts
<1> QED
  BY <1>1, <1>2, WriteKeeps

LEMMA WriteLedgerKeeps == ASSUME RoundInv, WriteLedger PROVE RoundInv'
<1> DEFINE text == [ledger |-> Ledger(Seen(Coordinator))]
<1>1. Write(Coordinator, {LedgerFile}, text, JustPush)
  BY DEF WriteLedger
<1>2. "attempt" \notin DOMAIN text /\ RoundFile \notin {LedgerFile}
  BY PathParts
<1> HIDE DEF text
<1> QED
  BY <1>1, <1>2, ReportKeeps

LEMMA CloseKeeps == ASSUME RoundInv, NEW force \in BOOLEAN, Close(force) PROVE RoundInv'
<1> DEFINE text == [forced |-> force, ledger |-> Ledger(Seen(Coordinator))]
<1>1. Write(Coordinator, {RoundFile, LedgerFile}, text, JustPush)
  BY DEF Close
<1>2. "attempt" \notin DOMAIN text /\ "forced" \in DOMAIN text
  OBVIOUS
<1> HIDE DEF text
<1> QED
  BY <1>1, <1>2, ReportKeeps

\* What a step that adds no text leaves to be shown.
LEMMA NoText ==
    ASSUME RoundInv, files' = files, RepositoryInv', NEW s \in Place, NEW k,
           op' = [op EXCEPT ![s] = k], k \in {op[s], Idle, JustPush},
           expired' = expired, granted' \in Seq(ClaimTexts), faults' \in 0 .. MaxFaults
    PROVE  RoundInv'
<1>1. ClaimTexts' = ClaimTexts
  BY DEF ClaimTexts
<1>2. TextsInv'
  BY <1>1 DEF RoundInv, TextsInv
<1>3. /\ op \in [Place -> {Idle, JustPush} \cup
                            [kind : {"claim"}, bundle : Bundle, claim : ClaimTexts]]
      /\ expired \subseteq ClaimTexts
      /\ ClaimsBySessions
  BY RoundParts DEF OtherTypes
<1>4. \A q \in Place : op'[q] = IF q = s THEN k ELSE op[q]
  BY <1>3
<1>5. k.kind = "claim" => IsClaim(s)
  BY DEF Idle, JustPush, IsClaim
<1>6. ClaimsBySessions'
  BY <1>3, <1>4, <1>5 DEF ClaimsBySessions, IsClaim
<1>7. OtherTypes'
  BY <1>1, <1>3 DEF OtherTypes
<1> QED
  BY <1>2, <1>6, <1>7, RoundParts

LEMMA PullFailsKeeps == ASSUME RoundInv, NEW s \in Place, PullFails(s) PROVE RoundInv'
<1>1. CloneInv(s, Pulled(clones[s]), origin, Content)
  BY PulledIsThere
<1>2. Content' = Content /\ files' = files
  BY DEF PullFails, Content, ClaimTexts, CloseTexts
<1>3. RepositoryInv'
  BY <1>1, <1>2, LocalStep DEF PullFails, RoundInv
<1>4. op' = [op EXCEPT ![s] = op[s]]
  BY RoundParts DEF PullFails, OtherTypes
<1> QED
  BY <1>2, <1>3, <1>4, NoText, RoundParts DEF PullFails, OtherTypes

LEMMA PushRejectedKeeps == ASSUME RoundInv, NEW s \in Place, PushRejected(s) PROVE RoundInv'
<1>1. CloneInv(s, Pulled(clones[s]), origin, Content)
  BY PulledIsThere
<1>2. Content' = Content /\ files' = files
  BY DEF PushRejected, Content, ClaimTexts, CloseTexts
<1>3. RepositoryInv'
  BY <1>1, <1>2, LocalStep DEF PushRejected, RoundInv
<1>4. PICK k : op' = [op EXCEPT ![s] = k] /\ k \in {op[s], Idle}
  BY DEF PushRejected
<1> QED
  BY <1>2, <1>3, <1>4, NoText, RoundParts DEF PushRejected, OtherTypes

\* The file of a claim that is under way.
LEMMA OwnFileIs ==
    ASSUME RoundInv, NEW s \in Place, IsClaim(s)
    PROVE  /\ s \in Session
           /\ op[s].bundle \in Bundle /\ op[s].claim \in ClaimTexts
           /\ OwnFile(s) \in ClaimPath \cap OwnPath(s) \cap Path
<1>1. s \in Session
  BY DEF RoundInv, ClaimsBySessions
<1>2. op[s] \in [kind : {"claim"}, bundle : Bundle, claim : ClaimTexts]
  BY RoundParts DEF OtherTypes, IsClaim, Idle, JustPush
<1>3. op[s].bundle \in Bundle /\ op[s].claim \in ClaimTexts
  BY <1>2
<1> QED
  BY <1>1, <1>3, SessionsOwn, PathsAre DEF OwnFile

LEMMA StoppedKeeps ==
    ASSUME RoundInv, NEW s \in Place, NEW c, CloneInv(s, c, origin, Content),
           clones' = [clones EXCEPT ![s] = Unfresh(Settled(c))],
           UNCHANGED <<origin, files, expired, granted>>, Finished(s), Fault
    PROVE  RoundInv'
<1>1. CloneInv(s, Unfresh(Settled(c)), origin, Content)
  BY SettledKeeps, UnfreshKeeps
<1>2. Content' = Content /\ files' = files
  BY DEF Content, ClaimTexts, CloseTexts
<1>3. RepositoryInv'
  BY <1>1, <1>2, LocalStep DEF RoundInv
<1>4. faults' \in 0 .. MaxFaults
  BY RoundParts, QaAssumption DEF Fault, OtherTypes
<1> QED
  BY <1>2, <1>3, <1>4, NoText, RoundParts DEF OtherTypes, Finished

LEMMA GiveUpKeeps == ASSUME RoundInv, NEW s \in Place, GiveUp(s) PROVE RoundInv'
<1> DEFINE c == IF IsClaim(s) THEN Unlink(clones[s], OwnFile(s)) ELSE clones[s]
<1>1. CloneInv(s, clones[s], origin, Content)
  BY DEF RoundInv, RepositoryInv
<1>2. CloneInv(s, c, origin, Content)
  BY <1>1, OwnFileIs, UnlinkKeeps, ContentIs
<1>3. /\ clones' = [clones EXCEPT ![s] = Unfresh(Settled(c))]
      /\ UNCHANGED <<origin, files, expired, granted>> /\ Finished(s) /\ Fault
  BY DEF GiveUp
<1> HIDE DEF c
<1> QED
  BY <1>2, <1>3, StoppedKeeps

LEMMA CrashKeeps == ASSUME RoundInv, NEW s \in Place, Crash(s) PROVE RoundInv'
<1>1. CloneInv(s, clones[s], origin, Content)
  BY DEF RoundInv, RepositoryInv
<1>2. /\ clones' = [clones EXCEPT ![s] = Unfresh(Settled(clones[s]))]
      /\ UNCHANGED <<origin, files, expired, granted>> /\ Finished(s) /\ Fault
  BY DEF Crash
<1> QED
  BY <1>1, <1>2, StoppedKeeps

LEMMA FreshCloneKeeps == ASSUME RoundInv, NEW s \in Place, FreshClone(s) PROVE RoundInv'
<1>1. CloneInv(s, NewClone, origin, Content)
  BY NewCloneKeeps
<1>2. Content' = Content /\ files' = files
  BY DEF FreshClone, Content, ClaimTexts, CloseTexts
<1>3. RepositoryInv'
  BY <1>1, <1>2, LocalStep DEF FreshClone, RoundInv
<1>4. op' = [op EXCEPT ![s] = op[s]]
  BY RoundParts DEF FreshClone, OtherTypes
<1> QED
  BY <1>2, <1>3, <1>4, NoText, RoundParts DEF FreshClone, OtherTypes

LEMMA AfterPushKeeps ==
    ASSUME RoundInv, NEW s \in Place
    PROVE  /\ CloneInv(s, Acknowledged(clones[s]), HeadTree(clones[s]), Content)
           /\ OriginInv(HeadTree(clones[s]), Content)
<1> CloneInv(s, clones[s], origin, Content) /\ OriginInv(origin, Content)
  BY DEF RoundInv, RepositoryInv
<1> QED
  BY AcknowledgedKeeps, HeadKeeps

LEMMA PushLandsKeeps == ASSUME RoundInv, NEW s \in Place, PushLands(s) PROVE RoundInv'
<1>1. CloneInv(s, Landed(s), HeadTree(clones[s]), Content)
  BY AfterPushKeeps, SettledKeeps, UnfreshKeeps DEF Landed
<1>2. RepositoryInv'
  BY <1>1, PushStep DEF PushLands, RoundInv
<1>3. granted' \in Seq(ClaimTexts)
  <2>1. granted \in Seq(ClaimTexts)
    BY RoundParts DEF OtherTypes
  <2>2. IsClaim(s) => op[s].claim \in ClaimTexts
    BY OwnFileIs
  <2> QED
    BY <2>1, <2>2 DEF PushLands
<1> QED
  BY <1>2, <1>3, NoText, RoundParts DEF PushLands, Finished, OtherTypes

LEMMA ClaimYieldsKeeps == ASSUME RoundInv, NEW s \in Place, ClaimYields(s) PROVE RoundInv'
<1> DEFINE h == HeadTree(clones[s])
           c == Settled(Acknowledged(clones[s]))
           ps == {OwnFile(s)}
<1>1. CloneInv(s, c, h, Content) /\ OriginInv(h, Content)
  BY AfterPushKeeps, SettledKeeps
<1>2. ps \subseteq OwnPath(s) \cap Path /\ ps \subseteq ClaimPath
  BY OwnFileIs DEF ClaimYields
<1>3. /\ \A p \in ps : 0 \in Content[p]
      /\ \A d \in Device, b \in Bundle, n \in Attempt : EndFile(d, b, n) \notin ps
  BY <1>2, ContentIs, PathsAre
<1>4. Push(s, Commit(h, c, ps, 0))
  BY DEF ClaimYields
<1> HIDE DEF h, c, ps
<1>5. CloneInv(s, Commit(h, c, ps, 0), h, Content)
  BY <1>1, <1>2, <1>3, CommitKeeps
<1>6. RepositoryInv'
  BY <1>4, <1>5, PushStep DEF ClaimYields, RoundInv, h
<1> QED
  BY <1>6, NoText, RoundParts DEF ClaimYields, OtherTypes

LEMMA PushUnheardKeeps == ASSUME RoundInv, NEW s \in Place, PushUnheard(s) PROVE RoundInv'
<1>1. CloneInv(s, Unfresh(Acknowledged(clones[s])), HeadTree(clones[s]), Content)
  BY AfterPushKeeps, UnfreshKeeps
<1>2. RepositoryInv'
  BY <1>1, PushStep DEF PushUnheard, RoundInv
<1>3. faults' \in 0 .. MaxFaults
  BY RoundParts, QaAssumption DEF PushUnheard, Fault, OtherTypes
<1>4. op' = [op EXCEPT ![s] = op[s]]
  BY RoundParts DEF PushUnheard, OtherTypes
<1> QED
  BY <1>2, <1>3, <1>4, NoText, RoundParts DEF PushUnheard, OtherTypes

LEMMA ExpireKeeps == ASSUME RoundInv, NEW k, Expire(k) PROVE RoundInv'
<1>1. ClaimTexts' = ClaimTexts /\ Content' = Content
  BY DEF Expire, ClaimTexts, Content, CloseTexts
<1>2. TextsInv' /\ ClaimsBySessions'
  BY <1>1 DEF RoundInv, TextsInv, ClaimsBySessions, Expire, IsClaim
<1>3. RepositoryInv'
  BY <1>1 DEF Expire, RoundInv, RepositoryInv
<1>4. OtherTypes'
  BY <1>1, RoundParts DEF OtherTypes, Expire
<1> QED
  BY <1>2, <1>3, <1>4, RoundParts

LEMMA RoundInit == Init => RoundInv
<1> SUFFICES ASSUME Init PROVE RoundInv
  OBVIOUS
<1>1. ClaimTexts = {} /\ files \in Seq({})
  BY DEF Init, ClaimTexts
<1>2. TextsInv
  BY <1>1 DEF TextsInv
<1>3. RepositoryInv
  <2>1. OriginInv(origin, Content)
    <3>1. \A p \in Path : origin[p] = 0 /\ 0 \in Content[p]
      BY ContentIs DEF Init, GitInit
    <3>2. origin \in Tree
      BY DEF Init, GitInit, Tree
    <3>3. EndsHaveStarts(origin)
      BY <3>1, PathsAre DEF EndsHaveStarts
    <3> QED
      BY <3>1, <3>2, <3>3 DEF OriginInv
  <2>2. \A s \in Place : CloneInv(s, NewClone, origin, Content)
    BY NewCloneKeeps
  <2> QED
    BY <2>1, <2>2 DEF Init, GitInit, RepositoryInv
<1>4. OtherTypes /\ ClaimsBySessions
  <2>1. Idle.kind # "claim"
    BY DEF Idle
  <2> QED
    BY <2>1, QaAssumption DEF Init, OtherTypes, ClaimsBySessions, IsClaim
<1> QED
  BY <1>2, <1>3, <1>4, RoundParts

LEMMA RoundStep == RoundInv /\ [Next]_vars => RoundInv'
<1> SUFFICES ASSUME RoundInv, [Next]_vars PROVE RoundInv'
  OBVIOUS
<1>1. CASE \E s \in Session, b \in Bundle : Claim(s, b) \/ Start(s, b) \/ Finish(s, b)
  BY <1>1, ClaimKeeps, StartKeeps, FinishKeeps
<1>2. CASE WriteLedger
  BY <1>2, WriteLedgerKeeps
<1>3. CASE \E force \in BOOLEAN : Close(force)
  BY <1>3, CloseKeeps
<1>4. CASE \E s \in Place : PullFails(s) \/ PushRejected(s)
  BY <1>4, PullFailsKeeps, PushRejectedKeeps
<1>5. CASE \E s \in Place : PushLands(s) \/ ClaimYields(s) \/ PushUnheard(s)
  BY <1>5, PushLandsKeeps, ClaimYieldsKeeps, PushUnheardKeeps
<1>6. CASE \E s \in Place : GiveUp(s) \/ Crash(s) \/ FreshClone(s)
  BY <1>6, GiveUpKeeps, CrashKeeps, FreshCloneKeeps
<1>7. CASE \E k \in DOMAIN files : Expire(k)
  BY <1>7, ExpireKeeps
<1>8. CASE UNCHANGED vars
  <2>1. ClaimTexts' = ClaimTexts /\ Content' = Content
    BY <1>8 DEF vars, ClaimTexts, Content, CloseTexts
  <2>2. TextsInv' /\ ClaimsBySessions' /\ OtherTypes' /\ RepositoryInv'
    BY <1>8, <2>1, RoundParts
       DEF vars, TextsInv, ClaimsBySessions, OtherTypes, RepositoryInv, IsClaim
  <2> QED
    BY <2>2, RoundParts
<1> QED
  BY <1>1, <1>2, <1>3, <1>4, <1>5, <1>6, <1>7, <1>8 DEF Next

\* The files, the clones and the commands under way are what they should be,
\* whatever is merged, lost, given up or replaced.
THEOREM TypeCorrect == Spec => []QaTypeOK
<1>1. RoundInv => QaTypeOK
  BY DEF RoundInv
<1> QED
  BY RoundInit, RoundStep, <1>1, PTL DEF Spec

\* An end receipt never goes without the start receipt of its attempt, in the
\* origin and in every clone.
THEOREM NoEndWithoutStart == Spec => []EndHasStart
<1>1. RoundInv => EndHasStart
  <2> SUFFICES ASSUME RoundInv PROVE EndHasStart
    OBVIOUS
  <2>1. EndsHaveStarts(origin)
    BY DEF RoundInv, RepositoryInv, OriginInv
  <2>2. \A s \in Place : EndsHaveStarts(HeadTree(clones[s]))
    BY AfterPushKeeps DEF OriginInv
  <2> QED
    BY <2>1, <2>2 DEF EndHasStart, Trees, EndsHaveStarts
<1> QED
  BY RoundInit, RoundStep, <1>1, PTL DEF Spec

\* A session that has its device to itself, and the coordinator, never end
\* up in a rebase that has failed.
THEOREM LoneSessionsNeverStuck == Spec => []LoneSessionNeverStuck
<1>1. RoundInv => LoneSessionNeverStuck
  BY DEF RoundInv, RepositoryInv, CloneInv, LoneSessionNeverStuck, Lone
<1> QED
  BY RoundInit, RoundStep, <1>1, PTL DEF Spec

-----------------------------------------------------------------------------
(* The claims that count. *)

LEMMA AppendedSet ==
    ASSUME NEW S, NEW g \in Seq(S), NEW c \in S
    PROVE  /\ ToSet(Append(g, c)) = ToSet(g) \cup {c}
           /\ DOMAIN Append(g, c) = DOMAIN g \cup {Len(g) + 1}
           /\ Append(g, c)[Len(g) + 1] = c
           /\ \A i \in DOMAIN g : Append(g, c)[i] = g[i] /\ i < Len(g) + 1
           /\ Len(g) \in Nat /\ DOMAIN g = 1 .. Len(g)
<1>1. /\ Len(g) \in Nat /\ DOMAIN g = 1 .. Len(g)
      /\ DOMAIN Append(g, c) = 1 .. Len(g) + 1
      /\ Append(g, c)[Len(g) + 1] = c
      /\ \A i \in 1 .. Len(g) : Append(g, c)[i] = g[i]
  OBVIOUS
<1>2. DOMAIN Append(g, c) = DOMAIN g \cup {Len(g) + 1}
  BY <1>1
<1>3. ToSet(Append(g, c)) = ToSet(g) \cup {c}
  BY <1>1, <1>2 DEF ToSet
<1> QED
  BY <1>1, <1>2, <1>3

\* What a step does to the commands and the grants: the place s goes on to
\* k, and a claim is granted only when it is done with.
Goes(s, k) ==
    /\ op' = [op EXCEPT ![s] = k]
    /\ \/ granted' = granted
       \/ /\ IsClaim(s) /\ k.kind # "claim"
          /\ granted' = Append(granted, op[s].claim)

LEMMA FirmAfter ==
    ASSUME RoundInv, ClaimsInv, NEW s \in Place, NEW k, Goes(s, k), expired \subseteq expired'
    PROVE  /\ k = op[s] => Firm' \subseteq Firm
           /\ k.kind # "claim" => Firm' \subseteq Firm
           /\ Firm' \subseteq Firm \cup {k.claim}
           /\ IsClaim(s) /\ k.kind # "claim" /\ granted' = granted => op[s].claim \notin Firm'
           /\ Firm \subseteq ClaimTexts
           /\ \A q \in Place : IsClaim(q) => op[q].claim \in Firm
           /\ ToSet(granted) \subseteq ToSet(granted')
           /\ ToSet(granted') \subseteq ToSet(granted) \cup
                  IF IsClaim(s) THEN {op[s].claim} ELSE {}
<1>1. /\ op \in [Place -> {Idle, JustPush} \cup
                            [kind : {"claim"}, bundle : Bundle, claim : ClaimTexts]]
      /\ granted \in Seq(ClaimTexts)
  BY RoundParts DEF OtherTypes
<1>2. \A q \in Place : op'[q] = IF q = s THEN k ELSE op[q]
  BY <1>1 DEF Goes
<1>3. IsClaim(s) => op[s].claim \in ClaimTexts
  BY OwnFileIs
<1>4. /\ ToSet(granted) \subseteq ToSet(granted')
      /\ ToSet(granted') \subseteq ToSet(granted) \cup IF IsClaim(s) THEN {op[s].claim} ELSE {}
  <2>1. CASE granted' = granted
    BY <2>1
  <2>2. CASE IsClaim(s) /\ granted' = Append(granted, op[s].claim)
    <3>1. ToSet(Append(granted, op[s].claim)) = ToSet(granted) \cup {op[s].claim}
      BY <1>1, <1>3, <2>2, AppendedSet
    <3> QED
      BY <2>2, <3>1
  <2> QED
    BY <2>1, <2>2 DEF Goes
<1>5. \A q \in Place : IsClaim(q) => /\ op[q].claim \notin ToSet(granted) \cup expired
                                     /\ files[op[q].claim].by = q
  BY DEF ClaimsInv, PendingInv
<1>6. \A q \in Place : IsClaim(q) => op[q].claim \in Firm /\ op[q].claim \in Pending
  BY <1>5 DEF Firm, Pending
<1>7. ToSet(granted') \subseteq ToSet(granted) \cup Pending
  BY <1>4, <1>6
<1>8. \A x \in Pending' : x \in Pending \/ (x = k.claim /\ k.kind = "claim")
  <2> SUFFICES ASSUME NEW q \in Place, IsClaim(q)'
               PROVE  op'[q].claim \in Pending \/ (op'[q].claim = k.claim /\ k.kind = "claim")
    BY DEF Pending
  <2>1. CASE q = s
    BY <1>2, <2>1 DEF IsClaim
  <2>2. CASE q # s
    BY <1>2, <1>6, <2>2 DEF IsClaim
  <2> QED
    BY <2>1, <2>2
<1>9. Firm' \subseteq Firm \cup IF k.kind = "claim" THEN {k.claim} ELSE {}
  BY <1>7, <1>8 DEF Firm
<1>10. k = op[s] /\ k.kind = "claim" => k.claim \in Firm
  BY <1>6 DEF IsClaim
<1>11. ASSUME IsClaim(s), k.kind # "claim", granted' = granted PROVE op[s].claim \notin Firm'
  <2>1. op[s].claim \notin ToSet(granted')
    BY <1>5, <1>11
  <2>2. ASSUME NEW q \in Place, IsClaim(q)' PROVE op'[q].claim # op[s].claim
    <3>1. q # s /\ op'[q] = op[q] /\ IsClaim(q)
      BY <1>2, <1>11, <2>2 DEF IsClaim
    <3> QED
      BY <1>5, <1>11, <3>1
  <2> QED
    BY <2>1, <2>2 DEF Firm, Pending
<1>12. Firm \subseteq ClaimTexts
  <2>1. ToSet(granted) \subseteq ClaimTexts
    BY <1>1 DEF ToSet
  <2>2. Pending \subseteq ClaimTexts
    BY OwnFileIs DEF Pending
  <2> QED
    BY <2>1, <2>2 DEF Firm
<1>13. k = op[s] => Firm' \subseteq Firm
  BY <1>9, <1>10
<1> QED
  BY <1>4, <1>6, <1>9, <1>11, <1>12, <1>13

\* Where a claim under way, or one that was granted, has its file.
LEMMA FilesOfClaims ==
    ASSUME RoundInv
    PROVE  /\ \A c \in ClaimTexts : FileOf(c) \in ClaimPath \cap Path
           /\ \A q \in Place : IsClaim(q) /\ PendingInv(q) => FileOf(op[q].claim) = OwnFile(q)
<1>1. \A c \in ClaimTexts : FileOf(c) \in ClaimPath \cap Path
  BY SessionsOwn, PathsAre DEF FileOf, DeviceBy, RoundInv, TextsInv
<1>2. \A q \in Place : IsClaim(q) /\ PendingInv(q) => FileOf(op[q].claim) = OwnFile(q)
  BY DEF FileOf, DeviceBy, OwnFile, PendingInv
<1> QED
  BY <1>1, <1>2

LEMMA ClaimFilesHold ==
    ASSUME RoundInv, NEW q \in Place, NEW p \in DOMAIN clones[q].mine \cap ClaimPath
    PROVE  /\ clones[q].mine[p].was \in ClaimTexts \cup {0}
           /\ clones[q].mine[p].head \in ClaimTexts \cup {0}
           /\ clones[q].mine[p].work \in ClaimTexts \cup {0}
<1>1. IsChange(clones[q], p, Content)
  BY DEF RoundInv, RepositoryInv, CloneInv
<1> QED
  BY <1>1, ContentIs DEF IsChange

\* A step of s keeps the invariant if it keeps it in the clone of s and
\* moves no claim that counts.
LEMMA ClaimsKept ==
    ASSUME RoundInv, ClaimsInv, NEW s \in Place, NEW k, Goes(s, k),
           \A c \in ClaimTexts : files'[c] = files[c],
           \A q \in Place \ {s} : /\ clones'[q].mine = clones[q].mine
                                  /\ clones'[q].stuck = clones[q].stuck,
           expired \subseteq expired',
           \A q \in Place : IsClaim(q) => op[q].claim \notin expired',
           \A p \in ClaimPath, c \in Firm : origin[p] = c => origin'[p] = c,
           granted' # granted => origin'[OwnFile(s)] = op[s].claim,
           k = op[s] \/ k.kind # "claim" \/ k.claim \notin ClaimTexts \cup {0},
           k.kind = "claim" => PendingInv(s)',
           Harmless(clones'[s], Firm')
    PROVE  ClaimsInv'
<1>1. /\ k = op[s] => Firm' \subseteq Firm
      /\ k.kind # "claim" => Firm' \subseteq Firm
      /\ Firm' \subseteq Firm \cup {k.claim}
      /\ Firm \subseteq ClaimTexts
      /\ \A q \in Place : IsClaim(q) => op[q].claim \in Firm
      /\ ToSet(granted') \subseteq ToSet(granted) \cup
             IF IsClaim(s) THEN {op[s].claim} ELSE {}
  BY FirmAfter
<1>2. /\ granted \in Seq(ClaimTexts)
      /\ \A q \in Place : op'[q] = IF q = s THEN k ELSE op[q]
  BY RoundParts DEF OtherTypes, Goes
<1>3. \A q \in Place : IsClaim(q) => PendingInv(q)
  BY DEF ClaimsInv
<1>4. \A q \in Place : IsClaim(q)' => PendingInv(q)'
  <2> SUFFICES ASSUME NEW q \in Place, q # s, IsClaim(q)' PROVE PendingInv(q)'
    BY <1>2 DEF IsClaim
  <2> DEFINE c == op[q].claim
  <2>1. op'[q] = op[q] /\ IsClaim(q)
    BY <1>2 DEF IsClaim
  <2>2. PendingInv(q) /\ c \in Firm /\ c \in ClaimTexts /\ files'[c] = files[c]
    BY <1>1, <1>3, <2>1
  <2>3. OwnFile(q)' = OwnFile(q) /\ OwnFile(q) \in ClaimPath
    BY <2>1, OwnFileIs DEF OwnFile
  <2>4. c \notin ToSet(granted') \cup expired'
    <3>1. IsClaim(s) => op[s].claim # c
      BY <1>3, <2>2 DEF PendingInv
    <3> QED
      BY <1>1, <2>1, <2>2, <3>1 DEF PendingInv
  <2>5. /\ clones'[q].mine = clones[q].mine /\ clones'[q].stuck = clones[q].stuck
        /\ origin[OwnFile(q)] = c => origin'[OwnFile(q)] = c
    BY <2>2, <2>3
  <2>6. Pairs' = Pairs
    BY DEF Pairs
  <2> QED
    BY <2>1, <2>2, <2>3, <2>4, <2>5, <2>6 DEF PendingInv
<1>5. \A c \in ToSet(granted') \ expired' : origin'[FileOf(c)'] = c
  <2> SUFFICES ASSUME NEW c \in ToSet(granted') \ expired' PROVE origin'[FileOf(c)'] = c
    OBVIOUS
  <2>1. CASE c \in ToSet(granted)
    <3>1. c \in Firm /\ c \in ClaimTexts /\ origin[FileOf(c)] = c
      BY <1>1, <2>1 DEF Firm, ClaimsInv
    <3>2. FileOf(c)' = FileOf(c) /\ FileOf(c) \in ClaimPath
      BY <3>1, FilesOfClaims DEF FileOf, DeviceBy
    <3> QED
      BY <3>1, <3>2
  <2>2. CASE c \notin ToSet(granted)
    <3>1. IsClaim(s) /\ c = op[s].claim /\ granted' # granted /\ PendingInv(s)
      BY <1>1, <1>3, <2>2
    <3>2. c \in ClaimTexts /\ FileOf(c) = OwnFile(s)
      BY <1>1, <3>1, FilesOfClaims
    <3>3. FileOf(c)' = FileOf(c)
      BY <3>2 DEF FileOf, DeviceBy
    <3> QED
      BY <3>1, <3>2, <3>3
  <2> QED
    BY <2>1, <2>2
<1>6. \A q \in Place : Harmless(clones'[q], Firm')
  <2> SUFFICES ASSUME NEW q \in Place \ {s} PROVE Harmless(clones'[q], Firm')
    OBVIOUS
  <2>1. Harmless(clones[q], Firm) /\ clones'[q].mine = clones[q].mine
    BY DEF ClaimsInv
  <2>2. \A p \in DOMAIN clones[q].mine \cap ClaimPath :
            /\ clones[q].mine[p].was \in ClaimTexts \cup {0}
            /\ clones[q].mine[p].head \in ClaimTexts \cup {0}
    BY ClaimFilesHold
  <2>3. Firm' \cap (ClaimTexts \cup {0}) \subseteq Firm
    BY <1>1
  <2> QED
    BY <2>1, <2>2, <2>3 DEF Harmless
<1>7. \A i, j \in DOMAIN granted' : i # j => granted'[i] # granted'[j]
  <2>1. CASE granted' = granted
    BY <2>1 DEF ClaimsInv
  <2>2. CASE IsClaim(s) /\ granted' = Append(granted, op[s].claim)
    <3>1. op[s].claim \in ClaimTexts /\ op[s].claim \notin ToSet(granted)
      BY <1>1, <1>3, <2>2 DEF PendingInv
    <3>2. /\ DOMAIN granted' = DOMAIN granted \cup {Len(granted) + 1}
          /\ granted'[Len(granted) + 1] = op[s].claim
          /\ \A i \in DOMAIN granted : granted'[i] = granted[i]
      BY <1>2, <2>2, <3>1, AppendedSet
    <3>3. \A i \in DOMAIN granted : granted[i] # op[s].claim
      BY <3>1 DEF ToSet
    <3> QED
      BY <3>2, <3>3 DEF ClaimsInv
  <2> QED
    BY <2>1, <2>2 DEF Goes
<1> QED
  BY <1>4, <1>5, <1>6, <1>7 DEF ClaimsInv

\* What the commands of git leave of a harmless clone.
LEMMA GitHarmless ==
    ASSUME NEW s \in Place, NEW c, NEW V, CloneInv(s, c, origin, V), OriginInv(origin, V),
           NEW firm, Harmless(c, firm)
    PROVE  /\ Harmless(Settled(c), firm)
           /\ Harmless(Unfresh(c), firm)
           /\ Harmless(Pulled(c), firm)
           /\ Harmless(Acknowledged(c), firm)
           /\ \A ps, f : ps \cap ClaimPath = {} => Harmless(Commit(origin, c, ps, f), firm)
           /\ \A less : less \subseteq firm => Harmless(c, less)
<1>1. Harmless(Settled(c), firm)
  <2>1. /\ Settled(c).mine = [p \in Changed(c) |-> c.mine[p]]
        /\ Changed(c) \subseteq DOMAIN c.mine
    BY SettledIs
  <2>2. /\ DOMAIN Settled(c).mine = Changed(c)
        /\ \A p \in Changed(c) : Settled(c).mine[p] = c.mine[p]
    BY <2>1
  <2> QED
    BY <2>1, <2>2 DEF Harmless
<1>2. Harmless(Unfresh(c), firm)
  BY UnfreshKeeps DEF Harmless
<1>3. Harmless(Pulled(c), firm)
  <2>1. CASE Conflicts(c)
    BY <2>1, PulledIs DEF Harmless
  <2>2. CASE ~Conflicts(c)
    <3>1. Pulled(c).mine = [p \in DOMAIN c.mine |->
                               IF p \in Changed(c) THEN c.mine[p] ELSE Same(origin[p])]
      BY <2>2, PulledIs
    <3>2. /\ DOMAIN Pulled(c).mine = DOMAIN c.mine
          /\ \A p \in DOMAIN c.mine : Pulled(c).mine[p] =
                                         IF p \in Changed(c) THEN c.mine[p] ELSE Same(origin[p])
      BY <3>1
    <3>3. \A p \in Path : /\ Same(origin[p]).was = origin[p] /\ Same(origin[p]).head = origin[p]
                          /\ Same(origin[p]).work = origin[p]
      BY DEF Same
    <3>4. DOMAIN c.mine \subseteq Path
      BY DEF CloneInv
    <3> QED
      BY <3>2, <3>3, <3>4 DEF Harmless
  <2> QED
    BY <2>1, <2>2
<1>4. Harmless(Acknowledged(c), firm)
  <2> DEFINE r == Acknowledged(c)
  <2>1. /\ IsClone(r) /\ r.fresh = c.fresh /\ r.stuck = c.stuck
        /\ DOMAIN r.mine = DOMAIN c.mine
        /\ r.mine = [p \in DOMAIN r.mine |-> r.mine[p]]
        /\ \A p \in DOMAIN c.mine :
               r.mine[p] = [was |-> c.mine[p].head, head |-> c.mine[p].head,
                            work |-> c.mine[p].work]
        /\ \A p \in DOMAIN c.mine : /\ r.mine[p].was = c.mine[p].head
                                     /\ r.mine[p].head = c.mine[p].head
                                     /\ r.mine[p].work = c.mine[p].work
    BY AcknowledgedIs
  <2> HIDE DEF r
  <2>2. Harmless(r, firm)
    BY <2>1 DEF Harmless
  <2> QED
    BY <2>2 DEF r
<1>5. ASSUME NEW ps, NEW f, ps \cap ClaimPath = {}
      PROVE  Harmless(Commit(origin, c, ps, f), firm)
  <2> DEFINE r == Commit(origin, c, ps, f)
  <2>1. /\ IsClone(r) /\ r.fresh = c.fresh /\ r.stuck = c.stuck
        /\ DOMAIN r.mine = DOMAIN c.mine \cup ps
        /\ r.mine = [p \in DOMAIN r.mine |-> r.mine[p]]
        /\ \A p \in DOMAIN c.mine \ ps : r.mine[p] = c.mine[p]
        /\ \A p \in ps : r.mine[p] = [was |-> IF p \in DOMAIN c.mine THEN c.mine[p].was
                                                                   ELSE origin[p],
                                      head |-> f, work |-> f]
    BY CommitIs
  <2> HIDE DEF r
  <2>2. \A p \in DOMAIN r.mine \cap ClaimPath : p \in DOMAIN c.mine /\ r.mine[p] = c.mine[p]
    BY <1>5, <2>1
  <2>3. Harmless(r, firm)
    BY <2>2 DEF Harmless
  <2> QED
    BY <2>3 DEF r
<1>6. \A less : less \subseteq firm => Harmless(c, less)
  BY DEF Harmless
<1> QED
  BY <1>1, <1>2, <1>3, <1>4, <1>5, <1>6

\* A push moves no claim that counts: what the clone has made of its file
\* was made on top of another.
LEMMA PushMovesNoClaim ==
    ASSUME RoundInv, ClaimsInv, NEW s \in Place, clones[s].fresh
    PROVE  \A p \in ClaimPath, c \in Firm : origin[p] = c => HeadTree(clones[s])[p] = c
<1> DEFINE k == clones[s]
<1>1. /\ CloneInv(s, k, origin, Content) /\ OriginInv(origin, Content)
      /\ Harmless(k, Firm)
  BY DEF RoundInv, RepositoryInv, ClaimsInv
<1>2. /\ \A p \in DOMAIN k.mine : HeadTree(k)[p] = k.mine[p].head
      /\ \A p \in Path \ DOMAIN k.mine : HeadTree(k)[p] = origin[p]
  BY <1>1, HeadKeeps
<1>3. \A p \in DOMAIN k.mine : k.mine[p].was = origin[p]
  BY <1>1 DEF CloneInv, Current
<1> HIDE DEF k
<1>4. \A p \in ClaimPath, c \in Firm : origin[p] = c => HeadTree(k)[p] = c
  BY <1>1, <1>2, <1>3, PathsAre DEF Harmless
<1> QED
  BY <1>4 DEF k

\* What the invariant says of the claims under way, and of one clone.
LEMMA ClaimsParts ==
    ASSUME RoundInv, ClaimsInv
    PROVE  /\ \A q \in Place : IsClaim(q) => PendingInv(q) /\ op[q].claim \notin expired
           /\ \A q \in Place : /\ CloneInv(q, clones[q], origin, Content)
                               /\ Harmless(clones[q], Firm)
           /\ OriginInv(origin, Content)
           /\ DOMAIN clones = Place
  BY DEF ClaimsInv, PendingInv, RoundInv, RepositoryInv

\* Receipts and reports have nothing to do with the claim files.
LEMMA OtherTextsKeepClaims ==
    ASSUME RoundInv, ClaimsInv, NEW s \in Place, MayCommand(s),
           NEW ps, NEW text, Write(s, ps, text, JustPush), ps \cap ClaimPath = {}
    PROVE  ClaimsInv'
<1> DEFINE c == Pulled(clones[s])
           r == Commit(origin, c, ps, Len(files'))
<1>1. /\ files' = Append(files, text) /\ clones' = [clones EXCEPT ![s] = r]
      /\ UNCHANGED <<origin, expired, granted>>
      /\ Goes(s, JustPush) /\ JustPush.kind # "claim"
  BY DEF Write, Goes, JustPush
<1>2. \A k \in ClaimTexts : files'[k] = files[k]
  BY <1>1, TextAdded DEF RoundInv, TextsInv, ClaimTexts
<1>3. CloneInv(s, c, origin, Content) /\ OriginInv(origin, Content) /\ Harmless(c, Firm)
  BY PulledIsThere, ClaimsParts, GitHarmless
<1>4. Firm' \subseteq Firm
  BY <1>1, FirmAfter
<1> HIDE DEF c
<1>5. Harmless(r, Firm)
  BY <1>3, GitHarmless
<1>6. Harmless(r, Firm')
  BY <1>4, <1>5 DEF Harmless
<1> HIDE DEF r
<1>7. clones'[s] = r /\ \A q \in Place \ {s} : clones'[q] = clones[q]
  BY <1>1, ClaimsParts
<1> QED
  BY <1>1, <1>2, <1>6, <1>7, ClaimsParts, ClaimsKept

\* A new claim is made on top of none, or of one that has expired.
LEMMA NewClaimKeepsClaims ==
    ASSUME RoundInv, ClaimsInv, NEW s \in Session, NEW b \in Bundle, Claim(s, b)
    PROVE  ClaimsInv'
<1> DEFINE d == DeviceOf[s]
           pair == <<b, PlatformOf[d]>>
           text == [by |-> s, bundle |-> b, attempt |-> AttemptAt(Seen(s), pair)]
           f == Len(files) + 1
           todo == [kind |-> "claim", bundle |-> b, claim |-> f]
           x == ClaimFile(d, b)
           c == clones[s]
           r == Commit(origin, Pulled(c), {x}, Len(files'))
<1>1. /\ files' = Append(files, text) /\ clones' = [clones EXCEPT ![s] = r]
      /\ UNCHANGED <<origin, expired, granted>>
      /\ Goes(s, todo)
      /\ ~c.stuck /\ ~Conflicts(c) /\ pair \in Open(Seen(s))
  BY DEF Claim, Write, Goes, MayCommand
<1>2. /\ s \in Place /\ d \in Device /\ x \in ClaimPath \cap Path
  BY SessionsOwn, PathsAre DEF Place
<1>3. /\ Len(files') = f /\ f \notin DOMAIN files /\ f \in Nat /\ f # 0
      /\ files'[f] = text
      /\ \A k \in ClaimTexts : files'[k] = files[k] /\ k \in DOMAIN files
  BY <1>1, TextAdded DEF RoundInv, TextsInv, ClaimTexts
<1>4. /\ CloneInv(s, c, origin, Content) /\ Harmless(c, Firm)
      /\ CloneInv(s, Pulled(c), origin, Content) /\ Harmless(Pulled(c), Firm)
      /\ OriginInv(origin, Content)
  BY <1>2, PulledIsThere, ClaimsParts, GitHarmless
<1>5. /\ DOMAIN Pulled(c).mine = DOMAIN c.mine
      /\ \A p \in DOMAIN c.mine : Pulled(c).mine[p].was = origin[p]
      /\ Pulled(c).stuck = c.stuck
  <2>1. /\ Pulled(c).stuck = c.stuck
        /\ Pulled(c).mine = [p \in DOMAIN c.mine |->
                                IF p \in Changed(c) THEN c.mine[p] ELSE Same(origin[p])]
        /\ \A p \in Changed(c) : origin[p] = c.mine[p].was
    BY <1>1, <1>2, <1>4, PulledIs
  <2> QED
    BY <2>1 DEF Same
<1>6. /\ r.stuck = c.stuck
      /\ DOMAIN r.mine = DOMAIN c.mine \cup {x}
      /\ \A p \in DOMAIN c.mine \ {x} : r.mine[p] = Pulled(c).mine[p]
      /\ r.mine[x].was = origin[x] /\ r.mine[x].head = f /\ r.mine[x].work = f
  <2> DEFINE y == Pulled(c)
             n == Len(files')
             ps == {x}
  <2> HIDE DEF x, f, r, c, y, n, ps
  <2>1. s \in Place /\ ps = {x} /\ CloneInv(s, y, origin, Content)
    BY <1>2, <1>4 DEF y, ps
  <2>2. CommitsOne(Commit(origin, y, ps, n), y, origin, x, n)
    BY <2>1, CommitOne
  <2>3. r = Commit(origin, y, ps, n) /\ n = f
    BY <1>3 DEF r, y, n, ps
  <2>4. CommitsOne(r, Pulled(c), origin, x, f)
    BY <2>2, <2>3 DEF y
  <2> QED
    BY <1>5, <2>4 DEF CommitsOne
<1>7. origin[x] \notin Firm
  <2>1. pair \in Pairs /\ LiveClaimants(Seen(s), pair) = {}
    BY <1>1 DEF Open, Live
  <2>2. Seen(s)[x] = 0 \/ Seen(s)[x] \in expired
    <3>1. d \notin LiveClaimants(Seen(s), pair)
      BY <2>1
    <3>2. d \in On(pair[2]) /\ pair[1] = b
      BY <1>2 DEF On
    <3> QED
      BY <3>1, <3>2 DEF LiveClaimants, Claimants
  <2>3. origin[x] \in {0} \cup ClaimTexts /\ 0 \notin ClaimTexts
    <3>1. origin[x] \in {0} \cup ClaimTexts
      BY <1>2, <1>4, ContentIs DEF OriginInv
    <3>2. DOMAIN files = 1 .. Len(files)
      BY <1>1, TextAdded DEF RoundInv, TextsInv
    <3> QED
      BY <3>1, <3>2 DEF ClaimTexts
  <2>4. CASE x \in Changed(c)
    <3>1. origin[x] = c.mine[x].was
      BY <1>1, <2>4 DEF Conflicts
    <3> QED
      BY <1>2, <1>4, <2>4, <3>1 DEF Harmless, Changed
  <2>5. CASE x \notin Changed(c)
    <3>1. Settled(c).mine = [p \in Changed(c) |-> c.mine[p]]
      BY <1>2, <1>4, SettledIs
    <3>2. Seen(s)[x] = origin[x]
      BY <1>2, <2>5, <3>1 DEF Seen, WorkTree
    <3>3. Firm \cap expired = {} /\ Firm \subseteq ClaimTexts
      BY <1>1, <1>2, FirmAfter DEF Firm
    <3> QED
      BY <2>2, <2>3, <3>2, <3>3
  <2> QED
    BY <2>4, <2>5
<1>8. Firm \subseteq ClaimTexts /\ Firm' \subseteq Firm \cup {f}
  <2>1. todo.claim = f
    OBVIOUS
  <2> HIDE DEF todo
  <2> QED
    BY <1>1, <1>2, <2>1, FirmAfter
<1>9. f \notin ClaimTexts \cup {0}
  BY <1>3
<1>10. clones'[s] = r /\ \A q \in Place \ {s} : clones'[q] = clones[q]
  BY <1>1, <1>2, ClaimsParts
<1> HIDE DEF r
<1>11. Harmless(r, Firm')
  <2> SUFFICES ASSUME NEW p \in DOMAIN r.mine \cap ClaimPath
               PROVE  /\ r.mine[p].head # r.mine[p].was => r.mine[p].was \notin Firm'
                      /\ r.mine[p].work # r.mine[p].head => /\ r.mine[p].was \notin Firm'
                                                            /\ r.mine[p].head \notin Firm'
    BY DEF Harmless
  <2>1. CASE p = x
    <3>1. origin[x] \in ClaimTexts \cup {0}
      BY <1>2, <1>4, ContentIs DEF OriginInv
    <3> QED
      BY <1>6, <1>7, <1>8, <1>9, <2>1, <3>1
  <2>2. CASE p # x
    <3>1. p \in DOMAIN Pulled(c).mine /\ r.mine[p] = Pulled(c).mine[p]
      BY <1>5, <1>6, <2>2
    <3>2. r.mine[p].was \in ClaimTexts \cup {0} /\ r.mine[p].head \in ClaimTexts \cup {0}
      <4>1. IsChange(Pulled(c), p, Content)
        BY <1>4, <3>1 DEF CloneInv
      <4> QED
        BY <3>1, <4>1, ContentIs DEF IsChange
    <3> QED
      BY <1>4, <1>8, <1>9, <3>1, <3>2 DEF Harmless
  <2> QED
    BY <2>1, <2>2
<1>12. PendingInv(s)'
  <2>1. op'[s] = todo
    BY <1>1, <1>2, RoundParts DEF Goes, OtherTypes
  <2>2. op'[s].claim = f /\ op'[s].bundle = b /\ OwnFile(s)' = x
    BY <2>1 DEF OwnFile
  <2>3. f \notin ToSet(granted) \cup expired
    <3>1. granted \in Seq(ClaimTexts) /\ expired \subseteq ClaimTexts
      BY RoundParts DEF OtherTypes
    <3>2. ToSet(granted) \subseteq ClaimTexts
      BY <3>1 DEF ToSet
    <3> QED
      BY <1>9, <3>1, <3>2
  <2>4. files'[f].by = s /\ files'[f].bundle = b
    BY <1>3
  <2>5. origin[x] # f
    BY <1>2, <1>4, <1>9, ContentIs DEF OriginInv
  <2>6. pair \in Pairs /\ Pairs' = Pairs
    BY <1>1 DEF Open, Pairs
  <2> HIDE DEF todo, f, x
  <2> QED
    BY <1>1, <1>6, <1>10, <2>2, <2>3, <2>4, <2>5, <2>6 DEF PendingInv
<1>13. todo.claim = f /\ todo.kind = "claim"
  OBVIOUS
<1> HIDE DEF todo, f, x
<1>14. /\ \A q \in Place : IsClaim(q) => op[q].claim \notin expired'
       /\ granted' = granted /\ expired \subseteq expired'
       /\ \A p \in ClaimPath, k \in Firm : origin[p] = k => origin'[p] = k
  BY <1>1, ClaimsParts
<1> QED
  BY <1>1, <1>2, <1>3, <1>9, <1>10, <1>11, <1>12, <1>13, <1>14, ClaimsKept

LEMMA ReceiptsKeepClaims ==
    ASSUME RoundInv, ClaimsInv, NEW s \in Session, NEW b \in Bundle, Start(s, b) \/ Finish(s, b)
    PROVE  ClaimsInv'
<1>1. /\ s \in Place /\ MayCommand(s) /\ OwnsClaim(s, b)
      /\ DeviceOf[s] \in Device /\ files[OwnClaim(s, b)].attempt \in Attempt
  BY OwnClaimIs, SessionsOwn DEF Start, Finish, Place
<1> DEFINE n == files[OwnClaim(s, b)].attempt
<1>2. /\ {StartFile(DeviceOf[s], b, n)} \cap ClaimPath = {}
      /\ {EndFile(DeviceOf[s], b, n)} \cap ClaimPath = {}
  BY <1>1, PathsAre
<1>3. \E ps, text : ps \cap ClaimPath = {} /\ Write(s, ps, text, JustPush)
  BY <1>2 DEF Start, Finish
<1> QED
  BY <1>1, <1>3, OtherTextsKeepClaims

LEMMA ReportsKeepClaims ==
    ASSUME RoundInv, ClaimsInv, WriteLedger \/ \E force \in BOOLEAN : Close(force)
    PROVE  ClaimsInv'
<1>1. Coordinator \in Place /\ MayCommand(Coordinator)
  BY DEF WriteLedger, Close, Place
<1>2. {LedgerFile} \cap ClaimPath = {} /\ {RoundFile, LedgerFile} \cap ClaimPath = {}
  BY PathsAre
<1>3. \E ps, text : ps \cap ClaimPath = {} /\ Write(Coordinator, ps, text, JustPush)
  BY <1>2 DEF WriteLedger, Close
<1> QED
  BY <1>1, <1>3, OtherTextsKeepClaims

\* A step that adds no text and grants nothing, and leaves the origin alone.
LEMMA LocalKeepsClaims ==
    ASSUME RoundInv, ClaimsInv, NEW s \in Place, NEW k, NEW r,
           op' = [op EXCEPT ![s] = k], k = op[s] \/ k.kind # "claim",
           clones' = [clones EXCEPT ![s] = r],
           UNCHANGED <<origin, files, expired, granted>>,
           Harmless(r, Firm'),
           k.kind = "claim" => PendingInv(s)'
    PROVE  ClaimsInv'
<1>1. Goes(s, k)
  BY DEF Goes
<1>2. clones'[s] = r /\ \A q \in Place \ {s} : clones'[q] = clones[q]
  BY ClaimsParts
<1>3. \A q \in Place : IsClaim(q) => op[q].claim \notin expired'
  BY ClaimsParts
<1> QED
  BY <1>1, <1>2, <1>3, ClaimsKept

\* The claim of s is where it was, whatever the clone has pulled.
LEMMA StillPending ==
    ASSUME RoundInv, NEW s \in Place, IsClaim(s), PendingInv(s),
           UNCHANGED <<op, files, expired, granted>>,
           clones'[s].stuck = clones[s].stuck,
           OwnFile(s) \in DOMAIN clones'[s].mine,
           clones'[s].mine[OwnFile(s)].head = op[s].claim,
           clones'[s].mine[OwnFile(s)].work = op[s].claim,
           clones'[s].mine[OwnFile(s)].was = op[s].claim => origin'[OwnFile(s)] = op[s].claim
    PROVE  PendingInv(s)'
<1>1. OwnFile(s)' = OwnFile(s) /\ op'[s] = op[s] /\ Pairs' = Pairs
  BY DEF OwnFile, Pairs
<1> QED
  BY <1>1 DEF PendingInv

LEMMA PullFailsKeepsClaims ==
    ASSUME RoundInv, ClaimsInv, NEW s \in Place, PullFails(s)
    PROVE  ClaimsInv'
<1> DEFINE r == Pulled(clones[s])
<1>1. op' = [op EXCEPT ![s] = op[s]] /\ op[s].kind # "claim" /\ Goes(s, op[s])
  BY RoundParts DEF PullFails, OtherTypes, Idle, Goes
<1>2. Harmless(r, Firm)
  BY ClaimsParts, GitHarmless
<1>3. Firm' \subseteq Firm
  BY <1>1, FirmAfter DEF PullFails
<1>4. clones' = [clones EXCEPT ![s] = r]
  BY DEF PullFails
<1> HIDE DEF r
<1>5. Harmless(r, Firm')
  BY <1>2, <1>3 DEF Harmless
<1> QED
  BY <1>1, <1>4, <1>5, LocalKeepsClaims DEF PullFails

LEMMA PushRejectedKeepsClaims ==
    ASSUME RoundInv, ClaimsInv, NEW s \in Place, PushRejected(s)
    PROVE  ClaimsInv'
<1> DEFINE c == clones[s]
           r == Pulled(clones[s])
           k == IF Conflicts(clones[s]) THEN Idle ELSE op[s]
<1>1. /\ op' = [op EXCEPT ![s] = k] /\ clones' = [clones EXCEPT ![s] = r]
      /\ UNCHANGED <<origin, files, expired, granted>>
      /\ Goes(s, k)
      /\ k = op[s] \/ k.kind # "claim"
  BY DEF PushRejected, Goes, Idle
<1>2. Harmless(r, Firm) /\ clones'[s] = r
  BY <1>1, ClaimsParts, GitHarmless
<1>3. Firm' \subseteq Firm
  BY <1>1, FirmAfter
<1>4. Harmless(r, Firm')
  BY <1>2, <1>3 DEF Harmless
<1>5. ASSUME k.kind = "claim" PROVE PendingInv(s)'
  <2> DEFINE x == OwnFile(s)
             n == op[s].claim
  <2>1. ~Conflicts(c) /\ k = op[s] /\ IsClaim(s)
    BY <1>5 DEF Idle, IsClaim
  <2>2. PendingInv(s) /\ CloneInv(s, c, origin, Content) /\ OriginInv(origin, Content)
    BY <2>1, ClaimsParts
  <2>3. /\ Pulled(c).stuck = c.stuck
        /\ Pulled(c).mine = [p \in DOMAIN c.mine |->
                                IF p \in Changed(c) THEN c.mine[p] ELSE Same(origin[p])]
    BY <2>1, <2>2, PulledIs
  <2>4. /\ x \in DOMAIN c.mine /\ c.mine[x].head = n /\ c.mine[x].work = n
        /\ c.mine[x].was = n => origin[x] = n
    BY <2>2 DEF PendingInv
  <2> HIDE DEF x, n, c, k
  <2>5. r.mine[x] = IF x \in Changed(c) THEN c.mine[x] ELSE Same(origin[x])
    BY <2>3, <2>4 DEF c
  <2>6. /\ r.mine[x].head = n /\ r.mine[x].work = n
        /\ r.mine[x].was = n => origin[x] = n
    BY <2>4, <2>5 DEF Changed, Same
  <2>7. r.stuck = c.stuck /\ x \in DOMAIN r.mine
    BY <2>3, <2>4 DEF c
  <2>8. op' = op /\ origin' = origin
    BY <1>1, <2>1, RoundParts DEF OtherTypes
  <2> HIDE DEF r
  <2> QED
    BY <1>1, <1>2, <2>1, <2>2, <2>6, <2>7, <2>8, StillPending DEF x, n, c
<1> QED
  BY <1>1, <1>4, <1>5, LocalKeepsClaims

\* A command that stops; its clone is c.
LEMMA StoppedKeepsClaims ==
    ASSUME RoundInv, ClaimsInv, NEW s \in Place, NEW c, CloneInv(s, c, origin, Content),
           Harmless(c, Firm'),
           clones' = [clones EXCEPT ![s] = Unfresh(Settled(c))],
           UNCHANGED <<origin, files, expired, granted>>, Finished(s)
    PROVE  ClaimsInv'
<1> DEFINE r == Unfresh(Settled(c))
<1>1. Harmless(r, Firm')
  <2>1. OriginInv(origin, Content)
    BY ClaimsParts
  <2>2. CloneInv(s, Settled(c), origin, Content) /\ Harmless(Settled(c), Firm')
    BY <2>1, SettledKeeps, GitHarmless
  <2> QED
    BY <2>1, <2>2, GitHarmless
<1>2. op' = [op EXCEPT ![s] = Idle] /\ Idle.kind # "claim"
  BY DEF Finished, Idle
<1> HIDE DEF r
<1>3. clones' = [clones EXCEPT ![s] = r]
  BY DEF r
<1> QED
  BY <1>1, <1>2, <1>3, LocalKeepsClaims

\* Where the claim file has been removed, the claim no longer counts.
LEMMA GiveUpKeepsClaims ==
    ASSUME RoundInv, ClaimsInv, NEW s \in Place, GiveUp(s)
    PROVE  ClaimsInv'
<1> DEFINE c == clones[s]
           x == OwnFile(s)
           r == IF IsClaim(s) THEN Unlink(c, x) ELSE c
<1>1. /\ clones' = [clones EXCEPT ![s] = Unfresh(Settled(r))]
      /\ UNCHANGED <<origin, files, expired, granted>> /\ Finished(s)
      /\ Goes(s, Idle) /\ Idle.kind # "claim"
  BY DEF GiveUp, Finished, Goes, Idle
<1>2. /\ CloneInv(s, c, origin, Content) /\ Harmless(c, Firm)
      /\ IsClaim(s) => PendingInv(s) /\ x \in ClaimPath
  BY ClaimsParts, OwnFileIs
<1>3. Firm' \subseteq Firm /\ (IsClaim(s) => op[s].claim \notin Firm')
  BY <1>1, FirmAfter
<1> HIDE DEF c, x
<1>4. CloneInv(s, r, origin, Content)
  BY <1>2, UnlinkKeeps, ContentIs
<1>5. Harmless(r, Firm')
  <2>1. CASE ~IsClaim(s)
    BY <1>2, <1>3, <2>1 DEF Harmless
  <2>2. CASE IsClaim(s)
    <3> DEFINE u == Unlink(c, x)
    <3>1. /\ DOMAIN u.mine = DOMAIN c.mine
          /\ \A p \in DOMAIN c.mine \ {x} : u.mine[p] = c.mine[p]
          /\ x \in DOMAIN c.mine => u.mine[x] = [c.mine[x] EXCEPT !.work = 0]
      <4>1. /\ IsClone(u) /\ u.fresh = c.fresh /\ u.stuck = c.stuck
            /\ DOMAIN u.mine = DOMAIN c.mine
            /\ u.mine = [p \in DOMAIN u.mine |-> u.mine[p]]
            /\ \A p \in DOMAIN c.mine \ {x} : u.mine[p] = c.mine[p]
            /\ x \in DOMAIN c.mine => u.mine[x] = [c.mine[x] EXCEPT !.work = 0]
        BY <1>2, UnlinkIs
      <4> QED
        BY <4>1
    <3>2. /\ x \in DOMAIN c.mine /\ c.mine[x].head = op[s].claim
          /\ c.mine[x] \in Change
      BY <1>2, <2>2 DEF PendingInv, CloneInv, IsChange, c, x
    <3>3. u.mine[x].was = c.mine[x].was /\ u.mine[x].head = op[s].claim
      BY <3>1, <3>2 DEF Change
    <3> HIDE DEF u
    <3>4. Harmless(u, Firm')
      <4> SUFFICES ASSUME NEW p \in DOMAIN c.mine \cap ClaimPath
                   PROVE  /\ u.mine[p].head # u.mine[p].was => u.mine[p].was \notin Firm'
                          /\ u.mine[p].work # u.mine[p].head => /\ u.mine[p].was \notin Firm'
                                                                /\ u.mine[p].head \notin Firm'
        BY <3>1 DEF Harmless
      <4>1. CASE p = x
        BY <1>2, <1>3, <2>2, <3>2, <3>3, <4>1 DEF Harmless
      <4>2. CASE p # x
        BY <1>2, <1>3, <3>1, <4>2 DEF Harmless
      <4> QED
        BY <4>1, <4>2
    <3> QED
      BY <2>2, <3>4 DEF u
  <2> QED
    BY <2>1, <2>2
<1> HIDE DEF r
<1> QED
  BY <1>1, <1>4, <1>5, StoppedKeepsClaims

LEMMA CrashKeepsClaims ==
    ASSUME RoundInv, ClaimsInv, NEW s \in Place, Crash(s)
    PROVE  ClaimsInv'
<1>1. /\ clones' = [clones EXCEPT ![s] = Unfresh(Settled(clones[s]))]
      /\ UNCHANGED <<origin, files, expired, granted>> /\ Finished(s)
      /\ Goes(s, Idle) /\ Idle.kind # "claim"
  BY DEF Crash, Finished, Goes, Idle
<1>2. CloneInv(s, clones[s], origin, Content) /\ Harmless(clones[s], Firm)
  BY ClaimsParts
<1>3. Firm' \subseteq Firm
  BY <1>1, FirmAfter
<1>4. Harmless(clones[s], Firm')
  BY <1>2, <1>3 DEF Harmless
<1> QED
  BY <1>1, <1>2, <1>4, StoppedKeepsClaims

\* A clone is replaced when no claim is under way in it.
LEMMA FreshCloneKeepsClaims ==
    ASSUME RoundInv, ClaimsInv, NEW s \in Place, FreshClone(s)
    PROVE  ClaimsInv'
<1>1. op[s].kind # "claim"
  BY ClaimsParts DEF FreshClone, PendingInv, IsClaim
<1>2. op' = [op EXCEPT ![s] = op[s]]
  BY RoundParts DEF FreshClone, OtherTypes
<1>3. DOMAIN NewClone.mine = {}
  <2>1. NewClone.mine = <<>>
    BY DEF NewClone
  <2> QED
    BY <2>1
<1>4. Harmless(NewClone, Firm')
  BY <1>3 DEF Harmless
<1> QED
  BY <1>1, <1>2, <1>4, LocalKeepsClaims DEF FreshClone

\* As long as no claim expires under way, what expires was granted or lost.
LEMMA ExpireKeepsClaims ==
    ASSUME ~SlowPush, RoundInv, ClaimsInv, NEW k, Expire(k)
    PROVE  ClaimsInv'
<1> DEFINE s == Coordinator
<1>1. s \in Place /\ op' = [op EXCEPT ![s] = op[s]]
  BY RoundParts DEF Expire, OtherTypes, Place
<1>2. Goes(s, op[s]) /\ expired \subseteq expired' /\ UNCHANGED <<origin, clones, files, granted>>
  BY <1>1 DEF Goes, Expire
<1>3. \A q \in Place : IsClaim(q) => op[q].claim \notin expired'
  BY ClaimsParts DEF Expire, PendingInv
<1>4. Firm' \subseteq Firm
  BY <1>1, <1>2, FirmAfter
<1>5. Harmless(clones'[s], Firm')
  BY <1>1, <1>2, <1>4, ClaimsParts DEF Harmless
<1>6. op[s].kind # "claim"
  BY <1>1, QaAssumption DEF RoundInv, ClaimsBySessions, IsClaim
<1> QED
  BY <1>1, <1>2, <1>3, <1>5, <1>6, ClaimsKept

\* A push, after which the clone of s is r.
LEMMA PushKeepsClaims ==
    ASSUME RoundInv, ClaimsInv, NEW s \in Place, NEW k, NEW r, Goes(s, k), Push(s, r),
           UNCHANGED <<files, expired>>, k = op[s] \/ k.kind # "claim",
           Harmless(r, Firm'),
           k.kind = "claim" => PendingInv(s)'
    PROVE  ClaimsInv'
<1>1. /\ clones[s].fresh /\ origin' = HeadTree(clones[s])
      /\ clones'[s] = r /\ \A q \in Place \ {s} : clones'[q] = Unfresh(clones[q])
  BY DEF Push
<1>2. \A p \in ClaimPath, c \in Firm : origin[p] = c => origin'[p] = c
  BY <1>1, PushMovesNoClaim
<1>3. \A q \in Place \ {s} : /\ clones'[q].mine = clones[q].mine
                             /\ clones'[q].stuck = clones[q].stuck
  BY <1>1, ClaimsParts, UnfreshKeeps
<1>4. granted' # granted => origin'[OwnFile(s)] = op[s].claim
  <2> SUFFICES ASSUME granted' # granted PROVE origin'[OwnFile(s)] = op[s].claim
    OBVIOUS
  <2>1. PendingInv(s) /\ CloneInv(s, clones[s], origin, Content) /\ OriginInv(origin, Content)
    BY ClaimsParts DEF Goes
  <2>2. /\ OwnFile(s) \in DOMAIN clones[s].mine
        /\ clones[s].mine[OwnFile(s)].head = op[s].claim
    BY <2>1 DEF PendingInv
  <2> QED
    BY <1>1, <2>1, <2>2, HeadKeeps
<1>5. \A q \in Place : IsClaim(q) => op[q].claim \notin expired'
  BY ClaimsParts
<1> QED
  BY <1>1, <1>2, <1>3, <1>4, <1>5, ClaimsKept

LEMMA AfterPushHarmless ==
    ASSUME RoundInv, ClaimsInv, NEW s \in Place, NEW firm, firm \subseteq Firm
    PROVE  /\ Harmless(Acknowledged(clones[s]), firm)
           /\ Harmless(Unfresh(Acknowledged(clones[s])), firm)
           /\ Harmless(Settled(Acknowledged(clones[s])), firm)
           /\ Harmless(Landed(s), firm)
<1> DEFINE c == Acknowledged(clones[s])
           h == HeadTree(clones[s])
<1>1. Harmless(c, firm)
  <2>1. Harmless(c, Firm)
    BY ClaimsParts, GitHarmless
  <2> QED
    BY <2>1 DEF Harmless
<1>2. CloneInv(s, c, h, Content)
  BY AfterPushKeeps
<1> HIDE DEF c, h
<1>3. CloneInv(s, Settled(c), h, Content)
  BY <1>2, SettledKeeps
<1>4. Harmless(Settled(c), firm)
  <2>1. /\ Settled(c).mine = [p \in Changed(c) |-> c.mine[p]]
        /\ Changed(c) \subseteq DOMAIN c.mine
    BY <1>2, SettledIs
  <2>2. /\ DOMAIN Settled(c).mine = Changed(c)
        /\ \A p \in Changed(c) : Settled(c).mine[p] = c.mine[p]
    BY <2>1
  <2> QED
    BY <1>1, <2>1, <2>2 DEF Harmless
<1>5. Unfresh(c).mine = c.mine /\ Unfresh(Settled(c)).mine = Settled(c).mine
  BY <1>2, <1>3, UnfreshKeeps
<1>6. Harmless(Unfresh(c), firm) /\ Harmless(Unfresh(Settled(c)), firm)
  BY <1>1, <1>4, <1>5 DEF Harmless
<1> QED
  BY <1>1, <1>4, <1>6 DEF c, Landed

LEMMA PushLandsKeepsClaims ==
    ASSUME RoundInv, ClaimsInv, NEW s \in Place, PushLands(s)
    PROVE  ClaimsInv'
<1>1. /\ Goes(s, Idle) /\ Idle.kind # "claim" /\ Push(s, Landed(s))
      /\ UNCHANGED <<files, expired>>
  BY DEF PushLands, Goes, Finished, Idle
<1>2. Firm' \subseteq Firm
  BY <1>1, FirmAfter
<1> QED
  BY <1>1, <1>2, AfterPushHarmless, PushKeepsClaims

\* The claim is still under way: the next pull will find it in the origin.
LEMMA PushUnheardKeepsClaims ==
    ASSUME RoundInv, ClaimsInv, NEW s \in Place, PushUnheard(s)
    PROVE  ClaimsInv'
<1> DEFINE c == clones[s]
           a == Acknowledged(c)
           r == Unfresh(a)
           x == OwnFile(s)
           n == op[s].claim
<1>1. op' = [op EXCEPT ![s] = op[s]] /\ op' = op
  BY RoundParts DEF PushUnheard, OtherTypes
<1>2. /\ Goes(s, op[s]) /\ Push(s, r) /\ UNCHANGED <<files, expired, granted>>
  BY <1>1 DEF PushUnheard, Goes
<1>3. Firm' \subseteq Firm
  BY <1>2, FirmAfter
<1>4. Harmless(r, Firm')
  BY <1>3, AfterPushHarmless
<1>5. ASSUME op[s].kind = "claim" PROVE PendingInv(s)'
  <2>1. IsClaim(s) /\ PendingInv(s)
    BY <1>5, ClaimsParts DEF IsClaim
  <2>2. CloneInv(s, c, origin, Content) /\ OriginInv(origin, Content)
    BY ClaimsParts
  <2>3. x \in DOMAIN c.mine /\ c.mine[x].head = n /\ c.mine[x].work = n
    BY <2>1 DEF PendingInv
  <2>4. clones'[s] = r /\ origin' = HeadTree(c)
    BY <1>2 DEF Push
  <2>5. CloneInv(s, a, HeadTree(c), Content)
    BY AfterPushKeeps
  <2> HIDE DEF c, a, x, n, r
  <2>6. r.mine = a.mine /\ r.stuck = a.stuck
    BY <2>5, UnfreshKeeps DEF r
  <2>7. /\ a.stuck = c.stuck /\ DOMAIN a.mine = DOMAIN c.mine
        /\ a.mine[x].head = n /\ a.mine[x].work = n
    <3>1. /\ IsClone(a) /\ a.fresh = c.fresh /\ a.stuck = c.stuck
          /\ DOMAIN a.mine = DOMAIN c.mine
          /\ a.mine = [p \in DOMAIN a.mine |-> a.mine[p]]
          /\ \A p \in DOMAIN c.mine :
                 a.mine[p] = [was |-> c.mine[p].head, head |-> c.mine[p].head,
                              work |-> c.mine[p].work]
          /\ \A p \in DOMAIN c.mine : /\ a.mine[p].was = c.mine[p].head
                                      /\ a.mine[p].head = c.mine[p].head
                                      /\ a.mine[p].work = c.mine[p].work
      BY <2>2, AcknowledgedIs DEF a
    <3> QED
      BY <2>3, <3>1
  <2>8. origin'[x] = n
    BY <2>2, <2>3, <2>4, HeadKeeps
  <2> QED
    BY <1>1, <1>2, <2>1, <2>3, <2>4, <2>6, <2>7, <2>8, StillPending DEF x, n, c
<1> HIDE DEF r
<1> QED
  BY <1>2, <1>4, <1>5, PushKeepsClaims

\* A claim that is withdrawn no longer counts.
LEMMA ClaimYieldsKeepsClaims ==
    ASSUME RoundInv, ClaimsInv, NEW s \in Place, ClaimYields(s)
    PROVE  ClaimsInv'
<1> DEFINE a == Acknowledged(clones[s])
           c == Settled(a)
           h == HeadTree(clones[s])
           x == OwnFile(s)
           n == op[s].claim
           ps == {x}
           r == Commit(h, c, ps, 0)
<1>1. /\ IsClaim(s) /\ PendingInv(s)
      /\ Goes(s, JustPush) /\ JustPush.kind # "claim" /\ Push(s, r)
      /\ UNCHANGED <<files, expired, granted>>
  BY ClaimsParts DEF ClaimYields, Goes, JustPush
<1>2. Firm' \subseteq Firm /\ n \notin Firm'
  BY <1>1, FirmAfter
<1>3. Harmless(c, Firm')
  BY <1>2, AfterPushHarmless
<1>4. CloneInv(s, a, h, Content) /\ CloneInv(s, c, h, Content)
  BY AfterPushKeeps, SettledKeeps
<1>5. h[x] = n /\ (x \in DOMAIN c.mine => c.mine[x].was = n)
  <2> DEFINE k == clones[s]
  <2>1. CloneInv(s, k, origin, Content) /\ OriginInv(origin, Content)
    BY ClaimsParts
  <2>2. x \in DOMAIN k.mine /\ k.mine[x].head = n
    BY <1>1 DEF PendingInv
  <2>3. h[x] = n
    BY <2>1, <2>2, HeadKeeps
  <2> HIDE DEF a, k, x, n
  <2>4. c.mine = [p \in Changed(a) |-> a.mine[p]]
    BY <1>4, SettledIs
  <2>5. a.mine[x].was = n
    <3>1. /\ IsClone(a) /\ a.fresh = k.fresh /\ a.stuck = k.stuck
          /\ DOMAIN a.mine = DOMAIN k.mine
          /\ a.mine = [p \in DOMAIN a.mine |-> a.mine[p]]
          /\ \A p \in DOMAIN k.mine :
                 a.mine[p] = [was |-> k.mine[p].head, head |-> k.mine[p].head,
                              work |-> k.mine[p].work]
          /\ \A p \in DOMAIN k.mine : /\ a.mine[p].was = k.mine[p].head
                                      /\ a.mine[p].head = k.mine[p].head
                                      /\ a.mine[p].work = k.mine[p].work
      BY <2>1, AcknowledgedIs DEF a, k
    <3> QED
      BY <2>2, <3>1
  <2> HIDE DEF c
  <2> QED
    BY <2>3, <2>4, <2>5
<1> HIDE DEF a, c, h, x, n, ps
<1>6. CommitsOne(r, c, h, x, 0)
  BY <1>4, CommitOne DEF ps
<1> HIDE DEF r
<1>7. Harmless(r, Firm')
  <2> SUFFICES ASSUME NEW p \in DOMAIN r.mine \cap ClaimPath
               PROVE  /\ r.mine[p].head # r.mine[p].was => r.mine[p].was \notin Firm'
                      /\ r.mine[p].work # r.mine[p].head => /\ r.mine[p].was \notin Firm'
                                                            /\ r.mine[p].head \notin Firm'
    BY DEF Harmless
  <2>1. CASE p = x
    BY <1>2, <1>5, <1>6, <2>1 DEF CommitsOne
  <2>2. CASE p # x
    <3>1. p \in DOMAIN c.mine /\ r.mine[p] = c.mine[p]
      BY <1>6, <2>2 DEF CommitsOne
    <3> QED
      BY <1>3, <3>1 DEF Harmless
  <2> QED
    BY <2>1, <2>2
<1> QED
  BY <1>1, <1>7, PushKeepsClaims

-----------------------------------------------------------------------------
(* One holder on a device. *)

LEMMA ClaimsInit == Init => ClaimsInv
<1> SUFFICES ASSUME Init PROVE ClaimsInv
  OBVIOUS
<1>1. /\ \A s \in Place : ~IsClaim(s)
      /\ granted = <<>> /\ ToSet(granted) = {}
      /\ \A s \in Place : clones[s] = NewClone
  BY DEF Init, GitInit, IsClaim, Idle, ToSet
<1>2. DOMAIN NewClone.mine = {}
  <2>1. NewClone.mine = <<>>
    BY DEF NewClone
  <2> QED
    BY <2>1
<1> QED
  BY <1>1, <1>2 DEF ClaimsInv, Harmless

LEMMA ClaimsStep ==
    ASSUME ~SlowPush, RoundInv, ClaimsInv, [Next]_vars
    PROVE  ClaimsInv'
<1>1. CASE \E s \in Session, b \in Bundle : Claim(s, b) \/ Start(s, b) \/ Finish(s, b)
  BY <1>1, NewClaimKeepsClaims, ReceiptsKeepClaims
<1>2. CASE WriteLedger \/ \E force \in BOOLEAN : Close(force)
  BY <1>2, ReportsKeepClaims
<1>3. CASE \E s \in Place : PullFails(s) \/ PushRejected(s)
  BY <1>3, PullFailsKeepsClaims, PushRejectedKeepsClaims
<1>4. CASE \E s \in Place : PushLands(s) \/ ClaimYields(s) \/ PushUnheard(s)
  BY <1>4, PushLandsKeepsClaims, ClaimYieldsKeepsClaims, PushUnheardKeepsClaims
<1>5. CASE \E s \in Place : GiveUp(s) \/ Crash(s) \/ FreshClone(s)
  BY <1>5, GiveUpKeepsClaims, CrashKeepsClaims, FreshCloneKeepsClaims
<1>6. CASE \E k \in DOMAIN files : Expire(k)
  BY <1>6, ExpireKeepsClaims
<1>7. CASE UNCHANGED vars
  <2> DEFINE s == Coordinator
  <2>1. s \in Place /\ op' = [op EXCEPT ![s] = op[s]]
    BY <1>7, RoundParts DEF vars, OtherTypes, Place
  <2>2. Goes(s, op[s])
    BY <1>7, <2>1 DEF vars, Goes
  <2>3. Firm' \subseteq Firm
    BY <1>7, <2>1, <2>2, FirmAfter DEF vars
  <2>4. Harmless(clones'[s], Firm')
    BY <1>7, <2>1, <2>3, ClaimsParts DEF Harmless, vars
  <2>5. op[s].kind # "claim"
    BY <2>1, QaAssumption DEF RoundInv, ClaimsBySessions, IsClaim
  <2> QED
    BY <1>7, <2>1, <2>2, <2>4, <2>5, ClaimsParts, ClaimsKept DEF vars
<1> QED
  BY <1>1, <1>2, <1>3, <1>4, <1>5, <1>6, <1>7 DEF Next

\* As long as no claim expires before claim() has returned it, two sessions
\* on one device never hold the same pair: both claims are the same file, and
\* the origin has kept every claim that was granted and counts.
THEOREM OneHolder == ~SlowPush => (Spec => []OneHolderPerDevice)
<1> SUFFICES ASSUME ~SlowPush PROVE Spec => []OneHolderPerDevice
  OBVIOUS
<1>1. Init => RoundInv /\ ClaimsInv
  BY RoundInit, ClaimsInit
<1>2. RoundInv /\ ClaimsInv /\ [Next]_vars => RoundInv' /\ ClaimsInv'
  BY RoundStep, ClaimsStep
<1>3. RoundInv /\ ClaimsInv => OneHolderPerDevice
  <2> SUFFICES ASSUME ClaimsInv,
                      NEW i \in DOMAIN granted, NEW j \in DOMAIN granted, i # j,
                      Held(granted[i]), Held(granted[j]),
                      PairOf(granted[i]) = PairOf(granted[j]),
                      DeviceBy(granted[i]) = DeviceBy(granted[j])
               PROVE  FALSE
    BY DEF OneHolderPerDevice
  <2>1. files[granted[i]].bundle = files[granted[j]].bundle
    BY DEF PairOf
  <2>2. FileOf(granted[i]) = FileOf(granted[j])
    BY <2>1 DEF FileOf
  <2>3. granted[i] \in ToSet(granted) \ expired /\ granted[j] \in ToSet(granted) \ expired
    BY DEF Held
  <2> QED
    BY <2>2, <2>3 DEF ClaimsInv
<1> QED
  BY <1>1, <1>2, <1>3, PTL DEF Spec

-----------------------------------------------------------------------------
(* The order in which two devices get the same pair. *)

LEMMA LeastNumber ==
    ASSUME NEW T, T \subseteq Nat, T # {}
    PROVE  \E x \in T : \A y \in T : ~ (y < x)
<1>1. PICK x \in T : \A y \in T : ~ (<<y, x>> \in OpToRel(<, Nat))
  BY NatLessThanWellFounded, WFMin
<1>2. \A y \in T : ~ (y < x)
  BY <1>1 DEF OpToRel
<1> QED
  BY <1>2

LEMMA LastInListing ==
    ASSUME NEW T, T \subseteq Device, T # {}
    PROVE  \E d \in T : \A e \in T : Rank[e] <= Rank[d]
<1> DEFINE n == Cardinality(Device)
           behind == {n - Rank[d] : d \in T}
<1>1. n \in Nat /\ \A d \in T : Rank[d] \in 1 .. n
  BY QaAssumption, FS_CardinalityType
<1>2. behind \subseteq Nat /\ behind # {}
  BY <1>1
<1> HIDE DEF n
<1>3. PICK x \in behind : \A y \in behind : ~ (y < x)
  BY <1>2, LeastNumber
<1>4. PICK d \in T : x = n - Rank[d]
  OBVIOUS
<1>5. \A e \in T : Rank[e] <= Rank[d]
  BY <1>1, <1>3, <1>4
<1> QED
  BY <1>5

LEMMA PairsAre == \A pair \in Pairs : pair[1] \in Bundle
  BY DEF Pairs

LEMMA DoneByEnds ==
    ASSUME NEW t, NEW u,
           \A d \in Device, b \in Bundle, n \in Attempt :
               t[EndFile(d, b, n)] # 0 => u[EndFile(d, b, n)] # 0
    PROVE  Done(t) \subseteq Done(u)
<1> SUFFICES ASSUME NEW pair \in Done(t) PROVE pair \in Done(u)
  OBVIOUS
<1>1. pair \in Pairs /\ pair[1] \in Bundle
  BY PairsAre DEF Done
<1>2. PICK d \in On(pair[2]), n \in Attempt : t[EndFile(d, pair[1], n)] # 0
  BY DEF Done, Ends
<1>3. u[EndFile(d, pair[1], n)] # 0
  BY <1>1, <1>2, PathsAre DEF On
<1>4. u[EndFile(d, pair[1], n)] \in Ends(u, pair)
  BY <1>2, <1>3 DEF Ends
<1> QED
  BY <1>1, <1>4 DEF Done

LEMMA DoneGrows ==
    ASSUME NEW t, NEW u, \A p \in Path \ ClaimPath : t[p] # 0 => u[p] # 0
    PROVE  Done(t) \subseteq Done(u)
<1>1. \A d \in Device, b \in Bundle, n \in Attempt :
          t[EndFile(d, b, n)] # 0 => u[EndFile(d, b, n)] # 0
  BY PathsAre
<1> QED
  BY <1>1, DoneByEnds

\* What a step does to the origin, the texts, the claims that have expired
\* and the grants.
LEMMA WhatSteps ==
    ASSUME RoundInv, [Next]_vars
    PROVE  /\ origin' = origin \/ \E s \in Place : origin' = HeadTree(clones[s])
           /\ \A c \in ClaimTexts : files'[c] = files[c]
           /\ expired \subseteq expired'
           /\ \/ granted' = granted
              \/ \E s \in Place : /\ PushLands(s) /\ IsClaim(s)
                                  /\ granted' = Append(granted, op[s].claim)
<1> DEFINE Sends == /\ \E s \in Place : origin' = HeadTree(clones[s])
                    /\ UNCHANGED <<files, expired>>
           Writes == /\ \E text : files' = Append(files, text)
                     /\ UNCHANGED <<origin, expired, granted>>
           Stands == UNCHANGED <<origin, files, granted>> /\ expired \subseteq expired'
<1>1. ASSUME NEW s \in Session, NEW b \in Bundle, Claim(s, b) \/ Start(s, b) \/ Finish(s, b)
      PROVE  Writes
  BY <1>1 DEF Claim, Start, Finish, Write
<1>2. ASSUME WriteLedger \/ \E force \in BOOLEAN : Close(force) PROVE Writes
  BY <1>2 DEF WriteLedger, Close, Write
<1>3. ASSUME NEW s \in Place, PullFails(s) \/ PushRejected(s) \/ GiveUp(s) \/ Crash(s) \/ FreshClone(s)
      PROVE  Stands
  BY <1>3 DEF PullFails, PushRejected, GiveUp, Crash, FreshClone
<1>4. ASSUME NEW s \in Place, ClaimYields(s) \/ PushUnheard(s)
      PROVE  Sends /\ granted' = granted
  BY <1>4 DEF ClaimYields, PushUnheard, Push
<1>5. ASSUME NEW s \in Place, PushLands(s)
      PROVE  /\ Sends
             /\ granted' = granted \/ (IsClaim(s) /\ granted' = Append(granted, op[s].claim))
  BY <1>5 DEF PushLands, Push
<1>6. ASSUME NEW k, Expire(k) PROVE Stands
  BY <1>6 DEF Expire
<1>7. ASSUME UNCHANGED vars PROVE Stands
  BY <1>7 DEF vars
<1>8. \/ Writes \/ Stands
      \/ Sends /\ granted' = granted
      \/ Sends /\ \E s \in Place : PushLands(s) /\ IsClaim(s) /\ granted' = Append(granted, op[s].claim)
  BY <1>1, <1>2, <1>3, <1>4, <1>5, <1>6, <1>7 DEF Next
<1>9. Writes => \A c \in ClaimTexts : files'[c] = files[c]
  BY TextAdded DEF RoundInv, TextsInv, ClaimTexts
<1> QED
  BY <1>8, <1>9

LEMMA OriginKeepsTexts ==
    ASSUME RoundInv, [Next]_vars
    PROVE  Done(origin) \subseteq Done(origin')
<1>1. CASE origin' = origin
  BY <1>1, DoneGrows
<1>2. ASSUME NEW s \in Place, origin' = HeadTree(clones[s]) PROVE Done(origin) \subseteq Done(origin')
  <2>1. \A p \in Path \ ClaimPath : origin[p] # 0 => HeadTree(clones[s])[p] # 0
    BY HeadKeeps DEF RoundInv, RepositoryInv
  <2> QED
    BY <1>2, <2>1, DoneGrows
<1> QED
  BY <1>1, <1>2, WhatSteps

\* What the session sees when its push is accepted.
LEMMA SeenWhenPushed ==
    ASSUME RoundInv, ClaimsInv, NEW s \in Place, clones[s].fresh
    PROVE  /\ \A p \in ClaimPath, c \in Firm : origin[p] = c => Seen(s)[p] = c
           /\ \A p \in Path \ ClaimPath : Seen(s)[p] # 0 => HeadTree(clones[s])[p] # 0
           /\ IsClaim(s) => Seen(s)[OwnFile(s)] = op[s].claim
<1> DEFINE k == clones[s]
           S == Settled(k)
<1>1. /\ CloneInv(s, k, origin, Content) /\ OriginInv(origin, Content)
      /\ Harmless(k, Firm)
  BY ClaimsParts
<1>2. /\ \A p \in DOMAIN k.mine : HeadTree(k)[p] = k.mine[p].head
      /\ \A p \in Path \ DOMAIN k.mine : HeadTree(k)[p] = origin[p]
      /\ \A p \in Path \ ClaimPath : origin[p] # 0 => HeadTree(k)[p] # 0
  BY <1>1, HeadKeeps
<1>3. \A p \in DOMAIN k.mine : k.mine[p].was = origin[p]
  BY <1>1 DEF CloneInv, Current
<1>4. /\ S.mine = [p \in Changed(k) |-> k.mine[p]]
      /\ Changed(k) \subseteq DOMAIN k.mine
  BY <1>1, SettledIs
<1> HIDE DEF k, S
<1>5. \A p \in Path : WorkTree(S)[p] = IF p \in Changed(k) THEN k.mine[p].work ELSE origin[p]
  BY <1>4 DEF WorkTree
<1>6. Seen(s) = WorkTree(S)
  BY DEF Seen, S, k
<1>7. \A p \in ClaimPath, c \in Firm : origin[p] = c => Seen(s)[p] = c
  BY <1>1, <1>3, <1>4, <1>5, <1>6, PathsAre DEF Harmless, Changed
<1>8. \A p \in Path \ ClaimPath : Seen(s)[p] # 0 => HeadTree(k)[p] # 0
  <2>1. \A p \in Changed(k) \ ClaimPath : k.mine[p].work = k.mine[p].head
    BY <1>1, <1>4 DEF CloneInv, Stays
  <2> QED
    BY <1>2, <1>4, <1>5, <1>6, <2>1
<1>9. ASSUME IsClaim(s) PROVE Seen(s)[OwnFile(s)] = op[s].claim
  <2>1. /\ OwnFile(s) \in DOMAIN k.mine /\ OwnFile(s) \in Path
        /\ k.mine[OwnFile(s)].head = op[s].claim /\ k.mine[OwnFile(s)].work = op[s].claim
        /\ k.mine[OwnFile(s)].was = op[s].claim => origin[OwnFile(s)] = op[s].claim
    BY <1>9, OwnFileIs, ClaimsParts DEF PendingInv, k
  <2> QED
    BY <1>5, <1>6, <2>1 DEF Changed
<1> QED
  BY <1>7, <1>8, <1>9 DEF k

\* A session is handed a pair that another device holds only if its device
\* comes later in the listing, or if it sees that the pair is done.
LEMMA GrantsUpwards ==
    ASSUME RoundInv, ClaimsInv, NEW s \in Place, PushLands(s), IsClaim(s),
           NEW c \in ToSet(granted) \ expired, PairOf(c) = PairOf(op[s].claim)
    PROVE  \/ Rank[DeviceBy(c)] < Rank[DeviceBy(op[s].claim)]
           \/ PairOf(c) \in Done(origin')
<1> DEFINE d == DeviceOf[s]
           e == DeviceBy(c)
           b == op[s].bundle
           pair == <<b, PlatformOf[d]>>
           t == Seen(s)
<1>1. /\ PendingInv(s) /\ s \in Session /\ d \in Device /\ b \in Bundle
      /\ op[s].claim \in ClaimTexts /\ op[s].claim \notin expired
      /\ OwnFile(s) = ClaimFile(d, b)
  BY OwnFileIs, ClaimsParts, SessionsOwn DEF OwnFile
<1>2. /\ c \in ClaimTexts /\ c \in Firm /\ origin[FileOf(c)] = c
      /\ files[c].by \in Session /\ e \in Device
  <2>1. c \in Firm /\ origin[FileOf(c)] = c
    BY DEF Firm, ClaimsInv
  <2>2. c \in ClaimTexts
    <3>1. granted \in Seq(ClaimTexts)
      BY RoundParts DEF OtherTypes
    <3> QED
      BY <3>1 DEF ToSet
  <2> QED
    BY <2>1, <2>2, SessionsOwn DEF RoundInv, TextsInv, DeviceBy
<1>3. DeviceBy(op[s].claim) = d /\ files[op[s].claim].bundle = b
  BY <1>1 DEF PendingInv, DeviceBy
<1>4. PairOf(c) = pair /\ FileOf(c) = ClaimFile(e, b) /\ e \in On(pair[2]) /\ pair \in Pairs
  <2>1. PairOf(op[s].claim) = pair
    BY <1>3 DEF PairOf, DeviceBy
  <2>2. files[c].bundle = b /\ PlatformOf[e] = PlatformOf[d]
    BY <2>1 DEF PairOf, DeviceBy
  <2>3. pair \in Pairs
    BY <1>1 DEF PendingInv
  <2> QED
    BY <1>2, <2>1, <2>2, <2>3 DEF FileOf, On
<1>5. clones[s].fresh /\ origin' = HeadTree(clones[s]) /\ ~Loses(s)
  BY DEF PushLands, Push
<1>6. t[ClaimFile(e, b)] = c /\ t[ClaimFile(d, b)] = op[s].claim
  BY <1>1, <1>2, <1>4, <1>5, SeenWhenPushed, FilesOfClaims
<1>7. Done(t) \subseteq Done(origin')
  BY <1>5, SeenWhenPushed, DoneGrows
<1>8. e # d
  <2>1. c # op[s].claim
    BY <1>1 DEF PendingInv
  <2> QED
    BY <1>6, <2>1
<1>9. CASE pair \in Done(t)
  BY <1>4, <1>7, <1>9
<1>10. CASE pair \notin Done(t)
  <2> DEFINE L == LiveClaimants(t, pair)
  <2>1. e \in L
    <3>1. c # 0
      <4>1. DOMAIN files = 1 .. Len(files)
        BY DEF RoundInv, TextsInv
      <4> QED
        BY <1>2, <4>1 DEF ClaimTexts
    <3> QED
      BY <1>4, <1>6, <3>1 DEF LiveClaimants, Claimants
  <2>2. pair \in Live(t)
    BY <1>4, <1>10, <2>1 DEF Live
  <2>3. Winner(t, pair) = d
    BY <1>5, <2>2 DEF Loses
  <2>4. L \subseteq Device
    BY DEF LiveClaimants, Claimants, On
  <2>5. \E x \in L : \A y \in L : Rank[y] <= Rank[x]
    BY <2>1, <2>4, LastInListing
  <2>6. Winner(t, pair) \in L /\ \A y \in L : Rank[y] <= Rank[Winner(t, pair)]
    BY <2>5 DEF Winner
  <2>7. Rank[e] <= Rank[d]
    BY <2>1, <2>3, <2>6
  <2>8. Rank[e] # Rank[d] /\ Rank[e] \in Nat /\ Rank[d] \in Nat
    BY <1>1, <1>2, <1>8, FS_CardinalityType, QaAssumption
  <2> QED
    BY <1>3, <2>7, <2>8
<1> QED
  BY <1>9, <1>10

LEMMA OverlapStep ==
    ASSUME RoundInv, ClaimsInv, OverlapInv, [Next]_vars
    PROVE  OverlapInv'
<1> SUFFICES ASSUME NEW i \in DOMAIN granted', NEW j \in DOMAIN granted',
                    i < j, granted'[i] \notin expired', granted'[j] \notin expired',
                    PairOf(granted[i])' = PairOf(granted[j])'
             PROVE  \/ Rank[DeviceBy(granted[i])'] < Rank[DeviceBy(granted[j])']
                    \/ PairOf(granted[i])' \in Done(origin')
  BY DEF OverlapInv, Done, Ends, Pairs
<1>1. /\ granted \in Seq(ClaimTexts)
      /\ \A c \in ClaimTexts : files'[c] = files[c]
      /\ expired \subseteq expired'
      /\ Done(origin) \subseteq Done(origin')
  BY WhatSteps, OriginKeepsTexts, RoundParts DEF OtherTypes
<1>2. \A c \in ClaimTexts : PairOf(c)' = PairOf(c) /\ DeviceBy(c)' = DeviceBy(c)
  BY <1>1 DEF PairOf, DeviceBy
<1>3. \A n \in DOMAIN granted : granted[n] \in ClaimTexts /\ granted[n] \in ToSet(granted)
  BY <1>1 DEF ToSet
<1>4. CASE i \in DOMAIN granted /\ j \in DOMAIN granted
           /\ granted'[i] = granted[i] /\ granted'[j] = granted[j]
  BY <1>1, <1>2, <1>3, <1>4 DEF OverlapInv
<1>5. ASSUME NEW s \in Place, PushLands(s), IsClaim(s),
             granted' = Append(granted, op[s].claim)
      PROVE  \/ Rank[DeviceBy(granted[i])'] < Rank[DeviceBy(granted[j])']
             \/ PairOf(granted[i])' \in Done(origin')
  <2>1. op[s].claim \in ClaimTexts
    BY <1>5, OwnFileIs
  <2>2. /\ DOMAIN granted' = DOMAIN granted \cup {Len(granted) + 1}
        /\ granted'[Len(granted) + 1] = op[s].claim
        /\ \A n \in DOMAIN granted : granted'[n] = granted[n] /\ n < Len(granted) + 1
        /\ Len(granted) \in Nat /\ DOMAIN granted = 1 .. Len(granted)
    BY <1>1, <1>5, <2>1, AppendedSet
  <2>3. i \in DOMAIN granted
    BY <2>2
  <2>4. CASE j = Len(granted) + 1
    BY <1>1, <1>2, <1>3, <1>5, <2>1, <2>2, <2>3, <2>4, GrantsUpwards
  <2>5. CASE j \in DOMAIN granted
    BY <1>4, <2>2, <2>3, <2>5
  <2> QED
    BY <2>2, <2>4, <2>5
<1>6. CASE granted' = granted
  BY <1>4, <1>6
<1> QED
  BY <1>5, <1>6, WhatSteps

\* As long as no claim expires before claim() has returned it, sessions on two
\* devices hold the same pair at once only if the device that got it last
\* comes last in the directory listing, or if the pair was done meanwhile:
\* whoever is handed a bundle has read the round after its push, and
\* deriveState() keeps the last live claim of the listing.
THEOREM OverlapsOnlyUpwards == ~SlowPush => (Spec => []OverlapOnlyUpwards)
<1> SUFFICES ASSUME ~SlowPush PROVE Spec => []OverlapOnlyUpwards
  OBVIOUS
<1>1. Init => RoundInv /\ ClaimsInv /\ OverlapInv
  BY RoundInit, ClaimsInit DEF Init, OverlapInv
<1>2. RoundInv /\ ClaimsInv /\ OverlapInv /\ [Next]_vars
          => RoundInv' /\ ClaimsInv' /\ OverlapInv'
  BY RoundStep, ClaimsStep, OverlapStep
<1>3. OverlapInv => OverlapOnlyUpwards
  BY DEF OverlapInv, OverlapOnlyUpwards, Held
<1> QED
  BY <1>1, <1>2, <1>3, PTL DEF Spec

-----------------------------------------------------------------------------
(* The receipt that decides a pair. *)

\* The verdicts up to the m-th text are v.
IsVerdicts(v, E, m) ==
    v = [n \in 0 .. m |->
            IF n = 0 THEN 0
            ELSE IF n \in E /\ Replaces(n, v[n - 1]) THEN n ELSE v[n - 1]]

\* There are verdicts up to any text: there is no first one for which they
\* could not be continued.
LEMMA VerdictsExist == \A E : \A m \in Nat : \E v : IsVerdicts(v, E, m)
<1> SUFFICES ASSUME NEW E, {m \in Nat : ~ \E v : IsVerdicts(v, E, m)} # {} PROVE FALSE
  OBVIOUS
<1> DEFINE Bad == {m \in Nat : ~ \E v : IsVerdicts(v, E, m)}
<1>1. Bad \subseteq Nat /\ Bad # {}
  OBVIOUS
<1> HIDE DEF Bad
<1>2. PICK m \in Bad : \A k \in Bad : ~ (k < m)
  BY <1>1, LeastNumber
<1>3. m \in Nat /\ ~ \E v : IsVerdicts(v, E, m)
  BY <1>2 DEF Bad
<1>4. CASE m = 0
  <2>1. IsVerdicts([n \in 0 .. 0 |-> 0], E, 0)
    BY DEF IsVerdicts
  <2> QED
    BY <1>3, <1>4, <2>1
<1>5. CASE m # 0
  <2>1. m - 1 \in Nat /\ m - 1 < m
    BY <1>3, <1>5
  <2>2. PICK v : IsVerdicts(v, E, m - 1)
    BY <1>2, <2>1 DEF Bad
  <2> DEFINE next(n, cur) == IF n \in E /\ Replaces(n, cur) THEN n ELSE cur
             w == [n \in 0 .. m |-> IF n = m THEN next(m, v[m - 1]) ELSE v[n]]
  <2>3. v = [n \in 0 .. m - 1 |-> IF n = 0 THEN 0 ELSE next(n, v[n - 1])]
    BY <2>2 DEF IsVerdicts
  <2> HIDE DEF next
  <2>4. \A n \in 0 .. m - 1 : v[n] = IF n = 0 THEN 0 ELSE next(n, v[n - 1])
    BY <2>3
  <2>5. \A n \in 0 .. m - 1 : w[n] = v[n]
    BY <1>3
  <2>6. \A n \in 0 .. m : w[n] = IF n = 0 THEN 0 ELSE next(n, w[n - 1])
    <3> SUFFICES ASSUME NEW n \in 0 .. m
                 PROVE  w[n] = IF n = 0 THEN 0 ELSE next(n, w[n - 1])
      OBVIOUS
    <3>1. CASE n = m
      <4>1. w[n] = next(m, v[m - 1]) /\ w[n - 1] = v[m - 1]
        BY <3>1, <1>3, <1>5, <2>1, <2>5
      <4> QED
        BY <3>1, <1>5, <4>1
    <3>2. CASE n = 0
      BY <3>2, <1>3, <1>5, <2>1, <2>4, <2>5
    <3>3. CASE n # m /\ n # 0
      <4>1. n \in 0 .. m - 1 /\ n - 1 \in 0 .. m - 1
        BY <3>3, <1>3
      <4>2. w[n] = v[n] /\ w[n - 1] = v[n - 1]
        BY <4>1, <2>5
      <4> QED
        BY <3>3, <4>1, <4>2, <2>4
    <3> QED
      BY <3>1, <3>2, <3>3
  <2>7. w = [n \in 0 .. m |-> IF n = 0 THEN 0 ELSE next(n, w[n - 1])]
    <3> DEFINE u == [n \in 0 .. m |-> IF n = 0 THEN 0 ELSE next(n, w[n - 1])]
    <3>1. DOMAIN w = 0 .. m /\ DOMAIN u = 0 .. m
      OBVIOUS
    <3>2. \A n \in 0 .. m : w[n] = u[n]
      BY <2>6
    <3>3. w = [n \in DOMAIN w |-> w[n]] /\ u = [n \in DOMAIN u |-> u[n]]
      OBVIOUS
    <3> HIDE DEF w, u
    <3>4. w = u
      BY <3>1, <3>2, <3>3
    <3> QED
      BY <3>4 DEF u
  <2>8. IsVerdicts(w, E, m)
    BY <2>7 DEF IsVerdicts, next
  <2> QED
    BY <1>3, <2>8
<1> QED
  BY <1>4, <1>5

LEMMA VerdictsAre ==
    ASSUME TextsInv, NEW E
    PROVE  \A n \in 0 .. Len(files) :
               Verdicts(E)[n] =
                   IF n = 0 THEN 0
                   ELSE IF n \in E /\ Replaces(n, Verdicts(E)[n - 1]) THEN n
                   ELSE Verdicts(E)[n - 1]
<1>1. Len(files) \in Nat
  BY DEF TextsInv
<1>2. Verdicts(E) = CHOOSE v : IsVerdicts(v, E, Len(files))
  BY DEF Verdicts, IsVerdicts
<1>3. IsVerdicts(Verdicts(E), E, Len(files))
  BY <1>1, <1>2, VerdictsExist
<1> QED
  BY <1>3 DEF IsVerdicts

\* What the verdict v after the first m texts is: a receipt if there is one,
\* and one in time if there is one.
Decides(v, E, m) ==
    /\ v \in {0} \cup E
    /\ (\E e \in E : e \in 1 .. m) => v # 0
    /\ (\E e \in E : e \in 1 .. m /\ ~files[e].late) => v # 0 /\ ~files[v].late

LEMMA VerdictsDecide ==
    ASSUME TextsInv, NEW E, 0 \notin E
    PROVE  \A m \in 0 .. Len(files) : Decides(Verdicts(E)[m], E, m)
<1> DEFINE V == Verdicts(E)
           Bad == {m \in 0 .. Len(files) : ~Decides(V[m], E, m)}
<1>1. \A n \in 0 .. Len(files) :
          V[n] = IF n = 0 THEN 0 ELSE IF n \in E /\ Replaces(n, V[n - 1]) THEN n ELSE V[n - 1]
  BY VerdictsAre
<1> HIDE DEF V
<1> SUFFICES ASSUME Bad # {} PROVE FALSE
  BY DEF V
<1>2. Len(files) \in Nat /\ Bad \subseteq Nat
  BY DEF TextsInv
<1> HIDE DEF Bad
<1>3. PICK m \in Bad : \A k \in Bad : ~ (k < m)
  BY <1>2, LeastNumber
<1>4. m \in 0 .. Len(files) /\ ~Decides(V[m], E, m)
  BY <1>3 DEF Bad
<1>5. CASE m = 0
  BY <1>1, <1>2, <1>4, <1>5 DEF Decides
<1>6. CASE m # 0
  <2> DEFINE cur == V[m - 1]
  <2>1. m - 1 \in 0 .. Len(files) /\ m - 1 < m /\ m \in 1 .. Len(files)
    BY <1>2, <1>4, <1>6
  <2>2. Decides(cur, E, m - 1)
    BY <1>3, <2>1 DEF Bad
  <2>3. V[m] = IF m \in E /\ Replaces(m, cur) THEN m ELSE cur
    BY <1>1, <1>4, <1>6
  <2>4. \A e : e \in 1 .. m <=> e \in 1 .. m - 1 \/ e = m
    BY <2>1
  <2> HIDE DEF cur
  <2>5. V[m] \in {0} \cup E
    BY <2>2, <2>3 DEF Decides
  <2>6. ASSUME NEW e \in E, e \in 1 .. m PROVE V[m] # 0
    BY <2>1, <2>2, <2>3, <2>4, <2>6 DEF Decides, Replaces
  <2>7. ASSUME NEW e \in E, e \in 1 .. m, ~files[e].late PROVE ~files[V[m]].late
    <3>1. CASE e \in 1 .. m - 1
      <4>1. cur # 0 /\ ~files[cur].late
        BY <2>2, <2>7, <3>1 DEF Decides
      <4> QED
        BY <2>3, <4>1 DEF Replaces
    <3>2. CASE e = m
      BY <2>3, <2>7, <3>2 DEF Replaces
    <3> QED
      BY <2>4, <2>7, <3>1, <3>2
  <2>8. Decides(V[m], E, m)
    BY <2>5, <2>6, <2>7 DEF Decides
  <2> QED
    BY <1>4, <2>8
<1> QED
  BY <1>2, <1>4, <1>5, <1>6

\* The verdict on a pair in a tree of the repository.
LEMMA VerdictIs ==
    ASSUME RoundInv, NEW t, \A p \in Path : t[p] \in Content[p], NEW pair \in Pairs
    PROVE  /\ Verdict(t, pair) \in {0} \cup Ends(t, pair)
           /\ Ends(t, pair) # {} => Verdict(t, pair) # 0
           /\ (\E e \in Ends(t, pair) : ~files[e].late) => ~files[Verdict(t, pair)].late
<1> DEFINE E == Ends(t, pair)
<1>1. 0 \notin E /\ E \subseteq DOMAIN files
  <2>1. \A d \in Device, b \in Bundle, n \in Attempt :
            t[EndFile(d, b, n)] \in {0} \cup DOMAIN files
    BY PathsAre, ContentIs
  <2> QED
    BY <2>1, PairsAre DEF Ends, On
<1>2. Len(files) \in Nat /\ DOMAIN files = 1 .. Len(files) /\ TextsInv
  BY DEF RoundInv, TextsInv
<1> HIDE DEF E
<1>3. Decides(Verdicts(E)[Len(files)], E, Len(files))
  BY <1>1, <1>2, VerdictsDecide
<1>4. Verdict(t, pair) = Verdicts(E)[Len(files)]
  BY DEF Verdict, E
<1>5. \A e \in E : e \in 1 .. Len(files)
  BY <1>1, <1>2
<1>6. /\ Verdict(t, pair) \in {0} \cup E
      /\ E # {} => Verdict(t, pair) # 0
      /\ (\E e \in E : ~files[e].late) => ~files[Verdict(t, pair)].late
  BY <1>3, <1>4, <1>5 DEF Decides
<1> QED
  BY <1>6 DEF E

\* As long as there is a receipt in time, no late one decides the pair, in the
\* origin and in every clone.
THEOREM ReceiptsInTimeDecide == Spec => []InTimeDecides
<1>1. RoundInv => InTimeDecides
  <2> SUFFICES ASSUME RoundInv PROVE InTimeDecides
    OBVIOUS
  <2>1. \A t \in Trees : \A p \in Path : t[p] \in Content[p]
    BY AfterPushKeeps DEF Trees, RoundInv, RepositoryInv, OriginInv
  <2> QED
    BY <2>1, VerdictIs DEF InTimeDecides
<1> QED
  BY RoundInit, RoundStep, <1>1, PTL DEF Spec

-----------------------------------------------------------------------------
(* A round that is closed without force. *)

\* The invariant is about every text that closes a round without force,
\* pushed or not: the pairs were done, and had verdicts, where it was written.
CloseInv ==
    \A f \in CloseTexts : ~files[f].forced => /\ Pairs \subseteq Done(origin)
                                             /\ \A pair \in Pairs : files[f].ledger[pair] # 0

\* The coordinator's clone has no receipts of its own: the pairs that it sees
\* done are done in the origin.
LEMMA CoordinatorSeesDone ==
    ASSUME RoundInv
    PROVE  Done(Seen(Coordinator)) \subseteq Done(origin)
<1>1. Coordinator \in Place
  BY DEF Place
<1>2. DOMAIN clones[Coordinator].mine \subseteq {RoundFile, LedgerFile}
  BY <1>1, CoordinatorOwns DEF RoundInv, RepositoryInv, CloneInv
<1>3. \A p \in Path : Seen(Coordinator)[p] # origin[p] => p \in DOMAIN clones[Coordinator].mine
  BY <1>1, SeenIs
<1>4. \A d \in Device, b \in Bundle, n \in Attempt :
          EndFile(d, b, n) \in Path /\ EndFile(d, b, n) \notin {RoundFile, LedgerFile}
  BY PathParts, PathsAre
<1>5. \A d \in Device, b \in Bundle, n \in Attempt :
          Seen(Coordinator)[EndFile(d, b, n)] # 0 => origin[EndFile(d, b, n)] # 0
  BY <1>2, <1>3, <1>4
<1> QED
  BY <1>5, DoneByEnds

\* Only Close writes a text that closes the round.
LEMMA WhoCloses ==
    ASSUME [Next]_vars
    PROVE  \/ files' = files
           \/ \E text : files' = Append(files, text) /\ "forced" \notin DOMAIN text
           \/ \E force \in BOOLEAN : Close(force)
<1> DEFINE Writes == \E text : files' = Append(files, text) /\ "forced" \notin DOMAIN text
<1>1. ASSUME NEW s \in Session, NEW b \in Bundle, Claim(s, b) PROVE Writes
  <2> DEFINE text == [by |-> s, bundle |-> b,
                      attempt |-> AttemptAt(Seen(s), <<b, PlatformOf[DeviceOf[s]]>>)]
  <2>1. files' = Append(files, text)
    BY <1>1 DEF Claim, Write
  <2>2. "forced" \notin DOMAIN text
    OBVIOUS
  <2> QED
    BY <2>1, <2>2
<1>2. ASSUME NEW s \in Session, NEW b \in Bundle, Start(s, b) PROVE Writes
  <2> DEFINE text == [by |-> s, claim |-> OwnClaim(s, b)]
  <2>1. files' = Append(files, text)
    BY <1>2 DEF Start, Write
  <2>2. "forced" \notin DOMAIN text
    OBVIOUS
  <2> QED
    BY <2>1, <2>2
<1>3. ASSUME NEW s \in Session, NEW b \in Bundle, Finish(s, b) PROVE Writes
  <2> DEFINE text == [by |-> s, claim |-> OwnClaim(s, b), late |-> OwnClaim(s, b) \in expired]
  <2>1. files' = Append(files, text)
    BY <1>3 DEF Finish, Write
  <2>2. "forced" \notin DOMAIN text
    OBVIOUS
  <2> QED
    BY <2>1, <2>2
<1>4. ASSUME WriteLedger PROVE Writes
  <2> DEFINE text == [ledger |-> Ledger(Seen(Coordinator))]
  <2>1. files' = Append(files, text)
    BY <1>4 DEF WriteLedger, Write
  <2>2. "forced" \notin DOMAIN text
    OBVIOUS
  <2> QED
    BY <2>1, <2>2
<1>5. ASSUME NEW s \in Place,
             \/ PullFails(s) \/ PushLands(s) \/ ClaimYields(s) \/ PushUnheard(s)
             \/ PushRejected(s) \/ GiveUp(s) \/ Crash(s) \/ FreshClone(s)
      PROVE  files' = files
  BY <1>5 DEF PullFails, PushLands, ClaimYields, PushUnheard, PushRejected, GiveUp, Crash, FreshClone
<1>6. ASSUME NEW k, Expire(k) PROVE files' = files
  BY <1>6 DEF Expire
<1>7. ASSUME UNCHANGED vars PROVE files' = files
  BY <1>7 DEF vars
<1> HIDE DEF Writes
<1> QED
  BY <1>1, <1>2, <1>3, <1>4, <1>5, <1>6, <1>7 DEF Next, Writes

LEMMA CloseStep == ASSUME RoundInv, CloseInv, [Next]_vars PROVE CloseInv'
<1>1. Pairs' = Pairs /\ Done(origin) \subseteq Done(origin')
  BY OriginKeepsTexts DEF Pairs
<1> DEFINE Complete(ledger) == /\ Pairs \subseteq Done(origin')
                              /\ \A pair \in Pairs : ledger[pair] # 0
<1>2. CloseInv' <=> \A f \in CloseTexts' : ~files'[f].forced => Complete(files'[f].ledger)
  BY <1>1 DEF CloseInv
<1>3. \A f \in CloseTexts : ~files[f].forced => Complete(files[f].ledger)
  BY <1>1 DEF CloseInv
<1> HIDE DEF Complete
<1>4. CASE files' = files
  BY <1>2, <1>3, <1>4 DEF CloseTexts
<1>5. ASSUME NEW text, files' = Append(files, text), "forced" \notin DOMAIN text
      PROVE  CloseInv'
  <2>1. CloseTexts' = CloseTexts /\ \A f \in CloseTexts : files'[f] = files[f]
    BY <1>5, TextAdded, ClaimsGrow DEF RoundInv, TextsInv, CloseTexts
  <2> QED
    BY <1>2, <1>3, <2>1
<1>6. ASSUME NEW force \in BOOLEAN, Close(force) PROVE CloseInv'
  <2> DEFINE text == [forced |-> force, ledger |-> Ledger(Seen(Coordinator))]
             f == Len(files) + 1
  <2>1. files' = Append(files, text) /\ origin' = origin
    BY <1>6 DEF Close, Write
  <2>2. text.forced = force /\ text.ledger = Ledger(Seen(Coordinator))
    OBVIOUS
  <2>3. ~force => Complete(text.ledger)
    <3> SUFFICES ASSUME ~force PROVE Complete(Ledger(Seen(Coordinator)))
      BY <2>2
    <3>1. Pairs \subseteq Done(Seen(Coordinator))
      BY <1>6 DEF Close, MayClose, Open, Live
    <3>2. Pairs \subseteq Done(origin')
      BY <1>1, <3>1, CoordinatorSeesDone
    <3>3. ASSUME NEW pair \in Pairs PROVE Ledger(Seen(Coordinator))[pair] # 0
      <4>1. \A p \in Path : Seen(Coordinator)[p] \in Content[p]
        BY SeenIs DEF Place
      <4>2. Ends(Seen(Coordinator), pair) # {}
        BY <3>1 DEF Done
      <4> QED
        BY <4>1, <4>2, VerdictIs DEF Ledger
    <3> QED
      BY <3>2, <3>3 DEF Complete
  <2> HIDE DEF text
  <2>4. /\ CloseTexts' \subseteq CloseTexts \cup {f}
        /\ \A g \in CloseTexts : files'[g] = files[g]
        /\ files'[f] = text
    BY <2>1, TextAdded, ClaimsGrow DEF RoundInv, TextsInv, CloseTexts
  <2>5. \A g \in CloseTexts' : ~files'[g].forced => Complete(files'[g].ledger)
    BY <1>3, <2>2, <2>3, <2>4
  <2> QED
    BY <1>2, <2>5
<1> QED
  BY <1>4, <1>5, <1>6, WhoCloses

\* A round that was closed without force has an end receipt for every pair,
\* and its ledger a verdict, whatever was pushed before and after: only the
\* coordinator closes it, it closes what it sees done, it sees no receipts
\* but those of the origin, and no merge removes a receipt.
THEOREM UnforcedClosesAreComplete == Spec => []UnforcedCloseIsComplete
<1>1. Init => RoundInv /\ CloseInv
  BY RoundInit DEF Init, CloseInv, CloseTexts
<1>2. RoundInv /\ CloseInv /\ [Next]_vars => RoundInv' /\ CloseInv'
  BY RoundStep, CloseStep
<1>3. RoundInv /\ CloseInv => UnforcedCloseIsComplete
  <2> SUFFICES ASSUME RoundInv, CloseInv, origin[RoundFile] # 0,
                      ~files[origin[RoundFile]].forced
               PROVE  \A pair \in Pairs : /\ pair \in Done(origin)
                                         /\ files[origin[RoundFile]].ledger[pair] # 0
    BY DEF UnforcedCloseIsComplete, IsClosed
  <2>1. origin[RoundFile] \in Content[RoundFile] /\ RoundFile \in Path
    BY PathsAre DEF RoundInv, RepositoryInv, OriginInv
  <2>2. origin[RoundFile] \in CloseTexts
    BY <2>1, ContentIs
  <2> QED
    BY <2>2 DEF CloseInv
<1> QED
  BY <1>1, <1>2, <1>3, PTL DEF Spec
=============================================================================
