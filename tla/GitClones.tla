----------------------------- MODULE GitClones -----------------------------
(***************************************************************************)
(* A git repository used as a shared store: one origin, and a clone of it  *)
(* in every place that works on it.  A file name holds the number of the   *)
(* text it contains, 0 if there is no such file; every text that is        *)
(* written has a number of its own.                                        *)
(*                                                                         *)
(* Of a clone only its differences from the origin are kept, each with the *)
(* text that was in the file when the clone last fetched it (was), the     *)
(* text committed and not pushed (head) and the file itself (work).  All   *)
(* other files are those of the origin as soon as the clone pulls, which   *)
(* every command does first.  Histories are not kept: commits that change  *)
(* different files merge, and those that change the same one do not.       *)
(***************************************************************************)
EXTENDS Naturals, Functions

CONSTANTS Place,   \* where the clones are
          Path     \* the names of the files

VARIABLES origin, clones

Tree   == [Path -> Nat]
Change == [was : Nat, head : Nat, work : Nat]

\* fresh: the clone waits to push and has seen all of the origin.
\* stuck: it is in the middle of a rebase that has failed.
CloneTypeOK(c) ==
    /\ DOMAIN c.mine \subseteq Path
    /\ Range(c.mine) \subseteq Change
    /\ c.fresh \in BOOLEAN /\ c.stuck \in BOOLEAN

NewClone == [mine |-> <<>>, fresh |-> FALSE, stuck |-> FALSE]

GitInit == /\ origin = [p \in Path |-> 0]
           /\ clones = [s \in Place |-> NewClone]

\* The newest commit and the files of a clone, once it has pulled.
HeadTree(c) == [p \in Path |-> IF p \in DOMAIN c.mine THEN c.mine[p].head ELSE origin[p]]
WorkTree(c) == [p \in Path |-> IF p \in DOMAIN c.mine THEN c.mine[p].work ELSE origin[p]]

\* A file that is as the clone fetched it.
Same(f) == [was |-> f, head |-> f, work |-> f]

\* Files that really differ, and the clone without the others.
Changed(c) ==
    {p \in DOMAIN c.mine : c.mine[p].head # c.mine[p].was \/ c.mine[p].work # c.mine[p].head}
Settled(c) == [c EXCEPT !.mine = Restrict(@, Changed(c))]

\* git pull --rebase --autostash cannot merge: a file the clone has changed
\* has got another text in the origin.
Conflicts(c) == \E p \in Changed(c) : origin[p] # c.mine[p].was

\* After a conflict the clone is in the middle of a rebase, or has unmerged
\* files: the pull that every command begins with fails until somebody puts
\* the clone in order.
Pulled(c) ==
    IF Conflicts(c) THEN [c EXCEPT !.fresh = FALSE, !.stuck = TRUE]
    ELSE [c EXCEPT !.fresh = TRUE,
                   !.mine = [p \in DOMAIN @ |-> IF p \in Changed(c) THEN @[p]
                                               ELSE Same(origin[p])]]

\* In the clone c of the tree t the files in ps get the text f (none if f
\* is 0) and are committed.
Commit(t, c, ps, f) ==
    [c EXCEPT !.mine =
        [p \in DOMAIN @ \cup ps |->
            IF p \notin ps THEN @[p]
            ELSE [was |-> IF p \in DOMAIN @ THEN @[p].was ELSE t[p],
                  head |-> f, work |-> f]]]

\* fs.rmSync of a file the clone has written, which commits nothing.
Unlink(c, p) == [c EXCEPT !.mine[p].work = 0]

\* All commits of the clone are in the origin.
Acknowledged(c) ==
    [c EXCEPT !.mine = [p \in DOMAIN @ |-> [was |-> @[p].head, head |-> @[p].head, work |-> @[p].work]]]

Unfresh(c) == [c EXCEPT !.fresh = FALSE]

\* The origin accepts a push of s if s has seen all of it; what s pushed the
\* others have not seen.
Push(s, after) ==
    /\ clones[s].fresh
    /\ origin' = HeadTree(clones[s])
    /\ clones' = [q \in Place |-> IF q = s THEN after ELSE Unfresh(clones[q])]
=============================================================================
