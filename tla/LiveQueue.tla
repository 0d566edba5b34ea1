------------------------------ MODULE LiveQueue ------------------------------
(***************************************************************************)
(* The live queue: a document, the clients that read, modify and write it  *)
(* over HTTP, and the two stores that keep it.  Documents share nothing,   *)
(* so there is one.                                                        *)
(*                                                                         *)
(* What a document contains is the set of writes that went into it: a      *)
(* client that has read a document and writes it back adds its own write.  *)
(* The memory store puts a document under its lock, in one step.  A put    *)
(* of the Postgres store is a transaction: SELECT FOR UPDATE, then INSERT  *)
(* or UPDATE, then COMMIT.                                                 *)
(***************************************************************************)
EXTENDS Naturals

CONSTANTS
    Client,
    MaxWrites,   \* bound: writes of a client
    None         \* no If-Match; nobody

ASSUME QueueAssumption == None \notin Client /\ None \notin Nat /\ MaxWrites \in Nat

VARIABLES
    store,       \* "memory" or "postgres"
    row,         \* the committed document
    lock,        \* whose transaction holds the row
    creator,     \* whose transaction has inserted a row and not committed
    pc,          \* where the put of each client is
    base,        \* the document each client has read
    request,     \* what it puts
    stale,       \* whether the document was removed since that read
    writes

vars == <<store, row, lock, creator, pc, base, request, stale, writes>>

Write    == Client \X (1 .. MaxWrites)
Document == [revision : Nat, content : SUBSET Write]
Request  == [match : Nat \cup {None}, content : SUBSET Write]

Absent == [revision |-> 0, content |-> {}]
Blank  == [match |-> None, content |-> {}]

Init ==
    /\ store \in {"memory", "postgres"}
    /\ row = Absent
    /\ lock = None /\ creator = None
    /\ pc = [c \in Client |-> "idle"]
    /\ base = [c \in Client |-> Absent]
    /\ request = [c \in Client |-> Blank]
    /\ stale = [c \in Client |-> FALSE]
    /\ writes = [c \in Client |-> 0]

-----------------------------------------------------------------------------
(* The client. *)

GetRecord(c) ==
    /\ pc[c] = "idle"
    /\ base' = [base EXCEPT ![c] = row]
    /\ stale' = [stale EXCEPT ![c] = FALSE]
    /\ UNCHANGED <<store, row, lock, creator, pc, request, writes>>

\* A write on top of what was read, with the revision that was read; or one
\* without If-Match, whatever is there.  A client that got no answer may send
\* what it sent before, or anything else.
PutRecord(c) ==
    /\ pc[c] = "idle"
    /\ writes[c] < MaxWrites
    /\ writes' = [writes EXCEPT ![c] = @ + 1]
    /\ \E ifMatch \in BOOLEAN :
           request' = [request EXCEPT ![c] =
               [match   |-> IF ifMatch THEN base[c].revision ELSE None,
                content |-> {<<c, writes'[c]>>} \cup (IF ifMatch THEN base[c].content ELSE {})]]
    /\ pc' = [pc EXCEPT ![c] = "put"]
    /\ UNCHANGED <<store, row, lock, creator, base, stale>>

-----------------------------------------------------------------------------
(* The stores. *)

Matches(c) == request[c].match \in {None, row.revision}

\* Faulty variant: a put that conflicts does not roll back.
EndedHolding(c) ==
    /\ pc' = [pc EXCEPT ![c] = "idle"]
    /\ request' = [request EXCEPT ![c] = Blank]
    /\ UNCHANGED <<lock, creator>>

\* The put is over: nothing of the client's is locked.
Ended(c) ==
    /\ pc' = [pc EXCEPT ![c] = "idle"]
    /\ request' = [request EXCEPT ![c] = Blank]
    /\ lock' = IF lock = c THEN None ELSE lock
    /\ creator' = IF creator = c THEN None ELSE creator

\* The put has its effect.  The client hears of the new document, or does not.
Stored(c, new) ==
    /\ row' = new
    /\ \E heard \in BOOLEAN :
           /\ base'  = [base EXCEPT ![c] = IF heard THEN new ELSE @]
           /\ stale' = [stale EXCEPT ![c] = IF heard THEN FALSE ELSE @]
    /\ Ended(c)
    /\ UNCHANGED <<store, writes>>

\* The put changes nothing: conflict, unique violation, or lost connection.
Failed(c) == Ended(c) /\ UNCHANGED <<store, row, base, stale, writes>>

NextDocument(c) ==
    [revision |-> IF row.revision = 0 THEN 1 ELSE row.revision + 1,
     content  |-> request[c].content]

MemoryPut(c) ==
    /\ store = "memory"
    /\ pc[c] = "put"
    /\ IF Matches(c) THEN Stored(c, NextDocument(c)) ELSE Failed(c)

\* Faulty variant: the row is read without FOR UPDATE.
SelectUnlocked(c) ==
    /\ store = "postgres"
    /\ pc[c] = "put"
    /\ IF Matches(c)
       THEN /\ pc' = [pc EXCEPT ![c] = IF row.revision = 0 THEN "insert" ELSE "commit"]
            /\ UNCHANGED <<store, row, lock, creator, base, request, stale, writes>>
       ELSE Failed(c)

\* A row that is there is locked, when its present holder is done with it.  A
\* row that is not there cannot be.
SelectForUpdate(c) ==
    /\ store = "postgres"
    /\ pc[c] = "put"
    /\ lock = None
    /\ IF Matches(c)
       THEN /\ pc' = [pc EXCEPT ![c] = IF row.revision = 0 THEN "insert" ELSE "commit"]
            /\ lock' = IF row.revision = 0 THEN None ELSE c
            /\ UNCHANGED <<store, row, creator, base, request, stale, writes>>
       ELSE Failed(c)

\* Faulty variant: an existing row is replaced, as a new one.
InsertOrReplace(c) ==
    /\ pc[c] = "insert"
    /\ lock = None
    /\ Stored(c, [revision |-> 1, content |-> request[c].content])

\* The primary key makes an INSERT wait for another one, and fail beside a row.
Insert(c) ==
    /\ pc[c] = "insert"
    /\ creator = None
    /\ IF row.revision = 0
       THEN /\ creator' = c
            /\ pc' = [pc EXCEPT ![c] = "commit"]
            /\ UNCHANGED <<store, row, lock, base, request, stale, writes>>
       ELSE Failed(c)

Commit(c) == pc[c] = "commit" /\ Stored(c, NextDocument(c))

\* The connection breaks before COMMIT.
LoseConnection(c) == pc[c] # "idle" /\ Failed(c)

Removed ==
    /\ row' = Absent
    /\ stale' = [c \in Client |-> TRUE]

DeleteRecord ==
    /\ row.revision # 0
    /\ lock = None
    /\ Removed
    /\ UNCHANGED <<store, lock, creator, pc, base, request, writes>>

\* The memory store keeps nothing.  Postgres keeps what was committed.
Restart ==
    /\ IF store = "memory" THEN Removed ELSE UNCHANGED <<row, stale>>
    /\ pc' = [c \in Client |-> "idle"]
    /\ request' = [c \in Client |-> Blank]
    /\ lock' = None /\ creator' = None
    /\ UNCHANGED <<store, base, writes>>

Step(c) ==
    \/ GetRecord(c) \/ PutRecord(c)
    \/ MemoryPut(c) \/ SelectForUpdate(c) \/ Insert(c) \/ Commit(c)
    \/ LoseConnection(c)

QueueNext == (\E c \in Client : Step(c)) \/ DeleteRecord \/ Restart

QueueSpec == Init /\ [][QueueNext]_vars

-----------------------------------------------------------------------------
(* Properties. *)

\* The types, and who holds what: a transaction about to commit holds the row,
\* or has inserted it where there is none.
QueueTypeOK ==
    /\ store \in {"memory", "postgres"}
    /\ row \in Document
    /\ {lock, creator} \subseteq Client \cup {None}
    /\ pc \in [Client -> {"idle", "put", "insert", "commit"}]
    /\ base \in [Client -> Document]
    /\ request \in [Client -> Request]
    /\ stale \in [Client -> BOOLEAN]
    /\ writes \in [Client -> 0 .. MaxWrites]
    /\ \A c \in Client : pc[c] = "commit" <=> c \in {lock, creator}
    /\ lock # None => row.revision # 0
    /\ creator # None => row.revision = 0

\* Whether a put of client c with If-Match takes effect in this step.
StoresConditionally(c) ==
    /\ row' # row
    /\ pc[c] # "idle" /\ pc'[c] = "idle"
    /\ request[c].match # None
    /\ row'.content = request[c].content

\* No update is lost among clients that send If-Match: a write that takes
\* effect keeps all that is in the document it replaces.  The revision alone
\* does not tell a document that was removed and made again from the one that
\* was read, so the promise ends where that happened in between (store.py, put;
\* live-queue/README.md: a put of another revision does not overwrite).
NoUpdateIsLost ==
    [][\A c \in Client :
           StoresConditionally(c) /\ ~stale[c] => row.content \subseteq row'.content]_vars

Register == INSTANCE VersionedRegister
                WITH revision <- row.revision, content <- row.content,
                     Content <- SUBSET Write, Nothing <- {}

\* Both stores are a versioned register.
ImplementsRegister == Register!Spec
=============================================================================
