--------------------------- MODULE LiveQueueProofs ---------------------------
(***************************************************************************)
(* The live queue for every number of clients and writes: its types and    *)
(* locks, that no update is lost, and that both stores are a versioned     *)
(* register.                                                               *)
(***************************************************************************)
EXTENDS LiveQueue, TLAPS

\* A put in the memory store is one step.
MemoryIsAtomic ==
    store = "memory" => \A c \in Client : pc[c] \in {"idle", "put"}

\* What is put with If-Match contains what was read with that revision, and
\* the client's own write.
RequestsKeepBase ==
    \A c \in Client : pc[c] # "idle" =>
        /\ request[c].content # {}
        /\ request[c].match # None =>
               /\ request[c].match = base[c].revision
               /\ base[c].content \subseteq request[c].content

\* Until the document is removed its revision only grows, and tells what it
\* contains.
BasesAreOlder ==
    \A c \in Client : ~stale[c] =>
        /\ base[c].revision <= row.revision
        /\ base[c].revision = row.revision => base[c].content = row.content

\* What was compared with If-Match is still so at COMMIT: the row is locked, or
\* is not there and no other can be inserted.
ComparisonsHold ==
    \A c \in Client : request[c].match # None =>
        /\ pc[c] = "insert" => request[c].match = 0
        /\ pc[c] = "commit" => request[c].match = row.revision

QueueInv ==
    /\ QueueTypeOK
    /\ MemoryIsAtomic
    /\ RequestsKeepBase
    /\ BasesAreOlder
    /\ ComparisonsHold

-----------------------------------------------------------------------------
(* What the steps are made of. *)

LEMMA DocumentTypes ==
    /\ Absent \in Document /\ Absent.revision = 0 /\ Absent.content = {}
    /\ Blank \in Request /\ Blank.match = None
BY DEF Absent, Blank, Document, Request

\* A new document is one revision on.
LEMMA NextDocumentType ==
    ASSUME QueueTypeOK, NEW c \in Client
    PROVE  /\ NextDocument(c) \in Document
           /\ NextDocument(c).revision = row.revision + 1
           /\ NextDocument(c).content = request[c].content
<1>1. row.revision \in Nat /\ request[c].content \in SUBSET Write
  BY DEF QueueTypeOK, Document, Request
<1>2. NextDocument(c).revision = row.revision + 1
  BY <1>1 DEF NextDocument
<1> QED
  BY <1>1, <1>2 DEF NextDocument, Document

\* At most one transaction is about to commit.
LEMMA OneCommits ==
    ASSUME QueueTypeOK, NEW c \in Client, NEW d \in Client,
           pc[c] = "commit", pc[d] = "commit"
    PROVE  c = d
BY QueueAssumption DEF QueueTypeOK

THEOREM QueueInit == Init => QueueInv
<1> SUFFICES ASSUME Init PROVE QueueInv
  OBVIOUS
<1> USE DocumentTypes, QueueAssumption DEF Init
<1>1. QueueTypeOK
  BY DEF QueueTypeOK
<1>2. MemoryIsAtomic /\ RequestsKeepBase /\ BasesAreOlder /\ ComparisonsHold
  BY DEF MemoryIsAtomic, RequestsKeepBase, BasesAreOlder, ComparisonsHold
<1> QED
  BY <1>1, <1>2 DEF QueueInv

\* A put that has its effect, at a moment when nobody else holds the document.
LEMMA StoredKeepsInv ==
    ASSUME QueueInv, NEW c \in Client, pc[c] # "idle", Stored(c, NextDocument(c)),
           \A d \in Client \ {c} : pc[d] # "commit"
    PROVE  QueueInv'
<1> USE QueueAssumption
<1>0. QueueTypeOK
  BY DEF QueueInv
<1>1. /\ row' = NextDocument(c)
      /\ row' \in Document
      /\ row'.revision = row.revision + 1
      /\ row.revision \in Nat
  BY <1>0, NextDocumentType DEF Stored, QueueTypeOK, Document
<1>2. /\ pc' = [pc EXCEPT ![c] = "idle"]
      /\ request' = [request EXCEPT ![c] = Blank]
      /\ lock' = IF lock = c THEN None ELSE lock
      /\ creator' = IF creator = c THEN None ELSE creator
      /\ UNCHANGED <<store, writes>>
  BY DEF Stored, Ended
<1>3. PICK heard \in BOOLEAN :
          /\ base'  = [base EXCEPT ![c] = IF heard THEN row' ELSE @]
          /\ stale' = [stale EXCEPT ![c] = IF heard THEN FALSE ELSE @]
  BY <1>1 DEF Stored
<1>4. lock' = None /\ creator' = None
  BY <1>0, <1>2 DEF QueueTypeOK
<1>5. /\ pc' \in [Client -> {"idle", "put", "insert", "commit"}]
      /\ \A d \in Client : pc'[d] = IF d = c THEN "idle" ELSE pc[d]
  BY <1>0, <1>2 DEF QueueTypeOK
<1>6. /\ request' \in [Client -> Request]
      /\ \A d \in Client : request'[d] = IF d = c THEN Blank ELSE request[d]
  BY <1>0, <1>2, DocumentTypes DEF QueueTypeOK
<1>7. /\ base' \in [Client -> Document]
      /\ stale' \in [Client -> BOOLEAN]
      /\ \A d \in Client \ {c} : base'[d] = base[d] /\ stale'[d] = stale[d]
      /\ base'[c] = IF heard THEN row' ELSE base[c]
      /\ stale'[c] = IF heard THEN FALSE ELSE stale[c]
  BY <1>0, <1>1, <1>3 DEF QueueTypeOK
<1>8. QueueTypeOK'
  BY <1>0, <1>1, <1>2, <1>4, <1>5, <1>6, <1>7 DEF QueueTypeOK
<1>9. MemoryIsAtomic'
  BY <1>2, <1>5 DEF QueueInv, MemoryIsAtomic
<1>10. RequestsKeepBase'
  BY <1>5, <1>6, <1>7 DEF QueueInv, RequestsKeepBase
<1>11. BasesAreOlder'
  <2> SUFFICES ASSUME NEW d \in Client, ~stale'[d]
               PROVE  /\ base'[d].revision <= row'.revision
                      /\ base'[d].revision = row'.revision => base'[d].content = row'.content
    BY DEF BasesAreOlder
  <2>1. CASE d = c /\ heard
    BY <2>1, <1>1, <1>7 DEF Document
  <2>2. CASE ~(d = c /\ heard)
    <3>1. base'[d] = base[d] /\ stale'[d] = stale[d]
      BY <2>2, <1>7
    <3>2. base[d].revision <= row.revision /\ base[d].revision \in Nat
      BY <3>1, <1>0 DEF QueueInv, BasesAreOlder, QueueTypeOK, Document
    <3> QED
      BY <3>1, <3>2, <1>1
  <2> QED
    BY <2>1, <2>2
<1>12. ComparisonsHold'
  BY <1>5, <1>6, DocumentTypes DEF QueueInv, ComparisonsHold
<1> QED
  BY <1>8, <1>9, <1>10, <1>11, <1>12 DEF QueueInv

\* A put that is given up.
LEMMA FailedKeepsInv ==
    ASSUME QueueInv, NEW c \in Client, Failed(c)
    PROVE  QueueInv'
<1> USE QueueAssumption
<1>0. QueueTypeOK
  BY DEF QueueInv
<1>1. /\ pc' \in [Client -> {"idle", "put", "insert", "commit"}]
      /\ \A d \in Client : pc'[d] = IF d = c THEN "idle" ELSE pc[d]
      /\ request' \in [Client -> Request]
      /\ \A d \in Client : request'[d] = IF d = c THEN Blank ELSE request[d]
  BY <1>0, DocumentTypes DEF QueueTypeOK, Failed, Ended
<1>2. /\ lock' = IF lock = c THEN None ELSE lock
      /\ creator' = IF creator = c THEN None ELSE creator
      /\ UNCHANGED <<store, row, base, stale, writes>>
  BY DEF Failed, Ended
<1>3. QueueTypeOK'
  BY <1>0, <1>1, <1>2 DEF QueueTypeOK
<1>4. MemoryIsAtomic' /\ RequestsKeepBase' /\ BasesAreOlder'
  BY <1>1, <1>2 DEF QueueInv, MemoryIsAtomic, RequestsKeepBase, BasesAreOlder
<1>5. ComparisonsHold'
  BY <1>1, <1>2, DocumentTypes DEF QueueInv, ComparisonsHold
<1> QED
  BY <1>3, <1>4, <1>5 DEF QueueInv

\* The document goes; nobody is about to commit.
LEMMA RemovedKeepsInv ==
    ASSUME QueueInv, Removed, \A c \in Client : pc'[c] # "commit",
           pc' \in [Client -> {"idle", "put", "insert", "commit"}],
           \A c \in Client : \/ pc'[c] = pc[c] /\ request'[c] = request[c]
                             \/ pc'[c] = "idle" /\ request'[c] = Blank,
           request' \in [Client -> Request],
           lock' = None, creator' = None,
           UNCHANGED <<store, base, writes>>
    PROVE  QueueInv'
<1> USE QueueAssumption, DocumentTypes
<1>1. QueueTypeOK'
  BY DEF QueueInv, QueueTypeOK, Removed
<1>2. MemoryIsAtomic' /\ RequestsKeepBase'
  BY DEF QueueInv, MemoryIsAtomic, RequestsKeepBase
<1>3. BasesAreOlder'
  BY DEF BasesAreOlder, Removed
<1>4. ComparisonsHold'
  BY DEF QueueInv, ComparisonsHold
<1> QED
  BY <1>1, <1>2, <1>3, <1>4 DEF QueueInv

-----------------------------------------------------------------------------
(* The steps. *)

LEMMA ClientStepKeepsInv ==
    ASSUME QueueInv, NEW c \in Client, GetRecord(c) \/ PutRecord(c)
    PROVE  QueueInv'
<1> USE QueueAssumption
<1>0. QueueTypeOK
  BY DEF QueueInv
<1>1. CASE GetRecord(c)
  <2>1. /\ base' \in [Client -> Document]
        /\ stale' \in [Client -> BOOLEAN]
        /\ \A d \in Client : /\ base'[d] = IF d = c THEN row ELSE base[d]
                             /\ stale'[d] = IF d = c THEN FALSE ELSE stale[d]
        /\ pc[c] = "idle"
        /\ UNCHANGED <<store, row, lock, creator, pc, request, writes>>
    BY <1>0, <1>1 DEF QueueTypeOK, GetRecord
  <2>2. QueueTypeOK'
    BY <1>0, <2>1 DEF QueueTypeOK
  <2>3. MemoryIsAtomic' /\ RequestsKeepBase' /\ ComparisonsHold'
    BY <2>1 DEF QueueInv, MemoryIsAtomic, RequestsKeepBase, ComparisonsHold
  <2>4. BasesAreOlder'
    <3> SUFFICES ASSUME NEW d \in Client, ~stale'[d]
                 PROVE  /\ base'[d].revision <= row'.revision
                        /\ base'[d].revision = row'.revision => base'[d].content = row'.content
      BY DEF BasesAreOlder
    <3>1. row.revision \in Nat /\ row' = row
      BY <1>0, <2>1 DEF QueueTypeOK, Document
    <3>2. CASE d = c
      <4>1. base'[d] = row'
        BY <2>1, <3>1, <3>2
      <4>2. row'.revision <= row'.revision
        BY <3>1
      <4> QED
        BY <4>1, <4>2
    <3>3. CASE d # c
      BY <2>1, <3>1, <3>3 DEF QueueInv, BasesAreOlder
    <3> QED
      BY <3>2, <3>3
  <2> QED
    BY <2>2, <2>3, <2>4 DEF QueueInv
<1>2. CASE PutRecord(c)
  <2>1. PICK ifMatch \in BOOLEAN :
            request' = [request EXCEPT ![c] =
               [match   |-> IF ifMatch THEN base[c].revision ELSE None,
                content |-> {<<c, writes'[c]>>} \cup (IF ifMatch THEN base[c].content ELSE {})]]
    BY <1>2 DEF PutRecord
  <2>2. /\ writes' \in [Client -> 0 .. MaxWrites]
        /\ writes'[c] \in 1 .. MaxWrites
        /\ base[c].revision \in Nat
        /\ base[c].content \in SUBSET Write
    BY <1>0, <1>2 DEF QueueTypeOK, PutRecord, Document
  <2>3. <<c, writes'[c]>> \in Write
    BY <2>2 DEF Write
  <2>4. /\ request' \in [Client -> Request]
        /\ \A d \in Client \ {c} : request'[d] = request[d]
        /\ request'[c].match = IF ifMatch THEN base[c].revision ELSE None
        /\ request'[c].content
             = {<<c, writes'[c]>>} \cup (IF ifMatch THEN base[c].content ELSE {})
    BY <1>0, <2>1, <2>2, <2>3 DEF QueueTypeOK, Request
  <2>5. /\ pc' \in [Client -> {"idle", "put", "insert", "commit"}]
        /\ \A d \in Client : pc'[d] = IF d = c THEN "put" ELSE pc[d]
        /\ pc[c] = "idle"
        /\ UNCHANGED <<store, row, lock, creator, base, stale>>
    BY <1>0, <1>2 DEF QueueTypeOK, PutRecord
  <2>6. QueueTypeOK'
    BY <1>0, <2>2, <2>4, <2>5 DEF QueueTypeOK
  <2>7. MemoryIsAtomic' /\ BasesAreOlder' /\ ComparisonsHold'
    BY <2>4, <2>5 DEF QueueInv, MemoryIsAtomic, BasesAreOlder, ComparisonsHold
  <2>8. RequestsKeepBase'
    BY <2>4, <2>5 DEF QueueInv, RequestsKeepBase
  <2> QED
    BY <2>6, <2>7, <2>8 DEF QueueInv
<1> QED
  BY <1>1, <1>2

LEMMA StoreStepKeepsInv ==
    ASSUME QueueInv, NEW c \in Client,
           MemoryPut(c) \/ SelectForUpdate(c) \/ Insert(c) \/ Commit(c) \/ LoseConnection(c)
    PROVE  QueueInv'
<1> USE QueueAssumption
<1>0. QueueTypeOK
  BY DEF QueueInv
<1>1. CASE MemoryPut(c)
  <2>1. \A d \in Client : pc[d] # "commit"
    BY <1>1 DEF MemoryPut, QueueInv, MemoryIsAtomic
  <2>2. pc[c] # "idle"
    BY <1>1 DEF MemoryPut
  <2> QED
    BY <1>1, <2>1, <2>2, StoredKeepsInv, FailedKeepsInv DEF MemoryPut
<1>2. CASE SelectForUpdate(c)
  <2>1. CASE Failed(c)
    BY <2>1, FailedKeepsInv
  <2>2. CASE Matches(c) /\ ~Failed(c)
    <3>1. /\ store = "postgres" /\ pc[c] = "put" /\ lock = None
          /\ pc' = [pc EXCEPT ![c] = IF row.revision = 0 THEN "insert" ELSE "commit"]
          /\ lock' = IF row.revision = 0 THEN None ELSE c
          /\ UNCHANGED <<store, row, creator, base, request, stale, writes>>
          /\ request[c].match \in {None, row.revision}
      BY <1>2, <2>2 DEF SelectForUpdate, Matches
    <3>2. /\ pc' \in [Client -> {"idle", "put", "insert", "commit"}]
          /\ \A d \in Client \ {c} : pc'[d] = pc[d]
          /\ pc'[c] = IF row.revision = 0 THEN "insert" ELSE "commit"
      BY <1>0, <3>1 DEF QueueTypeOK
    <3>3. QueueTypeOK'
      BY <1>0, <3>1, <3>2 DEF QueueTypeOK
    <3>4. MemoryIsAtomic' /\ RequestsKeepBase' /\ BasesAreOlder'
      BY <3>1, <3>2 DEF QueueInv, MemoryIsAtomic, RequestsKeepBase, BasesAreOlder
    <3>5. ComparisonsHold'
      BY <3>1, <3>2 DEF QueueInv, ComparisonsHold
    <3> QED
      BY <3>3, <3>4, <3>5 DEF QueueInv
  <2> QED
    BY <1>2, <2>1, <2>2 DEF SelectForUpdate
<1>3. CASE Insert(c)
  <2>1. CASE Failed(c)
    BY <2>1, FailedKeepsInv
  <2>2. CASE row.revision = 0
    <3>1. /\ pc[c] = "insert" /\ creator = None
          /\ creator' = c
          /\ pc' = [pc EXCEPT ![c] = "commit"]
          /\ UNCHANGED <<store, row, lock, base, request, stale, writes>>
      BY <1>3, <2>2 DEF Insert
    <3>2. /\ pc' \in [Client -> {"idle", "put", "insert", "commit"}]
          /\ \A d \in Client : pc'[d] = IF d = c THEN "commit" ELSE pc[d]
          /\ lock = None
      BY <1>0, <2>2, <3>1 DEF QueueTypeOK
    <3>3. QueueTypeOK'
      BY <1>0, <2>2, <3>1, <3>2 DEF QueueTypeOK
    <3>4. MemoryIsAtomic' /\ RequestsKeepBase' /\ BasesAreOlder'
      BY <3>1, <3>2 DEF QueueInv, MemoryIsAtomic, RequestsKeepBase, BasesAreOlder
    <3>5. ComparisonsHold'
      BY <2>2, <3>1, <3>2 DEF QueueInv, ComparisonsHold
    <3> QED
      BY <3>3, <3>4, <3>5 DEF QueueInv
  <2> QED
    BY <1>3, <2>1, <2>2 DEF Insert
<1>4. CASE Commit(c)
  <2>1. pc[c] = "commit" /\ Stored(c, NextDocument(c))
    BY <1>4 DEF Commit
  <2>2. \A d \in Client \ {c} : pc[d] # "commit"
    BY <1>0, <2>1, OneCommits
  <2> QED
    BY <2>1, <2>2, StoredKeepsInv
<1>5. CASE LoseConnection(c)
  BY <1>5, FailedKeepsInv DEF LoseConnection
<1> QED
  BY <1>1, <1>2, <1>3, <1>4, <1>5

LEMMA OtherStepKeepsInv ==
    ASSUME QueueInv, DeleteRecord \/ Restart
    PROVE  QueueInv'
<1> USE QueueAssumption
<1>0. QueueTypeOK
  BY DEF QueueInv
<1>1. CASE DeleteRecord
  <2>1. Removed /\ UNCHANGED <<store, lock, creator, pc, base, request, writes>>
    BY <1>1 DEF DeleteRecord
  <2>2. lock = None /\ creator = None /\ \A c \in Client : pc[c] # "commit"
    BY <1>0, <1>1 DEF DeleteRecord, QueueTypeOK
  <2>3. /\ pc' \in [Client -> {"idle", "put", "insert", "commit"}]
        /\ request' \in [Client -> Request]
    BY <1>0, <2>1 DEF QueueTypeOK
  <2> QED
    BY <2>1, <2>2, <2>3, RemovedKeepsInv
<1>2. CASE Restart
  <2>1. /\ pc' = [c \in Client |-> "idle"]
        /\ request' = [c \in Client |-> Blank]
        /\ lock' = None /\ creator' = None
        /\ UNCHANGED <<store, base, writes>>
    BY <1>2 DEF Restart
  <2>2. /\ pc' \in [Client -> {"idle", "put", "insert", "commit"}]
        /\ request' \in [Client -> Request]
        /\ \A c \in Client : pc'[c] = "idle" /\ request'[c] = Blank
    BY <2>1, DocumentTypes
  <2>3. CASE Removed
    <3>1. \A c \in Client : pc'[c] # "commit"
      BY <2>2
    <3> QED
      BY <2>1, <2>2, <2>3, <3>1, RemovedKeepsInv
  <2>4. CASE UNCHANGED <<row, stale>>
    <3>1. QueueTypeOK'
      BY <1>0, <2>1, <2>2, <2>4 DEF QueueTypeOK
    <3>2. MemoryIsAtomic' /\ RequestsKeepBase' /\ BasesAreOlder' /\ ComparisonsHold'
      BY <2>1, <2>2, <2>4, DocumentTypes
         DEF QueueInv, MemoryIsAtomic, RequestsKeepBase, BasesAreOlder, ComparisonsHold
    <3> QED
      BY <3>1, <3>2 DEF QueueInv
  <2> QED
    BY <1>2, <2>3, <2>4 DEF Restart
<1> QED
  BY <1>1, <1>2

THEOREM QueueStep == QueueInv /\ [QueueNext]_vars => QueueInv'
<1> SUFFICES ASSUME QueueInv, [QueueNext]_vars PROVE QueueInv'
  OBVIOUS
<1>1. CASE \E c \in Client : Step(c)
  BY <1>1, ClientStepKeepsInv, StoreStepKeepsInv DEF Step
<1>2. CASE DeleteRecord \/ Restart
  BY <1>2, OtherStepKeepsInv
<1>3. CASE UNCHANGED vars
  BY <1>3 DEF vars, QueueInv, QueueTypeOK, MemoryIsAtomic, RequestsKeepBase, BasesAreOlder,
              ComparisonsHold
<1> QED
  BY <1>1, <1>2, <1>3 DEF QueueNext

\* The types and the locks, for every number of clients: a transaction that is
\* about to commit is alone and holds the row or has made it (PostgresStore.put).
THEOREM QueueTypesAndLocks == QueueSpec => []QueueTypeOK
<1>1. QueueInv => QueueTypeOK
  BY DEF QueueInv
<1> QED
  BY <1>1, QueueInit, QueueStep, PTL DEF QueueSpec

-----------------------------------------------------------------------------
(* What the steps do to the document. *)

\* A step leaves the document alone, puts a new one, or removes it; and it puts
\* what was asked for, over a document that compared as it was asked.
LEMMA StepOnDocument ==
    ASSUME QueueInv, [QueueNext]_vars
    PROVE  \/ row' = row
           \/ row' = Absent
           \/ \E c \in Client : /\ pc[c] # "idle"
                               /\ pc' = [pc EXCEPT ![c] = "idle"]
                               /\ row' = NextDocument(c)
                               /\ request[c].match \in {None, row.revision}
<1> USE QueueAssumption
<1>1. ASSUME NEW c \in Client, Step(c), row' # row
      PROVE  /\ pc[c] # "idle"
             /\ pc' = [pc EXCEPT ![c] = "idle"]
             /\ row' = NextDocument(c)
             /\ request[c].match \in {None, row.revision}
  <2>1. CASE GetRecord(c) \/ PutRecord(c) \/ LoseConnection(c)
    BY <1>1, <2>1 DEF GetRecord, PutRecord, LoseConnection, Failed
  <2>2. CASE MemoryPut(c)
    BY <1>1, <2>2 DEF MemoryPut, Matches, Stored, Ended, Failed
  <2>3. CASE SelectForUpdate(c) \/ Insert(c)
    BY <1>1, <2>3 DEF SelectForUpdate, Insert, Failed
  <2>4. CASE Commit(c)
    <3>1. pc[c] = "commit" /\ row' = NextDocument(c) /\ pc' = [pc EXCEPT ![c] = "idle"]
      BY <2>4 DEF Commit, Stored, Ended
    <3>2. request[c].match \in {None, row.revision}
      BY <3>1 DEF QueueInv, ComparisonsHold
    <3> QED
      BY <3>1, <3>2
  <2> QED
    BY <1>1, <2>1, <2>2, <2>3, <2>4 DEF Step
<1>2. CASE DeleteRecord \/ Restart
  BY <1>2 DEF DeleteRecord, Restart, Removed
<1>3. CASE UNCHANGED vars
  BY <1>3 DEF vars
<1> QED
  BY <1>1, <1>2, <1>3 DEF QueueNext

\* No update is lost, for every number of clients and writes: the put that takes
\* effect still has the document before it that its client has read (put,
\* If-Match).
THEOREM UpdatesAreKept == QueueSpec => NoUpdateIsLost
<1> DEFINE Kept == \A c \in Client :
                      StoresConditionally(c) /\ ~stale[c] => row.content \subseteq row'.content
<1>1. QueueInv /\ [QueueNext]_vars => [Kept]_vars
  <2> SUFFICES ASSUME QueueInv, [QueueNext]_vars,
                      NEW c \in Client, StoresConditionally(c), ~stale[c]
               PROVE  row.content \subseteq row'.content
    OBVIOUS
  <2>0. /\ row' # row /\ pc[c] # "idle" /\ pc'[c] = "idle"
        /\ request[c].match # None /\ row'.content = request[c].content
    BY DEF StoresConditionally
  <2>1. /\ request[c].content # {}
        /\ request[c].match = base[c].revision
        /\ base[c].content \subseteq request[c].content
        /\ base[c].revision = row.revision => base[c].content = row.content
    BY <2>0 DEF QueueInv, RequestsKeepBase, BasesAreOlder
  <2>2. row' # Absent
    BY <2>0, <2>1, DocumentTypes
  <2>3. PICK d \in Client : /\ pc[d] # "idle"
                            /\ pc' = [pc EXCEPT ![d] = "idle"]
                            /\ request[d].match \in {None, row.revision}
    BY <2>0, <2>2, StepOnDocument
  <2>4. c = d
    BY <2>0, <2>3 DEF QueueInv, QueueTypeOK
  <2> QED
    BY <2>0, <2>1, <2>3, <2>4
<1> QED
  BY <1>1, QueueInit, QueueStep, PTL DEF QueueSpec, NoUpdateIsLost

\* Both stores are a versioned register: the revision goes up by one with each
\* put, and back to nothing when the document is removed (MemoryStore,
\* PostgresStore).
THEOREM StoresAreRegisters == QueueSpec => ImplementsRegister
<1>1. Init => Register!Init
  BY DocumentTypes DEF Init, Register!Init
<1>2. QueueInv /\ [QueueNext]_vars
        => [Register!Put \/ Register!Remove]_<<row.revision, row.content>>
  <2> SUFFICES ASSUME QueueInv, [QueueNext]_vars
               PROVE  [Register!Put \/ Register!Remove]_<<row.revision, row.content>>
    OBVIOUS
  <2>1. CASE row' = row
    BY <2>1
  <2>2. CASE row' = Absent
    BY <2>2, DocumentTypes DEF Register!Remove
  <2>3. CASE \E c \in Client : row' = NextDocument(c)
    <3>1. PICK c \in Client : row' = NextDocument(c)
      BY <2>3
    <3>2. row'.revision = row.revision + 1 /\ row'.content \in SUBSET Write
      BY <3>1, NextDocumentType DEF QueueInv, Document
    <3> QED
      BY <3>2 DEF Register!Put
  <2> QED
    BY <2>1, <2>2, <2>3, StepOnDocument
<1> QED
  BY <1>1, <1>2, QueueInit, QueueStep, PTL DEF QueueSpec, ImplementsRegister, Register!Spec
=============================================================================
