--------------------------- MODULE SqliteEventLog ---------------------------
(***************************************************************************)
(* The event log of providers/standard/src/store/sqlite.ts.  A client is a *)
(* process: its append and its read run without an await, but statements   *)
(* of other processes on the same file fall between its own.  BEGIN        *)
(* IMMEDIATE takes the file's one write lock; readers are never blocked    *)
(* (WAL) and each SELECT sees what is committed when it runs.              *)
(***************************************************************************)
EXTENDS StoreSupport

VARIABLES
  rows,    \* committed oac_events of the stream
  head,    \* committed oac_event_streams.last_seq, -1 while there is no row
  lock,    \* the process in a write transaction
  pc,      \* pc[c]: the statement c executes next
  call,    \* call[c]: the append c is in
  dirty,   \* the rows and head the open transaction sees
  read,    \* read[c]: the cursor, the head its first SELECT returned, and the events
  told,    \* told[c]: the event this append notified the subscribers of c of
  closed   \* the processes that closed their store

vars == <<rows, head, lock, pc, call, dirty, read, told, closed>>
disk == <<rows, head>>
conn == <<read, told, closed>>

PCs == {"idle", "begin", "select", "insert", "upsert", "commit", "rollback", "notify", "done",
        "rows", "snapshot"}

TypeOK ==
  /\ rows \subseteq Entries /\ head \in -1..MaxSeq /\ lock \in Clients \cup {None}
  /\ pc \in [Clients -> PCs] /\ call \in [Clients -> {None} \cup Calls]
  /\ dirty \in [rows : SUBSET Entries, head : -1..MaxSeq]
  /\ read \in [Clients -> {None} \cup Reads]
  /\ told \in [Clients -> {None} \cup Entries] /\ closed \subseteq Clients

NoTransaction == [rows |-> {}, head |-> -1]

Event(c) == [seq |-> call[c].seq, by |-> c]

At(c, from, to) == pc[c] = from /\ pc' = [pc EXCEPT ![c] = to]

Refuse(c, answer) ==
  /\ call' = [call EXCEPT ![c].answer = answer] /\ pc' = [pc EXCEPT ![c] = "rollback"]

Init ==
  /\ rows = {} /\ head = -1 /\ lock = None /\ dirty = NoTransaction
  /\ pc = [c \in Clients |-> "idle"] /\ call = [c \in Clients |-> None]
  /\ read = [c \in Clients |-> None] /\ told = [c \in Clients |-> None] /\ closed = {}

-----------------------------------------------------------------------------
Append(c, r) ==
  /\ At(c, "idle", "begin")
  /\ call' = [call EXCEPT ![c] = Calling(r)]
  /\ UNCHANGED <<disk, lock, dirty, conn>>

(* assertOpen and assertAppendInput throw before anything is touched; so   *)
(* does BEGIN IMMEDIATE when busy_timeout elapses: it is outside the try.  *)
RefuseInput(c) ==
  /\ At(c, "begin", "done")
  /\ \/ c \in closed /\ call' = [call EXCEPT ![c].answer = "error"]
     \/ c \notin closed /\ ~ValidInput(call[c]) /\ call' = [call EXCEPT ![c].answer = "invariant"]
     \/ c \notin closed /\ ValidInput(call[c]) /\ lock # None
        /\ call' = [call EXCEPT ![c].answer = "error"]
  /\ UNCHANGED <<disk, lock, dirty, conn>>

BeginImmediate(c) ==
  /\ At(c, "begin", "select") /\ c \notin closed /\ ValidInput(call[c]) /\ lock = None
  /\ lock' = c /\ dirty' = [rows |-> rows, head |-> head]
  /\ UNCHANGED <<disk, call, conn>>

SelectHead(c) ==
  /\ pc[c] = "select"
  /\ LET a == call[c]
     IN  CASE Conflicts(a, dirty.head) -> Refuse(c, "conflict")
           [] ~Conflicts(a, dirty.head) /\ ~Follows(a, dirty.head) -> Refuse(c, "invariant")
           [] ~Conflicts(a, dirty.head) /\ Follows(a, dirty.head) ->
                At(c, "select", "insert") /\ UNCHANGED call
  /\ UNCHANGED <<disk, lock, dirty, conn>>

(* Mutant: the event inserted outside the transaction.                     *)
InsertAutocommit(c) ==
  /\ At(c, "insert", "upsert")
  /\ rows' = rows \cup {Event(c)} /\ dirty' = [dirty EXCEPT !.rows = @ \cup {Event(c)}]
  /\ UNCHANGED <<head, lock, call, conn>>

(* The primary key of oac_events refuses a second row of the same seq.     *)
InsertEvent(c) ==
  /\ pc[c] = "insert"
  /\ IF \E e \in dirty.rows : e.seq = call[c].seq
     THEN Refuse(c, "error") /\ UNCHANGED dirty
     ELSE /\ At(c, "insert", "upsert") /\ UNCHANGED call
          /\ dirty' = [dirty EXCEPT !.rows = @ \cup {Event(c)}]
  /\ UNCHANGED <<disk, lock, conn>>

UpsertHead(c) ==
  /\ At(c, "upsert", "commit")
  /\ dirty' = [dirty EXCEPT !.head = call[c].seq]
  /\ UNCHANGED <<disk, lock, call, conn>>

Commit(c) ==
  /\ At(c, "commit", "notify")
  /\ rows' = dirty.rows /\ head' = dirty.head /\ lock' = None
  /\ call' = [call EXCEPT ![c].answer = "ok"] /\ dirty' = NoTransaction
  /\ UNCHANGED conn

(* A full disk or an I/O error: a statement throws.                        *)
StatementFails(c) ==
  /\ pc[c] \in {"select", "insert", "upsert", "commit"}
  /\ Refuse(c, "error")
  /\ UNCHANGED <<disk, lock, dirty, conn>>

Rollback(c) ==
  /\ At(c, "rollback", "done")
  /\ lock' = None /\ dirty' = NoTransaction
  /\ UNCHANGED <<disk, call, conn>>

Notify(c) ==
  /\ At(c, "notify", "done")
  /\ told' = [told EXCEPT ![c] = Event(c)]
  /\ UNCHANGED <<disk, lock, call, dirty, read, closed>>

Return(c) ==
  /\ At(c, "done", "idle")
  /\ call' = [call EXCEPT ![c] = None] /\ told' = [told EXCEPT ![c] = None]
  /\ UNCHANGED <<disk, lock, dirty, read, closed>>

-----------------------------------------------------------------------------
(* read: one SELECT for the head and, if it reaches the cursor, one for the *)
(* rows up to it.  The snapshot outlives close().                          *)
ReadHead(c, from) ==
  /\ At(c, "idle", "rows") /\ c \notin closed
  /\ read' = [read EXCEPT ![c] = [from |-> from, head |-> head, events |-> {}]]
  /\ UNCHANGED <<disk, lock, call, dirty, told, closed>>

(* Mutant: the cursor taken as exclusive, up to the end of the table.      *)
ReadToTheEnd(c) ==
  /\ At(c, "rows", "snapshot")
  /\ read' = [read EXCEPT ![c].events = {e \in rows : e.seq > read[c].from}]
  /\ UNCHANGED <<disk, lock, call, dirty, told, closed>>

ReadRows(c) ==
  /\ At(c, "rows", "snapshot")
  /\ read' = [read EXCEPT ![c].events = Between(rows, read[c].from, read[c].head)]
  /\ UNCHANGED <<disk, lock, call, dirty, told, closed>>

Consumed(c) ==
  /\ At(c, "snapshot", "idle")
  /\ read' = [read EXCEPT ![c] = None]
  /\ UNCHANGED <<disk, lock, call, dirty, told, closed>>

Close(c) ==
  /\ pc[c] = "idle" /\ closed' = closed \cup {c}
  /\ UNCHANGED <<disk, lock, pc, call, dirty, read, told>>

(* The process dies: SQLite drops what it had not committed.  It comes     *)
(* back with a new store and no subscribers.                               *)
Crash(c) ==
  /\ IF lock = c THEN lock' = None /\ dirty' = NoTransaction ELSE UNCHANGED <<lock, dirty>>
  /\ pc' = [pc EXCEPT ![c] = "idle"] /\ call' = [call EXCEPT ![c] = None]
  /\ read' = [read EXCEPT ![c] = None] /\ told' = [told EXCEPT ![c] = None]
  /\ closed' = closed \ {c}
  /\ UNCHANGED disk

Next == \E c \in Clients :
  \/ \E r \in Requests : Append(c, r)
  \/ RefuseInput(c) \/ BeginImmediate(c) \/ SelectHead(c) \/ InsertEvent(c) \/ UpsertHead(c)
  \/ Commit(c) \/ StatementFails(c) \/ Rollback(c) \/ Notify(c) \/ Return(c)
  \/ \E from \in 0..MaxSeq : ReadHead(c, from)
  \/ ReadRows(c) \/ Consumed(c) \/ Close(c) \/ Crash(c)

Spec == Init /\ [][Next]_vars

-----------------------------------------------------------------------------
(* What a caller sees of a read: once the first SELECT has run, the events *)
(* the second one returns, whenever it runs.                               *)
Returned(c) ==
  IF read[c] = None THEN None
  ELSE [from |-> read[c].from,
        events |-> IF pc[c] = "rows" THEN Between(rows, read[c].from, read[c].head)
                   ELSE read[c].events]

(* The two tables agree after any crash: the head row is the last event,   *)
(* and every number up to it was written once.                             *)
HeadIsLast ==
  /\ {e.seq : e \in rows} = 0..head
  /\ \A e, f \in rows : e.seq = f.seq => e = f
=============================================================================
