--------------------------- MODULE MySqlEventLog ----------------------------
(***************************************************************************)
(* The event log of providers/standard/src/store/mysql.ts: every statement *)
(* is awaited, so statements of other transactions, a lost connection or   *)
(* close() fall between any two.  The row locks are InnoDB's: INSERT IGNORE *)
(* takes a shared lock on a row that is there and an exclusive one on a    *)
(* row it adds, SELECT ... FOR UPDATE an exclusive one; of two             *)
(* transactions that wait for each other one is the victim.                *)
(***************************************************************************)
EXTENDS StoreSupport

CONSTANT Orphan  \* the owner of a transaction whose client lost the connection at COMMIT

VARIABLES
  rows,      \* committed oac_events of the stream
  head,      \* committed oac_event_streams.last_seq; -1: there is no row
  shared,    \* the clients whose transaction holds a shared lock on the stream row
  owner,     \* the client whose transaction holds the exclusive lock
  dirty,     \* the rows and the head as the owner's transaction has them
  pc, call,  \* per client: the statement it awaits, and the append it is in
  read,      \* per client: cursor, head and events of the read it is in
  orphan,    \* the append of that transaction
  told,      \* per client: the event this append notified the subscribers of
  closed     \* the clients whose pool was ended

vars == <<rows, head, shared, owner, dirty, pc, call, read, orphan, told, closed>>
disk == <<rows, head>>
locks == <<shared, owner, dirty, orphan>>
conn == <<read, told, closed>>

PCs == {"idle", "connect", "row", "forUpdate", "insert", "update", "commit", "committed",
        "rollback", "notify", "done", "head", "rows", "snapshot"}

NoTransaction == [rows |-> {}, head |-> -1]

Event(c) == [seq |-> call[c].seq, by |-> c]

At(c, from, to) == pc[c] = from /\ pc' = [pc EXCEPT ![c] = to]

Answering(c, answer, to) ==
  call' = [call EXCEPT ![c].answer = answer] /\ pc' = [pc EXCEPT ![c] = to]

Unlock(c) ==
  /\ shared' = shared \ {c}
  /\ IF owner = c THEN owner' = None /\ dirty' = NoTransaction ELSE UNCHANGED <<owner, dirty>>
  /\ UNCHANGED orphan

LockRow(c) ==
  /\ owner' = c /\ shared' = shared \ {c} /\ dirty' = [rows |-> rows, head |-> head]
  /\ UNCHANGED orphan

Init ==
  /\ rows = {} /\ head = -1 /\ shared = {} /\ owner = None /\ dirty = NoTransaction
  /\ orphan = None
  /\ pc = [c \in Clients |-> "idle"] /\ call = [c \in Clients |-> None]
  /\ read = [c \in Clients |-> None] /\ told = [c \in Clients |-> None] /\ closed = {}

-----------------------------------------------------------------------------
Append(c, r) ==
  /\ At(c, "idle", "connect")
  /\ call' = [call EXCEPT ![c] = Calling(r)]
  /\ UNCHANGED <<disk, locks, conn>>

(* What throws before the try: assertOpen, assertAppendInput, and          *)
(* getConnection, which an ended or exhausted pool rejects.                *)
Refused(c) ==
  /\ pc[c] = "connect"
  /\ \/ c \notin closed /\ ~ValidInput(call[c]) /\ Answering(c, "invariant", "done")
     \/ Answering(c, "error", "done")
  /\ UNCHANGED <<disk, locks, conn>>

BeginTransaction(c) ==
  /\ At(c, "connect", "row") /\ c \notin closed /\ ValidInput(call[c])
  /\ UNCHANGED <<disk, locks, call, conn>>

InsertIgnoreStream(c) ==
  /\ At(c, "row", "forUpdate") /\ owner = None
  /\ IF head = -1
     THEN shared = {} /\ LockRow(c)
     ELSE shared' = shared \cup {c} /\ UNCHANGED <<owner, dirty, orphan>>
  /\ UNCHANGED <<disk, call, conn>>

SelectForUpdate(c) ==
  /\ pc[c] = "forUpdate" /\ owner \in {None, c} /\ shared \subseteq {c}
  /\ LockRow(c)
  /\ LET a == call[c]
     IN  CASE Conflicts(a, head) -> Answering(c, "conflict", "rollback")
           [] ~Conflicts(a, head) /\ ~Follows(a, head) -> Answering(c, "invariant", "rollback")
           [] ~Conflicts(a, head) /\ Follows(a, head) -> At(c, "forUpdate", "insert") /\ UNCHANGED call
  /\ UNCHANGED <<disk, conn>>

InsertEvent(c) ==
  /\ At(c, "insert", "update") /\ ~\E e \in dirty.rows : e.seq = call[c].seq
  /\ dirty' = [dirty EXCEPT !.rows = @ \cup {Event(c)}]
  /\ UNCHANGED <<disk, shared, owner, orphan, call, conn>>

UpdateHead(c) ==
  /\ At(c, "update", "commit")
  /\ dirty' = [dirty EXCEPT !.head = call[c].seq]
  /\ UNCHANGED <<disk, shared, owner, orphan, call, conn>>

(* COMMIT at the server; the client has not heard of it yet.               *)
Commit(c) ==
  /\ pc[c] = "commit" /\ owner = c
  /\ rows' = dirty.rows /\ head' = dirty.head
  /\ Unlock(c) /\ Answering(c, "ok", "committed")
  /\ UNCHANGED conn

Committed(c) ==
  At(c, "committed", "notify") /\ UNCHANGED <<disk, locks, call, conn>>

(* A deadlock victim, a lock wait timeout, a duplicate key, a lost         *)
(* connection, also while the answer to COMMIT is on its way: the server   *)
(* rolls back what was not committed.                                      *)
StatementFails(c) ==
  /\ pc[c] \in {"row", "forUpdate", "insert", "update", "commit", "committed"}
  /\ Answering(c, "error", "rollback") /\ Unlock(c)
  /\ UNCHANGED <<disk, conn>>

(* The connection is lost with COMMIT on its way: the client gets an error  *)
(* and may go on, and the server commits or rolls back afterwards.         *)
CommitOrphaned(c) ==
  /\ pc[c] = "commit"
  /\ Answering(c, "error", "rollback")
  /\ owner' = Orphan /\ orphan' = [call |-> call[c], by |-> c]
  /\ UNCHANGED <<disk, shared, dirty, conn>>

OrphanEnds ==
  /\ owner = Orphan
  /\ owner' = None /\ orphan' = None /\ dirty' = NoTransaction
  /\ \/ rows' = dirty.rows /\ head' = dirty.head
     \/ UNCHANGED disk
  /\ UNCHANGED <<shared, pc, call, conn>>

Rollback(c) ==
  /\ At(c, "rollback", "done") /\ Unlock(c)
  /\ UNCHANGED <<disk, call, conn>>

Notify(c) ==
  /\ At(c, "notify", "done")
  /\ told' = [told EXCEPT ![c] = Event(c)]
  /\ UNCHANGED <<disk, locks, call, read, closed>>

Return(c) ==
  /\ At(c, "done", "idle")
  /\ call' = [call EXCEPT ![c] = None] /\ told' = [told EXCEPT ![c] = None]
  /\ UNCHANGED <<disk, locks, read, closed>>

-----------------------------------------------------------------------------
(* #readSnapshot: a transaction of two SELECTs without locks.  The second  *)
(* sees what is committed when it runs, the weakest isolation a server may *)
(* be configured with.                                                     *)
Read(c, from) ==
  /\ At(c, "idle", "head") /\ c \notin closed
  /\ read' = [read EXCEPT ![c] = [from |-> from, head |-> -1, events |-> {}]]
  /\ UNCHANGED <<disk, locks, call, told, closed>>

ReadHead(c) ==
  /\ pc[c] = "head"
  /\ pc' = [pc EXCEPT ![c] = IF head < read[c].from THEN "snapshot" ELSE "rows"]
  /\ read' = [read EXCEPT ![c].head = head]
  /\ UNCHANGED <<disk, locks, call, told, closed>>

ReadRows(c) ==
  /\ At(c, "rows", "snapshot")
  /\ read' = [read EXCEPT ![c].events = Between(rows, read[c].from, read[c].head)]
  /\ UNCHANGED <<disk, locks, call, told, closed>>

ReadEnds(c) ==
  /\ pc[c] \in {"head", "rows", "snapshot"}
  /\ pc' = [pc EXCEPT ![c] = "idle"] /\ read' = [read EXCEPT ![c] = None]
  /\ UNCHANGED <<disk, locks, call, told, closed>>

Close(c) == closed' = closed \cup {c} /\ UNCHANGED <<disk, locks, pc, call, read, told>>

Crash(c) ==
  /\ Unlock(c)
  /\ pc' = [pc EXCEPT ![c] = "idle"] /\ call' = [call EXCEPT ![c] = None]
  /\ read' = [read EXCEPT ![c] = None] /\ told' = [told EXCEPT ![c] = None]
  /\ closed' = closed \ {c}
  /\ UNCHANGED disk

Next ==
  \/ \E c \in Clients :
       \/ \E r \in Requests : Append(c, r)
       \/ Refused(c) \/ BeginTransaction(c) \/ InsertIgnoreStream(c) \/ SelectForUpdate(c)
       \/ InsertEvent(c) \/ UpdateHead(c) \/ Commit(c) \/ Committed(c) \/ StatementFails(c)
       \/ CommitOrphaned(c) \/ Rollback(c) \/ Notify(c) \/ Return(c)
       \/ \E from \in 0..MaxSeq : Read(c, from)
       \/ ReadHead(c) \/ ReadRows(c) \/ ReadEnds(c) \/ Close(c) \/ Crash(c)
  \/ OrphanEnds

Spec == Init /\ [][Next]_vars

-----------------------------------------------------------------------------
(* A read takes effect at its first SELECT.                                *)
Returned(c) ==
  IF pc[c] \in {"rows", "snapshot"}
  THEN [from |-> read[c].from,
        events |-> IF pc[c] = "rows" THEN Between(rows, read[c].from, read[c].head)
                   ELSE read[c].events]
  ELSE None

(* A caller that was refused, or got an error other than a lost answer to  *)
(* COMMIT, left nothing: the stream has one event for each number.         *)
HeadIsLast ==
  /\ {e.seq : e \in rows} = 0..head
  /\ \A e, f \in rows : e.seq = f.seq => e = f
=============================================================================
