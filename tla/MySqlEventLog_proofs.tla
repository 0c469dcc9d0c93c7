------------------------ MODULE MySqlEventLog_proofs -------------------------
(***************************************************************************)
(* Proofs about the MySQL event log, for any number of processes, any      *)
(* failing statements, lost connections, orphaned commits and crashes.     *)
(***************************************************************************)
EXTENDS MySqlEventLog, TLAPS

Reading == {"head", "rows", "snapshot"}
Writing == {"insert", "update", "commit"}
Orphans == [call : Calls, by : Clients]

TypeOK ==
  /\ rows \subseteq Entries /\ head \in -1..MaxSeq
  /\ pc \in [Clients -> PCs] /\ call \in [Clients -> {None} \cup Calls]
  /\ read \in [Clients -> {None} \cup Reads]
  /\ told \in [Clients -> {None} \cup Entries] /\ closed \subseteq Clients

(* An append that may be written next.                                     *)
Fits(a) == ValidInput(a) /\ ~Conflicts(a, head) /\ Follows(a, head)

(* Who writes owns the row, so the head it was let in for is still the     *)
(* head, and its transaction is the tables with what it has written.       *)
Transaction(c) ==
  /\ pc[c] \in Writing => owner = c /\ Fits(call[c])
  /\ pc[c] = "insert" => dirty = [rows |-> rows, head |-> head]
  /\ pc[c] = "update" => dirty = [rows |-> rows \cup {Event(c)}, head |-> head]
  /\ pc[c] = "commit" => dirty = [rows |-> rows \cup {Event(c)}, head |-> call[c].seq]

(* What a client is in the middle of, as its statement tells.              *)
Progress(c) ==
  /\ pc[c] \in Reading \cup {"idle"} <=> call[c] = None
  /\ pc[c] \in Reading <=> read[c] # None
  /\ call[c] = None => told[c] = None
  /\ pc[c] \in {"connect", "row", "forUpdate"} \cup Writing => call[c].answer = None
  /\ pc[c] \in {"committed", "notify"} => call[c].answer = "ok"
  /\ pc[c] \in {"row", "forUpdate", "committed", "notify"} => ValidInput(call[c])
  /\ pc[c] = "head" => read[c].events = {}
  /\ pc[c] = "rows" => read[c].head <= head

(* A commit whose client is gone owns the row too: if it happens, it is    *)
(* the one its client asked for.                                           *)
OrphanFits == owner = Orphan =>
  /\ orphan \in Orphans /\ orphan.call.answer = None /\ Fits(orphan.call)
  /\ dirty = [rows |-> rows \cup {[seq |-> orphan.call.seq, by |-> orphan.by]},
              head |-> orphan.call.seq]

OrphanIsNobody == Orphan \notin Clients \cup {None}

Inv ==
  /\ OrphanIsNobody /\ TypeOK /\ HeadIsLast /\ OrphanFits
  /\ \A c \in Clients : Transaction(c) /\ Progress(c)

-----------------------------------------------------------------------------
(* Types and frames.                                                       *)

(* A call just made is one, and not answered.                              *)
LEMMA CallingType ==
  ASSUME NEW r \in Requests
  PROVE  Calling(r) \in Calls /\ Calling(r) # None /\ Calling(r).answer = None
<1>1. r.seq \in -1..MaxSeq /\ r.expected \in Expected
  BY StoreAssumption DEF Requests, Expected
<1> QED
  BY <1>1, NoneAssumption DEF Calling, Calls

(* The types at one client, in numbers.                                    *)
LEMMA Types ==
  ASSUME TypeOK, NEW c \in Clients
  PROVE  /\ pc[c] \in PCs /\ call[c] \in Calls \cup {None} /\ told[c] \in Entries \cup {None}
         /\ read[c] \in Reads \cup {None}
         /\ call[c] # None => call[c] \in Calls /\ call[c].seq \in -1..MaxSeq /\ call[c].seq \in Int
         /\ read[c] # None => read[c] \in Reads /\ read[c].head \in -1..MaxSeq /\ read[c].head \in Int
         /\ head \in -1..MaxSeq /\ head \in Int /\ None \notin Clients
BY StoreAssumption DEF TypeOK, Calls, Reads

(* A step that answers the append of c.                                    *)
LEMMA Answered ==
  ASSUME TypeOK, NEW c \in Clients, call[c] # None, NEW x \in Answers, NEW to \in PCs,
         Answering(c, x, to)
  PROVE  /\ call' \in [Clients -> {None} \cup Calls] /\ pc' \in [Clients -> PCs]
         /\ call'[c] # None /\ call'[c].answer = x /\ pc'[c] = to
         /\ call'[c].seq = call[c].seq /\ call'[c].expected = call[c].expected
         /\ \A d \in Clients : d # c => call'[d] = call[d] /\ pc'[d] = pc[d]
         /\ call' = [call EXCEPT ![c].answer = x]
<1>1. call[c] \in Calls /\ call \in [Clients -> {None} \cup Calls]
  BY DEF TypeOK
<1>2. call' = [call EXCEPT ![c] = [call[c] EXCEPT !.answer = x]]
  BY DEF Answering
<1>3. /\ [call[c] EXCEPT !.answer = x] \in Calls
      /\ [call[c] EXCEPT !.answer = x].answer = x
      /\ [call[c] EXCEPT !.answer = x].seq = call[c].seq
      /\ [call[c] EXCEPT !.answer = x].expected = call[c].expected
  BY <1>1 DEF Calls
<1>4. [call[c] EXCEPT !.answer = x] # None
  BY <1>3, NoneAssumption
<1>5. call'[c] = [call[c] EXCEPT !.answer = x] /\ \A d \in Clients : d # c => call'[d] = call[d]
  BY <1>1, <1>2
<1>6. pc' \in [Clients -> PCs] /\ pc'[c] = to /\ \A d \in Clients : d # c => pc'[d] = pc[d]
  BY DEF Answering, TypeOK
<1> QED
  BY <1>1, <1>2, <1>3, <1>4, <1>5, <1>6

(* What c does not disturb of another client: nobody else owns the row, or *)
(* the row is left alone.                                                  *)
LEMMA Frame ==
  ASSUME Inv, NEW d \in Clients,
         pc'[d] = pc[d], call'[d] = call[d], read'[d] = read[d], told'[d] = told[d],
         head' \in Int, head <= head',
         owner # d \/ UNCHANGED <<rows, head, owner, dirty>>
  PROVE  Transaction(d)' /\ Progress(d)'
<1>1. /\ TypeOK /\ Transaction(d) /\ Progress(d) /\ head \in Int
      /\ read[d] # None => read[d].head \in Int
  BY Types DEF Inv
<1>2. Transaction(d)'
  BY <1>1 DEF Transaction, Writing, Fits, ValidInput, Conflicts, Follows, Event
<1>3. Progress(d)'
  BY <1>1 DEF Progress, Reading, Writing, ValidInput
<1> QED
  BY <1>2, <1>3

(* A step of c that leaves the tables alone, and the row's lock and what   *)
(* its owner has written too unless it is c that owns it, or nobody.       *)
LEMMA OwnStep ==
  ASSUME Inv, NEW c \in Clients, UNCHANGED disk, TypeOK', Transaction(c)', Progress(c)',
         \/ owner \in {None, c} /\ owner' \in {None, c}
         \/ UNCHANGED <<owner, dirty, orphan>>,
         \A d \in Clients : d # c =>
           pc'[d] = pc[d] /\ call'[d] = call[d] /\ read'[d] = read[d] /\ told'[d] = told[d]
  PROVE  Inv'
<1>1. HeadIsLast'
  BY DEF Inv, HeadIsLast, disk
<1>2. OrphanFits'
  BY DEF Inv, OrphanIsNobody, OrphanFits, disk, Fits, ValidInput, Conflicts, Follows
<1>3. ASSUME NEW d \in Clients, d # c PROVE Transaction(d)' /\ Progress(d)'
  BY <1>3, Frame, Types, StoreAssumption DEF Inv, disk
<1> QED
  BY <1>1, <1>2, <1>3 DEF Inv

(* What Unlock leaves alone.                                               *)
LEMMA Unlocked ==
  ASSUME NEW c \in Clients, Unlock(c)
  PROVE  \/ owner = c /\ owner' = None
         \/ owner # c /\ UNCHANGED <<owner, dirty, orphan>>
BY DEF Unlock

(* One more event.                                                         *)
LEMMA OneMore ==
  ASSUME TypeOK, HeadIsLast, NEW v \in Entries, v.seq = head + 1, rows' = rows \cup {v}, head' = v.seq
  PROVE  HeadIsLast' /\ rows' \subseteq Entries /\ head' \in -1..MaxSeq /\ head <= head' /\ head' \in Int
<1>1. v.seq \in 0..MaxSeq /\ head \in Int /\ MaxSeq \in Nat /\ head \in -1..MaxSeq
  BY StoreAssumption DEF TypeOK, Entries
<1>2. {e.seq : e \in rows'} = {e.seq : e \in rows} \cup {v.seq}
  OBVIOUS
<1>3. 0..head' = 0..head \cup {head + 1}
  BY <1>1
<1>4. ASSUME NEW e \in rows', NEW f \in rows', e.seq = f.seq PROVE e = f
  <2>1. \A g \in rows : g.seq # v.seq
    BY <1>1 DEF HeadIsLast
  <2> QED
    BY <2>1, <1>4 DEF HeadIsLast
<1> QED
  BY <1>1, <1>2, <1>3, <1>4 DEF HeadIsLast, TypeOK

-----------------------------------------------------------------------------
(* Each action keeps the invariant.                                        *)
LEMMA AppendStep ==
  ASSUME Inv, NEW c \in Clients, NEW r \in Requests, Append(c, r)
  PROVE  Inv'
<1>1. TypeOK /\ Progress(c) /\ Calling(r) \in Calls /\ Calling(r) # None /\ Calling(r).answer = None
  BY CallingType DEF Inv
<1>2. TypeOK'
  BY <1>1 DEF Append, At, TypeOK, PCs, disk, conn
<1>3. Progress(c)' /\ Transaction(c)'
  BY <1>1 DEF Append, At, TypeOK, Progress, Transaction, Reading, Writing, conn
<1> QED
  BY <1>1, <1>2, <1>3, OwnStep DEF Append, At, TypeOK, locks, conn

LEMMA RefusedStep ==
  ASSUME Inv, NEW c \in Clients, Refused(c)
  PROVE  Inv'
<1>1. TypeOK /\ Progress(c) /\ call[c] # None /\ pc[c] = "connect"
  BY DEF Inv, Progress, Reading, Refused
<1>2. PICK x \in Answers : Answering(c, x, "done")
  BY DEF Refused, Answers
<1>3. /\ call' \in [Clients -> {None} \cup Calls] /\ pc' \in [Clients -> PCs]
      /\ call'[c] # None /\ pc'[c] = "done"
      /\ \A d \in Clients : d # c => call'[d] = call[d] /\ pc'[d] = pc[d]
  BY <1>1, <1>2, Answered DEF PCs
<1>4. TypeOK'
  BY <1>1, <1>3 DEF Refused, TypeOK, disk, conn
<1>5. Progress(c)' /\ Transaction(c)'
  BY <1>1, <1>3 DEF Refused, Progress, Transaction, Reading, Writing, disk, conn
<1> QED
  BY <1>3, <1>4, <1>5, OwnStep DEF Refused, locks, conn

LEMMA BeginTransactionStep ==
  ASSUME Inv, NEW c \in Clients, BeginTransaction(c)
  PROVE  Inv'
<1>1. TypeOK /\ Progress(c)
  BY DEF Inv
<1>2. TypeOK'
  BY <1>1 DEF BeginTransaction, At, TypeOK, PCs, disk, conn
<1>3. Progress(c)' /\ Transaction(c)'
  BY <1>1 DEF BeginTransaction, At, TypeOK, Progress, Transaction, Reading, Writing, disk, conn, ValidInput
<1> QED
  BY <1>1, <1>2, <1>3, OwnStep DEF BeginTransaction, At, TypeOK, locks, conn

LEMMA InsertIgnoreStreamStep ==
  ASSUME Inv, NEW c \in Clients, InsertIgnoreStream(c)
  PROVE  Inv'
<1>1. TypeOK /\ Progress(c) /\ owner = None /\ owner' \in {None, c}
  BY DEF Inv, InsertIgnoreStream, LockRow
<1>2. TypeOK'
  BY <1>1 DEF InsertIgnoreStream, At, TypeOK, PCs, disk, conn
<1>3. Progress(c)' /\ Transaction(c)'
  BY <1>1 DEF InsertIgnoreStream, At, TypeOK, Progress, Transaction, Reading, Writing, disk, conn, ValidInput
<1> QED
  BY <1>1, <1>2, <1>3, OwnStep DEF InsertIgnoreStream, At, TypeOK, conn

LEMMA SelectForUpdateStep ==
  ASSUME Inv, NEW c \in Clients, SelectForUpdate(c)
  PROVE  Inv'
<1>1. /\ TypeOK /\ Progress(c) /\ owner \in {None, c} /\ owner' = c /\ call[c] # None /\ pc[c] = "forUpdate"
      /\ dirty' = [rows |-> rows, head |-> head] /\ UNCHANGED disk /\ ValidInput(call[c])
  BY DEF Inv, SelectForUpdate, LockRow, Progress, Reading
<1>2. CASE Answering(c, "conflict", "rollback") \/ Answering(c, "invariant", "rollback")
  <2>1. /\ call' \in [Clients -> {None} \cup Calls] /\ pc' \in [Clients -> PCs]
        /\ call'[c] # None /\ pc'[c] = "rollback"
        /\ \A d \in Clients : d # c => call'[d] = call[d] /\ pc'[d] = pc[d]
    BY <1>1, <1>2, Answered DEF PCs, Answers
  <2>2. TypeOK'
    BY <1>1, <2>1 DEF SelectForUpdate, TypeOK, disk, conn
  <2>3. Progress(c)' /\ Transaction(c)'
    BY <1>1, <2>1 DEF SelectForUpdate, Progress, Transaction, Reading, Writing, conn
  <2> QED
    BY <1>1, <2>1, <2>2, <2>3, OwnStep DEF SelectForUpdate, conn
<1>3. CASE ~Conflicts(call[c], head) /\ Follows(call[c], head) /\ At(c, "forUpdate", "insert") /\ UNCHANGED call
  <2>1. TypeOK'
    BY <1>1, <1>3 DEF SelectForUpdate, At, TypeOK, PCs, disk, conn
  <2>2. Progress(c)'
    BY <1>1, <1>3 DEF SelectForUpdate, At, TypeOK, Progress, Reading, Writing, disk, conn, ValidInput
  <2>3. Transaction(c)'
    BY <1>1, <1>3 DEF At, TypeOK, Transaction, Writing, disk, Fits, ValidInput, Conflicts, Follows
  <2> QED
    BY <1>1, <1>3, <2>1, <2>2, <2>3, OwnStep DEF SelectForUpdate, At, TypeOK, conn
<1> QED
  BY <1>2, <1>3 DEF SelectForUpdate

(* The event of an append that may be written is one.                      *)
LEMMA EventType ==
  ASSUME NEW a \in Calls, Contiguous, head \in Int, Fits(a), NEW by \in Clients
  PROVE  [seq |-> a.seq, by |-> by] \in Entries /\ a.seq = head + 1
BY StoreAssumption DEF Calls, Entries, Fits, ValidInput, Follows

LEMMA InsertEventStep ==
  ASSUME Inv, NEW c \in Clients, InsertEvent(c)
  PROVE  Inv'
<1>1. TypeOK /\ Progress(c) /\ Transaction(c) /\ pc[c] = "insert" /\ UNCHANGED <<disk, owner, call>>
  BY DEF Inv, InsertEvent, At
<1>2. TypeOK'
  BY <1>1 DEF InsertEvent, At, TypeOK, PCs, disk, conn
<1>3. Progress(c)'
  BY <1>1 DEF InsertEvent, At, TypeOK, Progress, Reading, Writing, disk, conn, ValidInput
<1>4. dirty' = [rows |-> rows \cup {Event(c)}, head |-> head]
  <2>1. dirty = [rows |-> rows, head |-> head]
    BY <1>1 DEF Transaction
  <2>2. dirty' = [dirty EXCEPT !.rows = dirty.rows \cup {Event(c)}]
    BY DEF InsertEvent
  <2> HIDE DEF Event
  <2> QED
    BY <2>1, <2>2
<1>5. Transaction(c)'
  BY <1>1, <1>4 DEF InsertEvent, At, TypeOK, Transaction, Writing, disk, Fits, ValidInput, Conflicts, Follows, Event
<1>6. owner = c
  BY <1>1 DEF Transaction, Writing
<1> QED
  BY <1>1, <1>2, <1>3, <1>5, <1>6, OwnStep DEF InsertEvent, At, TypeOK, conn

LEMMA UpdateHeadStep ==
  ASSUME Inv, NEW c \in Clients, UpdateHead(c)
  PROVE  Inv'
<1>1. TypeOK /\ Progress(c) /\ Transaction(c) /\ pc[c] = "update" /\ UNCHANGED <<disk, owner, call>>
  BY DEF Inv, UpdateHead, At
<1>2. TypeOK'
  BY <1>1 DEF UpdateHead, At, TypeOK, PCs, disk, conn
<1>3. Progress(c)'
  BY <1>1 DEF UpdateHead, At, TypeOK, Progress, Reading, Writing, disk, conn, ValidInput
<1>4. dirty' = [rows |-> rows \cup {Event(c)}, head |-> call[c].seq]
  BY <1>1 DEF UpdateHead, Transaction
<1>5. Transaction(c)'
  BY <1>1, <1>4 DEF UpdateHead, At, TypeOK, Transaction, Writing, disk, Fits, ValidInput, Conflicts, Follows, Event
<1>6. owner = c
  BY <1>1 DEF Transaction, Writing
<1> QED
  BY <1>1, <1>2, <1>3, <1>5, <1>6, OwnStep DEF UpdateHead, At, TypeOK, conn

LEMMA CommitStep ==
  ASSUME Contiguous, Inv, NEW c \in Clients, Commit(c)
  PROVE  Inv'
<1>1. /\ TypeOK /\ HeadIsLast /\ Progress(c) /\ Transaction(c) /\ pc[c] = "commit" /\ owner = c
      /\ call[c] # None /\ call[c] \in Calls /\ head \in Int /\ owner' = None /\ owner' # Orphan
  BY Types DEF Inv, Commit, Unlock, Progress, Reading, OrphanIsNobody
<1>2. /\ rows' = rows \cup {Event(c)} /\ head' = Event(c).seq /\ Event(c) \in Entries
      /\ Event(c).seq = head + 1 /\ Event(c).seq = call[c].seq /\ ValidInput(call[c])
  BY <1>1, EventType DEF Commit, Transaction, Writing, Event, Fits
<1>3. HeadIsLast' /\ rows' \subseteq Entries /\ head' \in -1..MaxSeq /\ head <= head' /\ head' \in Int
  BY <1>1, <1>2, OneMore
<1>4. /\ call' \in [Clients -> {None} \cup Calls] /\ pc' \in [Clients -> PCs]
      /\ call'[c] # None /\ call'[c].answer = "ok" /\ pc'[c] = "committed" /\ call'[c].seq = call[c].seq
      /\ call'[c].expected = call[c].expected
      /\ \A d \in Clients : d # c => call'[d] = call[d] /\ pc'[d] = pc[d]
  BY <1>1, Answered DEF PCs, Commit, Answers
<1>5. TypeOK'
  BY <1>1, <1>3, <1>4 DEF Commit, TypeOK, conn
<1>6. Progress(c)' /\ Transaction(c)'
  BY <1>1, <1>2, <1>4 DEF Commit, Progress, Transaction, Reading, Writing, conn, ValidInput
<1>7. ASSUME NEW d \in Clients, d # c PROVE Transaction(d)' /\ Progress(d)'
  BY <1>1, <1>3, <1>4, <1>7, Frame DEF Commit, conn
<1> QED
  BY <1>1, <1>3, <1>5, <1>6, <1>7 DEF Inv, OrphanFits

LEMMA CommittedStep ==
  ASSUME Inv, NEW c \in Clients, Committed(c)
  PROVE  Inv'
<1>1. TypeOK /\ Progress(c)
  BY DEF Inv
<1>2. TypeOK'
  BY <1>1 DEF Committed, At, TypeOK, PCs, disk, conn
<1>3. Progress(c)' /\ Transaction(c)'
  BY <1>1 DEF Committed, At, TypeOK, Progress, Transaction, Reading, Writing, disk, conn, ValidInput
<1> QED
  BY <1>1, <1>2, <1>3, OwnStep DEF Committed, At, TypeOK, locks, conn

LEMMA StatementFailsStep ==
  ASSUME Inv, NEW c \in Clients, StatementFails(c)
  PROVE  Inv'
<1>1. TypeOK /\ Progress(c) /\ call[c] # None
  BY DEF Inv, StatementFails, Progress, Reading
<1>2. /\ call' \in [Clients -> {None} \cup Calls] /\ pc' \in [Clients -> PCs]
      /\ call'[c] # None /\ pc'[c] = "rollback"
      /\ \A d \in Clients : d # c => call'[d] = call[d] /\ pc'[d] = pc[d]
  BY <1>1, Answered DEF PCs, StatementFails, Answers
<1>3. TypeOK'
  BY <1>1, <1>2 DEF StatementFails, TypeOK, disk, conn
<1>4. Progress(c)' /\ Transaction(c)'
  BY <1>1, <1>2 DEF StatementFails, Progress, Transaction, Reading, Writing, conn
<1> QED
  BY <1>2, <1>3, <1>4, Unlocked, OwnStep DEF StatementFails, conn

LEMMA CommitOrphanedStep ==
  ASSUME Inv, NEW c \in Clients, CommitOrphaned(c)
  PROVE  Inv'
<1>1. TypeOK /\ Progress(c) /\ Transaction(c) /\ call[c] # None /\ call[c] \in Calls /\ pc[c] = "commit" /\ owner = c
  BY Types DEF Inv, CommitOrphaned, Progress, Transaction, Reading, Writing
<1>2. /\ call' \in [Clients -> {None} \cup Calls] /\ pc' \in [Clients -> PCs]
      /\ call'[c] # None /\ pc'[c] = "rollback"
      /\ \A d \in Clients : d # c => call'[d] = call[d] /\ pc'[d] = pc[d]
  BY <1>1, Answered DEF PCs, CommitOrphaned, Answers
<1>3. TypeOK'
  BY <1>1, <1>2 DEF CommitOrphaned, TypeOK, disk, conn
<1>4. Progress(c)' /\ Transaction(c)'
  BY <1>1, <1>2 DEF CommitOrphaned, Progress, Transaction, Reading, Writing, conn
<1>5. OrphanFits'
  BY <1>1 DEF CommitOrphaned, OrphanFits, Orphans, Transaction, Progress, Writing, Event, disk, Fits, ValidInput,
     Conflicts, Follows
<1>6. ASSUME NEW d \in Clients, d # c PROVE Transaction(d)' /\ Progress(d)'
  BY <1>1, <1>2, <1>6, Frame, Types DEF CommitOrphaned, conn, disk
<1> QED
  BY <1>3, <1>4, <1>5, <1>6 DEF Inv, CommitOrphaned, HeadIsLast, disk

LEMMA OrphanEndsStep ==
  ASSUME Contiguous, Inv, OrphanEnds
  PROVE  Inv'
<1>1. /\ TypeOK /\ HeadIsLast /\ owner = Orphan /\ owner' = None /\ owner' # Orphan /\ head \in -1..MaxSeq /\ head \in Int
      /\ orphan \in Orphans /\ Fits(orphan.call) /\ UNCHANGED <<pc, call, conn>> /\ \A d \in Clients : owner # d
  BY StoreAssumption DEF Inv, OrphanIsNobody, OrphanEnds, OrphanFits, TypeOK
<1>2. HeadIsLast' /\ rows' \subseteq Entries /\ head' \in -1..MaxSeq /\ head <= head' /\ head' \in Int
  <2>1. CASE UNCHANGED disk
    BY <2>1, <1>1 DEF disk, HeadIsLast, TypeOK
  <2>2. CASE rows' = dirty.rows /\ head' = dirty.head
    <3> DEFINE v == [seq |-> orphan.call.seq, by |-> orphan.by]
    <3>1. v \in Entries /\ v.seq = head + 1
      BY <1>1, EventType DEF Orphans
    <3>2. rows' = rows \cup {v} /\ head' = v.seq
      BY <1>1, <2>2 DEF Inv, OrphanFits
    <3> HIDE DEF v
    <3> QED
      BY <3>1, <3>2, <1>1, OneMore
  <2> QED
    BY <2>1, <2>2 DEF OrphanEnds
<1>3. TypeOK'
  BY <1>1, <1>2 DEF TypeOK, conn
<1>4. ASSUME NEW d \in Clients PROVE Transaction(d)' /\ Progress(d)'
  BY <1>1, <1>2, <1>4, Frame DEF conn
<1> QED
  BY <1>1, <1>2, <1>3, <1>4 DEF Inv, OrphanFits

LEMMA RollbackStep ==
  ASSUME Inv, NEW c \in Clients, Rollback(c)
  PROVE  Inv'
<1>1. TypeOK /\ Progress(c)
  BY DEF Inv
<1>2. TypeOK'
  BY <1>1 DEF Rollback, At, TypeOK, PCs, disk, conn
<1>3. Progress(c)' /\ Transaction(c)'
  BY <1>1 DEF Rollback, At, TypeOK, Progress, Transaction, Reading, Writing, disk, conn
<1> QED
  BY <1>1, <1>2, <1>3, Unlocked, OwnStep DEF Rollback, At, TypeOK, conn

LEMMA NotifyStep ==
  ASSUME Inv, NEW c \in Clients, Notify(c)
  PROVE  Inv'
<1>1. TypeOK /\ Progress(c) /\ pc[c] = "notify" /\ call[c] # None /\ call[c].seq \in -1..MaxSeq
  BY Types DEF Inv, Notify, At, Progress, Reading
<1>2. Event(c) \in Entries
  BY <1>1, StoreAssumption DEF Event, Entries, Progress, ValidInput
<1>3. TypeOK'
  BY <1>1, <1>2 DEF Notify, At, TypeOK, PCs, disk
<1>4. Progress(c)' /\ Transaction(c)'
  BY <1>1 DEF Notify, At, TypeOK, Progress, Transaction, Reading, Writing, disk
<1> QED
  BY <1>1, <1>3, <1>4, OwnStep DEF Notify, At, TypeOK, locks

LEMMA ReturnStep ==
  ASSUME Inv, NEW c \in Clients, Return(c)
  PROVE  Inv'
<1>1. TypeOK /\ Progress(c)
  BY DEF Inv
<1>2. TypeOK'
  BY <1>1 DEF Return, At, TypeOK, PCs, disk
<1>3. Progress(c)' /\ Transaction(c)'
  BY <1>1 DEF Return, At, TypeOK, Progress, Transaction, Reading, Writing, disk
<1> QED
  BY <1>1, <1>2, <1>3, OwnStep DEF Return, At, TypeOK, locks

LEMMA ReadStep ==
  ASSUME Inv, NEW c \in Clients, NEW from \in 0..MaxSeq, Read(c, from)
  PROVE  Inv'
<1>1. TypeOK /\ Progress(c) /\ pc[c] = "idle" /\ [from |-> from, head |-> -1, events |-> {}] \in Reads
  BY StoreAssumption DEF Inv, Read, At, Reads
<1>2. [from |-> from, head |-> -1, events |-> {}] # None
  BY <1>1, NoneAssumption
<1>3. TypeOK'
  BY <1>1 DEF Read, At, TypeOK, PCs, disk
<1>4. Progress(c)' /\ Transaction(c)'
  BY <1>1, <1>2 DEF Read, At, TypeOK, Progress, Transaction, Reading, Writing, disk
<1> QED
  BY <1>1, <1>3, <1>4, OwnStep DEF Read, At, TypeOK, locks

LEMMA ReadHeadStep ==
  ASSUME Inv, NEW c \in Clients, ReadHead(c)
  PROVE  Inv'
<1>1. TypeOK /\ Progress(c) /\ pc[c] = "head" /\ read[c] \in Reads
  BY Types DEF Inv, ReadHead, Progress, Reading
<1>2. /\ [read[c] EXCEPT !.head = head] \in Reads /\ [read[c] EXCEPT !.head = head].head = head
      /\ read' = [read EXCEPT ![c] = [read[c] EXCEPT !.head = head]]
  BY <1>1 DEF Reads, TypeOK, ReadHead
<1>3. [read[c] EXCEPT !.head = head] # None
  BY <1>2, NoneAssumption
<1>4. TypeOK'
  BY <1>1, <1>2 DEF ReadHead, TypeOK, PCs, disk
<1>5. read'[c] # None /\ read'[c].head = head
  BY <1>1, <1>2, <1>3 DEF TypeOK
<1>6. Progress(c)' /\ Transaction(c)'
  BY <1>1, <1>5, Types DEF ReadHead, TypeOK, Progress, Transaction, Reading, Writing, disk
<1> QED
  BY <1>1, <1>2, <1>4, <1>6, OwnStep DEF ReadHead, TypeOK, locks

LEMMA ReadRowsStep ==
  ASSUME Inv, NEW c \in Clients, ReadRows(c)
  PROVE  Inv'
<1> DEFINE found == Between(rows, read[c].from, read[c].head)
<1>1. TypeOK /\ Progress(c) /\ pc[c] = "rows" /\ read[c] \in Reads /\ found \subseteq Entries
  BY Types DEF Inv, ReadRows, At, Progress, Reading, TypeOK, Between
<1>2. read' = [read EXCEPT ![c] = [read[c] EXCEPT !.events = found]]
  BY DEF ReadRows
<1> HIDE DEF found
<1>3. [read[c] EXCEPT !.events = found] \in Reads
  BY <1>1 DEF Reads
<1>4. [read[c] EXCEPT !.events = found] # None
  BY <1>3, NoneAssumption
<1>5. TypeOK'
  BY <1>1, <1>2, <1>3 DEF ReadRows, At, TypeOK, PCs, disk
<1>6. Progress(c)' /\ Transaction(c)'
  BY <1>1, <1>2, <1>4 DEF ReadRows, At, TypeOK, Progress, Transaction, Reading, Writing, disk
<1> QED
  BY <1>1, <1>2, <1>5, <1>6, OwnStep DEF ReadRows, At, TypeOK, locks

LEMMA ReadEndsStep ==
  ASSUME Inv, NEW c \in Clients, ReadEnds(c)
  PROVE  Inv'
<1>1. TypeOK /\ Progress(c)
  BY DEF Inv
<1>2. TypeOK'
  BY <1>1 DEF ReadEnds, TypeOK, PCs, disk
<1>3. Progress(c)' /\ Transaction(c)'
  BY <1>1 DEF ReadEnds, TypeOK, Progress, Transaction, Reading, Writing, disk
<1> QED
  BY <1>1, <1>2, <1>3, OwnStep DEF ReadEnds, TypeOK, locks

LEMMA CloseStep ==
  ASSUME Inv, NEW c \in Clients, Close(c)
  PROVE  Inv'
BY DEF Close, Inv, TypeOK, disk, locks, HeadIsLast, OrphanFits, Fits, ValidInput, Conflicts, Follows, Transaction,
   Event, Progress

LEMMA CrashStep ==
  ASSUME Inv, NEW c \in Clients, Crash(c)
  PROVE  Inv'
<1>1. TypeOK
  BY DEF Inv
<1>2. TypeOK'
  BY <1>1 DEF Crash, TypeOK, PCs, disk
<1>3. Progress(c)' /\ Transaction(c)'
  BY <1>1 DEF Crash, TypeOK, Progress, Transaction, Reading, Writing, disk
<1> QED
  BY <1>1, <1>2, <1>3, Unlocked, OwnStep DEF Crash, TypeOK

-----------------------------------------------------------------------------
(* The theorems.                                                           *)
LEMMA InitInv == OrphanIsNobody /\ Init => Inv
<1> SUFFICES ASSUME OrphanIsNobody, Init PROVE Inv
  OBVIOUS
<1>1. TypeOK
  BY StoreAssumption DEF Init, TypeOK, PCs
<1>2. HeadIsLast /\ OrphanFits
  BY DEF Init, HeadIsLast, OrphanFits, OrphanIsNobody
<1>3. ASSUME NEW c \in Clients PROVE Transaction(c) /\ Progress(c)
  BY <1>3 DEF Init, Transaction, Progress, Reading, Writing
<1> QED
  BY <1>1, <1>2, <1>3 DEF Inv

LEMMA Inductive ==
  ASSUME Contiguous, Inv, [Next]_vars
  PROVE  Inv'
<1>1. CASE UNCHANGED vars
  BY <1>1 DEF vars, Inv, TypeOK, HeadIsLast, OrphanFits, Fits, ValidInput, Conflicts, Follows, Transaction, Event,
     Progress
<1>2. CASE Next
  BY <1>2, AppendStep, RefusedStep, BeginTransactionStep, InsertIgnoreStreamStep, SelectForUpdateStep,
     InsertEventStep, UpdateHeadStep, CommitStep, CommittedStep, StatementFailsStep, CommitOrphanedStep,
     OrphanEndsStep, RollbackStep, NotifyStep, ReturnStep, ReadStep, ReadHeadStep, ReadRowsStep, ReadEndsStep,
     CloseStep, CrashStep DEF Next
<1> QED
  BY <1>1, <1>2

(* The head row is the number of the last event, and every number up to it *)
(* was written exactly once: whatever transactions wait for each other,    *)
(* fail or commit after their clients are gone.                            *)
THEOREM HeadMatchesRows ==
  ASSUME Contiguous, OrphanIsNobody
  PROVE  Spec => []HeadIsLast
<1>1. Init => Inv
  BY InitInv
<1>2. Inv /\ [Next]_vars => Inv'
  BY Inductive
<1>3. Inv => HeadIsLast
  BY DEF Inv
<1> QED
  BY <1>1, <1>2, <1>3, PTL DEF Spec

-----------------------------------------------------------------------------
(* What the log promises: the rows are the log, a read has happened with   *)
(* its first SELECT, and a commit whose client is gone is an append given  *)
(* up that may still be performed.                                         *)
Promise == INSTANCE EventLogContract WITH
  log <- rows, reading <- [c \in Clients |-> Returned(c)],
  orphans <- IF owner = Orphan THEN {orphan} ELSE {}

(* The helpers of the contract are those of the log.                       *)
LEMMA SameSupport ==
  /\ \A es, from, to : Promise!Between(es, from, to) = Between(es, from, to)
  /\ \A r : Promise!Calling(r) = Calling(r)
  /\ Promise!Requests = Requests
  /\ \A a : Promise!ValidInput(a) <=> ValidInput(a)
  /\ \A a, h : (Promise!Conflicts(a, h) <=> Conflicts(a, h)) /\ (Promise!Follows(a, h) <=> Follows(a, h))
  /\ \A es : Promise!HeadOf(es) = HeadOf(es)
BY DEF Promise!Between, Between, Promise!Calling, Calling, Promise!Requests, Requests,
   Promise!ValidInput, ValidInput, Promise!Conflicts, Conflicts, Promise!Follows, Follows,
   Promise!HeadOf, HeadOf, Promise!Max, Max

(* The head of the row is that of the rows.                                *)
LEMMA HeadOfRows ==
  ASSUME TypeOK, HeadIsLast
  PROVE  HeadOf(rows) = head
<1>1. head \in -1..MaxSeq /\ {e.seq : e \in rows} = 0..head
  BY DEF TypeOK, HeadIsLast
<1>2. CASE rows = {}
  <2>1. 0..head = {}
    BY <1>1, <1>2
  <2> QED
    BY <2>1, <1>1, <1>2, StoreAssumption DEF HeadOf
<1>3. CASE rows # {}
  <2>1. 0..head # {}
    BY <1>1, <1>3
  <2>2. head \in 0..head /\ \A y \in 0..head : head >= y
    BY <2>1, <1>1, StoreAssumption
  <2>3. Max(0..head) = head
    BY <2>2, <1>1, StoreAssumption DEF Max
  <2> QED
    BY <2>3, <1>1, <1>3 DEF HeadOf
<1> QED
  BY <1>2, <1>3

(* A contiguous log takes what fits.                                       *)
LEMMA FitsIsOk ==
  ASSUME TypeOK, HeadIsLast, NEW a
  PROVE  Promise!Answer(a) =
           IF ~ValidInput(a) THEN "invariant" ELSE IF Conflicts(a, head) THEN "conflict"
           ELSE IF Follows(a, head) THEN "ok" ELSE "invariant"
<1>1. Promise!HeadOf(rows) = head
  BY HeadOfRows, SameSupport
<1> QED
  BY <1>1, SameSupport DEF Promise!Answer

(* What a reader is to get does not change while others write.             *)
LEMMA ReadersKeep ==
  ASSUME Inv, NEW c \in Clients, pc'[c] = pc[c], read'[c] = read[c],
         UNCHANGED rows \/ \E v \in Entries : v.seq = head + 1 /\ rows' = rows \cup {v}
  PROVE  Returned(c)' = Returned(c)
<1>1. CASE UNCHANGED rows
  BY <1>1 DEF Returned, Between
<1>2. ASSUME NEW v \in Entries, v.seq = head + 1, rows' = rows \cup {v} PROVE Returned(c)' = Returned(c)
  <2>1. CASE pc[c] # "rows"
    BY <2>1, <1>2 DEF Returned
  <2>2. CASE pc[c] = "rows"
    <3>1. read[c].head \in Int /\ read[c].head <= head /\ head \in Int
      BY <2>2, Types DEF Inv, Progress, Reading
    <3>2. ~(v.seq <= read[c].head)
      BY <3>1, <1>2
    <3>3. Between(rows', read[c].from, read[c].head) = Between(rows, read[c].from, read[c].head)
      BY <3>2, <1>2 DEF Between
    <3> QED
      BY <3>3, <2>2 DEF Returned
  <2> QED
    BY <2>1, <2>2
<1> QED
  BY <1>1, <1>2

(* A step of c that neither reads nor ends a read.                         *)
LEMMA NobodyReads ==
  ASSUME Inv, NEW c \in Clients, UNCHANGED read,
         \A d \in Clients : d # c => pc'[d] = pc[d],
         pc[c] \notin {"rows", "snapshot"}, pc'[c] \notin {"rows", "snapshot"},
         UNCHANGED rows \/ \E v \in Entries : v.seq = head + 1 /\ rows' = rows \cup {v}
  PROVE  UNCHANGED [d \in Clients |-> Returned(d)]
<1>1. Returned(c)' = Returned(c)
  BY DEF Returned
<1>2. ASSUME NEW d \in Clients, d # c PROVE Returned(d)' = Returned(d)
  BY <1>2, ReadersKeep
<1> QED
  BY <1>1, <1>2

-----------------------------------------------------------------------------
(* Every statement is a step of the promise, or none.                      *)
LEMMA AppendKeeps ==
  ASSUME Inv, NEW c \in Clients, NEW r \in Requests, Append(c, r)
  PROVE  [Promise!ContractNext]_Promise!contractVars
<1>1. TypeOK /\ Progress(c)
  BY DEF Inv
<1>2. UNCHANGED [d \in Clients |-> Returned(d)]
  BY <1>1, NobodyReads DEF Append, At, TypeOK, disk, conn
<1>3. Promise!Append(c, r) /\ r \in Promise!Requests
  BY <1>1, <1>2, SameSupport DEF Progress, Reading, Append, At, Promise!Append, disk, locks, conn
<1> QED
  BY <1>3 DEF Promise!ContractNext

LEMMA RefusedKeeps ==
  ASSUME Inv, NEW c \in Clients, Refused(c)
  PROVE  [Promise!ContractNext]_Promise!contractVars
<1>1. TypeOK /\ HeadIsLast /\ Progress(c) /\ call[c] # None /\ call[c].answer = None /\ pc[c] = "connect"
  BY DEF Inv, Refused, Progress, Reading
<1>2. UNCHANGED [d \in Clients |-> Returned(d)]
  BY <1>1, NobodyReads DEF Refused, Answering, TypeOK, disk, conn
<1>3. CASE Answering(c, "error", "done")
  <2>1. Promise!Fail(c)
    BY <1>1, <1>2, <1>3 DEF Refused, Answering, Promise!Fail, disk, locks, conn
  <2> QED
    BY <2>1 DEF Promise!ContractNext
<1>4. CASE ~ValidInput(call[c]) /\ Answering(c, "invariant", "done")
  <2>1. Promise!Answer(call[c]) = "invariant"
    BY <1>1, <1>4, FitsIsOk
  <2>2. Promise!Decide(c)
    BY <2>1, <1>1, <1>2, <1>4 DEF Refused, Answering, Promise!Decide, disk, locks, conn
  <2> QED
    BY <2>2 DEF Promise!ContractNext
<1> QED
  BY <1>3, <1>4 DEF Refused

(* A statement the caller learns nothing of, and that neither commits nor  *)
(* takes over what is orphaned.                                            *)
LEMMA Stutters ==
  ASSUME Inv, NEW c \in Clients, UNCHANGED <<rows, call, read, told>>,
         \A d \in Clients : d # c => pc'[d] = pc[d],
         pc[c] \notin {"rows", "snapshot"}, pc'[c] \notin {"rows", "snapshot"},
         \/ owner \in {None, c} /\ owner' \in {None, c}
         \/ UNCHANGED <<owner, orphan>>
  PROVE  UNCHANGED Promise!contractVars
<1>1. UNCHANGED [d \in Clients |-> Returned(d)]
  BY NobodyReads
<1>2. UNCHANGED (IF owner = Orphan THEN {orphan} ELSE {})
  BY DEF Inv, OrphanIsNobody
<1> QED
  BY <1>1, <1>2 DEF Promise!contractVars

LEMMA BeginTransactionKeeps ==
  ASSUME Inv, NEW c \in Clients, BeginTransaction(c)
  PROVE  [Promise!ContractNext]_Promise!contractVars
BY Stutters DEF Inv, TypeOK, BeginTransaction, At, disk, locks, conn

LEMMA InsertIgnoreStreamKeeps ==
  ASSUME Inv, NEW c \in Clients, InsertIgnoreStream(c)
  PROVE  [Promise!ContractNext]_Promise!contractVars
BY Stutters DEF Inv, TypeOK, InsertIgnoreStream, LockRow, At, disk, conn

LEMMA SelectForUpdateKeeps ==
  ASSUME Inv, NEW c \in Clients, SelectForUpdate(c)
  PROVE  [Promise!ContractNext]_Promise!contractVars
<1>1. /\ TypeOK /\ HeadIsLast /\ owner \in {None, c} /\ owner' = c /\ call[c] # None /\ pc[c] = "forUpdate"
      /\ UNCHANGED <<rows, read, told>> /\ ValidInput(call[c]) /\ call[c].answer = None
  BY DEF Inv, SelectForUpdate, LockRow, Progress, Reading, disk, conn
<1>2. CASE Conflicts(call[c], head) \/ ~Follows(call[c], head)
  <2>1. Promise!Answer(call[c]) # "ok" /\ Answering(c, Promise!Answer(call[c]), "rollback")
    BY <1>1, <1>2, FitsIsOk DEF SelectForUpdate
  <2>2. UNCHANGED [d \in Clients |-> Returned(d)]
    BY <1>1, <2>1, NobodyReads DEF Answering, TypeOK
  <2>3. UNCHANGED (IF owner = Orphan THEN {orphan} ELSE {})
    BY <1>1 DEF Inv, OrphanIsNobody
  <2>4. Promise!Decide(c)
    BY <1>1, <2>1, <2>2, <2>3 DEF Answering, Promise!Decide
  <2> QED
    BY <2>4 DEF Promise!ContractNext
<1>3. CASE ~Conflicts(call[c], head) /\ Follows(call[c], head)
  <2>1. At(c, "forUpdate", "insert") /\ UNCHANGED call
    BY <1>3 DEF SelectForUpdate
  <2> QED
    BY <2>1, <1>1, Stutters DEF At, TypeOK
<1> QED
  BY <1>2, <1>3

LEMMA InsertEventKeeps ==
  ASSUME Inv, NEW c \in Clients, InsertEvent(c)
  PROVE  [Promise!ContractNext]_Promise!contractVars
BY Stutters DEF Inv, TypeOK, InsertEvent, At, disk, conn

LEMMA UpdateHeadKeeps ==
  ASSUME Inv, NEW c \in Clients, UpdateHead(c)
  PROVE  [Promise!ContractNext]_Promise!contractVars
BY Stutters DEF Inv, TypeOK, UpdateHead, At, disk, conn

LEMMA CommitKeeps ==
  ASSUME Contiguous, Inv, NEW c \in Clients, Commit(c)
  PROVE  [Promise!ContractNext]_Promise!contractVars
<1>1. /\ TypeOK /\ HeadIsLast /\ Progress(c) /\ Transaction(c) /\ pc[c] = "commit" /\ owner = c
      /\ call[c] # None /\ call[c] \in Calls /\ head \in Int /\ owner' = None /\ UNCHANGED <<read, told>>
      /\ call[c].answer = None /\ Fits(call[c]) /\ Answering(c, "ok", "committed")
  BY Types DEF Inv, Commit, Unlock, Progress, Reading, Transaction, Writing, conn
<1>2. rows' = rows \cup {Event(c)} /\ Event(c) \in Entries /\ Event(c).seq = head + 1
  BY <1>1, EventType DEF Commit, Transaction, Event
<1>3. UNCHANGED [d \in Clients |-> Returned(d)]
  BY <1>1, <1>2, NobodyReads DEF Answering, TypeOK
<1>4. Promise!Answer(call[c]) = "ok"
  BY <1>1, FitsIsOk DEF Fits
<1>5. UNCHANGED (IF owner = Orphan THEN {orphan} ELSE {})
  BY <1>1 DEF Inv, OrphanIsNobody
<1>6. Promise!Decide(c)
  BY <1>1, <1>2, <1>3, <1>4, <1>5 DEF Answering, Promise!Decide, Event
<1> QED
  BY <1>6 DEF Promise!ContractNext

LEMMA CommittedKeeps ==
  ASSUME Inv, NEW c \in Clients, Committed(c)
  PROVE  [Promise!ContractNext]_Promise!contractVars
BY Stutters DEF Inv, TypeOK, Committed, At, disk, locks, conn

LEMMA StatementFailsKeeps ==
  ASSUME Inv, NEW c \in Clients, StatementFails(c)
  PROVE  [Promise!ContractNext]_Promise!contractVars
<1>1. TypeOK /\ Progress(c) /\ call[c] # None /\ call[c].answer \in {None, "ok"}
  BY DEF Inv, StatementFails, Progress, Reading, Writing
<1>2. UNCHANGED [d \in Clients |-> Returned(d)]
  BY <1>1, NobodyReads DEF StatementFails, Answering, TypeOK, disk, conn
<1>3. UNCHANGED (IF owner = Orphan THEN {orphan} ELSE {})
  BY Unlocked DEF Inv, OrphanIsNobody, StatementFails
<1>4. Promise!Fail(c)
  BY <1>1, <1>2, <1>3 DEF StatementFails, Answering, Promise!Fail, disk, conn
<1> QED
  BY <1>4 DEF Promise!ContractNext

LEMMA CommitOrphanedKeeps ==
  ASSUME Inv, NEW c \in Clients, CommitOrphaned(c)
  PROVE  [Promise!ContractNext]_Promise!contractVars
<1>1. TypeOK /\ call[c] # None /\ call[c].answer = None /\ owner = c /\ owner # Orphan
  BY DEF Inv, CommitOrphaned, Progress, Transaction, Reading, Writing, OrphanIsNobody
<1>2. UNCHANGED [d \in Clients |-> Returned(d)]
  BY <1>1, NobodyReads DEF CommitOrphaned, Answering, TypeOK, disk, conn
<1>3. Promise!Fail(c)
  BY <1>1, <1>2 DEF CommitOrphaned, Answering, Promise!Fail, disk, conn
<1> QED
  BY <1>3 DEF Promise!ContractNext

LEMMA OrphanEndsKeeps ==
  ASSUME Contiguous, Inv, OrphanEnds
  PROVE  [Promise!ContractNext]_Promise!contractVars
<1> DEFINE v == [seq |-> orphan.call.seq, by |-> orphan.by]
<1>1. /\ TypeOK /\ HeadIsLast /\ owner = Orphan /\ owner' # Orphan /\ head \in Int
      /\ orphan \in Orphans /\ Fits(orphan.call) /\ UNCHANGED <<pc, call, read, told>>
      /\ dirty.rows = rows \cup {v}
  BY StoreAssumption DEF Inv, OrphanIsNobody, OrphanEnds, OrphanFits, TypeOK, conn
<1>2. v \in Entries /\ v.seq = head + 1
  BY <1>1, EventType DEF Orphans
<1>3. Promise!Answer(orphan.call) = "ok"
  BY <1>1, FitsIsOk DEF Fits
<1>4. (UNCHANGED rows) \/ rows' = rows \cup {v}
  BY <1>1 DEF OrphanEnds, disk
<1>5. \A d \in Clients : Returned(d)' = Returned(d)
  BY <1>1, <1>2, <1>4, ReadersKeep
<1>6. CASE UNCHANGED rows
  <2>1. Promise!LateLost
    BY <1>1, <1>5, <1>6 DEF Promise!LateLost
  <2> QED
    BY <2>1 DEF Promise!ContractNext
<1>7. CASE rows' = rows \cup {v}
  <2>1. Promise!LateDecide
    BY <1>1, <1>3, <1>5, <1>7 DEF Promise!LateDecide
  <2> QED
    BY <2>1 DEF Promise!ContractNext
<1> QED
  BY <1>4, <1>6, <1>7

LEMMA RollbackKeeps ==
  ASSUME Inv, NEW c \in Clients, Rollback(c)
  PROVE  [Promise!ContractNext]_Promise!contractVars
BY Unlocked, Stutters DEF Inv, TypeOK, Rollback, At, disk, conn

LEMMA NotifyKeeps ==
  ASSUME Inv, NEW c \in Clients, Notify(c)
  PROVE  [Promise!ContractNext]_Promise!contractVars
<1>1. TypeOK /\ Progress(c)
  BY DEF Inv
<1>2. UNCHANGED [d \in Clients |-> Returned(d)]
  BY <1>1, NobodyReads DEF Notify, At, TypeOK, disk
<1>3. Promise!Notify(c)
  BY <1>1, <1>2 DEF Notify, At, Progress, Reading, Event, Promise!Notify, disk, locks
<1> QED
  BY <1>3 DEF Promise!ContractNext

LEMMA ReturnKeeps ==
  ASSUME Inv, NEW c \in Clients, Return(c)
  PROVE  [Promise!ContractNext]_Promise!contractVars
<1>1. UNCHANGED [d \in Clients |-> Returned(d)]
  BY NobodyReads DEF Inv, Return, At, TypeOK, disk
<1>2. Promise!Return(c)
  BY <1>1 DEF Return, At, Promise!Return, disk, locks
<1> QED
  BY <1>2 DEF Promise!ContractNext

LEMMA ReadKeeps ==
  ASSUME Inv, NEW c \in Clients, NEW from \in 0..MaxSeq, Read(c, from)
  PROVE  [Promise!ContractNext]_Promise!contractVars
<1>1. pc[c] = "idle" /\ pc'[c] = "head" /\ UNCHANGED <<rows, owner, orphan, call, told>>
      /\ \A d \in Clients : d # c => pc'[d] = pc[d] /\ read'[d] = read[d]
  BY DEF Inv, TypeOK, Read, At, disk, locks
<1>2. ASSUME NEW d \in Clients PROVE Returned(d)' = Returned(d)
  BY <1>1, <1>2, ReadersKeep DEF Returned
<1>3. UNCHANGED [d \in Clients |-> Returned(d)]
  BY <1>2
<1> QED
  BY <1>1, <1>3 DEF Promise!contractVars

LEMMA ReadHeadKeeps ==
  ASSUME Inv, NEW c \in Clients, ReadHead(c)
  PROVE  [Promise!ContractNext]_Promise!contractVars
<1>1. /\ pc[c] = "head" /\ pc'[c] = (IF head < read[c].from THEN "snapshot" ELSE "rows")
      /\ UNCHANGED <<rows, owner, orphan, call, told>> /\ TypeOK
      /\ \A d \in Clients : d # c => pc'[d] = pc[d] /\ read'[d] = read[d]
  BY DEF Inv, TypeOK, ReadHead, disk, locks
<1>2. read[c] \in Reads
  BY <1>1, Types DEF Inv, Progress, Reading
<1>3. PICK from \in 0..MaxSeq : read[c].from = from
  BY <1>2 DEF Reads
<1>4. read'[c].from = from /\ read'[c].head = head /\ read'[c].events = {}
  BY <1>1, <1>2, <1>3 DEF ReadHead, TypeOK, Reads, Inv, Progress
<1>5. Returned(c)' = [from |-> from, events |-> Between(rows, from, head)]
  <2>1. CASE head < from
    <3>1. Between(rows, from, head) = {}
      BY <2>1, <1>1, <1>3, StoreAssumption DEF Between, Entries, TypeOK
    <3> QED
      BY <3>1, <2>1, <1>1, <1>3, <1>4 DEF Returned
  <2>2. CASE ~(head < from)
    BY <2>2, <1>1, <1>3, <1>4 DEF Returned, Between
  <2> QED
    BY <2>1, <2>2
<1>6. \A d \in Clients : d # c => Returned(d)' = Returned(d)
  BY <1>1, ReadersKeep
<1>7. Promise!Between(rows, from, Promise!HeadOf(rows)) = Between(rows, from, head)
  BY HeadOfRows, SameSupport DEF Inv
<1>8. Promise!Read(c, from)
  BY <1>1, <1>5, <1>6, <1>7 DEF Promise!Read
<1> QED
  BY <1>8 DEF Promise!ContractNext

LEMMA ReadRowsKeeps ==
  ASSUME Inv, NEW c \in Clients, ReadRows(c)
  PROVE  [Promise!ContractNext]_Promise!contractVars
<1> DEFINE found == Between(rows, read[c].from, read[c].head)
<1>1. /\ pc[c] = "rows" /\ pc'[c] = "snapshot" /\ UNCHANGED <<rows, owner, orphan, call, told>> /\ TypeOK
      /\ \A d \in Clients : d # c => pc'[d] = pc[d] /\ read'[d] = read[d]
  BY DEF Inv, TypeOK, ReadRows, At, disk, locks
<1>2. read[c] \in Reads /\ read' = [read EXCEPT ![c] = [read[c] EXCEPT !.events = found]]
  BY <1>1, Types DEF Inv, Progress, Reading, ReadRows
<1>3. Returned(c) = [from |-> read[c].from, events |-> found]
  BY <1>1 DEF Returned
<1> HIDE DEF found
<1>4. read'[c].from = read[c].from /\ read'[c].events = found
  BY <1>1, <1>2 DEF TypeOK, Reads
<1>5. Returned(c)' = Returned(c)
  BY <1>1, <1>3, <1>4 DEF Returned
<1>6. \A d \in Clients : Returned(d)' = Returned(d)
  BY <1>1, <1>5, ReadersKeep
<1> QED
  BY <1>1, <1>6 DEF Promise!contractVars

LEMMA ReadEndsKeeps ==
  ASSUME Inv, NEW c \in Clients, ReadEnds(c)
  PROVE  [Promise!ContractNext]_Promise!contractVars
<1>1. /\ pc'[c] = "idle" /\ UNCHANGED <<rows, owner, orphan, call, told>>
      /\ \A d \in Clients : d # c => pc'[d] = pc[d] /\ read'[d] = read[d]
  BY DEF Inv, TypeOK, ReadEnds, disk, locks
<1>2. Returned(c)' = None /\ \A d \in Clients : d # c => Returned(d)' = Returned(d)
  BY <1>1, ReadersKeep DEF Returned
<1>3. Promise!ReadReturn(c)
  BY <1>1, <1>2 DEF Promise!ReadReturn
<1> QED
  BY <1>3 DEF Promise!ContractNext

LEMMA CloseKeeps ==
  ASSUME Inv, NEW c \in Clients, Close(c)
  PROVE  [Promise!ContractNext]_Promise!contractVars
BY DEF Close, disk, locks, Promise!contractVars, Returned

LEMMA CrashKeeps ==
  ASSUME Inv, NEW c \in Clients, Crash(c)
  PROVE  [Promise!ContractNext]_Promise!contractVars
<1>1. /\ TypeOK /\ Progress(c) /\ pc'[c] = "idle" /\ UNCHANGED rows
      /\ call' = [call EXCEPT ![c] = None] /\ told' = [told EXCEPT ![c] = None]
      /\ \A d \in Clients : d # c => pc'[d] = pc[d] /\ read'[d] = read[d]
  BY DEF Inv, TypeOK, Crash, disk
<1>2. UNCHANGED (IF owner = Orphan THEN {orphan} ELSE {})
  BY Unlocked DEF Inv, OrphanIsNobody, Crash
<1>3. Returned(c)' = None /\ \A d \in Clients : d # c => Returned(d)' = Returned(d)
  BY <1>1, ReadersKeep DEF Returned
<1>4. CASE pc[c] \in Reading
  <2>1. UNCHANGED <<call, told>>
    BY <1>1, <1>4 DEF TypeOK, Progress
  <2>2. Promise!ReadReturn(c)
    BY <2>1, <1>1, <1>2, <1>3 DEF Promise!ReadReturn
  <2> QED
    BY <2>2 DEF Promise!ContractNext
<1>5. CASE pc[c] \notin Reading
  <2>1. \A d \in Clients : Returned(d)' = Returned(d)
    BY <1>3, <1>5 DEF Reading, Returned
  <2>2. Promise!Return(c)
    BY <2>1, <1>1, <1>2 DEF Promise!Return
  <2> QED
    BY <2>2 DEF Promise!ContractNext
<1> QED
  BY <1>4, <1>5

LEMMA StepKeeps ==
  ASSUME Contiguous, Inv, [Next]_vars
  PROVE  [Promise!ContractNext]_Promise!contractVars
<1>1. CASE UNCHANGED vars
  BY <1>1 DEF vars, Promise!contractVars, Returned, Between
<1>2. CASE Next
  BY <1>2, AppendKeeps, RefusedKeeps, BeginTransactionKeeps, InsertIgnoreStreamKeeps, SelectForUpdateKeeps,
     InsertEventKeeps, UpdateHeadKeeps, CommitKeeps, CommittedKeeps, StatementFailsKeeps, CommitOrphanedKeeps,
     OrphanEndsKeeps, RollbackKeeps, NotifyKeeps, ReturnKeeps, ReadKeeps, ReadHeadKeeps, ReadRowsKeeps,
     ReadEndsKeeps, CloseKeeps, CrashKeeps DEF Next
<1> QED
  BY <1>1, <1>2

LEMMA InitKeeps == OrphanIsNobody /\ Init => Promise!ContractInit
BY DEF Init, OrphanIsNobody, Promise!ContractInit, Returned

(* Whatever its transactions and connections do, the MySQL log is an       *)
(* EventLog: append compares and writes in one step although other         *)
(* transactions' statements fall between its own, a read is one snapshot   *)
(* although it is two SELECTs, and a commit whose client is gone happens   *)
(* once or never, before anybody else's.                                   *)
THEOREM KeepsContract ==
  ASSUME Contiguous, OrphanIsNobody
  PROVE  Spec => Promise!Contract
<1>1. Init => Inv
  BY InitInv
<1>2. Inv /\ [Next]_vars => Inv'
  BY Inductive
<1>3. Init => Promise!ContractInit
  BY InitKeeps
<1>4. Inv /\ [Next]_vars => [Promise!ContractNext]_Promise!contractVars
  BY StepKeeps
<1> QED
  BY <1>1, <1>2, <1>3, <1>4, PTL DEF Spec, Promise!Contract
=============================================================================
