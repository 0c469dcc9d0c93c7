------------------------ MODULE SqliteEventLog_proofs ------------------------
(***************************************************************************)
(* Proofs about the SQLite event log, for any number of processes on one   *)
(* file, any crashes and failing statements.                               *)
(***************************************************************************)
EXTENDS SqliteEventLog, TLAPS

InTransaction == {"select", "insert", "upsert", "commit", "rollback"}
Reading == {"rows", "snapshot"}

(* What SelectHead found out about the append of c.                        *)
Accepted(c) == ~Conflicts(call[c], head) /\ Follows(call[c], head)

(* Who is in a transaction holds the lock, and until it commits the tables *)
(* it sees are the committed ones and what it has written itself.          *)
Transaction(c) ==
  /\ pc[c] \in InTransaction => lock = c
  /\ pc[c] \in {"insert", "upsert", "commit"} => Accepted(c)
  /\ pc[c] \in {"select", "insert"} => dirty = [rows |-> rows, head |-> head]
  /\ pc[c] = "upsert" => dirty = [rows |-> rows \cup {Event(c)}, head |-> head]
  /\ pc[c] = "commit" => dirty = [rows |-> rows \cup {Event(c)}, head |-> call[c].seq]

(* What a client is in the middle of, as its statement tells.              *)
Progress(c) ==
  /\ pc[c] \in Reading \cup {"idle"} <=> call[c] = None
  /\ pc[c] \in Reading <=> read[c] # None
  /\ call[c] = None => told[c] = None
  /\ pc[c] \in {"begin", "select", "insert", "upsert", "commit"} => call[c].answer = None
  /\ pc[c] = "notify" => call[c].answer = "ok"
  /\ pc[c] \in {"select", "insert", "upsert", "commit", "notify"} => ValidInput(call[c])
  /\ pc[c] = "rows" => read[c].head <= head

Inv == TypeOK /\ HeadIsLast /\ \A c \in Clients : Transaction(c) /\ Progress(c)

-----------------------------------------------------------------------------
(* Types and frames.                                                       *)

(* An append has a number, and None is none.                               *)
LEMMA CallType ==
  ASSUME NEW a \in Calls
  PROVE  a.seq \in Int /\ a # None
BY NoneAssumption DEF Calls

(* A call just made is one, and not answered.                              *)
LEMMA CallingType ==
  ASSUME NEW r \in Requests
  PROVE  Calling(r) \in Calls /\ Calling(r).answer = None
<1>1. r.seq \in -1..MaxSeq /\ r.expected \in Expected
  BY StoreAssumption DEF Requests, Expected
<1> QED
  BY <1>1 DEF Calling, Calls

(* Answering changes only the answer.                                      *)
LEMMA AnswerType ==
  ASSUME NEW a \in Calls, NEW x \in Answers
  PROVE  /\ [a EXCEPT !.answer = x] \in Calls
         /\ [a EXCEPT !.answer = x].answer = x
         /\ [a EXCEPT !.answer = x].seq = a.seq
         /\ [a EXCEPT !.answer = x].expected = a.expected
BY DEF Calls

(* A client a step of another one does not touch: either the tables, the   *)
(* transaction and the lock stay, or the other one had the lock.           *)
LEMMA Frame ==
  ASSUME Inv, NEW d \in Clients,
         pc'[d] = pc[d], call'[d] = call[d], read'[d] = read[d], told'[d] = told[d],
         head \in Int, head' \in Int, read[d] # None => read[d].head \in Int,
         \/ UNCHANGED <<rows, head, dirty, lock>>
         \/ pc[d] \notin InTransaction /\ head <= head'
  PROVE  Transaction(d)' /\ Progress(d)'
<1>1. Transaction(d)'
  BY DEF Inv, Transaction, InTransaction, Accepted, Conflicts, Follows, Event
<1>2. Progress(d)'
  BY DEF Inv, Progress, Reading, ValidInput
<1> QED
  BY <1>1, <1>2

(* The types at one client, in numbers.                                    *)
LEMMA Types ==
  ASSUME TypeOK, NEW c \in Clients
  PROVE  /\ pc[c] \in PCs /\ call[c] \in Calls \cup {None} /\ told[c] \in Entries \cup {None}
         /\ read[c] \in Reads \cup {None}
         /\ call[c] # None => call[c] \in Calls /\ call[c].seq \in -1..MaxSeq
         /\ read[c] # None => read[c] \in Reads /\ read[c].head \in -1..MaxSeq
         /\ head \in -1..MaxSeq /\ None \notin Clients
BY StoreAssumption DEF TypeOK, Calls, Reads

(* A step that answers the append of c.                                    *)
LEMMA Answering ==
  ASSUME TypeOK, NEW c \in Clients, call[c] # None, NEW x \in Answers,
         call' = [call EXCEPT ![c].answer = x]
  PROVE  /\ call' \in [Clients -> {None} \cup Calls]
         /\ call'[c] # None /\ call'[c].answer = x
         /\ call'[c].seq = call[c].seq /\ call'[c].expected = call[c].expected
         /\ \A d \in Clients : d # c => call'[d] = call[d]
<1>1. call[c] \in Calls /\ call \in [Clients -> {None} \cup Calls]
  BY DEF TypeOK
<1>2. call' = [call EXCEPT ![c] = [call[c] EXCEPT !.answer = x]]
  OBVIOUS
<1>3. [call[c] EXCEPT !.answer = x] \in Calls /\ [call[c] EXCEPT !.answer = x] # None
  BY <1>1, AnswerType, CallType
<1>4. call'[c] = [call[c] EXCEPT !.answer = x] /\ \A d \in Clients : d # c => call'[d] = call[d]
  BY <1>1, <1>2
<1> QED
  BY <1>1, <1>2, <1>3, <1>4, AnswerType

-----------------------------------------------------------------------------
(* Each action keeps the invariant: the types, the tables, what holds of   *)
(* the client that acts, and what holds of every other one.                *)

LEMMA AppendStep ==
  ASSUME Contiguous, Inv, NEW c \in Clients, NEW r \in Requests, Append(c, r)
  PROVE  Inv'
<1>1. /\ TypeOK /\ Transaction(c) /\ Progress(c)
      /\ pc[c] \in PCs /\ call[c] \in Calls \cup {None} /\ head \in -1..MaxSeq
      /\ call[c] # None => call[c] \in Calls /\ call[c].seq \in -1..MaxSeq
      /\ read[c] # None => read[c] \in Reads /\ read[c].head \in -1..MaxSeq
      /\ None \notin Clients
  BY Types DEF Inv
<1>2. TypeOK'
  BY <1>1, CallingType, CallType, StoreAssumption, SMTT(20) DEF Append, TypeOK, disk, conn,
     At, Refuse, Event, NoTransaction, PCs, Progress, Transaction, Entries, Reads, Between,
     Reading
<1>3. HeadIsLast'
  BY <1>1, CallingType, CallType, StoreAssumption DEF Inv, HeadIsLast, Append, disk
<1>4. Transaction(c)'
  BY <1>1, CallingType, CallType, StoreAssumption, SMTT(20) DEF Append, TypeOK, disk, conn,
     At, Refuse, Event, NoTransaction, PCs, Progress, Transaction, InTransaction, Accepted,
     Conflicts, Follows
<1>5. Progress(c)'
  BY <1>1, CallingType, CallType, NoneAssumption, StoreAssumption, SMTT(20) DEF At, Refuse,
     PCs, Progress, Reading, ValidInput, Reads, Append, TypeOK, conn
<1>6. ASSUME NEW d \in Clients, d # c PROVE Transaction(d)' /\ Progress(d)'
  <2>1. /\ pc'[d] = pc[d] /\ call'[d] = call[d] /\ read'[d] = read[d] /\ told'[d] = told[d]
        /\ head' \in Int
        /\ \/ UNCHANGED <<rows, head, dirty, lock>>
           \/ pc[d] \notin InTransaction /\ head <= head'
    BY <1>1, CallingType, CallType, <1>2, <1>6 DEF conn, At, Refuse, Transaction,
       InTransaction, Append, disk
  <2> QED
    BY <2>1, <1>1, <1>6, Types, Frame
<1> QED
  BY <1>2, <1>3, <1>4, <1>5, <1>6 DEF Inv

LEMMA RefuseInputStep ==
  ASSUME Contiguous, Inv, NEW c \in Clients, RefuseInput(c)
  PROVE  Inv'
<1>1. /\ TypeOK /\ Transaction(c) /\ Progress(c)
      /\ pc[c] \in PCs /\ call[c] \in Calls \cup {None} /\ head \in -1..MaxSeq
      /\ call[c] # None => call[c] \in Calls /\ call[c].seq \in -1..MaxSeq
      /\ read[c] # None => read[c] \in Reads /\ read[c].head \in -1..MaxSeq
      /\ None \notin Clients
  BY Types DEF Inv
<1>2. call[c] # None /\ \E x \in {"error", "invariant"} : call' = [call EXCEPT ![c].answer = x]
  BY <1>1 DEF RefuseInput, Progress, At, Refuse, Reading
<1>3. /\ call' \in [Clients -> {None} \cup Calls]
      /\ call'[c] # None /\ call'[c].answer \in {"error", "invariant"}
      /\ call'[c].seq = call[c].seq /\ call'[c].expected = call[c].expected
      /\ \A d \in Clients : d # c => call'[d] = call[d]
  BY <1>1, <1>2, Answering DEF Answers
<1>4. TypeOK'
  BY <1>1, <1>2, <1>3, StoreAssumption, SMTT(20) DEF RefuseInput, TypeOK, disk, conn, At,
     Refuse, Event, NoTransaction, PCs, Progress, Transaction, Entries, Reads, Between,
     Reading
<1>5. HeadIsLast'
  BY <1>1, <1>2, <1>3, StoreAssumption DEF Inv, HeadIsLast, RefuseInput, disk
<1>6. Transaction(c)'
  BY <1>1, <1>2, <1>3, StoreAssumption, SMTT(20) DEF RefuseInput, TypeOK, disk, conn, At,
     Refuse, Event, NoTransaction, PCs, Progress, Transaction, InTransaction, Accepted,
     Conflicts, Follows
<1>7. Progress(c)'
  BY <1>1, <1>2, <1>3, NoneAssumption, StoreAssumption, SMTT(20) DEF At, Refuse, PCs,
     Progress, Reading, ValidInput, Reads, RefuseInput, TypeOK, conn
<1>8. ASSUME NEW d \in Clients, d # c PROVE Transaction(d)' /\ Progress(d)'
  <2>1. /\ pc'[d] = pc[d] /\ call'[d] = call[d] /\ read'[d] = read[d] /\ told'[d] = told[d]
        /\ head' \in Int
        /\ \/ UNCHANGED <<rows, head, dirty, lock>>
           \/ pc[d] \notin InTransaction /\ head <= head'
    BY <1>1, <1>2, <1>3, <1>4, <1>8 DEF conn, At, Refuse, Transaction, InTransaction,
       RefuseInput, disk
  <2> QED
    BY <2>1, <1>1, <1>8, Types, Frame
<1> QED
  BY <1>4, <1>5, <1>6, <1>7, <1>8 DEF Inv

LEMMA BeginImmediateStep ==
  ASSUME Contiguous, Inv, NEW c \in Clients, BeginImmediate(c)
  PROVE  Inv'
<1>1. /\ TypeOK /\ Transaction(c) /\ Progress(c)
      /\ pc[c] \in PCs /\ call[c] \in Calls \cup {None} /\ head \in -1..MaxSeq
      /\ call[c] # None => call[c] \in Calls /\ call[c].seq \in -1..MaxSeq
      /\ read[c] # None => read[c] \in Reads /\ read[c].head \in -1..MaxSeq
      /\ None \notin Clients
  BY Types DEF Inv
<1>2. TypeOK'
  BY <1>1, StoreAssumption, SMTT(20) DEF BeginImmediate, TypeOK, disk, conn, At, Refuse,
     Event, NoTransaction, PCs, Progress, Transaction, Entries, Reads, Between, Reading
<1>3. HeadIsLast'
  BY <1>1, StoreAssumption DEF Inv, HeadIsLast, BeginImmediate, disk
<1>4. Transaction(c)'
  BY <1>1, StoreAssumption, SMTT(20) DEF BeginImmediate, TypeOK, disk, conn, At, Refuse,
     Event, NoTransaction, PCs, Progress, Transaction, InTransaction, Accepted, Conflicts,
     Follows
<1>5. Progress(c)'
  BY <1>1, NoneAssumption, StoreAssumption, SMTT(20) DEF At, Refuse, PCs, Progress, Reading,
     ValidInput, Reads, BeginImmediate, conn
<1>6. ASSUME NEW d \in Clients, d # c PROVE Transaction(d)' /\ Progress(d)'
  <2>1. /\ pc'[d] = pc[d] /\ call'[d] = call[d] /\ read'[d] = read[d] /\ told'[d] = told[d]
        /\ head' \in Int
        /\ \/ UNCHANGED <<rows, head, dirty, lock>>
           \/ pc[d] \notin InTransaction /\ head <= head'
    BY <1>1, <1>2, <1>6 DEF conn, At, Refuse, Transaction, InTransaction, Inv,
       BeginImmediate, disk
  <2> QED
    BY <2>1, <1>1, <1>6, Types, Frame
<1> QED
  BY <1>2, <1>3, <1>4, <1>5, <1>6 DEF Inv

LEMMA SelectHeadStep ==
  ASSUME Contiguous, Inv, NEW c \in Clients, SelectHead(c)
  PROVE  Inv'
<1>1. /\ TypeOK /\ Transaction(c) /\ Progress(c)
      /\ pc[c] \in PCs /\ call[c] \in Calls \cup {None} /\ head \in -1..MaxSeq
      /\ call[c] # None => call[c] \in Calls /\ call[c].seq \in -1..MaxSeq
      /\ read[c] # None => read[c] \in Reads /\ read[c].head \in -1..MaxSeq
      /\ None \notin Clients
  BY Types DEF Inv
<1>2. call[c] # None
  BY <1>1 DEF SelectHead, Progress, Reading
<1>3. /\ call' \in [Clients -> {None} \cup Calls]
      /\ call'[c] # None /\ call'[c].seq = call[c].seq /\ call'[c].expected = call[c].expected
      /\ \A d \in Clients : d # c => call'[d] = call[d]
      /\ \/ pc' = [pc EXCEPT ![c] = "rollback"]
         \/ pc' = [pc EXCEPT ![c] = "insert"] /\ Accepted(c) /\ UNCHANGED call
  <2>1. CASE Refuse(c, "conflict") \/ Refuse(c, "invariant")
    BY <2>1, <1>1, <1>2, Answering DEF Answers, Refuse
  <2>2. CASE Accepted(c) /\ At(c, "select", "insert") /\ UNCHANGED call
    BY <2>2, <1>1, <1>2 DEF TypeOK, At
  <2>3. dirty.head = head
    BY <1>1 DEF SelectHead, Transaction
  <2> QED
    BY <2>1, <2>2, <2>3 DEF SelectHead, Accepted, At
<1>4. TypeOK'
  BY <1>1, <1>2, <1>3, StoreAssumption, SMTT(20) DEF Event, NoTransaction, PCs, Progress,
     Transaction, Entries, Reads, Between, Reading, SelectHead, TypeOK, disk, conn
<1>5. HeadIsLast'
  BY <1>1, <1>2, <1>3, StoreAssumption DEF Inv, HeadIsLast, SelectHead, disk
<1>6. Transaction(c)'
  BY <1>1, <1>2, <1>3, StoreAssumption, SMTT(20) DEF Event, NoTransaction, PCs, Progress,
     Transaction, InTransaction, Accepted, Conflicts, Follows, SelectHead, TypeOK, disk
<1>7. Progress(c)'
  BY <1>1, <1>2, <1>3, NoneAssumption, StoreAssumption, SMTT(20) DEF PCs, Progress, Reading,
     ValidInput, Reads, SelectHead, TypeOK, conn
<1>8. ASSUME NEW d \in Clients, d # c PROVE Transaction(d)' /\ Progress(d)'
  <2>1. /\ pc'[d] = pc[d] /\ call'[d] = call[d] /\ read'[d] = read[d] /\ told'[d] = told[d]
        /\ head' \in Int
        /\ \/ UNCHANGED <<rows, head, dirty, lock>>
           \/ pc[d] \notin InTransaction /\ head <= head'
    BY <1>1, <1>2, <1>3, <1>4, <1>8 DEF conn, Transaction, InTransaction, SelectHead,
       TypeOK, disk
  <2> QED
    BY <2>1, <1>1, <1>8, Types, Frame
<1> QED
  BY <1>4, <1>5, <1>6, <1>7, <1>8 DEF Inv

LEMMA InsertEventStep ==
  ASSUME Contiguous, Inv, NEW c \in Clients, InsertEvent(c)
  PROVE  Inv'
<1>1. /\ TypeOK /\ Transaction(c) /\ Progress(c)
      /\ pc[c] \in PCs /\ call[c] \in Calls \cup {None} /\ head \in -1..MaxSeq
      /\ call[c] # None => call[c] \in Calls /\ call[c].seq \in -1..MaxSeq
      /\ read[c] # None => read[c] \in Reads /\ read[c].head \in -1..MaxSeq
      /\ None \notin Clients
  BY Types DEF Inv
<1>2. call[c] # None
  BY <1>1 DEF InsertEvent, Progress, Reading
<1>3. /\ call' \in [Clients -> {None} \cup Calls]
      /\ call'[c] # None /\ call'[c].seq = call[c].seq /\ call'[c].expected = call[c].expected
      /\ \A d \in Clients : d # c => call'[d] = call[d]
      /\ \/ pc' = [pc EXCEPT ![c] = "rollback"] /\ UNCHANGED dirty
         \/ /\ pc' = [pc EXCEPT ![c] = "upsert"] /\ UNCHANGED call
            /\ dirty' = [dirty EXCEPT !.rows = @ \cup {Event(c)}]
  <2>1. CASE Refuse(c, "error") /\ UNCHANGED dirty
    BY <2>1, <1>1, <1>2, Answering DEF Answers, Refuse
  <2>2. CASE /\ At(c, "insert", "upsert") /\ UNCHANGED call
             /\ dirty' = [dirty EXCEPT !.rows = @ \cup {Event(c)}]
    BY <2>2, <1>1, <1>2 DEF TypeOK, At
  <2> QED
    BY <2>1, <2>2 DEF InsertEvent
<1>4. Event(c) \in Entries
  BY <1>1, <1>2 DEF InsertEvent, Progress, ValidInput, Event, Entries
<1>5. TypeOK'
  BY <1>1, <1>2, <1>3, <1>4, StoreAssumption, SMTT(20) DEF Event, NoTransaction, PCs,
     Progress, Transaction, Entries, Reads, Between, Reading, InsertEvent, TypeOK, disk,
     conn
<1>6. HeadIsLast'
  BY <1>1, <1>2, <1>3, <1>4, StoreAssumption DEF Inv, HeadIsLast, InsertEvent, disk
<1>7. Transaction(c)'
  BY <1>1, <1>2, <1>3, <1>4, StoreAssumption, SMTT(20) DEF Event, NoTransaction, PCs,
     Progress, Transaction, InTransaction, Accepted, Conflicts, Follows, InsertEvent,
     TypeOK, disk
<1>8. Progress(c)'
  BY <1>1, <1>2, <1>3, <1>4, NoneAssumption, StoreAssumption, SMTT(20) DEF PCs, Progress,
     Reading, ValidInput, Reads, InsertEvent, TypeOK, conn
<1>9. ASSUME NEW d \in Clients, d # c PROVE Transaction(d)' /\ Progress(d)'
  <2>1. /\ pc'[d] = pc[d] /\ call'[d] = call[d] /\ read'[d] = read[d] /\ told'[d] = told[d]
        /\ head' \in Int
        /\ \/ UNCHANGED <<rows, head, dirty, lock>>
           \/ pc[d] \notin InTransaction /\ head <= head'
    BY <1>1, <1>2, <1>3, <1>4, <1>5, <1>9 DEF conn, Transaction, InTransaction, Inv,
       InsertEvent, TypeOK, disk
  <2> QED
    BY <2>1, <1>1, <1>9, Types, Frame
<1> QED
  BY <1>5, <1>6, <1>7, <1>8, <1>9 DEF Inv

LEMMA UpsertHeadStep ==
  ASSUME Contiguous, Inv, NEW c \in Clients, UpsertHead(c)
  PROVE  Inv'
<1>1. /\ TypeOK /\ Transaction(c) /\ Progress(c)
      /\ pc[c] \in PCs /\ call[c] \in Calls \cup {None} /\ head \in -1..MaxSeq
      /\ call[c] # None => call[c] \in Calls /\ call[c].seq \in -1..MaxSeq
      /\ read[c] # None => read[c] \in Reads /\ read[c].head \in -1..MaxSeq
      /\ None \notin Clients
  BY Types DEF Inv
<1>2. dirty' = [rows |-> rows \cup {Event(c)}, head |-> call[c].seq]
  BY <1>1 DEF UpsertHead, At, Transaction
<1>3. TypeOK'
  BY <1>1, <1>2, StoreAssumption, SMTT(20) DEF UpsertHead, TypeOK, disk, conn, At, Refuse,
     Event, NoTransaction, PCs, Progress, Transaction, Entries, Reads, Between, Reading
<1>4. HeadIsLast'
  BY <1>1, <1>2, StoreAssumption DEF Inv, HeadIsLast, UpsertHead, disk
<1>5. Transaction(c)'
  BY <1>1, <1>2, StoreAssumption, SMTT(20) DEF UpsertHead, TypeOK, disk, conn, At, Refuse,
     Event, NoTransaction, PCs, Progress, Transaction, InTransaction, Accepted, Conflicts,
     Follows
<1>6. Progress(c)'
  BY <1>1, <1>2, NoneAssumption, StoreAssumption, SMTT(20) DEF At, Refuse, PCs, Progress,
     Reading, ValidInput, Reads, UpsertHead, conn
<1>7. ASSUME NEW d \in Clients, d # c PROVE Transaction(d)' /\ Progress(d)'
  <2>1. /\ pc'[d] = pc[d] /\ call'[d] = call[d] /\ read'[d] = read[d] /\ told'[d] = told[d]
        /\ head' \in Int
        /\ \/ UNCHANGED <<rows, head, dirty, lock>>
           \/ pc[d] \notin InTransaction /\ head <= head'
    BY <1>1, <1>2, <1>3, <1>7 DEF conn, At, Refuse, Transaction, InTransaction, Inv,
       UpsertHead, disk
  <2> QED
    BY <2>1, <1>1, <1>7, Types, Frame
<1> QED
  BY <1>3, <1>4, <1>5, <1>6, <1>7 DEF Inv

LEMMA CommitStep ==
  ASSUME Contiguous, Inv, NEW c \in Clients, Commit(c)
  PROVE  Inv'
<1>1. /\ TypeOK /\ Transaction(c) /\ Progress(c)
      /\ pc[c] \in PCs /\ call[c] \in Calls \cup {None} /\ head \in -1..MaxSeq
      /\ call[c] # None => call[c] \in Calls /\ call[c].seq \in -1..MaxSeq
      /\ read[c] # None => read[c] \in Reads /\ read[c].head \in -1..MaxSeq
      /\ None \notin Clients
  BY Types DEF Inv
<1>2. call[c] # None /\ \E x \in {"ok"} : call' = [call EXCEPT ![c].answer = x]
  BY <1>1 DEF Commit, Progress, At, Refuse, Reading
<1>3. /\ call' \in [Clients -> {None} \cup Calls]
      /\ call'[c] # None /\ call'[c].answer \in {"ok"}
      /\ call'[c].seq = call[c].seq /\ call'[c].expected = call[c].expected
      /\ \A d \in Clients : d # c => call'[d] = call[d]
  BY <1>1, <1>2, Answering DEF Answers
<1>4. /\ rows' = rows \cup {Event(c)} /\ head' = head + 1 /\ call[c].seq = head + 1
      /\ Event(c) \in Entries /\ lock = c
  BY <1>1, <1>2 DEF Accepted, Follows, Progress, ValidInput, Event, Entries, Commit, At,
     Transaction, InTransaction
<1>5. TypeOK'
  BY <1>1, <1>2, <1>3, <1>4, StoreAssumption, SMTT(20) DEF Commit, TypeOK, disk, conn, At,
     Refuse, Event, NoTransaction, PCs, Progress, Transaction, Entries, Reads, Between,
     Reading
<1>6. HeadIsLast'
  <2>1. {e.seq : e \in rows} = 0..head /\ \A e, f \in rows : e.seq = f.seq => e = f
    BY DEF Inv, HeadIsLast
  <2>2. Event(c).seq = head + 1
    BY <1>4 DEF Event
  <2>3. {e.seq : e \in rows'} = {e.seq : e \in rows} \cup {head + 1}
    <3> DEFINE v == Event(c)
    <3>1. rows' = rows \cup {v} /\ v.seq = head + 1
      BY <1>4, <2>2
    <3> HIDE DEF v
    <3> QED
      BY <3>1
  <2>4. (0..head) \cup {head + 1} = 0..(head + 1)
    BY <1>1, StoreAssumption
  <2>5. {e.seq : e \in rows'} = 0..head'
    BY <2>1, <2>3, <2>4, <1>4
  <2>6. \A e \in rows : e.seq \in 0..head
    BY <2>1
  <2>7. \A e \in rows : e.seq # head + 1
    BY <2>6, <1>1, StoreAssumption
  <2>8. \A e, f \in rows' : e.seq = f.seq => e = f
    BY <2>1, <2>2, <2>7, <1>4
  <2> QED
    BY <2>5, <2>8 DEF HeadIsLast
<1>7. Transaction(c)'
  BY <1>1, <1>2, <1>3, <1>4, StoreAssumption, SMTT(20) DEF Commit, TypeOK, disk, conn, At,
     Refuse, Event, NoTransaction, PCs, Progress, Transaction, InTransaction, Accepted,
     Conflicts, Follows
<1>8. Progress(c)'
  BY <1>1, <1>2, <1>3, <1>4, NoneAssumption, StoreAssumption, SMTT(20) DEF At, Refuse, PCs,
     Progress, Reading, ValidInput, Reads, Commit, TypeOK, conn
<1>9. ASSUME NEW d \in Clients, d # c PROVE Transaction(d)' /\ Progress(d)'
  <2>1. /\ pc'[d] = pc[d] /\ call'[d] = call[d] /\ read'[d] = read[d] /\ told'[d] = told[d]
        /\ head' \in Int
        /\ \/ UNCHANGED <<rows, head, dirty, lock>>
           \/ pc[d] \notin InTransaction /\ head <= head'
    BY <1>1, <1>2, <1>3, <1>4, <1>5, <1>9 DEF conn, At, Refuse, Transaction, InTransaction,
       Inv, Commit
  <2> QED
    BY <2>1, <1>1, <1>9, Types, Frame
<1> QED
  BY <1>5, <1>6, <1>7, <1>8, <1>9 DEF Inv

LEMMA StatementFailsStep ==
  ASSUME Contiguous, Inv, NEW c \in Clients, StatementFails(c)
  PROVE  Inv'
<1>1. /\ TypeOK /\ Transaction(c) /\ Progress(c)
      /\ pc[c] \in PCs /\ call[c] \in Calls \cup {None} /\ head \in -1..MaxSeq
      /\ call[c] # None => call[c] \in Calls /\ call[c].seq \in -1..MaxSeq
      /\ read[c] # None => read[c] \in Reads /\ read[c].head \in -1..MaxSeq
      /\ None \notin Clients
  BY Types DEF Inv
<1>2. call[c] # None /\ \E x \in {"error"} : call' = [call EXCEPT ![c].answer = x]
  BY <1>1 DEF StatementFails, Progress, At, Refuse, Reading
<1>3. /\ call' \in [Clients -> {None} \cup Calls]
      /\ call'[c] # None /\ call'[c].answer \in {"error"}
      /\ call'[c].seq = call[c].seq /\ call'[c].expected = call[c].expected
      /\ \A d \in Clients : d # c => call'[d] = call[d]
  BY <1>1, <1>2, Answering DEF Answers
<1>4. TypeOK'
  BY <1>1, <1>2, <1>3, StoreAssumption, SMTT(20) DEF StatementFails, TypeOK, disk, conn, At,
     Refuse, Event, NoTransaction, PCs, Progress, Transaction, Entries, Reads, Between,
     Reading
<1>5. HeadIsLast'
  BY <1>1, <1>2, <1>3, StoreAssumption DEF Inv, HeadIsLast, StatementFails, disk
<1>6. Transaction(c)'
  BY <1>1, <1>2, <1>3, StoreAssumption, SMTT(20) DEF StatementFails, TypeOK, disk, conn, At,
     Refuse, Event, NoTransaction, PCs, Progress, Transaction, InTransaction, Accepted,
     Conflicts, Follows
<1>7. Progress(c)'
  BY <1>1, <1>2, <1>3, NoneAssumption, StoreAssumption, SMTT(20) DEF At, Refuse, PCs,
     Progress, Reading, ValidInput, Reads, StatementFails, TypeOK, conn
<1>8. ASSUME NEW d \in Clients, d # c PROVE Transaction(d)' /\ Progress(d)'
  <2>1. /\ pc'[d] = pc[d] /\ call'[d] = call[d] /\ read'[d] = read[d] /\ told'[d] = told[d]
        /\ head' \in Int
        /\ \/ UNCHANGED <<rows, head, dirty, lock>>
           \/ pc[d] \notin InTransaction /\ head <= head'
    BY <1>1, <1>2, <1>3, <1>4, <1>8 DEF conn, At, Refuse, Transaction, InTransaction,
       StatementFails, disk
  <2> QED
    BY <2>1, <1>1, <1>8, Types, Frame
<1> QED
  BY <1>4, <1>5, <1>6, <1>7, <1>8 DEF Inv

LEMMA RollbackStep ==
  ASSUME Contiguous, Inv, NEW c \in Clients, Rollback(c)
  PROVE  Inv'
<1>1. /\ TypeOK /\ Transaction(c) /\ Progress(c)
      /\ pc[c] \in PCs /\ call[c] \in Calls \cup {None} /\ head \in -1..MaxSeq
      /\ call[c] # None => call[c] \in Calls /\ call[c].seq \in -1..MaxSeq
      /\ read[c] # None => read[c] \in Reads /\ read[c].head \in -1..MaxSeq
      /\ None \notin Clients
  BY Types DEF Inv
<1>2. TypeOK'
  BY <1>1, StoreAssumption, SMTT(20) DEF Rollback, TypeOK, disk, conn, At, Refuse, Event,
     NoTransaction, PCs, Progress, Transaction, Entries, Reads, Between, Reading
<1>3. HeadIsLast'
  BY <1>1, StoreAssumption DEF Inv, HeadIsLast, Rollback, disk
<1>4. Transaction(c)'
  BY <1>1, StoreAssumption, SMTT(20) DEF Rollback, TypeOK, disk, conn, At, Refuse, Event,
     NoTransaction, PCs, Progress, Transaction, InTransaction, Accepted, Conflicts, Follows
<1>5. Progress(c)'
  BY <1>1, NoneAssumption, StoreAssumption, SMTT(20) DEF At, Refuse, PCs, Progress, Reading,
     ValidInput, Reads, Rollback, conn
<1>6. ASSUME NEW d \in Clients, d # c PROVE Transaction(d)' /\ Progress(d)'
  <2>1. /\ pc'[d] = pc[d] /\ call'[d] = call[d] /\ read'[d] = read[d] /\ told'[d] = told[d]
        /\ head' \in Int
        /\ \/ UNCHANGED <<rows, head, dirty, lock>>
           \/ pc[d] \notin InTransaction /\ head <= head'
    BY <1>1, <1>2, <1>6 DEF conn, At, Refuse, Transaction, InTransaction, Inv, Rollback, disk
  <2> QED
    BY <2>1, <1>1, <1>6, Types, Frame
<1> QED
  BY <1>2, <1>3, <1>4, <1>5, <1>6 DEF Inv

LEMMA NotifyStep ==
  ASSUME Contiguous, Inv, NEW c \in Clients, Notify(c)
  PROVE  Inv'
<1>1. /\ TypeOK /\ Transaction(c) /\ Progress(c)
      /\ pc[c] \in PCs /\ call[c] \in Calls \cup {None} /\ head \in -1..MaxSeq
      /\ call[c] # None => call[c] \in Calls /\ call[c].seq \in -1..MaxSeq
      /\ read[c] # None => read[c] \in Reads /\ read[c].head \in -1..MaxSeq
      /\ None \notin Clients
  BY Types DEF Inv
<1>2. Event(c) \in Entries
  BY <1>1 DEF Notify, At, Progress, Reading, ValidInput, Event, Entries
<1>3. TypeOK'
  BY <1>1, <1>2, StoreAssumption, SMTT(20) DEF Notify, TypeOK, disk, conn, At, Refuse,
     Event, NoTransaction, PCs, Progress, Transaction, Entries, Reads, Between, Reading
<1>4. HeadIsLast'
  BY <1>1, <1>2, StoreAssumption DEF Inv, HeadIsLast, Notify, disk
<1>5. Transaction(c)'
  BY <1>1, <1>2, StoreAssumption, SMTT(20) DEF Notify, TypeOK, disk, conn, At, Refuse,
     Event, NoTransaction, PCs, Progress, Transaction, InTransaction, Accepted, Conflicts,
     Follows
<1>6. Progress(c)'
  BY <1>1, <1>2, NoneAssumption, StoreAssumption, SMTT(20) DEF At, Refuse, PCs, Progress,
     Reading, ValidInput, Reads, Notify
<1>7. ASSUME NEW d \in Clients, d # c PROVE Transaction(d)' /\ Progress(d)'
  <2>1. /\ pc'[d] = pc[d] /\ call'[d] = call[d] /\ read'[d] = read[d] /\ told'[d] = told[d]
        /\ head' \in Int
        /\ \/ UNCHANGED <<rows, head, dirty, lock>>
           \/ pc[d] \notin InTransaction /\ head <= head'
    BY <1>1, <1>2, <1>3, <1>7 DEF conn, At, Refuse, Transaction, InTransaction, Notify, disk
  <2> QED
    BY <2>1, <1>1, <1>7, Types, Frame
<1> QED
  BY <1>3, <1>4, <1>5, <1>6, <1>7 DEF Inv

LEMMA ReturnStep ==
  ASSUME Contiguous, Inv, NEW c \in Clients, Return(c)
  PROVE  Inv'
<1>1. /\ TypeOK /\ Transaction(c) /\ Progress(c)
      /\ pc[c] \in PCs /\ call[c] \in Calls \cup {None} /\ head \in -1..MaxSeq
      /\ call[c] # None => call[c] \in Calls /\ call[c].seq \in -1..MaxSeq
      /\ read[c] # None => read[c] \in Reads /\ read[c].head \in -1..MaxSeq
      /\ None \notin Clients
  BY Types DEF Inv
<1>2. TypeOK'
  BY <1>1, StoreAssumption, SMTT(20) DEF Return, TypeOK, disk, conn, At, Refuse, Event,
     NoTransaction, PCs, Progress, Transaction, Entries, Reads, Between, Reading
<1>3. HeadIsLast'
  BY <1>1, StoreAssumption DEF Inv, HeadIsLast, Return, disk
<1>4. Transaction(c)'
  BY <1>1, StoreAssumption, SMTT(20) DEF Return, TypeOK, disk, conn, At, Refuse, Event,
     NoTransaction, PCs, Progress, Transaction, InTransaction, Accepted, Conflicts, Follows
<1>5. Progress(c)'
  BY <1>1, NoneAssumption, StoreAssumption, SMTT(20) DEF At, Refuse, PCs, Progress, Reading,
     ValidInput, Reads, Return, TypeOK
<1>6. ASSUME NEW d \in Clients, d # c PROVE Transaction(d)' /\ Progress(d)'
  <2>1. /\ pc'[d] = pc[d] /\ call'[d] = call[d] /\ read'[d] = read[d] /\ told'[d] = told[d]
        /\ head' \in Int
        /\ \/ UNCHANGED <<rows, head, dirty, lock>>
           \/ pc[d] \notin InTransaction /\ head <= head'
    BY <1>1, <1>2, <1>6 DEF conn, At, Refuse, Transaction, InTransaction, Return, disk
  <2> QED
    BY <2>1, <1>1, <1>6, Types, Frame
<1> QED
  BY <1>2, <1>3, <1>4, <1>5, <1>6 DEF Inv

LEMMA ReadHeadStep ==
  ASSUME Contiguous, Inv, NEW c \in Clients, NEW from \in 0..MaxSeq, ReadHead(c, from)
  PROVE  Inv'
<1>1. /\ TypeOK /\ Transaction(c) /\ Progress(c)
      /\ pc[c] \in PCs /\ call[c] \in Calls \cup {None} /\ head \in -1..MaxSeq
      /\ call[c] # None => call[c] \in Calls /\ call[c].seq \in -1..MaxSeq
      /\ read[c] # None => read[c] \in Reads /\ read[c].head \in -1..MaxSeq
      /\ None \notin Clients
  BY Types DEF Inv
<1>2. TypeOK'
  BY <1>1, StoreAssumption, SMTT(20) DEF ReadHead, TypeOK, disk, conn, At, Refuse, Event,
     NoTransaction, PCs, Progress, Transaction, Entries, Reads, Between, Reading
<1>3. HeadIsLast'
  BY <1>1, StoreAssumption DEF Inv, HeadIsLast, ReadHead, disk
<1>4. Transaction(c)'
  BY <1>1, StoreAssumption, SMTT(20) DEF ReadHead, TypeOK, disk, conn, At, Refuse, Event,
     NoTransaction, PCs, Progress, Transaction, InTransaction, Accepted, Conflicts, Follows
<1>5. Progress(c)'
  BY <1>1, NoneAssumption, StoreAssumption, SMTT(20) DEF At, Refuse, PCs, Progress, Reading,
     ValidInput, Reads, ReadHead, TypeOK, disk
<1>6. ASSUME NEW d \in Clients, d # c PROVE Transaction(d)' /\ Progress(d)'
  <2>1. /\ pc'[d] = pc[d] /\ call'[d] = call[d] /\ read'[d] = read[d] /\ told'[d] = told[d]
        /\ head' \in Int
        /\ \/ UNCHANGED <<rows, head, dirty, lock>>
           \/ pc[d] \notin InTransaction /\ head <= head'
    BY <1>1, <1>2, <1>6 DEF conn, At, Refuse, Transaction, InTransaction, ReadHead, disk
  <2> QED
    BY <2>1, <1>1, <1>6, Types, Frame
<1> QED
  BY <1>2, <1>3, <1>4, <1>5, <1>6 DEF Inv

LEMMA ReadRowsStep ==
  ASSUME Contiguous, Inv, NEW c \in Clients, ReadRows(c)
  PROVE  Inv'
<1>1. /\ TypeOK /\ Transaction(c) /\ Progress(c)
      /\ pc[c] \in PCs /\ call[c] \in Calls \cup {None} /\ head \in -1..MaxSeq
      /\ call[c] # None => call[c] \in Calls /\ call[c].seq \in -1..MaxSeq
      /\ read[c] # None => read[c] \in Reads /\ read[c].head \in -1..MaxSeq
      /\ None \notin Clients
  BY Types DEF Inv
<1>2. /\ read' = [read EXCEPT ![c] = [from |-> read[c].from, head |-> read[c].head,
                                      events |-> Between(rows, read[c].from, read[c].head)]]
      /\ read'[c] \in Reads
  <2> DEFINE X == Between(rows, read[c].from, read[c].head)
  <2>1. read[c] \in Reads /\ X \in SUBSET Entries
    BY <1>1 DEF ReadRows, At, Progress, Reading, TypeOK, Between
  <2>2. read' = [read EXCEPT ![c] = [read[c] EXCEPT !.events = X]]
    BY DEF ReadRows
  <2> HIDE DEF X
  <2>3. [read[c] EXCEPT !.events = X] = [from |-> read[c].from, head |-> read[c].head, events |-> X]
    BY <2>1 DEF Reads
  <2>4. [from |-> read[c].from, head |-> read[c].head, events |-> X] \in Reads
    BY <2>1 DEF Reads
  <2>5. read \in [Clients -> {None} \cup Reads]
    BY <1>1 DEF TypeOK
  <2> QED
    BY <2>2, <2>3, <2>4, <2>5 DEF X
<1>3. TypeOK'
  BY <1>1, <1>2, StoreAssumption, SMTT(20) DEF ReadRows, TypeOK, disk, conn, At, Refuse,
     Event, NoTransaction, PCs, Progress, Transaction, Entries, Reads, Between, Reading
<1>4. HeadIsLast'
  BY <1>1, <1>2, StoreAssumption DEF Inv, HeadIsLast, ReadRows, disk
<1>5. Transaction(c)'
  BY <1>1, <1>2, StoreAssumption, SMTT(20) DEF ReadRows, TypeOK, disk, conn, At, Refuse,
     Event, NoTransaction, PCs, Progress, Transaction, InTransaction, Accepted, Conflicts,
     Follows
<1>6. Progress(c)'
  BY <1>1, <1>2, NoneAssumption, StoreAssumption, SMTT(20) DEF At, Refuse, PCs, Progress,
     Reading, ValidInput, Reads, ReadRows, disk
<1>7. ASSUME NEW d \in Clients, d # c PROVE Transaction(d)' /\ Progress(d)'
  <2>1. /\ pc'[d] = pc[d] /\ call'[d] = call[d] /\ read'[d] = read[d] /\ told'[d] = told[d]
        /\ head' \in Int
        /\ \/ UNCHANGED <<rows, head, dirty, lock>>
           \/ pc[d] \notin InTransaction /\ head <= head'
    BY <1>1, <1>2, <1>3, <1>7 DEF conn, At, Refuse, Transaction, InTransaction, ReadRows, disk
  <2> QED
    BY <2>1, <1>1, <1>7, Types, Frame
<1> QED
  BY <1>3, <1>4, <1>5, <1>6, <1>7 DEF Inv

LEMMA ConsumedStep ==
  ASSUME Contiguous, Inv, NEW c \in Clients, Consumed(c)
  PROVE  Inv'
<1>1. /\ TypeOK /\ Transaction(c) /\ Progress(c)
      /\ pc[c] \in PCs /\ call[c] \in Calls \cup {None} /\ head \in -1..MaxSeq
      /\ call[c] # None => call[c] \in Calls /\ call[c].seq \in -1..MaxSeq
      /\ read[c] # None => read[c] \in Reads /\ read[c].head \in -1..MaxSeq
      /\ None \notin Clients
  BY Types DEF Inv
<1>2. TypeOK'
  BY <1>1, StoreAssumption, SMTT(20) DEF Consumed, TypeOK, disk, conn, At, Refuse, Event,
     NoTransaction, PCs, Progress, Transaction, Entries, Reads, Between, Reading
<1>3. HeadIsLast'
  BY <1>1, StoreAssumption DEF Inv, HeadIsLast, Consumed, disk
<1>4. Transaction(c)'
  BY <1>1, StoreAssumption, SMTT(20) DEF Consumed, TypeOK, disk, conn, At, Refuse, Event,
     NoTransaction, PCs, Progress, Transaction, InTransaction, Accepted, Conflicts, Follows
<1>5. Progress(c)'
  BY <1>1, NoneAssumption, StoreAssumption, SMTT(20) DEF At, Refuse, PCs, Progress, Reading,
     ValidInput, Reads, Consumed, TypeOK
<1>6. ASSUME NEW d \in Clients, d # c PROVE Transaction(d)' /\ Progress(d)'
  <2>1. /\ pc'[d] = pc[d] /\ call'[d] = call[d] /\ read'[d] = read[d] /\ told'[d] = told[d]
        /\ head' \in Int
        /\ \/ UNCHANGED <<rows, head, dirty, lock>>
           \/ pc[d] \notin InTransaction /\ head <= head'
    BY <1>1, <1>2, <1>6 DEF conn, At, Refuse, Transaction, InTransaction, Consumed, disk
  <2> QED
    BY <2>1, <1>1, <1>6, Types, Frame
<1> QED
  BY <1>2, <1>3, <1>4, <1>5, <1>6 DEF Inv

LEMMA CloseStep ==
  ASSUME Contiguous, Inv, NEW c \in Clients, Close(c)
  PROVE  Inv'
<1>1. /\ TypeOK /\ Transaction(c) /\ Progress(c)
      /\ pc[c] \in PCs /\ call[c] \in Calls \cup {None} /\ head \in -1..MaxSeq
      /\ call[c] # None => call[c] \in Calls /\ call[c].seq \in -1..MaxSeq
      /\ read[c] # None => read[c] \in Reads /\ read[c].head \in -1..MaxSeq
      /\ None \notin Clients
  BY Types DEF Inv
<1>2. TypeOK'
  BY <1>1, StoreAssumption, SMTT(20) DEF Close, TypeOK, disk, conn, At, Refuse, Event,
     NoTransaction, PCs, Progress, Transaction, Entries, Reads, Between, Reading
<1>3. HeadIsLast'
  BY <1>1, StoreAssumption DEF Inv, HeadIsLast, Close, disk
<1>4. Transaction(c)'
  BY <1>1, StoreAssumption, SMTT(20) DEF Close, TypeOK, disk, conn, At, Refuse, Event,
     NoTransaction, PCs, Progress, Transaction, InTransaction, Accepted, Conflicts, Follows
<1>5. Progress(c)'
  BY <1>1, NoneAssumption, StoreAssumption, SMTT(20) DEF At, Refuse, PCs, Progress, Reading,
     ValidInput, Reads, Close
<1>6. ASSUME NEW d \in Clients, d # c PROVE Transaction(d)' /\ Progress(d)'
  <2>1. /\ pc'[d] = pc[d] /\ call'[d] = call[d] /\ read'[d] = read[d] /\ told'[d] = told[d]
        /\ head' \in Int
        /\ \/ UNCHANGED <<rows, head, dirty, lock>>
           \/ pc[d] \notin InTransaction /\ head <= head'
    BY <1>1, <1>2, <1>6 DEF conn, At, Refuse, Transaction, InTransaction, Close, disk
  <2> QED
    BY <2>1, <1>1, <1>6, Types, Frame
<1> QED
  BY <1>2, <1>3, <1>4, <1>5, <1>6 DEF Inv

LEMMA CrashStep ==
  ASSUME Contiguous, Inv, NEW c \in Clients, Crash(c)
  PROVE  Inv'
<1>1. /\ TypeOK /\ Transaction(c) /\ Progress(c)
      /\ pc[c] \in PCs /\ call[c] \in Calls \cup {None} /\ head \in -1..MaxSeq
      /\ call[c] # None => call[c] \in Calls /\ call[c].seq \in -1..MaxSeq
      /\ read[c] # None => read[c] \in Reads /\ read[c].head \in -1..MaxSeq
      /\ None \notin Clients
  BY Types DEF Inv
<1>2. TypeOK'
  BY <1>1, StoreAssumption, SMTT(20) DEF Crash, TypeOK, disk, conn, At, Refuse, Event,
     NoTransaction, PCs, Progress, Transaction, Entries, Reads, Between, Reading
<1>3. HeadIsLast'
  BY <1>1, StoreAssumption DEF Inv, HeadIsLast, Crash, disk
<1>4. Transaction(c)'
  BY <1>1, StoreAssumption, SMTT(20) DEF Crash, TypeOK, disk, conn, At, Refuse, Event,
     NoTransaction, PCs, Progress, Transaction, InTransaction, Accepted, Conflicts, Follows
<1>5. Progress(c)'
  BY <1>1, NoneAssumption, StoreAssumption, SMTT(20) DEF At, Refuse, PCs, Progress, Reading,
     ValidInput, Reads, Crash, TypeOK
<1>6. ASSUME NEW d \in Clients, d # c PROVE Transaction(d)' /\ Progress(d)'
  <2>1. /\ pc'[d] = pc[d] /\ call'[d] = call[d] /\ read'[d] = read[d] /\ told'[d] = told[d]
        /\ head' \in Int
        /\ \/ UNCHANGED <<rows, head, dirty, lock>>
           \/ pc[d] \notin InTransaction /\ head <= head'
    BY <1>1, <1>2, <1>6 DEF conn, At, Refuse, Transaction, InTransaction, Inv, Crash, disk
  <2> QED
    BY <2>1, <1>1, <1>6, Types, Frame
<1> QED
  BY <1>2, <1>3, <1>4, <1>5, <1>6 DEF Inv

-----------------------------------------------------------------------------
(* The theorems.                                                           *)

(* The invariant holds before anything happens,                            *)
LEMMA InitInv == Init => Inv
<1> SUFFICES ASSUME Init PROVE Inv
  OBVIOUS
<1>1. TypeOK
  BY StoreAssumption DEF Init, TypeOK, NoTransaction, PCs
<1>2. HeadIsLast
  BY DEF Init, HeadIsLast
<1>3. ASSUME NEW c \in Clients PROVE Transaction(c) /\ Progress(c)
  BY <1>3 DEF Init, Transaction, Progress, InTransaction, Reading
<1> QED
  BY <1>1, <1>2, <1>3 DEF Inv

(* and every step keeps it.                                                *)
LEMMA Inductive ==
  ASSUME Contiguous, Inv, [Next]_vars
  PROVE  Inv'
<1>1. CASE UNCHANGED vars
  BY <1>1 DEF Transaction, Progress, Accepted, Conflicts, Follows, Event, ValidInput, vars,
     Inv, TypeOK, HeadIsLast
<1>2. CASE Next
  <2>1. PICK c \in Clients :
          \/ \E r \in Requests : Append(c, r)
          \/ RefuseInput(c) \/ BeginImmediate(c) \/ SelectHead(c) \/ InsertEvent(c)
          \/ UpsertHead(c) \/ Commit(c) \/ StatementFails(c) \/ Rollback(c) \/ Notify(c)
          \/ Return(c) \/ (\E from \in 0..MaxSeq : ReadHead(c, from))
          \/ ReadRows(c) \/ Consumed(c) \/ Close(c) \/ Crash(c)
    BY <1>2 DEF Next
  <2> QED
    BY <2>1, AppendStep, RefuseInputStep, BeginImmediateStep, SelectHeadStep,
       InsertEventStep, UpsertHeadStep, CommitStep, StatementFailsStep, RollbackStep,
       NotifyStep, ReturnStep, ReadHeadStep, ReadRowsStep, ConsumedStep, CloseStep,
       CrashStep
<1> QED
  BY <1>1, <1>2

(* The head row is the number of the last event, and every number up to it *)
(* was written exactly once: after any interleaving of statements of any   *)
(* number of processes, any failed statement and any crash.                *)
THEOREM HeadMatchesRows ==
  ASSUME Contiguous
  PROVE  Spec => [](TypeOK /\ HeadIsLast)
<1>1. Init => Inv
  BY InitInv
<1>2. Inv /\ [Next]_vars => Inv'
  BY Inductive
<1>3. Inv => TypeOK /\ HeadIsLast
  BY DEF Inv
<1> QED
  BY <1>1, <1>2, <1>3, PTL DEF Spec

-----------------------------------------------------------------------------
(* What the log promises, statement by statement: the rows are the log, a  *)
(* read has happened with its first SELECT, nothing is written late.       *)
Promise == INSTANCE EventLogContract WITH
  log <- rows, reading <- [c \in Clients |-> Returned(c)], orphans <- {}

(* The helpers of the contract are those of the log.                       *)
LEMMA SameSupport ==
  /\ \A es, from, to : Promise!Between(es, from, to) = Between(es, from, to)
  /\ \A r : Promise!Calling(r) = Calling(r)
  /\ Promise!Requests = Requests
  /\ \A a : Promise!ValidInput(a) <=> ValidInput(a)
  /\ \A a, h : (Promise!Conflicts(a, h) <=> Conflicts(a, h)) /\ (Promise!Follows(a, h) <=> Follows(a, h))
  /\ \A es : Promise!HeadOf(es) = HeadOf(es)
BY DEF Promise!Between, Between, Promise!Calling, Calling, Promise!Requests, Requests,
   Promise!ValidInput, ValidInput, Promise!Conflicts, Conflicts, Promise!Follows, Follows,
   Promise!HeadOf, HeadOf, Promise!Max, Max

(* The head the table keeps is the head of its rows.                       *)
LEMMA HeadOfRows ==
  ASSUME TypeOK, HeadIsLast
  PROVE  HeadOf(rows) = head
<1>1. head \in -1..MaxSeq /\ {e.seq : e \in rows} = 0..head
  BY DEF TypeOK, HeadIsLast
<1>2. CASE rows = {}
  <2>1. 0..head = {}
    BY <1>1, <1>2
  <2> QED
    BY <2>1, <1>1, <1>2, StoreAssumption DEF HeadOf
<1>3. CASE rows # {}
  <2>1. 0..head # {}
    BY <1>1, <1>3
  <2>2. head \in 0..head /\ \A y \in 0..head : head >= y
    BY <2>1, <1>1, StoreAssumption
  <2>3. Max(0..head) = head
    BY <2>2, <1>1, StoreAssumption DEF Max
  <2> QED
    BY <2>3, <1>1, <1>3 DEF HeadOf
<1> QED
  BY <1>2, <1>3

(* What a reader is to get does not change while others write.             *)
LEMMA ReadersKeep ==
  ASSUME Inv, NEW c \in Clients, pc'[c] = pc[c], read'[c] = read[c],
         UNCHANGED rows \/ \E v \in Entries : v.seq = head + 1 /\ rows' = rows \cup {v}
  PROVE  Returned(c)' = Returned(c)
<1>1. CASE UNCHANGED rows
  BY <1>1 DEF Returned, Between
<1>2. ASSUME NEW v \in Entries, v.seq = head + 1, rows' = rows \cup {v} PROVE Returned(c)' = Returned(c)
  <2>1. CASE pc[c] # "rows" \/ read[c] = None
    BY <2>1, <1>2 DEF Returned
  <2>2. CASE pc[c] = "rows" /\ read[c] # None
    <3>1. read[c].head \in Int /\ read[c].head <= head /\ head \in Int
      BY <2>2, Types, StoreAssumption DEF Inv, Progress
    <3>2. ~(v.seq <= read[c].head)
      BY <3>1, <1>2
    <3>3. Between(rows', read[c].from, read[c].head) = Between(rows, read[c].from, read[c].head)
      BY <3>2, <1>2 DEF Between
    <3> QED
      BY <3>3, <2>2 DEF Returned
  <2> QED
    BY <2>1, <2>2
<1> QED
  BY <1>1, <1>2

(* A step of c that neither reads nor ends a read.                         *)
LEMMA NobodyReads ==
  ASSUME Inv, NEW c \in Clients, UNCHANGED read, pc' \in [Clients -> PCs],
         \A d \in Clients : d # c => pc'[d] = pc[d],
         pc[c] # "rows" /\ pc'[c] # "rows",
         UNCHANGED rows \/ \E v \in Entries : v.seq = head + 1 /\ rows' = rows \cup {v}
  PROVE  UNCHANGED [d \in Clients |-> Returned(d)]
<1>1. Returned(c)' = Returned(c)
  BY DEF Returned
<1>2. ASSUME NEW d \in Clients, d # c PROVE Returned(d)' = Returned(d)
  BY <1>2, ReadersKeep
<1> QED
  BY <1>1, <1>2

-----------------------------------------------------------------------------
(* Every step of a statement is a step of the promise, or none.            *)
LEMMA AppendKeeps ==
  ASSUME Contiguous, Inv, TypeOK', NEW c \in Clients, NEW r \in Requests, Append(c, r)
  PROVE  [Promise!ContractNext]_Promise!contractVars
<1>1. /\ TypeOK /\ Transaction(c) /\ Progress(c)
      /\ pc[c] \in PCs /\ call[c] \in Calls \cup {None} /\ head \in -1..MaxSeq
      /\ call[c] # None => call[c] \in Calls /\ call[c].seq \in -1..MaxSeq
      /\ read[c] # None => read[c] \in Reads /\ read[c].head \in -1..MaxSeq
  BY Types DEF Inv
<1>2. UNCHANGED [d \in Clients |-> Returned(d)]
  BY <1>1, NobodyReads DEF Append, TypeOK, disk, conn, At, Refuse
<1>3. Promise!Append(c, r) /\ r \in Promise!Requests
  BY <1>1, <1>2, SameSupport DEF conn, Progress, Reading, Append, Promise!Append, At, disk
<1> QED
  BY <1>1, <1>2, <1>3 DEF Promise!ContractNext

LEMMA RefuseInputKeeps ==
  ASSUME Contiguous, Inv, TypeOK', NEW c \in Clients, RefuseInput(c)
  PROVE  [Promise!ContractNext]_Promise!contractVars
<1>1. /\ TypeOK /\ Transaction(c) /\ Progress(c)
      /\ pc[c] \in PCs /\ call[c] \in Calls \cup {None} /\ head \in -1..MaxSeq
      /\ call[c] # None => call[c] \in Calls /\ call[c].seq \in -1..MaxSeq
      /\ read[c] # None => read[c] \in Reads /\ read[c].head \in -1..MaxSeq
  BY Types DEF Inv
<1>2. UNCHANGED [d \in Clients |-> Returned(d)]
  BY <1>1, NobodyReads DEF RefuseInput, TypeOK, disk, conn, At, Refuse
<1>3. Promise!Fail(c) \/ Promise!Decide(c)
  BY <1>1, <1>2, SameSupport DEF Progress, Reading, Promise!Fail, Promise!Decide,
     Promise!Answer, RefuseInput, At, disk, conn
<1> QED
  BY <1>1, <1>2, <1>3 DEF Promise!ContractNext

LEMMA SelectHeadKeeps ==
  ASSUME Contiguous, Inv, TypeOK', NEW c \in Clients, SelectHead(c)
  PROVE  [Promise!ContractNext]_Promise!contractVars
<1>1. /\ TypeOK /\ Transaction(c) /\ Progress(c)
      /\ pc[c] \in PCs /\ call[c] \in Calls \cup {None} /\ head \in -1..MaxSeq
      /\ call[c] # None => call[c] \in Calls /\ call[c].seq \in -1..MaxSeq
      /\ read[c] # None => read[c] \in Reads /\ read[c].head \in -1..MaxSeq
  BY Types DEF Inv
<1>2. UNCHANGED [d \in Clients |-> Returned(d)]
  BY <1>1, NobodyReads DEF SelectHead, TypeOK, disk, conn, At, Refuse
<1>3. Promise!HeadOf(rows) = head /\ Promise!ValidInput(call[c]) /\ call[c] # None /\ call[c].answer = None
  BY <1>1, HeadOfRows, SameSupport DEF SelectHead, At, Progress, Reading, Inv
<1>4. Promise!Answer(call[c]) = IF Conflicts(call[c], head) THEN "conflict"
                                ELSE IF Follows(call[c], head) THEN "ok" ELSE "invariant"
  BY <1>3, SameSupport DEF Promise!Answer
<1>5. dirty.head = head
  BY <1>1 DEF SelectHead, Transaction
<1>6. UNCHANGED Promise!contractVars \/ Promise!Decide(c)
  <2>1. CASE Conflicts(call[c], head)
    <3>1. Refuse(c, "conflict") /\ UNCHANGED rows /\ UNCHANGED told
      BY <2>1, <1>5 DEF SelectHead, disk, conn
    <3> QED
      BY <3>1, <2>1, <1>2, <1>3, <1>4 DEF Refuse, Promise!Decide
  <2>2. CASE ~Conflicts(call[c], head) /\ ~Follows(call[c], head)
    <3>1. Refuse(c, "invariant") /\ UNCHANGED rows /\ UNCHANGED told
      BY <2>2, <1>5 DEF SelectHead, disk, conn
    <3> QED
      BY <3>1, <2>2, <1>2, <1>3, <1>4 DEF Refuse, Promise!Decide
  <2>3. CASE Accepted(c)
    <3>1. UNCHANGED call /\ UNCHANGED rows /\ UNCHANGED told
      BY <2>3, <1>5 DEF SelectHead, disk, conn, Accepted
    <3> QED
      BY <3>1, <1>2 DEF Promise!contractVars
  <2> QED
    BY <2>1, <2>2, <2>3 DEF Accepted
<1> QED
  BY <1>1, <1>2, <1>6 DEF Promise!ContractNext

LEMMA BeginImmediateKeeps ==
  ASSUME Contiguous, Inv, TypeOK', NEW c \in Clients, BeginImmediate(c)
  PROVE  [Promise!ContractNext]_Promise!contractVars
<1>1. /\ TypeOK /\ Transaction(c) /\ Progress(c)
      /\ pc[c] \in PCs /\ call[c] \in Calls \cup {None} /\ head \in -1..MaxSeq
      /\ call[c] # None => call[c] \in Calls /\ call[c].seq \in -1..MaxSeq
      /\ read[c] # None => read[c] \in Reads /\ read[c].head \in -1..MaxSeq
  BY Types DEF Inv
<1>2. UNCHANGED [d \in Clients |-> Returned(d)]
  BY <1>1, NobodyReads DEF BeginImmediate, TypeOK, disk, conn, At, Refuse
<1>3. UNCHANGED Promise!contractVars
  BY <1>1, <1>2, SameSupport DEF disk, conn, Promise!contractVars, BeginImmediate
<1> QED
  BY <1>1, <1>2, <1>3 DEF Promise!ContractNext

LEMMA UpsertHeadKeeps ==
  ASSUME Contiguous, Inv, TypeOK', NEW c \in Clients, UpsertHead(c)
  PROVE  [Promise!ContractNext]_Promise!contractVars
<1>1. /\ TypeOK /\ Transaction(c) /\ Progress(c)
      /\ pc[c] \in PCs /\ call[c] \in Calls \cup {None} /\ head \in -1..MaxSeq
      /\ call[c] # None => call[c] \in Calls /\ call[c].seq \in -1..MaxSeq
      /\ read[c] # None => read[c] \in Reads /\ read[c].head \in -1..MaxSeq
  BY Types DEF Inv
<1>2. UNCHANGED [d \in Clients |-> Returned(d)]
  BY <1>1, NobodyReads DEF UpsertHead, TypeOK, disk, conn, At, Refuse
<1>3. UNCHANGED Promise!contractVars
  BY <1>1, <1>2, SameSupport DEF UpsertHead, At, disk, conn, Promise!contractVars
<1> QED
  BY <1>1, <1>2, <1>3 DEF Promise!ContractNext

LEMMA RollbackKeeps ==
  ASSUME Contiguous, Inv, TypeOK', NEW c \in Clients, Rollback(c)
  PROVE  [Promise!ContractNext]_Promise!contractVars
<1>1. /\ TypeOK /\ Transaction(c) /\ Progress(c)
      /\ pc[c] \in PCs /\ call[c] \in Calls \cup {None} /\ head \in -1..MaxSeq
      /\ call[c] # None => call[c] \in Calls /\ call[c].seq \in -1..MaxSeq
      /\ read[c] # None => read[c] \in Reads /\ read[c].head \in -1..MaxSeq
  BY Types DEF Inv
<1>2. UNCHANGED [d \in Clients |-> Returned(d)]
  BY <1>1, NobodyReads DEF Rollback, TypeOK, disk, conn, At, Refuse
<1>3. UNCHANGED Promise!contractVars
  BY <1>1, <1>2, SameSupport DEF Rollback, At, disk, conn, Promise!contractVars
<1> QED
  BY <1>1, <1>2, <1>3 DEF Promise!ContractNext

LEMMA CloseKeeps ==
  ASSUME Contiguous, Inv, TypeOK', NEW c \in Clients, Close(c)
  PROVE  [Promise!ContractNext]_Promise!contractVars
<1>1. /\ TypeOK /\ Transaction(c) /\ Progress(c)
      /\ pc[c] \in PCs /\ call[c] \in Calls \cup {None} /\ head \in -1..MaxSeq
      /\ call[c] # None => call[c] \in Calls /\ call[c].seq \in -1..MaxSeq
      /\ read[c] # None => read[c] \in Reads /\ read[c].head \in -1..MaxSeq
  BY Types DEF Inv
<1>2. UNCHANGED [d \in Clients |-> Returned(d)]
  BY <1>1, NobodyReads DEF Close, TypeOK, disk, conn, At, Refuse
<1>3. UNCHANGED Promise!contractVars
  BY <1>1, <1>2, SameSupport DEF Close, At, disk, conn, Promise!contractVars
<1> QED
  BY <1>1, <1>2, <1>3 DEF Promise!ContractNext

LEMMA InsertEventKeeps ==
  ASSUME Contiguous, Inv, TypeOK', NEW c \in Clients, InsertEvent(c)
  PROVE  [Promise!ContractNext]_Promise!contractVars
<1>1. /\ TypeOK /\ Transaction(c) /\ Progress(c)
      /\ pc[c] \in PCs /\ call[c] \in Calls \cup {None} /\ head \in -1..MaxSeq
      /\ call[c] # None => call[c] \in Calls /\ call[c].seq \in -1..MaxSeq
      /\ read[c] # None => read[c] \in Reads /\ read[c].head \in -1..MaxSeq
  BY Types DEF Inv
<1>2. UNCHANGED [d \in Clients |-> Returned(d)]
  BY <1>1, NobodyReads DEF InsertEvent, TypeOK, disk, conn, At, Refuse
<1>3. UNCHANGED Promise!contractVars \/ Promise!Fail(c)
  BY <1>1, <1>2, SameSupport DEF conn, Progress, Reading, Promise!contractVars,
     Promise!Fail, InsertEvent, Refuse, disk
<1> QED
  BY <1>1, <1>2, <1>3 DEF Promise!ContractNext

LEMMA StatementFailsKeeps ==
  ASSUME Contiguous, Inv, TypeOK', NEW c \in Clients, StatementFails(c)
  PROVE  [Promise!ContractNext]_Promise!contractVars
<1>1. /\ TypeOK /\ Transaction(c) /\ Progress(c)
      /\ pc[c] \in PCs /\ call[c] \in Calls \cup {None} /\ head \in -1..MaxSeq
      /\ call[c] # None => call[c] \in Calls /\ call[c].seq \in -1..MaxSeq
      /\ read[c] # None => read[c] \in Reads /\ read[c].head \in -1..MaxSeq
  BY Types DEF Inv
<1>2. UNCHANGED [d \in Clients |-> Returned(d)]
  BY <1>1, NobodyReads DEF StatementFails, TypeOK, disk, conn, At, Refuse
<1>3. UNCHANGED Promise!contractVars \/ Promise!Fail(c)
  BY <1>1, <1>2, SameSupport DEF conn, Progress, Reading, Promise!contractVars,
     Promise!Fail, StatementFails, Refuse, disk
<1> QED
  BY <1>1, <1>2, <1>3 DEF Promise!ContractNext

LEMMA NotifyKeeps ==
  ASSUME Contiguous, Inv, TypeOK', NEW c \in Clients, Notify(c)
  PROVE  [Promise!ContractNext]_Promise!contractVars
<1>1. /\ TypeOK /\ Transaction(c) /\ Progress(c)
      /\ pc[c] \in PCs /\ call[c] \in Calls \cup {None} /\ head \in -1..MaxSeq
      /\ call[c] # None => call[c] \in Calls /\ call[c].seq \in -1..MaxSeq
      /\ read[c] # None => read[c] \in Reads /\ read[c].head \in -1..MaxSeq
  BY Types DEF Inv
<1>2. UNCHANGED [d \in Clients |-> Returned(d)]
  BY <1>1, NobodyReads DEF Notify, TypeOK, disk, conn, At, Refuse
<1>3. Promise!Notify(c)
  BY <1>1, <1>2, SameSupport DEF Progress, Reading, Promise!Notify, Notify, At, disk, Event
<1> QED
  BY <1>1, <1>2, <1>3 DEF Promise!ContractNext

LEMMA ReturnKeeps ==
  ASSUME Contiguous, Inv, TypeOK', NEW c \in Clients, Return(c)
  PROVE  [Promise!ContractNext]_Promise!contractVars
<1>1. /\ TypeOK /\ Transaction(c) /\ Progress(c)
      /\ pc[c] \in PCs /\ call[c] \in Calls \cup {None} /\ head \in -1..MaxSeq
      /\ call[c] # None => call[c] \in Calls /\ call[c].seq \in -1..MaxSeq
      /\ read[c] # None => read[c] \in Reads /\ read[c].head \in -1..MaxSeq
  BY Types DEF Inv
<1>2. UNCHANGED [d \in Clients |-> Returned(d)]
  BY <1>1, NobodyReads DEF Return, TypeOK, disk, conn, At, Refuse
<1>3. Promise!Return(c)
  BY <1>1, <1>2, SameSupport DEF Return, At, disk, Promise!Return
<1> QED
  BY <1>1, <1>2, <1>3 DEF Promise!ContractNext

LEMMA CommitKeeps ==
  ASSUME Contiguous, Inv, TypeOK', NEW c \in Clients, Commit(c)
  PROVE  [Promise!ContractNext]_Promise!contractVars
<1>1. /\ TypeOK /\ Transaction(c) /\ Progress(c)
      /\ pc[c] \in PCs /\ call[c] \in Calls \cup {None} /\ head \in -1..MaxSeq
      /\ call[c] # None => call[c] \in Calls /\ call[c].seq \in -1..MaxSeq
      /\ read[c] # None => read[c] \in Reads /\ read[c].head \in -1..MaxSeq
  BY Types DEF Inv
<1>2. /\ rows' = rows \cup {Event(c)} /\ call' = [call EXCEPT ![c].answer = "ok"]
      /\ call[c].seq = head + 1 /\ Event(c) \in Entries /\ Event(c).seq = head + 1 /\ call[c] # None /\ call[c].answer = None
  BY <1>1 DEF Accepted, Follows, Progress, Reading, ValidInput, Event, Entries, Commit, At,
     Transaction
<1>3. UNCHANGED [d \in Clients |-> Returned(d)]
  BY <1>1, <1>2, NobodyReads DEF Commit, TypeOK, conn, At
<1>4. /\ Promise!HeadOf(rows) = head /\ Promise!ValidInput(call[c])
      /\ ~Promise!Conflicts(call[c], head) /\ Promise!Follows(call[c], head)
  BY <1>1, HeadOfRows, SameSupport DEF Transaction, Accepted, Commit, At, Progress, Inv
<1>5. Promise!Answer(call[c]) = "ok"
  BY <1>4 DEF Promise!Answer
<1>6. Promise!Decide(c)
  BY <1>3, <1>2, <1>5 DEF Commit, conn, Event, Promise!Decide
<1> QED
  BY <1>1, <1>3, <1>6 DEF Promise!ContractNext

LEMMA ReadHeadKeeps ==
  ASSUME Contiguous, Inv, TypeOK', NEW c \in Clients, NEW from \in 0..MaxSeq, ReadHead(c, from)
  PROVE  [Promise!ContractNext]_Promise!contractVars
<1>1. /\ TypeOK /\ Transaction(c) /\ Progress(c)
      /\ pc[c] \in PCs /\ call[c] \in Calls \cup {None} /\ head \in -1..MaxSeq
      /\ call[c] # None => call[c] \in Calls /\ call[c].seq \in -1..MaxSeq
      /\ read[c] # None => read[c] \in Reads /\ read[c].head \in -1..MaxSeq
  BY Types DEF Inv
<1>2. \A d \in Clients : d # c => Returned(d)' = Returned(d)
  BY <1>1, ReadersKeep DEF ReadHead, At, disk, TypeOK
<1>3. Returned(c)' = [from |-> from, events |-> Between(rows, from, head)]
  <2>1. read'[c] = [from |-> from, head |-> head, events |-> {}] /\ pc'[c] = "rows" /\ rows' = rows
    BY <1>1 DEF ReadHead, At, disk, TypeOK
  <2>2. [from |-> from, head |-> head, events |-> {}] \in Reads
    BY <1>1 DEF Reads
  <2> QED
    BY <2>1, <2>2, NoneAssumption DEF Returned
<1>4. Promise!Between(rows, from, Promise!HeadOf(rows)) = Between(rows, from, head)
  BY <1>1, HeadOfRows, SameSupport DEF Inv
<1>5. Promise!Read(c, from)
  BY <1>2, <1>3, <1>4 DEF ReadHead, disk, Promise!Read
<1> QED
  BY <1>5 DEF Promise!ContractNext

LEMMA ReadRowsKeeps ==
  ASSUME Contiguous, Inv, TypeOK', NEW c \in Clients, ReadRows(c)
  PROVE  [Promise!ContractNext]_Promise!contractVars
<1>1. /\ TypeOK /\ Transaction(c) /\ Progress(c)
      /\ pc[c] \in PCs /\ call[c] \in Calls \cup {None} /\ head \in -1..MaxSeq
      /\ call[c] # None => call[c] \in Calls /\ call[c].seq \in -1..MaxSeq
      /\ read[c] # None => read[c] \in Reads /\ read[c].head \in -1..MaxSeq
  BY Types DEF Inv
<1>2. \A d \in Clients : d # c => Returned(d)' = Returned(d)
  BY <1>1, ReadersKeep DEF ReadRows, At, disk, TypeOK
<1>3. Returned(c)' = Returned(c)
  <2> DEFINE X == Between(rows, read[c].from, read[c].head)
  <2>1. pc[c] = "rows" /\ pc'[c] = "snapshot" /\ read[c] \in Reads /\ read[c] # None
    BY <1>1 DEF ReadRows, At, Progress, Reading, TypeOK
  <2>2. read' = [read EXCEPT ![c] = [read[c] EXCEPT !.events = X]]
    BY DEF ReadRows
  <2>3. Returned(c) = [from |-> read[c].from, events |-> X]
    BY <2>1 DEF Returned
  <2>4. X \in SUBSET Entries
    BY <1>1 DEF TypeOK, Between
  <2> HIDE DEF X
  <2>5. [read[c] EXCEPT !.events = X] = [from |-> read[c].from, head |-> read[c].head, events |-> X]
    BY <2>1 DEF Reads
  <2>6. [from |-> read[c].from, head |-> read[c].head, events |-> X] \in Reads
    BY <2>1, <2>4 DEF Reads
  <2>7. read'[c] = [from |-> read[c].from, head |-> read[c].head, events |-> X]
    BY <2>2, <2>5, <1>1 DEF TypeOK
  <2> QED
    BY <2>1, <2>3, <2>6, <2>7, NoneAssumption DEF Returned
<1>4. UNCHANGED Promise!contractVars
  BY <1>2, <1>3 DEF ReadRows, disk, Promise!contractVars
<1> QED
  BY <1>4

LEMMA ConsumedKeeps ==
  ASSUME Contiguous, Inv, TypeOK', NEW c \in Clients, Consumed(c)
  PROVE  [Promise!ContractNext]_Promise!contractVars
<1>1. /\ TypeOK /\ Transaction(c) /\ Progress(c)
      /\ pc[c] \in PCs /\ call[c] \in Calls \cup {None} /\ head \in -1..MaxSeq
      /\ call[c] # None => call[c] \in Calls /\ call[c].seq \in -1..MaxSeq
      /\ read[c] # None => read[c] \in Reads /\ read[c].head \in -1..MaxSeq
  BY Types DEF Inv
<1>2. \A d \in Clients : d # c => Returned(d)' = Returned(d)
  BY <1>1, ReadersKeep DEF Consumed, At, disk, TypeOK
<1>3. Returned(c)' = None
  BY <1>1 DEF Consumed, TypeOK, Returned
<1>4. Promise!ReadReturn(c)
  BY <1>2, <1>3 DEF Consumed, disk, Promise!ReadReturn
<1> QED
  BY <1>4 DEF Promise!ContractNext

LEMMA CrashKeeps ==
  ASSUME Contiguous, Inv, TypeOK', NEW c \in Clients, Crash(c)
  PROVE  [Promise!ContractNext]_Promise!contractVars
<1>1. /\ TypeOK /\ Transaction(c) /\ Progress(c)
      /\ pc[c] \in PCs /\ call[c] \in Calls \cup {None} /\ head \in -1..MaxSeq
      /\ call[c] # None => call[c] \in Calls /\ call[c].seq \in -1..MaxSeq
      /\ read[c] # None => read[c] \in Reads /\ read[c].head \in -1..MaxSeq
  BY Types DEF Inv
<1>2. \A d \in Clients : d # c => Returned(d)' = Returned(d)
  BY <1>1, ReadersKeep DEF Crash, At, disk, TypeOK
<1>3. Returned(c)' = None
  BY <1>1 DEF Crash, TypeOK, Returned
<1>4. UNCHANGED rows /\ call' = [call EXCEPT ![c] = None] /\ told' = [told EXCEPT ![c] = None]
  BY DEF Crash, disk
<1>5. CASE pc[c] \in Reading
  <2>1. call[c] = None /\ told[c] = None
    BY <1>1, <1>5 DEF Progress
  <2>2. UNCHANGED call /\ UNCHANGED told
    BY <2>1, <1>1, <1>4 DEF TypeOK
  <2>3. Promise!ReadReturn(c)
    BY <2>2, <1>2, <1>3, <1>4 DEF Promise!ReadReturn
  <2> QED
    BY <2>3 DEF Promise!ContractNext
<1>6. CASE pc[c] \notin Reading
  <2>1. Returned(c) = None
    BY <1>1, <1>6 DEF Progress, Returned
  <2>2. Promise!Return(c)
    BY <2>1, <1>2, <1>3, <1>4 DEF Promise!Return
  <2> QED
    BY <2>2 DEF Promise!ContractNext
<1> QED
  BY <1>5, <1>6

(* Every step is one of the contract, or shows nothing of itself.          *)
LEMMA StepKeeps ==
  ASSUME Contiguous, Inv, TypeOK', [Next]_vars
  PROVE  [Promise!ContractNext]_Promise!contractVars
<1>1. CASE UNCHANGED vars
  BY <1>1 DEF vars, Promise!contractVars, Returned, Between
<1>2. CASE Next
  <2>1. PICK c \in Clients :
          \/ \E r \in Requests : Append(c, r)
          \/ RefuseInput(c) \/ BeginImmediate(c) \/ SelectHead(c) \/ InsertEvent(c)
          \/ UpsertHead(c) \/ Commit(c) \/ StatementFails(c) \/ Rollback(c) \/ Notify(c)
          \/ Return(c) \/ (\E from \in 0..MaxSeq : ReadHead(c, from))
          \/ ReadRows(c) \/ Consumed(c) \/ Close(c) \/ Crash(c)
    BY <1>2 DEF Next
  <2> QED
    BY <2>1, AppendKeeps, RefuseInputKeeps, BeginImmediateKeeps, SelectHeadKeeps,
       InsertEventKeeps, UpsertHeadKeeps, CommitKeeps, StatementFailsKeeps, RollbackKeeps,
       NotifyKeeps, ReturnKeeps, ReadHeadKeeps, ReadRowsKeeps, ConsumedKeeps, CloseKeeps,
       CrashKeeps
<1> QED
  BY <1>1, <1>2

LEMMA InitKeeps == Init => Promise!ContractInit
BY DEF Init, Promise!ContractInit, Returned

(* Whatever its processes do, the SQLite log is an EventLog: append        *)
(* compares and writes in one step although other processes' statements    *)
(* fall between its own, a read is one snapshot although it is two SELECTs, *)
(* subscribers hear of committed events only, and a crash or a failed      *)
(* statement leaves all of an append or nothing.                           *)
THEOREM KeepsContract ==
  ASSUME Contiguous
  PROVE  Spec => Promise!Contract
<1>1. Init => Inv
  BY InitInv
<1>2. Inv /\ [Next]_vars => Inv'
  BY Inductive
<1>3. Init => Promise!ContractInit
  BY InitKeeps
<1>4. Inv /\ Inv' /\ [Next]_vars => [Promise!ContractNext]_Promise!contractVars
  BY StepKeeps DEF Inv
<1> QED
  BY <1>1, <1>2, <1>3, <1>4, PTL DEF Spec, Promise!Contract
=============================================================================
