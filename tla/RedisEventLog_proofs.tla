------------------------ MODULE RedisEventLog_proofs -------------------------
(***************************************************************************)
(* Proofs about the Redis event log, for any number of processes, lost     *)
(* connections, late commands and crashes.                                 *)
(***************************************************************************)
EXTENDS RedisEventLog, TLAPS

PCs == {"idle", "sent", "refuse", "reply", "notify", "done", "head", "range", "snapshot"}
Reading == {"head", "range", "snapshot"}
LateCalls == [call : Calls, by : Clients]

TypeOK ==
  /\ events \subseteq Entries /\ head \in -1..MaxSeq
  /\ late \subseteq LateCalls
  /\ pc \in [Clients -> PCs] /\ call \in [Clients -> {None} \cup Calls]
  /\ read \in [Clients -> {None} \cup Reads]
  /\ told \in [Clients -> {None} \cup Entries] /\ closed \subseteq Clients

(* What a client is in the middle of, as what it awaits tells.             *)
Progress(c) ==
  /\ pc[c] \in Reading \cup {"idle"} <=> call[c] = None
  /\ pc[c] \in Reading <=> read[c] # None
  /\ call[c] = None => told[c] = None
  /\ pc[c] \in {"sent", "refuse"} => call[c].answer = None
  /\ pc[c] \in {"sent", "reply", "notify"} => ValidInput(call[c])
  /\ pc[c] = "refuse" => c \in closed \/ ~ValidInput(call[c])
  /\ pc[c] = "notify" => call[c].answer = "ok"
  /\ pc[c] = "head" => read[c].events = {}
  /\ pc[c] = "range" => read[c].head <= head

(* A command the server may still run passed the input assertions, and     *)
(* nobody has been told of it.                                             *)
LateIsValid == \A o \in late : o.call.answer = None /\ ValidInput(o.call)

Inv == TypeOK /\ HeadIsLast /\ LateIsValid /\ \A c \in Clients : Progress(c)

-----------------------------------------------------------------------------
(* Types and frames.                                                       *)

(* A call just made is one, and not answered.                              *)
LEMMA CallingType ==
  ASSUME NEW r \in Requests
  PROVE  Calling(r) \in Calls /\ Calling(r) # None /\ Calling(r).answer = None
<1>1. r.seq \in -1..MaxSeq /\ r.expected \in Expected
  BY StoreAssumption DEF Requests, Expected
<1> QED
  BY <1>1, NoneAssumption DEF Calling, Calls

(* The types at one client, in numbers.                                    *)
LEMMA Types ==
  ASSUME TypeOK, NEW c \in Clients
  PROVE  /\ pc[c] \in PCs /\ call[c] \in Calls \cup {None} /\ told[c] \in Entries \cup {None}
         /\ read[c] \in Reads \cup {None}
         /\ call[c] # None => call[c] \in Calls /\ call[c].seq \in -1..MaxSeq /\ call[c].seq \in Int
         /\ read[c] # None => read[c] \in Reads /\ read[c].head \in -1..MaxSeq /\ read[c].head \in Int
         /\ head \in -1..MaxSeq /\ head \in Int /\ None \notin Clients
BY StoreAssumption DEF TypeOK, Calls, Reads

(* A step that answers the append of c.                                    *)
LEMMA Answered ==
  ASSUME TypeOK, NEW c \in Clients, call[c] # None, NEW x \in Answers, NEW to \in PCs,
         Answering(c, x, to)
  PROVE  /\ call' \in [Clients -> {None} \cup Calls] /\ pc' \in [Clients -> PCs]
         /\ call'[c] # None /\ call'[c].answer = x /\ pc'[c] = to
         /\ call'[c].seq = call[c].seq /\ call'[c].expected = call[c].expected
         /\ \A d \in Clients : d # c => call'[d] = call[d] /\ pc'[d] = pc[d]
         /\ call' = [call EXCEPT ![c].answer = x]
<1>1. call[c] \in Calls /\ call \in [Clients -> {None} \cup Calls]
  BY DEF TypeOK
<1>2. call' = [call EXCEPT ![c] = [call[c] EXCEPT !.answer = x]]
  BY DEF Answering
<1>3. /\ [call[c] EXCEPT !.answer = x] \in Calls
      /\ [call[c] EXCEPT !.answer = x].answer = x
      /\ [call[c] EXCEPT !.answer = x].seq = call[c].seq
      /\ [call[c] EXCEPT !.answer = x].expected = call[c].expected
  BY <1>1 DEF Calls
<1>4. [call[c] EXCEPT !.answer = x] # None
  BY <1>3, NoneAssumption
<1>5. call'[c] = [call[c] EXCEPT !.answer = x] /\ \A d \in Clients : d # c => call'[d] = call[d]
  BY <1>1, <1>2
<1>6. pc' \in [Clients -> PCs] /\ pc'[c] = to /\ \A d \in Clients : d # c => pc'[d] = pc[d]
  BY DEF Answering, TypeOK
<1> QED
  BY <1>1, <1>2, <1>3, <1>4, <1>5, <1>6

(* A step of c that leaves the server alone: what holds of the others      *)
(* stays, and so do the tables.                                            *)
LEMMA OwnStep ==
  ASSUME Inv, NEW c \in Clients, UNCHANGED server, Progress(c)', TypeOK',
         \A d \in Clients : d # c =>
           /\ pc'[d] = pc[d] /\ call'[d] = call[d] /\ read'[d] = read[d] /\ told'[d] = told[d]
           /\ d \in closed' <=> d \in closed
  PROVE  Inv'
<1>1. HeadIsLast'
  BY DEF Inv, HeadIsLast, server
<1>2. LateIsValid'
  BY DEF Inv, LateIsValid, server, ValidInput
<1>3. ASSUME NEW d \in Clients, d # c PROVE Progress(d)'
  BY <1>3 DEF Inv, Progress, server, ValidInput
<1> QED
  BY <1>1, <1>2, <1>3 DEF Inv

-----------------------------------------------------------------------------
(* Each action keeps the invariant.                                        *)
LEMMA AppendStep ==
  ASSUME Inv, NEW c \in Clients, NEW r \in Requests, Append(c, r)
  PROVE  Inv'
<1>1. TypeOK /\ Progress(c) /\ Calling(r) \in Calls /\ Calling(r) # None /\ Calling(r).answer = None
  BY CallingType DEF Inv
<1>2. /\ pc[c] = "idle" /\ call' = [call EXCEPT ![c] = Calling(r)]
      /\ pc' = [pc EXCEPT ![c] = IF c \notin closed /\ ValidInput(Calling(r)) THEN "sent" ELSE "refuse"]
  BY DEF Append
<1>3. TypeOK'
  BY <1>1, <1>2 DEF Append, TypeOK, PCs, server, conn
<1>4. Progress(c)'
  BY <1>1, <1>2 DEF Append, TypeOK, Progress, Reading, server, conn, ValidInput
<1> QED
  BY <1>1, <1>2, <1>3, <1>4, OwnStep DEF Append, TypeOK, conn

LEMMA RefuseStep ==
  ASSUME Inv, NEW c \in Clients, Refuse(c)
  PROVE  Inv'
<1>1. TypeOK /\ Progress(c) /\ call[c] # None /\ pc[c] = "refuse"
  BY DEF Inv, Progress, Reading, Refuse
<1>2. PICK x \in Answers : Answering(c, x, "done")
  BY DEF Refuse, Answers
<1>3. /\ call' \in [Clients -> {None} \cup Calls] /\ pc' \in [Clients -> PCs]
      /\ call'[c] # None /\ pc'[c] = "done"
      /\ \A d \in Clients : d # c => call'[d] = call[d] /\ pc'[d] = pc[d]
  BY <1>1, <1>2, Answered DEF PCs
<1>4. TypeOK'
  BY <1>1, <1>3 DEF Refuse, TypeOK, server, conn
<1>5. Progress(c)'
  BY <1>1, <1>3 DEF Refuse, Progress, Reading, server, conn
<1> QED
  BY <1>3, <1>4, <1>5, OwnStep DEF Refuse, conn

(* What the script does to the tables.                                     *)
LEMMA ScriptKeepsTables ==
  ASSUME TypeOK, HeadIsLast, NEW a \in Calls, ValidInput(a), NEW by \in Clients, AppendScript(a, by)
  PROVE  /\ events' \subseteq Entries /\ head' \in -1..MaxSeq /\ HeadIsLast' /\ head <= head'
         /\ Status(a) \in Answers
         /\ \/ Status(a) # "ok" /\ UNCHANGED <<events, head>>
            \/ /\ Status(a) = "ok" /\ a.seq = head + 1 /\ head' = a.seq
               /\ events' = events \cup {[seq |-> a.seq, by |-> by]} /\ [seq |-> a.seq, by |-> by] \in Entries
<1>1. a.seq \in 0..MaxSeq /\ head \in -1..MaxSeq /\ head \in Int /\ MaxSeq \in Nat
  BY StoreAssumption DEF TypeOK, Calls, ValidInput
<1>2. CASE Status(a) # "ok"
  BY <1>1, <1>2 DEF AppendScript, HeadIsLast, TypeOK, Status, Answers
<1>3. CASE Status(a) = "ok"
  <2>1. a.seq = head + 1 /\ head' = a.seq /\ events' = events \cup {[seq |-> a.seq, by |-> by]}
    BY <1>3 DEF AppendScript, Status
  <2>2. [seq |-> a.seq, by |-> by] \in Entries
    BY <1>1 DEF Entries
  <2>3. {e.seq : e \in events'} = 0..head'
    <3>1. {e.seq : e \in events'} = {e.seq : e \in events} \cup {a.seq}
      <4> DEFINE v == [seq |-> a.seq, by |-> by]
      <4>1. v.seq = a.seq /\ events' = events \cup {v}
        BY <2>1
      <4> HIDE DEF v
      <4> QED
        BY <4>1
    <3>2. 0..head' = 0..head \cup {head + 1}
      BY <2>1, <1>1
    <3> QED
      BY <3>1, <3>2, <2>1 DEF HeadIsLast
  <2>4. ASSUME NEW e \in events', NEW f \in events', e.seq = f.seq PROVE e = f
    <3>1. \A g \in events : g.seq # a.seq
      BY <2>1, <1>1 DEF HeadIsLast
    <3> QED
      BY <3>1, <2>4, <2>1 DEF HeadIsLast
  <2> QED
    BY <2>1, <2>2, <2>3, <2>4, <1>1, <1>3 DEF HeadIsLast, TypeOK, Answers
<1> QED
  BY <1>2, <1>3

LEMMA EvalStep ==
  ASSUME Inv, NEW c \in Clients, Eval(c)
  PROVE  Inv'
<1>1. /\ TypeOK /\ HeadIsLast /\ Progress(c) /\ call[c] # None /\ call[c] \in Calls /\ pc[c] = "sent"
      /\ ValidInput(call[c])
  BY Types DEF Inv, Progress, Reading, Eval
<1>2. /\ events' \subseteq Entries /\ head' \in -1..MaxSeq /\ HeadIsLast' /\ head <= head'
      /\ Status(call[c]) \in Answers
  BY <1>1, ScriptKeepsTables DEF Eval
<1>3. /\ call' \in [Clients -> {None} \cup Calls] /\ pc' \in [Clients -> PCs]
      /\ call'[c] # None /\ pc'[c] = "reply"
      /\ \A d \in Clients : d # c => call'[d] = call[d] /\ pc'[d] = pc[d]
  BY <1>1, <1>2, Answered DEF PCs, Eval
<1>4. TypeOK'
  BY <1>1, <1>2, <1>3 DEF Eval, TypeOK, conn
<1>5. Progress(c)'
  <2>1. call'[c].seq = call[c].seq /\ call'[c].expected = call[c].expected
    BY <1>1, <1>2, Answered DEF PCs, Eval
  <2> QED
    BY <1>1, <1>3, <2>1 DEF Eval, Progress, Reading, conn, ValidInput
<1>6. ASSUME NEW d \in Clients, d # c PROVE Progress(d)'
  <2>1. Progress(d) /\ UNCHANGED conn /\ head \in Int /\ head' \in Int
        /\ (read[d] # None => read[d].head \in Int)
    BY <1>1, <1>2, <1>6, Types, StoreAssumption DEF Inv, Eval
  <2> QED
    BY <2>1, <1>2, <1>3, <1>6 DEF Progress, Reading, conn, ValidInput
<1>7. LateIsValid'
  BY DEF Inv, LateIsValid, Eval, ValidInput
<1> QED
  BY <1>2, <1>4, <1>5, <1>6, <1>7 DEF Inv

LEMMA EvalLateStep ==
  ASSUME Inv, EvalLate
  PROVE  Inv'
<1>1. PICK o \in late : late' = late \ {o} /\ AppendScript(o.call, o.by) /\ UNCHANGED <<pc, call, conn>>
  BY DEF EvalLate
<1>2. o.call \in Calls /\ o.by \in Clients /\ ValidInput(o.call) /\ TypeOK /\ HeadIsLast
  BY DEF Inv, TypeOK, LateCalls, LateIsValid
<1>3. events' \subseteq Entries /\ head' \in -1..MaxSeq /\ HeadIsLast' /\ head <= head'
  BY <1>1, <1>2, ScriptKeepsTables
<1>4. TypeOK'
  BY <1>1, <1>2, <1>3 DEF TypeOK, conn
<1>5. ASSUME NEW d \in Clients PROVE Progress(d)'
  <2>1. Progress(d) /\ head \in Int /\ head' \in Int /\ (read[d] # None => read[d].head \in Int)
    BY <1>2, <1>3, <1>5, Types, StoreAssumption DEF Inv
  <2> QED
    BY <2>1, <1>1, <1>3, <1>5 DEF Progress, Reading, conn, ValidInput
<1>6. LateIsValid'
  BY <1>1 DEF Inv, LateIsValid, ValidInput
<1> QED
  BY <1>3, <1>4, <1>5, <1>6 DEF Inv

LEMMA ReplyStep ==
  ASSUME Inv, NEW c \in Clients, Reply(c)
  PROVE  Inv'
<1>1. TypeOK /\ Progress(c) /\ pc[c] = "reply"
  BY DEF Inv, Reply
<1>2. TypeOK'
  BY <1>1 DEF Reply, TypeOK, PCs, server, conn
<1>3. Progress(c)'
  BY <1>1 DEF Reply, TypeOK, Progress, Reading, server, conn
<1> QED
  BY <1>1, <1>2, <1>3, OwnStep DEF Reply, TypeOK, conn

LEMMA ConnectionLostStep ==
  ASSUME Inv, NEW c \in Clients, ConnectionLost(c)
  PROVE  Inv'
<1>1. TypeOK /\ HeadIsLast /\ Progress(c) /\ call[c] # None /\ call[c] \in Calls /\ pc[c] \in {"sent", "reply"}
  BY Types DEF Inv, Progress, Reading, ConnectionLost
<1>2. /\ call' \in [Clients -> {None} \cup Calls] /\ pc' \in [Clients -> PCs]
      /\ call'[c] # None /\ pc'[c] = "done"
      /\ \A d \in Clients : d # c => call'[d] = call[d] /\ pc'[d] = pc[d]
  BY <1>1, Answered DEF PCs, ConnectionLost, Answers
<1>3. late' \subseteq LateCalls /\ LateIsValid'
  <2>1. CASE UNCHANGED late
    BY <2>1 DEF Inv, TypeOK, LateIsValid, ValidInput
  <2>2. CASE pc[c] = "sent" /\ late' = {[call |-> call[c], by |-> c]}
    BY <2>2, <1>1 DEF LateIsValid, ValidInput, LateCalls, Progress
  <2> QED
    BY <2>1, <2>2 DEF ConnectionLost
<1>4. TypeOK'
  BY <1>1, <1>2, <1>3 DEF ConnectionLost, TypeOK, conn
<1>5. Progress(c)'
  BY <1>1, <1>2 DEF ConnectionLost, Progress, Reading, conn
<1>6. ASSUME NEW d \in Clients, d # c PROVE Progress(d)'
  BY <1>2, <1>6 DEF Inv, Progress, Reading, conn, ValidInput, ConnectionLost
<1> QED
  BY <1>1, <1>3, <1>4, <1>5, <1>6 DEF Inv, ConnectionLost, HeadIsLast

LEMMA NotifyStep ==
  ASSUME Inv, NEW c \in Clients, Notify(c)
  PROVE  Inv'
<1>1. TypeOK /\ Progress(c) /\ pc[c] = "notify" /\ call[c] # None /\ call[c].seq \in -1..MaxSeq
  BY Types DEF Inv, Notify, At, Progress, Reading
<1>2. Event(c) \in Entries
  BY <1>1, StoreAssumption DEF Event, Entries, Progress, ValidInput
<1>3. TypeOK'
  BY <1>1, <1>2 DEF Notify, At, TypeOK, PCs, server
<1>4. Progress(c)'
  BY <1>1 DEF Notify, At, TypeOK, Progress, Reading, server
<1> QED
  BY <1>1, <1>3, <1>4, OwnStep DEF Notify, At, TypeOK

LEMMA ReturnStep ==
  ASSUME Inv, NEW c \in Clients, Return(c)
  PROVE  Inv'
<1>1. TypeOK /\ Progress(c) /\ pc[c] = "done"
  BY DEF Inv, Return, At
<1>2. TypeOK'
  BY <1>1 DEF Return, At, TypeOK, PCs, server
<1>3. Progress(c)'
  BY <1>1 DEF Return, At, TypeOK, Progress, Reading, server
<1> QED
  BY <1>1, <1>2, <1>3, OwnStep DEF Return, At, TypeOK

LEMMA ReadStep ==
  ASSUME Inv, NEW c \in Clients, NEW from \in 0..MaxSeq, Read(c, from)
  PROVE  Inv'
<1>1. TypeOK /\ Progress(c) /\ pc[c] = "idle" /\ [from |-> from, head |-> -1, events |-> {}] \in Reads
  BY StoreAssumption DEF Inv, Read, At, Reads
<1>2. [from |-> from, head |-> -1, events |-> {}] # None
  BY <1>1, NoneAssumption
<1>3. TypeOK'
  BY <1>1 DEF Read, At, TypeOK, PCs, server
<1>4. Progress(c)'
  BY <1>1, <1>2 DEF Read, At, TypeOK, Progress, Reading, server
<1> QED
  BY <1>1, <1>3, <1>4, OwnStep DEF Read, At, TypeOK

LEMMA GetHeadStep ==
  ASSUME Inv, NEW c \in Clients, GetHead(c)
  PROVE  Inv'
<1>1. TypeOK /\ Progress(c) /\ pc[c] = "head" /\ read[c] \in Reads
  BY Types DEF Inv, GetHead, Progress, Reading
<1>2. /\ [read[c] EXCEPT !.head = head] \in Reads /\ [read[c] EXCEPT !.head = head].head = head
      /\ read' = [read EXCEPT ![c] = [read[c] EXCEPT !.head = head]]
  BY <1>1 DEF Reads, TypeOK, GetHead
<1>3. [read[c] EXCEPT !.head = head] # None
  BY <1>2, NoneAssumption
<1>4. TypeOK'
  BY <1>1, <1>2 DEF GetHead, TypeOK, PCs, server
<1>5. read'[c] # None /\ read'[c].head = head
  BY <1>1, <1>2, <1>3 DEF TypeOK
<1>6. Progress(c)'
  BY <1>1, <1>5, Types DEF GetHead, TypeOK, Progress, Reading, server
<1> QED
  BY <1>1, <1>2, <1>4, <1>6, OwnStep DEF GetHead, TypeOK

LEMMA RangeByScoreStep ==
  ASSUME Inv, NEW c \in Clients, RangeByScore(c)
  PROVE  Inv'
<1> DEFINE found == Between(events, read[c].from, read[c].head)
<1>1. TypeOK /\ Progress(c) /\ pc[c] = "range" /\ read[c] \in Reads /\ found \subseteq Entries
  BY Types DEF Inv, RangeByScore, At, Progress, Reading, TypeOK, Between
<1>2. read' = [read EXCEPT ![c] = [read[c] EXCEPT !.events = found]]
  BY DEF RangeByScore
<1> HIDE DEF found
<1>3. [read[c] EXCEPT !.events = found] \in Reads
  BY <1>1 DEF Reads
<1>4. [read[c] EXCEPT !.events = found] # None
  BY <1>3, NoneAssumption
<1>5. TypeOK'
  BY <1>1, <1>2, <1>3 DEF RangeByScore, At, TypeOK, PCs, server
<1>6. Progress(c)'
  BY <1>1, <1>2, <1>4 DEF RangeByScore, At, TypeOK, Progress, Reading, server
<1> QED
  BY <1>1, <1>2, <1>5, <1>6, OwnStep DEF RangeByScore, At, TypeOK

LEMMA ReadEndsStep ==
  ASSUME Inv, NEW c \in Clients, ReadEnds(c)
  PROVE  Inv'
<1>1. TypeOK /\ Progress(c)
  BY DEF Inv
<1>2. TypeOK'
  BY <1>1 DEF ReadEnds, TypeOK, PCs, server
<1>3. Progress(c)'
  BY <1>1 DEF ReadEnds, TypeOK, Progress, Reading, server
<1> QED
  BY <1>1, <1>2, <1>3, OwnStep DEF ReadEnds, TypeOK

LEMMA CloseStep ==
  ASSUME Inv, NEW c \in Clients, Close(c)
  PROVE  Inv'
<1>1. TypeOK /\ Progress(c)
  BY DEF Inv
<1>2. TypeOK'
  BY <1>1 DEF Close, TypeOK, server
<1>3. Progress(c)'
  BY <1>1 DEF Close, Progress, server, ValidInput
<1> QED
  BY <1>1, <1>2, <1>3, OwnStep DEF Close

LEMMA CrashStep ==
  ASSUME Inv, NEW c \in Clients, Crash(c)
  PROVE  Inv'
<1>1. TypeOK
  BY DEF Inv
<1>2. TypeOK'
  BY <1>1 DEF Crash, TypeOK, PCs, server
<1>3. Progress(c)'
  BY <1>1 DEF Crash, TypeOK, Progress, Reading, server
<1> QED
  BY <1>1, <1>2, <1>3, OwnStep DEF Crash, TypeOK

-----------------------------------------------------------------------------
(* The theorems.                                                           *)
LEMMA InitInv == Init => Inv
<1> SUFFICES ASSUME Init PROVE Inv
  OBVIOUS
<1>1. TypeOK
  BY StoreAssumption DEF Init, TypeOK, PCs
<1>2. HeadIsLast /\ LateIsValid
  BY DEF Init, HeadIsLast, LateIsValid
<1>3. ASSUME NEW c \in Clients PROVE Progress(c)
  BY <1>3 DEF Init, Progress, Reading
<1> QED
  BY <1>1, <1>2, <1>3 DEF Inv

LEMMA Inductive ==
  ASSUME Inv, [Next]_vars
  PROVE  Inv'
<1>1. CASE UNCHANGED vars
  BY <1>1 DEF vars, Inv, TypeOK, HeadIsLast, LateIsValid, Progress, ValidInput
<1>2. CASE Next
  BY <1>2, AppendStep, RefuseStep, EvalStep, ReplyStep, ConnectionLostStep, EvalLateStep,
     NotifyStep, ReturnStep, ReadStep, GetHeadStep, RangeByScoreStep, ReadEndsStep, CloseStep,
     CrashStep DEF Next
<1> QED
  BY <1>1, <1>2

(* The head key is the number of the last event, and every number up to it *)
(* was written exactly once: whatever was retried or runs late.            *)
THEOREM HeadMatchesEvents == Spec => []HeadIsLast
<1>1. Init => Inv
  BY InitInv
<1>2. Inv /\ [Next]_vars => Inv'
  BY Inductive
<1>3. Inv => HeadIsLast
  BY DEF Inv
<1> QED
  BY <1>1, <1>2, <1>3, PTL DEF Spec

-----------------------------------------------------------------------------
(* What the log promises: the sorted set is the log, a read has happened   *)
(* when GET is answered, and a late command may still be performed.        *)
Promise == INSTANCE EventLogContract WITH
  log <- events, reading <- [c \in Clients |-> Returned(c)], orphans <- late

(* The helpers of the contract are those of the log.                       *)
LEMMA SameSupport ==
  /\ \A es, from, to : Promise!Between(es, from, to) = Between(es, from, to)
  /\ \A r : Promise!Calling(r) = Calling(r)
  /\ Promise!Requests = Requests
  /\ \A a : Promise!ValidInput(a) <=> ValidInput(a)
  /\ \A a, h : (Promise!Conflicts(a, h) <=> Conflicts(a, h)) /\ (Promise!Follows(a, h) <=> Follows(a, h))
  /\ \A es : Promise!HeadOf(es) = HeadOf(es)
BY DEF Promise!Between, Between, Promise!Calling, Calling, Promise!Requests, Requests,
   Promise!ValidInput, ValidInput, Promise!Conflicts, Conflicts, Promise!Follows, Follows,
   Promise!HeadOf, HeadOf, Promise!Max, Max

(* The head key is the head of the events.                                 *)
LEMMA HeadOfEvents ==
  ASSUME TypeOK, HeadIsLast
  PROVE  HeadOf(events) = head
<1>1. head \in -1..MaxSeq /\ {e.seq : e \in events} = 0..head
  BY DEF TypeOK, HeadIsLast
<1>2. CASE events = {}
  <2>1. 0..head = {}
    BY <1>1, <1>2
  <2> QED
    BY <2>1, <1>1, <1>2, StoreAssumption DEF HeadOf
<1>3. CASE events # {}
  <2>1. 0..head # {}
    BY <1>1, <1>3
  <2>2. head \in 0..head /\ \A y \in 0..head : head >= y
    BY <2>1, <1>1, StoreAssumption
  <2>3. Max(0..head) = head
    BY <2>2, <1>1, StoreAssumption DEF Max
  <2> QED
    BY <2>3, <1>1, <1>3 DEF HeadOf
<1> QED
  BY <1>2, <1>3

(* What a script that is valid answers is what the contract answers, when  *)
(* the log is contiguous.                                                  *)
LEMMA StatusIsAnswer ==
  ASSUME Contiguous, TypeOK, HeadIsLast, NEW a \in Calls, ValidInput(a)
  PROVE  Promise!Answer(a) = Status(a)
<1>1. Promise!HeadOf(events) = head
  BY HeadOfEvents, SameSupport
<1> QED
  BY <1>1, SameSupport DEF Promise!Answer, Status, Follows

(* What a reader is to get does not change while others write.             *)
LEMMA ReadersKeep ==
  ASSUME Inv, NEW c \in Clients, pc'[c] = pc[c], read'[c] = read[c],
         UNCHANGED events \/ \E v \in Entries : v.seq = head + 1 /\ events' = events \cup {v}
  PROVE  Returned(c)' = Returned(c)
<1>1. CASE UNCHANGED events
  BY <1>1 DEF Returned, Between
<1>2. ASSUME NEW v \in Entries, v.seq = head + 1, events' = events \cup {v} PROVE Returned(c)' = Returned(c)
  <2>1. CASE pc[c] # "range"
    BY <2>1, <1>2 DEF Returned
  <2>2. CASE pc[c] = "range"
    <3>1. read[c].head \in Int /\ read[c].head <= head /\ head \in Int
      BY <2>2, Types DEF Inv, Progress, Reading
    <3>2. ~(v.seq <= read[c].head)
      BY <3>1, <1>2
    <3>3. Between(events', read[c].from, read[c].head) = Between(events, read[c].from, read[c].head)
      BY <3>2, <1>2 DEF Between
    <3> QED
      BY <3>3, <2>2 DEF Returned
  <2> QED
    BY <2>1, <2>2
<1> QED
  BY <1>1, <1>2

(* A step of c that neither reads nor ends a read.                         *)
LEMMA NobodyReads ==
  ASSUME Inv, NEW c \in Clients, UNCHANGED read,
         \A d \in Clients : d # c => pc'[d] = pc[d],
         pc[c] \notin {"range", "snapshot"}, pc'[c] \notin {"range", "snapshot"},
         UNCHANGED events \/ \E v \in Entries : v.seq = head + 1 /\ events' = events \cup {v}
  PROVE  UNCHANGED [d \in Clients |-> Returned(d)]
<1>1. Returned(c)' = Returned(c)
  BY DEF Returned
<1>2. ASSUME NEW d \in Clients, d # c PROVE Returned(d)' = Returned(d)
  BY <1>2, ReadersKeep
<1> QED
  BY <1>1, <1>2

-----------------------------------------------------------------------------
(* Every command is a step of the promise, or none.                        *)
LEMMA AppendKeeps ==
  ASSUME Inv, NEW c \in Clients, NEW r \in Requests, Append(c, r)
  PROVE  [Promise!ContractNext]_Promise!contractVars
<1>1. TypeOK /\ Progress(c)
  BY DEF Inv
<1>2. UNCHANGED [d \in Clients |-> Returned(d)]
  BY <1>1, NobodyReads DEF Append, TypeOK, server, conn
<1>3. Promise!Append(c, r) /\ r \in Promise!Requests
  BY <1>1, <1>2, SameSupport DEF Progress, Reading, Append, Promise!Append, server, conn
<1> QED
  BY <1>3 DEF Promise!ContractNext

LEMMA RefuseKeeps ==
  ASSUME Inv, NEW c \in Clients, Refuse(c)
  PROVE  [Promise!ContractNext]_Promise!contractVars
<1>1. TypeOK /\ Progress(c) /\ call[c] # None /\ call[c].answer = None /\ pc[c] = "refuse"
  BY DEF Inv, Refuse, Progress, Reading
<1>2. UNCHANGED [d \in Clients |-> Returned(d)]
  BY <1>1, NobodyReads DEF Refuse, Answering, TypeOK, server, conn
<1>3. CASE c \in closed
  <2>1. Promise!Fail(c)
    BY <1>1, <1>2, <1>3 DEF Refuse, Answering, Promise!Fail, server, conn
  <2> QED
    BY <2>1 DEF Promise!ContractNext
<1>4. CASE c \notin closed
  <2>1. Promise!Answer(call[c]) = "invariant"
    BY <1>1, <1>4, SameSupport DEF Promise!Answer, Progress
  <2>2. Promise!Decide(c)
    BY <2>1, <1>1, <1>2, <1>4 DEF Refuse, Answering, Promise!Decide, server, conn
  <2> QED
    BY <2>2 DEF Promise!ContractNext
<1> QED
  BY <1>3, <1>4

LEMMA EvalKeeps ==
  ASSUME Contiguous, Inv, NEW c \in Clients, Eval(c)
  PROVE  [Promise!ContractNext]_Promise!contractVars
<1>1. /\ TypeOK /\ HeadIsLast /\ call[c] # None /\ call[c] \in Calls /\ call[c].answer = None
      /\ ValidInput(call[c]) /\ pc[c] = "sent" /\ pc'[c] = "reply" /\ UNCHANGED read
      /\ \A d \in Clients : d # c => pc'[d] = pc[d]
  BY Types DEF Inv, Eval, Progress, Reading, Answering, TypeOK, conn
<1>2. \/ Status(call[c]) # "ok" /\ UNCHANGED events
      \/ /\ Status(call[c]) = "ok" /\ call[c].seq = head + 1
         /\ events' = events \cup {[seq |-> call[c].seq, by |-> c]} /\ [seq |-> call[c].seq, by |-> c] \in Entries
  BY <1>1, ScriptKeepsTables DEF Eval
<1>3. UNCHANGED events \/ \E v \in Entries : v.seq = head + 1 /\ events' = events \cup {v}
  BY <1>2
<1>4. UNCHANGED [d \in Clients |-> Returned(d)]
  BY <1>1, <1>3, NobodyReads
<1>5. Promise!Answer(call[c]) = Status(call[c])
  BY <1>1, StatusIsAnswer
<1>6. Promise!Decide(c)
  BY <1>1, <1>2, <1>4, <1>5 DEF Eval, Answering, Promise!Decide, conn
<1> QED
  BY <1>6 DEF Promise!ContractNext

LEMMA EvalLateKeeps ==
  ASSUME Contiguous, Inv, EvalLate
  PROVE  [Promise!ContractNext]_Promise!contractVars
<1>1. PICK o \in late : late' = late \ {o} /\ AppendScript(o.call, o.by) /\ UNCHANGED <<pc, call, conn>>
  BY DEF EvalLate
<1>2. o.call \in Calls /\ o.by \in Clients /\ ValidInput(o.call) /\ TypeOK /\ HeadIsLast
  BY DEF Inv, TypeOK, LateCalls, LateIsValid
<1>3. \/ Status(o.call) # "ok" /\ UNCHANGED events
      \/ /\ Status(o.call) = "ok" /\ o.call.seq = head + 1
         /\ events' = events \cup {[seq |-> o.call.seq, by |-> o.by]} /\ [seq |-> o.call.seq, by |-> o.by] \in Entries
  BY <1>1, <1>2, ScriptKeepsTables
<1>4. UNCHANGED events \/ \E v \in Entries : v.seq = head + 1 /\ events' = events \cup {v}
  BY <1>3
<1>5. UNCHANGED [d \in Clients |-> Returned(d)]
  BY <1>1, <1>4, ReadersKeep DEF conn
<1>6. Promise!Answer(o.call) = Status(o.call)
  BY <1>2, StatusIsAnswer
<1>7. Promise!LateDecide
  BY <1>1, <1>3, <1>5, <1>6 DEF Promise!LateDecide, conn
<1> QED
  BY <1>7 DEF Promise!ContractNext

LEMMA ReplyKeeps ==
  ASSUME Inv, NEW c \in Clients, Reply(c)
  PROVE  [Promise!ContractNext]_Promise!contractVars
<1>1. UNCHANGED [d \in Clients |-> Returned(d)]
  BY NobodyReads DEF Inv, Reply, TypeOK, server, conn
<1> QED
  BY <1>1 DEF Reply, Promise!contractVars, server, conn

LEMMA ConnectionLostKeeps ==
  ASSUME Inv, NEW c \in Clients, ConnectionLost(c)
  PROVE  [Promise!ContractNext]_Promise!contractVars
<1>1. TypeOK /\ Progress(c) /\ call[c] # None
  BY DEF Inv, ConnectionLost, Progress, Reading
<1>2. UNCHANGED [d \in Clients |-> Returned(d)]
  BY <1>1, NobodyReads DEF ConnectionLost, Answering, TypeOK, conn
<1>3. Promise!Fail(c)
  BY <1>1, <1>2 DEF ConnectionLost, Answering, Promise!Fail, Progress, conn
<1> QED
  BY <1>3 DEF Promise!ContractNext

LEMMA NotifyKeeps ==
  ASSUME Inv, NEW c \in Clients, Notify(c)
  PROVE  [Promise!ContractNext]_Promise!contractVars
<1>1. TypeOK /\ Progress(c)
  BY DEF Inv
<1>2. UNCHANGED [d \in Clients |-> Returned(d)]
  BY <1>1, NobodyReads DEF Notify, At, TypeOK, server
<1>3. Promise!Notify(c)
  BY <1>1, <1>2 DEF Notify, At, Progress, Reading, Event, Promise!Notify, server
<1> QED
  BY <1>3 DEF Promise!ContractNext

LEMMA ReturnKeeps ==
  ASSUME Inv, NEW c \in Clients, Return(c)
  PROVE  [Promise!ContractNext]_Promise!contractVars
<1>1. UNCHANGED [d \in Clients |-> Returned(d)]
  BY NobodyReads DEF Inv, Return, At, TypeOK, server
<1>2. Promise!Return(c)
  BY <1>1 DEF Return, At, Promise!Return, server
<1> QED
  BY <1>2 DEF Promise!ContractNext

LEMMA ReadKeeps ==
  ASSUME Inv, NEW c \in Clients, NEW from \in 0..MaxSeq, Read(c, from)
  PROVE  [Promise!ContractNext]_Promise!contractVars
<1>1. pc[c] = "idle" /\ pc'[c] = "head" /\ UNCHANGED <<events, late, call, told>>
      /\ \A d \in Clients : d # c => pc'[d] = pc[d] /\ read'[d] = read[d]
  BY DEF Inv, TypeOK, Read, At, server
<1>2. ASSUME NEW d \in Clients PROVE Returned(d)' = Returned(d)
  BY <1>1, <1>2, ReadersKeep DEF Returned
<1>3. UNCHANGED [d \in Clients |-> Returned(d)]
  BY <1>2
<1> QED
  BY <1>1, <1>3 DEF Promise!contractVars

LEMMA GetHeadKeeps ==
  ASSUME Inv, NEW c \in Clients, GetHead(c)
  PROVE  [Promise!ContractNext]_Promise!contractVars
<1>1. /\ pc[c] = "head" /\ pc'[c] = (IF head < read[c].from THEN "snapshot" ELSE "range")
      /\ UNCHANGED <<events, late, call, told>> /\ TypeOK
      /\ \A d \in Clients : d # c => pc'[d] = pc[d] /\ read'[d] = read[d]
  BY DEF Inv, TypeOK, GetHead, server
<1>2. read[c] \in Reads
  BY <1>1, Types DEF Inv, Progress, Reading
<1>3. PICK from \in 0..MaxSeq : read[c].from = from
  BY <1>2 DEF Reads
<1>4. read'[c].from = from /\ read'[c].head = head /\ read'[c].events = {}
  BY <1>1, <1>2, <1>3 DEF GetHead, TypeOK, Reads, Inv, Progress
<1>5. Returned(c)' = [from |-> from, events |-> Between(events, from, head)]
  <2>1. CASE head < from
    <3>1. Between(events, from, head) = {}
      BY <2>1, <1>1, <1>3, StoreAssumption DEF Between, Entries, TypeOK
    <3> QED
      BY <3>1, <2>1, <1>1, <1>3, <1>4 DEF Returned
  <2>2. CASE ~(head < from)
    BY <2>2, <1>1, <1>3, <1>4 DEF Returned, Between
  <2> QED
    BY <2>1, <2>2
<1>6. \A d \in Clients : d # c => Returned(d)' = Returned(d)
  BY <1>1, ReadersKeep
<1>7. Promise!Between(events, from, Promise!HeadOf(events)) = Between(events, from, head)
  BY HeadOfEvents, SameSupport DEF Inv
<1>8. Promise!Read(c, from)
  BY <1>1, <1>5, <1>6, <1>7 DEF Promise!Read
<1> QED
  BY <1>8 DEF Promise!ContractNext

LEMMA RangeByScoreKeeps ==
  ASSUME Inv, NEW c \in Clients, RangeByScore(c)
  PROVE  [Promise!ContractNext]_Promise!contractVars
<1> DEFINE found == Between(events, read[c].from, read[c].head)
<1>1. /\ pc[c] = "range" /\ pc'[c] = "snapshot" /\ UNCHANGED <<events, late, call, told>> /\ TypeOK
      /\ \A d \in Clients : d # c => pc'[d] = pc[d] /\ read'[d] = read[d]
  BY DEF Inv, TypeOK, RangeByScore, At, server
<1>2. read[c] \in Reads /\ read' = [read EXCEPT ![c] = [read[c] EXCEPT !.events = found]]
  BY <1>1, Types DEF Inv, Progress, Reading, RangeByScore
<1>3. Returned(c) = [from |-> read[c].from, events |-> found]
  BY <1>1 DEF Returned
<1> HIDE DEF found
<1>4. read'[c].from = read[c].from /\ read'[c].events = found
  BY <1>1, <1>2 DEF TypeOK, Reads
<1>5. Returned(c)' = Returned(c)
  BY <1>1, <1>3, <1>4 DEF Returned
<1>6. \A d \in Clients : Returned(d)' = Returned(d)
  BY <1>1, <1>5, ReadersKeep
<1> QED
  BY <1>1, <1>6 DEF Promise!contractVars

LEMMA ReadEndsKeeps ==
  ASSUME Inv, NEW c \in Clients, ReadEnds(c)
  PROVE  [Promise!ContractNext]_Promise!contractVars
<1>1. /\ pc'[c] = "idle" /\ UNCHANGED <<events, late, call, told>>
      /\ \A d \in Clients : d # c => pc'[d] = pc[d] /\ read'[d] = read[d]
  BY DEF Inv, TypeOK, ReadEnds, server
<1>2. Returned(c)' = None /\ \A d \in Clients : d # c => Returned(d)' = Returned(d)
  BY <1>1, ReadersKeep DEF Returned
<1>3. Promise!ReadReturn(c)
  BY <1>1, <1>2 DEF Promise!ReadReturn
<1> QED
  BY <1>3 DEF Promise!ContractNext

LEMMA CloseKeeps ==
  ASSUME Inv, NEW c \in Clients, Close(c)
  PROVE  [Promise!ContractNext]_Promise!contractVars
BY DEF Close, server, Promise!contractVars, Returned

LEMMA CrashKeeps ==
  ASSUME Inv, NEW c \in Clients, Crash(c)
  PROVE  [Promise!ContractNext]_Promise!contractVars
<1>1. /\ TypeOK /\ Progress(c) /\ pc'[c] = "idle" /\ UNCHANGED <<events, late>>
      /\ call' = [call EXCEPT ![c] = None] /\ told' = [told EXCEPT ![c] = None]
      /\ \A d \in Clients : d # c => pc'[d] = pc[d] /\ read'[d] = read[d]
  BY DEF Inv, TypeOK, Crash, server
<1>2. Returned(c)' = None /\ \A d \in Clients : d # c => Returned(d)' = Returned(d)
  BY <1>1, ReadersKeep DEF Returned
<1>3. CASE pc[c] \in Reading
  <2>1. UNCHANGED <<call, told>>
    BY <1>1, <1>3 DEF TypeOK, Progress
  <2>2. Promise!ReadReturn(c)
    BY <2>1, <1>1, <1>2 DEF Promise!ReadReturn
  <2> QED
    BY <2>2 DEF Promise!ContractNext
<1>4. CASE pc[c] \notin Reading
  <2>1. \A d \in Clients : Returned(d)' = Returned(d)
    BY <1>2, <1>4 DEF Reading, Returned
  <2>2. Promise!Return(c)
    BY <2>1, <1>1 DEF Promise!Return
  <2> QED
    BY <2>2 DEF Promise!ContractNext
<1> QED
  BY <1>3, <1>4

LEMMA StepKeeps ==
  ASSUME Contiguous, Inv, [Next]_vars
  PROVE  [Promise!ContractNext]_Promise!contractVars
<1>1. CASE UNCHANGED vars
  BY <1>1 DEF vars, Promise!contractVars, Returned, Between
<1>2. CASE Next
  BY <1>2, AppendKeeps, RefuseKeeps, EvalKeeps, ReplyKeeps, ConnectionLostKeeps, EvalLateKeeps,
     NotifyKeeps, ReturnKeeps, ReadKeeps, GetHeadKeeps, RangeByScoreKeeps, ReadEndsKeeps,
     CloseKeeps, CrashKeeps DEF Next
<1> QED
  BY <1>1, <1>2

LEMMA InitKeeps == Init => Promise!ContractInit
BY DEF Init, Promise!ContractInit, Returned

(* Whatever its processes and connections do, the Redis log is an EventLog: *)
(* the script compares and writes in one step, a read is one snapshot      *)
(* although it is two commands, and a command that was given up takes      *)
(* effect once or never, and only if its number is still free.             *)
THEOREM KeepsContract ==
  ASSUME Contiguous
  PROVE  Spec => Promise!Contract
<1>1. Init => Inv
  BY InitInv
<1>2. Inv /\ [Next]_vars => Inv'
  BY Inductive
<1>3. Init => Promise!ContractInit
  BY InitKeeps
<1>4. Inv /\ [Next]_vars => [Promise!ContractNext]_Promise!contractVars
  BY StepKeeps
<1> QED
  BY <1>1, <1>2, <1>3, <1>4, PTL DEF Spec, Promise!Contract
=============================================================================
