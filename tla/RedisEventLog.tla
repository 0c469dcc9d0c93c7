--------------------------- MODULE RedisEventLog ----------------------------
(***************************************************************************)
(* The event log of providers/standard/src/store/redis.ts: append is one   *)
(* script the server runs without interruption, read is two commands.  A   *)
(* command and its reply travel on a connection that may be lost; the      *)
(* server may still run a command whose sender was told it failed.         *)
(***************************************************************************)
EXTENDS StoreSupport

VARIABLES
  events,    \* the sorted set of the stream
  head,      \* the head key; -1: not set
  late,      \* commands on lost connections the server has not run
  pc, call,  \* per client: what it awaits, and the append it is in
  read,      \* per client: cursor, head and events of the read it is in
  told,      \* per client: the event this append notified the subscribers of
  closed     \* the clients whose connection was quit

vars == <<events, head, late, pc, call, read, told, closed>>
server == <<events, head, late>>
conn == <<read, told, closed>>

Event(c) == [seq |-> call[c].seq, by |-> c]

At(c, from, to) == pc[c] = from /\ pc' = [pc EXCEPT ![c] = to]

Answering(c, answer, to) ==
  call' = [call EXCEPT ![c].answer = answer] /\ pc' = [pc EXCEPT ![c] = to]

Init ==
  /\ events = {} /\ head = -1 /\ late = {}
  /\ pc = [c \in Clients |-> "idle"] /\ call = [c \in Clients |-> None]
  /\ read = [c \in Clients |-> None] /\ told = [c \in Clients |-> None] /\ closed = {}

-----------------------------------------------------------------------------
(* APPEND_SCRIPT: what it returns, and what it writes.                     *)
Status(a) ==
  CASE Conflicts(a, head) -> "conflict"
    [] ~Conflicts(a, head) /\ a.seq # head + 1 -> "invariant"
    [] ~Conflicts(a, head) /\ a.seq = head + 1 -> "ok"

AppendScript(a, by) ==
  IF Status(a) = "ok"
  THEN events' = events \cup {[seq |-> a.seq, by |-> by]} /\ head' = a.seq
  ELSE UNCHANGED <<events, head>>

Append(c, r) ==
  /\ pc[c] = "idle"
  /\ LET a == Calling(r)
     IN  /\ call' = [call EXCEPT ![c] = a]
         /\ pc' = [pc EXCEPT ![c] = IF c \notin closed /\ ValidInput(a) THEN "sent" ELSE "refuse"]
  /\ UNCHANGED <<server, conn>>

Refuse(c) ==
  /\ pc[c] = "refuse"
  /\ Answering(c, IF c \in closed THEN "error" ELSE "invariant", "done")
  /\ UNCHANGED <<server, conn>>

Eval(c) ==
  /\ pc[c] = "sent"
  /\ AppendScript(call[c], c)
  /\ Answering(c, Status(call[c]), "reply")
  /\ UNCHANGED <<late, conn>>

Reply(c) ==
  /\ pc[c] = "reply"
  /\ pc' = [pc EXCEPT ![c] = IF call[c].answer = "ok" THEN "notify" ELSE "done"]
  /\ UNCHANGED <<server, call, conn>>

(* The connection is lost: before the server saw the command, while it     *)
(* holds it, or with the reply on its way.                                 *)
ConnectionLost(c) ==
  /\ \/ pc[c] = "sent"
     \/ pc[c] = "reply" /\ call[c].answer = "ok"
  /\ Answering(c, "error", "done")
  /\ \/ UNCHANGED late
     \/ pc[c] = "sent" /\ late = {} /\ late' = {[call |-> call[c], by |-> c]}
  /\ UNCHANGED <<events, head, conn>>

EvalLate == \E o \in late :
  late' = late \ {o} /\ AppendScript(o.call, o.by) /\ UNCHANGED <<pc, call, conn>>

Notify(c) ==
  /\ At(c, "notify", "done")
  /\ told' = [told EXCEPT ![c] = Event(c)]
  /\ UNCHANGED <<server, call, read, closed>>

Return(c) ==
  /\ At(c, "done", "idle")
  /\ call' = [call EXCEPT ![c] = None] /\ told' = [told EXCEPT ![c] = None]
  /\ UNCHANGED <<server, read, closed>>

-----------------------------------------------------------------------------
Read(c, from) ==
  /\ At(c, "idle", "head") /\ c \notin closed
  /\ read' = [read EXCEPT ![c] = [from |-> from, head |-> -1, events |-> {}]]
  /\ UNCHANGED <<server, call, told, closed>>

GetHead(c) ==
  /\ pc[c] = "head"
  /\ pc' = [pc EXCEPT ![c] = IF head < read[c].from THEN "snapshot" ELSE "range"]
  /\ read' = [read EXCEPT ![c].head = head]
  /\ UNCHANGED <<server, call, told, closed>>

RangeByScore(c) ==
  /\ At(c, "range", "snapshot")
  /\ read' = [read EXCEPT ![c].events = Between(events, read[c].from, read[c].head)]
  /\ UNCHANGED <<server, call, told, closed>>

(* The snapshot is consumed, or a command of the read failed.              *)
ReadEnds(c) ==
  /\ pc[c] \in {"head", "range", "snapshot"}
  /\ pc' = [pc EXCEPT ![c] = "idle"] /\ read' = [read EXCEPT ![c] = None]
  /\ UNCHANGED <<server, call, told, closed>>

(* QUIT is answered after the commands before it.                          *)
Close(c) ==
  /\ pc[c] = "idle" /\ closed' = closed \cup {c}
  /\ UNCHANGED <<server, pc, call, read, told>>

Crash(c) ==
  /\ pc' = [pc EXCEPT ![c] = "idle"] /\ call' = [call EXCEPT ![c] = None]
  /\ read' = [read EXCEPT ![c] = None] /\ told' = [told EXCEPT ![c] = None]
  /\ closed' = closed \ {c}
  /\ UNCHANGED server

Next ==
  \/ \E c \in Clients :
       \/ \E r \in Requests : Append(c, r)
       \/ Refuse(c) \/ Eval(c) \/ Reply(c) \/ ConnectionLost(c) \/ Notify(c) \/ Return(c)
       \/ \E from \in 0..MaxSeq : Read(c, from)
       \/ GetHead(c) \/ RangeByScore(c) \/ ReadEnds(c) \/ Close(c) \/ Crash(c)
  \/ EvalLate

Spec == Init /\ [][Next]_vars

-----------------------------------------------------------------------------
(* A read takes effect when the server answers GET.                        *)
Returned(c) ==
  IF pc[c] \in {"range", "snapshot"}
  THEN [from |-> read[c].from,
        events |-> IF pc[c] = "range" THEN Between(events, read[c].from, read[c].head)
                   ELSE read[c].events]
  ELSE None

(* No number is used twice and none is left out, whatever the callers      *)
(* retried: a late script is refused once somebody else took its number.   *)
HeadIsLast ==
  /\ {e.seq : e \in events} = 0..head
  /\ \A e, f \in events : e.seq = f.seq => e = f
=============================================================================
