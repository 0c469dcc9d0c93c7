-------------------------- MODULE EventLogContract --------------------------
(***************************************************************************)
(* What an EventLog promises its callers (packages/kernel/src/events/      *)
(* event-log.ts, interface EventLog, and ports/store.ts): append compares  *)
(* the head and writes in one step, read returns a finite snapshot of      *)
(* everything from a cursor, and a subscriber hears an event only after it *)
(* was written.  An append whose caller hears nothing of it, or an error   *)
(* of the storage, may have been written, or may be written later.         *)
(***************************************************************************)
EXTENDS StoreSupport

VARIABLES
  log,      \* the events of the stream
  call,     \* call[c]: the append client c is in, None outside one
  reading,  \* reading[c]: the cursor of a read of c and what it returned
  orphans,  \* appends given up by their callers that the storage may still perform
  told      \* told[c]: the event this append told the process-local subscribers of c

contractVars == <<log, call, reading, orphans, told>>

Append(c, r) ==
  /\ call[c] = None
  /\ call' = [call EXCEPT ![c] = Calling(r)]
  /\ UNCHANGED <<log, reading, orphans, told>>

Answer(a) ==
  CASE ~ValidInput(a) -> "invariant"
    [] ValidInput(a) /\ Conflicts(a, HeadOf(log)) -> "conflict"
    [] ValidInput(a) /\ ~Conflicts(a, HeadOf(log)) ->
         IF Follows(a, HeadOf(log)) THEN "ok" ELSE "invariant"

(* The one step in which an append takes effect or is refused.             *)
Decide(c) ==
  /\ call[c] # None /\ call[c].answer = None
  /\ LET answer == Answer(call[c])
     IN  /\ call' = [call EXCEPT ![c].answer = answer]
         /\ log' = IF answer = "ok" THEN log \cup {[seq |-> call[c].seq, by |-> c]} ELSE log
  /\ UNCHANGED <<reading, orphans, told>>

Notify(c) ==
  /\ call[c] # None /\ call[c].answer = "ok"
  /\ told' = [told EXCEPT ![c] = [seq |-> call[c].seq, by |-> c]]
  /\ UNCHANGED <<log, call, reading, orphans>>

Fail(c) ==
  /\ call[c] # None /\ call[c].answer \in {None, "ok"}
  /\ call' = [call EXCEPT ![c].answer = "error"]
  /\ \/ UNCHANGED orphans
     \/ call[c].answer = None /\ orphans' = orphans \cup {[call |-> call[c], by |-> c]}
  /\ UNCHANGED <<log, reading, told>>

LateDecide == \E o \in orphans :
  /\ orphans' = orphans \ {o}
  /\ log' = IF Answer(o.call) = "ok" THEN log \cup {[seq |-> o.call.seq, by |-> o.by]} ELSE log
  /\ UNCHANGED <<call, reading, told>>

LateLost == \E o \in orphans : orphans' = orphans \ {o} /\ UNCHANGED <<log, call, reading, told>>

(* The caller is answered, or its process dies and nobody waits any more.  *)
Return(c) ==
  /\ call' = [call EXCEPT ![c] = None] /\ told' = [told EXCEPT ![c] = None]
  /\ UNCHANGED <<log, reading, orphans>>

Read(c, seq) ==
  /\ reading' = [reading EXCEPT ![c] = [from |-> seq, events |-> Between(log, seq, HeadOf(log))]]
  /\ UNCHANGED <<log, call, orphans, told>>

ReadReturn(c) ==
  reading' = [reading EXCEPT ![c] = None] /\ UNCHANGED <<log, call, orphans, told>>

ContractInit ==
  /\ log = {} /\ orphans = {} /\ call = [c \in Clients |-> None] /\ reading = [c \in Clients |-> None]
  /\ told = [c \in Clients |-> None]

ContractNext ==
  \/ \E c \in Clients :
       \/ \E r \in Requests : Append(c, r)
       \/ Decide(c) \/ Notify(c) \/ Fail(c) \/ Return(c)
       \/ \E seq \in 0..MaxSeq : Read(c, seq)
       \/ ReadReturn(c)
  \/ LateDecide \/ LateLost

Contract == ContractInit /\ [][ContractNext]_contractVars
=============================================================================
