--------------------------- MODULE CostAccounting ---------------------------
(***************************************************************************)
(* createCostAccountingMiddleware (packages/kernel/src/loop/middleware.ts) *)
(* as an AgentLoop uses it: it adds up the usage of the step.finished      *)
(* events it saw persisted, a resumed loop seeds it from the log, and      *)
(* turn.finished carries the sum.  Kept from the loop are the turns and    *)
(* steps, the compare-and-swap, and the ways an append and a process fail. *)
(***************************************************************************)
EXTENDS Integers, Sequences, FiniteSets

CONSTANTS
  Loops,       \* the replicas, each an AgentLoop with its middleware
  Currencies,  \* the currencies a provider bills in
  None,        \* no turn, no currency
  MaxTurns, MaxSteps,  \* bounds: turns of the session, steps of a turn
  MaxLost, MaxFails, MaxCrashes  \* bounds: lost acknowledgements, rejected appends, crashes

(* A usage counts what it adds up; its cost has one currency or none.      *)
EmptyUsage == [steps |-> 0, currency |-> None]

(* A seed that throws adds its first steps again each time; the model stops *)
(* counting one past what a turn can have.                                 *)
Capped(n) == IF n <= MaxSteps THEN n ELSE MaxSteps + 1
AddUsage(current, currency) == [steps |-> Capped(current.steps + 1), currency |-> currency]

Mixes(current, currency) == current.currency \notin {None, currency}

VARIABLES
  acting,  \* the replicas that are used
  log,     \* turn.started, step.finished and turn.finished events
  pc,      \* pc[l]: "idle", "seed", "drive", "close", "closing"
  head,    \* head[l]: how much of the log the memory of l covers
  usage,   \* usage[l][t]: usageByTurn
  seeded,  \* seeded[l]: #seededCostTurnId
  lost, fails, crashes

vars == <<acting, log, pc, head, usage, seeded, lost, fails, crashes>>
faults == <<lost, fails, crashes>>

Turns == 1..MaxTurns

Started(t) == [type |-> "turn.started", turn |-> t]
StepsOf(entries, t) == {i \in DOMAIN entries : entries[i].type = "step.finished" /\ entries[i].turn = t}
TurnsIn(entries) == {entries[i].turn : i \in DOMAIN entries}
IsClosed(entries, t) == \E i \in DOMAIN entries : entries[i].type = "turn.finished" /\ entries[i].turn = t
Open(entries) == {t \in TurnsIn(entries) : ~IsClosed(entries, t)}

Known(l) == SubSeq(log, 1, head[l])
Turn(l) == CHOOSE t \in Open(Known(l)) : TRUE

Init ==
  /\ acting \in SUBSET Loops \ {{}}
  /\ log = <<>> /\ pc = [l \in Loops |-> "idle"] /\ head = [l \in Loops |-> 0]
  /\ usage = [l \in Loops |-> [t \in Turns |-> EmptyUsage]] /\ seeded = [l \in Loops |-> None]
  /\ lost = 0 /\ fails = 0 /\ crashes = 0

To(l, to) == pc' = [pc EXCEPT ![l] = to]

-----------------------------------------------------------------------------
(* eventLog.append(candidate, #state.lastSeq): accepted, in the log with   *)
(* its acknowledgement lost, or rejected, by a rival's event or otherwise. *)
Accepted(l, event) ==
  /\ head[l] = Len(log)
  /\ log' = Append(log, event) /\ head' = [head EXCEPT ![l] = @ + 1]
  /\ UNCHANGED faults

Unacknowledged(l, event) ==
  /\ head[l] = Len(log) /\ lost < MaxLost
  /\ log' = Append(log, event) /\ lost' = lost + 1
  /\ UNCHANGED <<head, fails, crashes>>

Rejected(l) ==
  /\ \/ head[l] # Len(log) /\ UNCHANGED fails
     \/ fails < MaxFails /\ fails' = fails + 1
  /\ UNCHANGED <<log, head, lost, crashes>>

(* runTurn and resumeTurn both prepare: reload the state ...               *)
Prepare(l) ==
  /\ pc[l] = "idle" /\ To(l, "seed")
  /\ head' = [head EXCEPT ![l] = Len(log)]
  /\ UNCHANGED <<log, usage, seeded, faults>>

SumOf(steps, base) == [
  steps |-> Capped(base.steps + Cardinality(steps)),
  currency |-> IF steps = {} THEN base.currency ELSE log[CHOOSE i \in steps : TRUE].currency]

(* Mutant: a resumed loop that does not seed.                              *)
SeededNever(l) ==
  /\ pc[l] = "seed" /\ Open(Known(l)) # {} /\ To(l, "drive")
  /\ UNCHANGED <<log, head, usage, seeded, faults>>

(* ... and seed the cost of the open turn from the events of the log, read *)
(* a second time.  A step of another currency throws; what was added stays.*)
Seed(l) ==
  /\ pc[l] = "seed" /\ Open(Known(l)) # {} /\ seeded[l] # Turn(l)
  /\ LET t == Turn(l)
         steps == StepsOf(log, t)
         base == usage[l][t]
         added == {i \in steps : \A j, k \in steps : k <= j /\ j <= i =>
                     ~Mixes(base, log[j].currency) /\ log[j].currency = log[k].currency}
     IN  /\ usage' = [usage EXCEPT ![l][t] = SumOf(added, base)]
         /\ IF added = steps
            THEN seeded' = [seeded EXCEPT ![l] = t] /\ To(l, "drive")
            ELSE UNCHANGED seeded /\ To(l, "idle")
  /\ UNCHANGED <<log, head, faults>>

SeededAlready(l) ==
  /\ pc[l] = "seed" /\ Open(Known(l)) # {} /\ seeded[l] = Turn(l) /\ To(l, "drive")
  /\ UNCHANGED <<log, head, usage, seeded, faults>>

BeginTurn(l) ==
  /\ pc[l] = "seed" /\ Open(Known(l)) = {} /\ Cardinality(TurnsIn(Known(l))) < MaxTurns
  /\ LET t == Cardinality(TurnsIn(Known(l))) + 1
     IN  \/ Accepted(l, Started(t)) /\ seeded' = [seeded EXCEPT ![l] = t] /\ To(l, "drive")
         \/ (Unacknowledged(l, Started(t)) \/ Rejected(l)) /\ To(l, "close") /\ UNCHANGED seeded
  /\ UNCHANGED usage

(* A step: its usage is added in the middleware's finally, after the event *)
(* was persisted, and a mix of currencies throws there.                    *)
FinishStep(l) ==
  /\ pc[l] = "drive" /\ Cardinality(StepsOf(Known(l), Turn(l))) < MaxSteps
  /\ LET t == Turn(l) IN \E c \in Currencies :
       LET event == [type |-> "step.finished", turn |-> t, currency |-> c]
       IN  \/ /\ Accepted(l, event)
              /\ IF Mixes(usage[l][t], c) THEN UNCHANGED usage /\ To(l, "close")
                 ELSE usage' = [usage EXCEPT ![l][t] = AddUsage(@, c)] /\ UNCHANGED pc
           \/ (Unacknowledged(l, event) \/ Rejected(l)) /\ To(l, "close") /\ UNCHANGED usage
  /\ UNCHANGED seeded

Finished(l, t) == [type |-> "turn.finished", turn |-> t, usage |-> usage[l][t].steps]

(* The usage is read before the append and forgotten once it is persisted. *)
FinishTurn(l) ==
  /\ pc[l] \in {"drive", "closing"} /\ Open(Known(l)) # {}
  /\ LET t == Turn(l)
     IN  \/ Accepted(l, Finished(l, t)) /\ usage' = [usage EXCEPT ![l][t] = EmptyUsage] /\ To(l, "idle")
         \/ /\ Unacknowledged(l, Finished(l, t)) \/ Rejected(l)
            /\ To(l, IF pc[l] = "drive" THEN "close" ELSE "idle") /\ UNCHANGED usage
  /\ UNCHANGED seeded

(* closeAfterFailure: reload, then finish the turn if it is still open.    *)
Close(l) ==
  /\ pc[l] = "close" /\ head' = [head EXCEPT ![l] = Len(log)]
  /\ To(l, IF Open(log) = {} THEN "idle" ELSE "closing")
  /\ UNCHANGED <<log, usage, seeded, faults>>

Crash(l) ==
  /\ crashes < MaxCrashes /\ crashes' = crashes + 1
  /\ To(l, "idle") /\ head' = [head EXCEPT ![l] = 0] /\ seeded' = [seeded EXCEPT ![l] = None]
  /\ usage' = [usage EXCEPT ![l] = [t \in Turns |-> EmptyUsage]]
  /\ UNCHANGED <<log, lost, fails>>

Step(l) ==
  Prepare(l) \/ Seed(l) \/ SeededAlready(l) \/ BeginTurn(l) \/ FinishStep(l) \/ FinishTurn(l) \/ Close(l)

Next ==
  /\ UNCHANGED acting
  /\ \E l \in acting : Step(l) \/ Crash(l)

Spec == Init /\ [][Next]_vars

-----------------------------------------------------------------------------
OneReplica == \E l \in acting : acting = {l}

OneCurrency(entries) ==
  \A i, j \in DOMAIN entries :
    entries[i].type = "step.finished" /\ entries[j].type = "step.finished"
      => entries[i].currency = entries[j].currency

Reported(i) == log[i].usage

Steps(i) == Cardinality(StepsOf(SubSeq(log, 1, i), log[i].turn))

(* The usage a turn reports is that of the steps the log has of it:        *)
(* interrupted, crashed and resumed it reports what it would have without  *)
(* (one replica, no acknowledgement lost, one currency).  Whatever else    *)
(* replicas, lost acknowledgements and restarts do to the sum, no step is  *)
(* counted twice.                                                          *)
TurnUsageIsSum ==
  \A i \in DOMAIN log : log[i].type = "turn.finished" =>
    /\ Reported(i) <= Steps(i)
    /\ OneReplica /\ lost = 0 /\ OneCurrency(log) => Reported(i) = Steps(i)
=============================================================================
