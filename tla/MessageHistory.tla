--------------------------- MODULE MessageHistory ---------------------------
(***************************************************************************)
(* The message history of a session as the loop writes and compacts it     *)
(* (agent-loop.ts: #emit and #maybeCompact over projection.ts): turns and  *)
(* steps append events, after a step the compaction strategy decides from  *)
(* the projection, and an event the projection rejects is not appended but *)
(* fails the turn.                                                         *)
(***************************************************************************)
EXTENDS MessageProjection

CONSTANTS
  Sessions,   \* window: maxEntries of the sliding window, or 0 for a strategy that drops any range;
              \* shapes: the steps, their inputs injected, text deltas discarded and kept, tool calls
  MaxSteps    \* bound: steps of the session

VARIABLES
  session,  \* one of Sessions
  log,      \* the events; seq is the place, from 0
  entries,  \* the projection of the log
  phase,    \* "idle", "turn", "maintain"
  again,    \* the turn needs a step: it has none, or the last one called tools
  steps     \* how many steps there were

vars == <<session, log, entries, phase, again, steps>>

Event(type) == [type |-> type, step |-> 0]
CallIds(step, n) == {10 * step + i : i \in 1..n}   \* call ids are unique in a session

(* The events of a whole step, in the order the loop appends them.         *)
StepEvents(step, shape) ==
  LET deltas(n) == [i \in 1..n |-> [type |-> "model.delta", step |-> step]]
      before == <<[type |-> "step.started", step |-> step, inputs |-> shape.inputs], Event("other")>>
      first == Len(log) + 2
      discard == [type |-> "model.attempt.discarded", step |-> step,
                  range |-> [from |-> first, to |-> first + shape.discarded - 1]]
  IN  before \o deltas(shape.discarded) \o (IF shape.discarded = 0 THEN <<>> ELSE <<discard>>)
        \o deltas(shape.texts)
        \o [i \in 1..shape.calls |-> [type |-> "tool.call", step |-> step, call |-> 10 * step + i]]
        \o [i \in 1..shape.calls |-> [type |-> "tool.result", step |-> step, call |-> 10 * step + i]]
        \o <<Event("other")>>

Numbered(events) == [i \in DOMAIN events |-> [seq |-> Len(log) + i - 1] @@ events[i]]

Emit(events) ==
  /\ log' = log \o Numbered(events)
  /\ entries' = FoldLeft(ApplyEvent, entries, Numbered(events))

Compaction(dropped) == <<[type |-> "compaction.applied", range |-> dropped]>>
Accepts(dropped) == ApplyEvent(entries, Numbered(Compaction(dropped))[1]) # Rejected

IsContent(event) ==
  \/ event.type \in {"turn.started", "model.delta", "tool.call", "tool.result"}
  \/ event.type = "step.started" /\ event.inputs > 0

(* A range may begin and end at what the history shows: an event, a summary *)
(* or an edge of what a summary covers.                                    *)
Edges == UNION {{entries[i].seq} \cup UNION {{r.from, r.to} : r \in ToSet(RangesOf(entries[i]))} :
                  i \in DOMAIN entries}
Ranges == {r \in [from : Edges, to : Edges] : r.from <= r.to}

Init ==
  /\ session \in Sessions /\ log = <<>> /\ entries = <<>> /\ phase = "idle"
  /\ again = FALSE /\ steps = 0

StartTurn ==
  /\ phase = "idle" /\ steps < MaxSteps
  /\ Emit(<<Event("turn.started")>>) /\ phase' = "turn" /\ again' = TRUE /\ UNCHANGED <<session, steps>>

RunStep(shape) ==
  /\ phase = "turn" /\ again /\ steps < MaxSteps
  /\ Emit(StepEvents(steps + 1, shape)) /\ phase' = "maintain"
  /\ again' = (shape.calls > 0) /\ steps' = steps + 1
  /\ UNCHANGED session

(* #maybeCompact: the strategy decides and the loop emits.                 *)
Decisions ==
  IF session.window = 0 THEN Ranges
  ELSE IF WindowApplies(entries, session.window) THEN {WindowDrops(entries, session.window)} ELSE {}

MaybeCompact ==
  /\ phase = "maintain" /\ UNCHANGED <<session, again, steps>>
  /\ \/ \E dropped \in Decisions :
          LET event == Numbered(Compaction(dropped))
              compacted == ApplyEvent(entries, event[1])
          IN  IF compacted # Rejected
              THEN log' = log \o event /\ entries' = compacted /\ phase' = "turn"
              ELSE Emit(<<Event("other")>>) /\ phase' = "idle"
     \/ (session.window = 0 \/ Decisions = {}) /\ phase' = "turn" /\ UNCHANGED <<log, entries>>

(* The model has answered, or the stop strategy or an abort ends the turn. *)
FinishTurn ==
  /\ phase = "turn" /\ steps < MaxSteps /\ (again => log[Len(log)].type # "turn.started")
  /\ Emit(<<Event("other")>>) /\ phase' = "idle" /\ UNCHANGED <<session, again, steps>>

Next == StartTurn \/ (\E shape \in session.shapes : RunStep(shape)) \/ MaybeCompact \/ FinishTurn \/ (steps = MaxSteps /\ UNCHANGED vars)

Spec == Init /\ [][Next]_vars

-----------------------------------------------------------------------------
Discarded(seq) == \E i \in DOMAIN log : log[i].type = "model.attempt.discarded" /\ InRange(log[i].range, seq)
Holders(seq) == {RangesOf(entries[i]) : i \in {j \in DOMAIN entries :
                   \E k \in DOMAIN RangesOf(entries[j]) : InRange(RangesOf(entries[j])[k], seq)}}

(* Whatever ranges were compacted, again and over one another: every event *)
(* with content stands in the history once, by itself or in one summary,   *)
(* and what was discarded, or has no content, stands nowhere.              *)
ContentOnce == \A i \in DOMAIN log :
  Cardinality(Holders(i - 1)) = IF IsContent(log[i]) /\ ~Discarded(i - 1) THEN 1 ELSE 0

(* Until something is compacted, a tool message stands right behind the    *)
(* assistant message with its call, other tool messages aside: providers   *)
(* refuse anything else.                                                   *)
AnswersFollowCalls ==
  LET messages == AssembleHistory(Materialize(entries), TRUE)
  IN  (\A i \in DOMAIN entries : ~IsSummary(entries[i])) => \A i \in DOMAIN messages :
        messages[i].role = "tool" =>
          \E j \in 1 .. i - 1 : /\ messages[i].answers \in ToSet(messages[j].calls)
                                /\ \A k \in j + 1 .. i - 1 : messages[k].role = "tool"

(* The sliding window can be applied over and over: what it decides is     *)
(* what the projection takes.                                              *)
WindowAccepted == phase = "maintain" /\ session.window # 0 => \A dropped \in Decisions : Accepts(dropped)
=============================================================================
