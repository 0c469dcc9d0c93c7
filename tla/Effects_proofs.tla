---------------------------- MODULE Effects_proofs ----------------------------
(***************************************************************************)
(* What a step, a turn and a session owe to the tools they run, for any    *)
(* number of replicas, calls, steps and faults and any budgets: the batch  *)
(* of intents, what a turn is reported as, and what one replica's session  *)
(* executes.                                                               *)
(***************************************************************************)
EXTENDS AgentLoop_proofs

-----------------------------------------------------------------------------
(***************************************************************************)
(* The batch of intents of a step: where the log stands between the first  *)
(* delta a model streams and the last intent recorded for it, for any      *)
(* number of replicas, calls and faults and any budgets.                   *)
(***************************************************************************)

(* The sets of AgentLoop, of any log.                                      *)
Of(entries, type, step) ==
  {i \in DOMAIN entries : entries[i].type = type /\ entries[i].step = step}

Kept(entries, step) ==
  {i \in Of(entries, "model.delta", step) :
     \A d \in Of(entries, "model.attempt.discarded", step) :
        entries[i].seq < entries[d].from \/ entries[d].to < entries[i].seq}

CallsOf(entries, positions) == {entries[i].call : i \in positions}

Chosen(entries, step) == CallsOf(entries, Kept(entries, step))
Intended(entries, step) == CallsOf(entries, Of(entries, "tool.call", step))

(* Sequence numbers grow along the log up to its head, and a discard only  *)
(* covers numbers the log had reached.                                     *)
Numbered(entries, head) ==
  /\ \A i, j \in DOMAIN entries : i <= j => entries[i].seq <= entries[j].seq
  /\ \A i \in DOMAIN entries :
       /\ entries[i].seq <= head
       /\ entries[i].type = "model.attempt.discarded" => entries[i].to <= head

(* A step that was begun and has not finished.                             *)
Open(step, entries, s) == step \in s.seenSteps /\ Of(entries, "step.finished", step) = {}

(* Work is recorded for a step that was begun, deltas after the request,   *)
(* and an intent for a call the log still holds as chosen.                 *)
Begun(entries, s) ==
  /\ s.step # None => Open(s.step.id, entries, s)
  /\ \A i \in DOMAIN entries :
       /\ entries[i].type \in {"model.delta", "tool.call", "step.finished"} =>
            entries[i].step \in s.seenSteps
       /\ entries[i].type = "model.delta" => Of(entries, "model.request", entries[i].step) # {}
       /\ entries[i].type = "tool.call" => entries[i].call \in Chosen(entries, entries[i].step)

(* Where a replica writes the batch of the active step, or is about to.    *)
Recording == {"recover", "model", "discard", "stream", "intents", "reconcile"}

Batch(r) == {r.batch[k] : k \in DOMAIN r.batch}

(* Before its first request a replica holds no response.                   *)
NothingStreamed(r) == r.pc \in {"recover", "model"} => Batch(r) = {}

(* A replica r that knows the log's state s: what it holds of the batch is *)
(* what the log holds.                                                     *)
InBatch(r, entries, s) ==
  /\ r.pc \in Recording \ {"recover"} => Open(r.step, entries, s)
  /\ r.pc \in {"model", "discard", "stream"} => Intended(entries, r.step) = {}
  /\ r.pc \in {"discard", "stream", "intents"} => Of(entries, "model.request", r.step) # {}
  /\ r.pc = "model" => Chosen(entries, r.step) = {}
  /\ r.pc \in {"stream", "intents"} => Chosen(entries, r.step) = Batch(r)
  /\ r.pc = "intents" => /\ r.i \in DOMAIN r.batch
                         /\ Intended(entries, r.step) = {r.batch[k] : k \in 1 .. (r.i - 1)}
  /\ r.pc = "reconcile" => /\ r.missing \subseteq Kept(entries, r.step)
                           /\ Intended(entries, r.step) # {}
                           /\ Chosen(entries, r.step)
                                \subseteq Intended(entries, r.step) \cup CallsOf(entries, r.missing)

(* The inductive invariant.  It asks nothing of a replica that is behind   *)
(* the log: the compare-and-swap refuses whatever that one appends.        *)
Recorded ==
  /\ Numbered(log, durable.lastSeq) /\ Begun(log, durable)
  /\ \A l \in Loops : /\ NothingStreamed(loop[l])
                      /\ view[l].lastSeq = durable.lastSeq => InBatch(loop[l], log, durable)

-----------------------------------------------------------------------------
(* What one more event does to those sets.                                 *)

LEMMA OfLog ==
  /\ \A type, step : At(type, step) = Of(log, type, step)
  /\ \A step : ActiveDeltas(step) = Kept(log, step)
  /\ \A positions : CallsAt(positions) = CallsOf(log, positions)
  BY DEF At, Of, ActiveDeltas, Kept, CallsAt, CallsOf

LEMMA Grown ==
  ASSUME NEW S, NEW entries \in Seq(S), NEW e, NEW n, n = Len(entries) + 1
  PROVE  /\ DOMAIN Append(entries, e) = DOMAIN entries \cup {n}
         /\ n \in Nat /\ n \notin DOMAIN entries /\ Append(entries, e)[n] = e
         /\ \A i \in DOMAIN entries : i \in Nat /\ i < n /\ Append(entries, e)[i] = entries[i]
<1>1. Len(entries) \in Nat /\ DOMAIN entries = 1..Len(entries)
  BY LenProperties
<1>2. /\ DOMAIN Append(entries, e) = 1..(Len(entries) + 1)
      /\ Append(entries, e)[Len(entries) + 1] = e
      /\ \A i \in 1..Len(entries) : Append(entries, e)[i] = entries[i]
  OBVIOUS
<1> QED
  BY <1>1, <1>2

LEMMA OfGrown ==
  ASSUME NEW S, NEW entries \in Seq(S), NEW e, NEW n, n = Len(entries) + 1, NEW type, NEW step
  PROVE  Of(Append(entries, e), type, step) =
           Of(entries, type, step) \cup (IF e.type = type /\ e.step = step THEN {n} ELSE {})
<1> DEFINE new == Append(entries, e)
<1>1. /\ DOMAIN new = DOMAIN entries \cup {n}
      /\ n \notin DOMAIN entries /\ new[n] = e
      /\ \A i \in DOMAIN entries : new[i] = entries[i]
  BY Grown
<1> HIDE DEF new
<1>2. \A i : i \in Of(new, type, step) <=>
               \/ i \in Of(entries, type, step)
               \/ i = n /\ e.type = type /\ e.step = step
  BY <1>1 DEF Of
<1> QED
  BY <1>2 DEF new

LEMMA OfOther ==
  ASSUME NEW S, NEW entries \in Seq(S), NEW e, NEW type, NEW step, e.type # type \/ e.step # step
  PROVE  Of(Append(entries, e), type, step) = Of(entries, type, step)
<1> DEFINE n == Len(entries) + 1
           new == Append(entries, e)
<1>1. Of(new, type, step) = Of(entries, type, step) \cup (IF e.type = type /\ e.step = step THEN {n} ELSE {})
  BY OfGrown
<1> HIDE DEF n, new
<1> QED
  BY <1>1 DEF new

LEMMA IntendedGrown ==
  ASSUME NEW S, NEW entries \in Seq(S), NEW e, NEW step
  PROVE  Intended(Append(entries, e), step) =
           Intended(entries, step) \cup (IF e.type = "tool.call" /\ e.step = step THEN {e.call} ELSE {})
<1> DEFINE new == Append(entries, e)
           n == Len(entries) + 1
<1>1. /\ new[n] = e /\ \A i \in Of(entries, "tool.call", step) : new[i] = entries[i]
  BY Grown DEF Of
<1>2. Of(new, "tool.call", step) =
        Of(entries, "tool.call", step) \cup (IF e.type = "tool.call" /\ e.step = step THEN {n} ELSE {})
  BY OfGrown
<1> HIDE DEF new, n
<1> QED
  BY <1>1, <1>2 DEF Intended, CallsOf, new

LEMMA IntendedOther ==
  ASSUME NEW S, NEW entries \in Seq(S), NEW e, NEW step, e.type # "tool.call" \/ e.step # step
  PROVE  Intended(Append(entries, e), step) = Intended(entries, step)
<1> DEFINE new == Append(entries, e)
<1>1. Intended(new, step) =
        Intended(entries, step) \cup (IF e.type = "tool.call" /\ e.step = step THEN {e.call} ELSE {})
  BY IntendedGrown
<1> HIDE DEF new
<1> QED
  BY <1>1 DEF new

(* An event that is no delta and no discard of the step leaves its kept    *)
(* deltas; a delta beyond all discards is kept; a discard around all kept  *)
(* deltas leaves none.                                                     *)
LEMMA KeptGrown ==
  ASSUME NEW S, NEW entries \in Seq(S), NEW e, NEW n, n = Len(entries) + 1, NEW step
  PROVE  /\ e.step # step \/ e.type \notin {"model.delta", "model.attempt.discarded"} =>
              Kept(Append(entries, e), step) = Kept(entries, step)
         /\ /\ e.step = step /\ e.type = "model.delta"
            /\ \A d \in Of(entries, "model.attempt.discarded", step) : entries[d].to < e.seq
            => Kept(Append(entries, e), step) = Kept(entries, step) \cup {n}
         /\ /\ e.step = step /\ e.type = "model.attempt.discarded"
            /\ \A i \in Kept(entries, step) : ~(entries[i].seq < e.from \/ e.to < entries[i].seq)
            => Kept(Append(entries, e), step) = {}
<1> DEFINE new == Append(entries, e)
           delta(es) == Of(es, "model.delta", step)
           discard(es) == Of(es, "model.attempt.discarded", step)
<1>1. /\ new[n] = e /\ \A i \in delta(entries) \cup discard(entries) : new[i] = entries[i]
      /\ n \notin delta(entries)
  BY Grown DEF Of
<1>2. /\ delta(new) = delta(entries) \cup (IF e.type = "model.delta" /\ e.step = step THEN {n} ELSE {})
      /\ discard(new) =
           discard(entries) \cup (IF e.type = "model.attempt.discarded" /\ e.step = step THEN {n} ELSE {})
  BY OfGrown
<1>3. /\ \A i : i \in Kept(new, step) <=>
                /\ i \in delta(new)
                /\ \A d \in discard(new) : new[i].seq < new[d].from \/ new[d].to < new[i].seq
      /\ \A i : i \in Kept(entries, step) <=>
                /\ i \in delta(entries)
                /\ \A d \in discard(entries) : entries[i].seq < entries[d].from \/ entries[d].to < entries[i].seq
  BY DEF Kept
<1> HIDE DEF new, delta, discard
<1>4. CASE e.step # step \/ e.type \notin {"model.delta", "model.attempt.discarded"}
  <2>1. delta(new) = delta(entries) /\ discard(new) = discard(entries)
    BY <1>2, <1>4
  <2>2. \A i : i \in Kept(new, step) <=> i \in Kept(entries, step)
    BY <2>1, <1>1, <1>3
  <2> QED
    BY <2>2, <1>4 DEF new
<1>5. CASE e.step = step /\ e.type = "model.delta"
  <2>1. delta(new) = delta(entries) \cup {n} /\ discard(new) = discard(entries)
    BY <1>2, <1>5
  <2>2. ASSUME \A d \in discard(entries) : entries[d].to < e.seq
        PROVE  \A i : i \in Kept(new, step) <=> i \in Kept(entries, step) \cup {n}
    <3>1. n \in Kept(new, step)
      BY <2>1, <2>2, <1>1, <1>3
    <3>2. \A i : i # n => (i \in Kept(new, step) <=> i \in Kept(entries, step))
      BY <2>1, <1>1, <1>3
    <3> QED
      BY <3>1, <3>2
  <2> QED
    BY <2>2, <1>5 DEF new, discard
<1>6. CASE e.step = step /\ e.type = "model.attempt.discarded"
  <2>1. delta(new) = delta(entries) /\ discard(new) = discard(entries) \cup {n}
    BY <1>2, <1>6
  <2>2. ASSUME \A i \in Kept(entries, step) : ~(entries[i].seq < e.from \/ e.to < entries[i].seq),
               NEW i \in Kept(new, step)
        PROVE  FALSE
    <3>1. i \in Kept(entries, step)
      BY <2>1, <2>2, <1>1, <1>3
    <3>2. new[i].seq < e.from \/ e.to < new[i].seq
      BY <2>1, <2>2, <1>1, <1>3
    <3> QED
      BY <3>1, <3>2, <2>2, <1>1, <1>3
  <2> QED
    BY <2>2, <1>6 DEF new
<1> QED
  BY <1>4, <1>5, <1>6

LEMMA ChosenGrown ==
  ASSUME NEW S, NEW entries \in Seq(S), NEW e, NEW step
  PROVE  /\ e.step # step \/ e.type \notin {"model.delta", "model.attempt.discarded"} =>
              Chosen(Append(entries, e), step) = Chosen(entries, step)
         /\ /\ e.step = step /\ e.type = "model.delta"
            /\ \A d \in Of(entries, "model.attempt.discarded", step) : entries[d].to < e.seq
            => Chosen(Append(entries, e), step) = Chosen(entries, step) \cup {e.call}
         /\ /\ e.step = step /\ e.type = "model.attempt.discarded"
            /\ \A i \in Kept(entries, step) : ~(entries[i].seq < e.from \/ e.to < entries[i].seq)
            => Chosen(Append(entries, e), step) = {}
<1> DEFINE new == Append(entries, e)
           n == Len(entries) + 1
<1>1. new[n] = e /\ \A i \in Kept(entries, step) : new[i] = entries[i]
  BY Grown DEF Kept, Of
<1>2. \A positions : positions \subseteq Kept(entries, step) =>
        /\ CallsOf(new, positions) = CallsOf(entries, positions)
        /\ CallsOf(new, positions \cup {n}) = CallsOf(entries, positions) \cup {e.call}
  <2> HIDE DEF new, n
  <2> QED
    BY <1>1 DEF CallsOf
<1>3. CallsOf(new, {}) = {}
  BY DEF CallsOf
<1>4. /\ e.step # step \/ e.type \notin {"model.delta", "model.attempt.discarded"} =>
           Kept(new, step) = Kept(entries, step)
      /\ /\ e.step = step /\ e.type = "model.delta"
         /\ \A d \in Of(entries, "model.attempt.discarded", step) : entries[d].to < e.seq
         => Kept(new, step) = Kept(entries, step) \cup {n}
      /\ /\ e.step = step /\ e.type = "model.attempt.discarded"
         /\ \A i \in Kept(entries, step) : ~(entries[i].seq < e.from \/ e.to < entries[i].seq)
         => Kept(new, step) = {}
  BY KeptGrown
<1>5. Chosen(new, step) = CallsOf(new, Kept(new, step))
      /\ Chosen(entries, step) = CallsOf(entries, Kept(entries, step))
  BY DEF Chosen
<1>6. /\ CallsOf(new, Kept(entries, step)) = CallsOf(entries, Kept(entries, step))
      /\ CallsOf(new, Kept(entries, step) \cup {n}) = CallsOf(entries, Kept(entries, step)) \cup {e.call}
  BY <1>2
<1> HIDE DEF n, new
<1> QED
  BY <1>3, <1>4, <1>5, <1>6 DEF new

LEMMA NumberedGrown ==
  ASSUME NEW entries \in Seq(AnEvent), NEW e \in AnEvent, NEW head \in Int,
         Numbered(entries, head), e.seq > head,
         e.type = "model.attempt.discarded" => e.to < e.seq
  PROVE  Numbered(Append(entries, e), e.seq)
<1> DEFINE new == Append(entries, e)
           n == Len(entries) + 1
<1>1. /\ DOMAIN new = DOMAIN entries \cup {n} /\ new[n] = e /\ n \in Nat
      /\ \A i \in DOMAIN entries : i \in Nat /\ i < n /\ new[i] = entries[i]
  BY Grown
<1>2. e.seq \in Int /\ e.to \in Int
  BY DEF AnEvent, Events
<1>3. \A i \in DOMAIN entries : entries[i].seq \in Int /\ entries[i].to \in Int
  <2>1. \A i \in DOMAIN entries : entries[i] \in AnEvent
    BY SeqElement
  <2> QED
    BY <2>1 DEF AnEvent, Events
<1> HIDE DEF new, n
<1>4. ASSUME NEW i \in DOMAIN new
      PROVE  new[i].seq <= e.seq /\ (new[i].type = "model.attempt.discarded" => new[i].to <= e.seq)
  <2>1. CASE i = n
    BY <2>1, <1>1, <1>2
  <2>2. CASE i \in DOMAIN entries
    <3>1. entries[i].seq <= head /\ (entries[i].type = "model.attempt.discarded" => entries[i].to <= head)
      BY <2>2 DEF Numbered
    <3> QED
      BY <3>1, <2>2, <1>1, <1>2, <1>3
  <2> QED
    BY <2>1, <2>2, <1>1
<1>5. ASSUME NEW i \in DOMAIN new, NEW j \in DOMAIN new, i <= j
      PROVE  new[i].seq <= new[j].seq
  <2>1. CASE j = n
    BY <2>1, <1>1, <1>4
  <2>2. CASE j \in DOMAIN entries
    <3>1. i \in DOMAIN entries
      BY <2>2, <1>1, <1>5
    <3> QED
      BY <3>1, <2>2, <1>1, <1>5 DEF Numbered
  <2> QED
    BY <2>1, <2>2, <1>1
<1> QED
  BY <1>4, <1>5 DEF Numbered, new

(* The steps a state knows, after an event.                                *)
LEMMA ApplySteps ==
  ASSUME NEW s \in AState, NEW e
  PROVE  LET n == Apply(s, e)
         IN  /\ n.seenSteps = IF e.type = "step.started" THEN s.seenSteps \cup {e.step} ELSE s.seenSteps
             /\ n.seenCalls = IF e.type = "tool.call" THEN s.seenCalls \cup {e.call} ELSE s.seenCalls
             /\ n.lastSeq = e.seq
<1> DEFINE n == Apply(s, e)
           b == ApplyBody(s, e)
<1>1. n.seenSteps = b.seenSteps /\ n.seenCalls = b.seenCalls
  BY DEF Apply
<1>2. DOMAIN b = DOMAIN s /\ "lastSeq" \in DOMAIN s
  BY DEF ApplyBody, ApplyTurnStarted, ApplyStepStarted, ApplyStepFinished, ApplyToolCall, ApplyToolResult,
     ApplyPermissionRequested, ApplyPermissionResolved, ApplyTurnFinished, AState, SessionStates
<1>3. n.lastSeq = e.seq
  <2> HIDE DEF b
  <2>1. n = [b EXCEPT !.lastSeq = e.seq]
    BY DEF Apply, b
  <2> QED
    BY <2>1, <1>2
<1> QED
  BY <1>1, <1>3 DEF ApplyBody, ApplyTurnStarted, ApplyStepStarted, ApplyStepFinished, ApplyToolCall, ApplyToolResult,
     ApplyPermissionRequested, ApplyPermissionResolved, ApplyTurnFinished, AState, SessionStates

(* What an event has to be for the log to stay well begun.                 *)
Fits(event, entries, s) ==
  /\ event.type \in {"model.delta", "tool.call"} => event.step \in s.seenSteps
  /\ event.type = "model.delta" => Of(entries, "model.request", event.step) # {}
  /\ event.type = "tool.call" => event.call \in Chosen(entries, event.step)
  /\ event.type = "model.attempt.discarded" => Intended(entries, event.step) = {}

LEMMA BegunGrown ==
  ASSUME NEW entries \in Seq(AnEvent), NEW s \in AState, NEW e \in AnEvent,
         Numbered(entries, s.lastSeq), Begun(entries, s), Valid(s, e), Fits(e, entries, s)
  PROVE  Begun(Append(entries, e), Apply(s, e))
<1> DEFINE new == Append(entries, e)
           t == Apply(s, e)
           n == Len(entries) + 1
<1>1. /\ DOMAIN new = DOMAIN entries \cup {n} /\ new[n] = e
      /\ \A i \in DOMAIN entries : new[i] = entries[i]
  BY Grown
<1>2. /\ t.seenSteps = IF e.type = "step.started" THEN s.seenSteps \cup {e.step} ELSE s.seenSteps
      /\ t.step = CASE e.type = "step.started" -> [turn |-> e.turn, id |-> e.step]
                    [] e.type \in {"step.finished", "turn.started"} -> None
                    [] OTHER -> s.step
  BY ApplySteps, ApplyFields
<1>3. \A step : Of(entries, "model.request", step) \subseteq Of(new, "model.request", step)
  BY OfGrown
<1>4. e.type = "step.finished" => e.step \in s.seenSteps
  BY DEF Valid, ValidStepFinished, Begun, Open
<1>5. \A d \in DOMAIN entries : entries[d].type = "model.attempt.discarded" => entries[d].to < e.seq
  <2>1. e.seq > s.lastSeq /\ e.seq \in Int /\ s.lastSeq \in Int
    BY DEF Valid, AnEvent, Events, AState, SessionStates
  <2>2. \A d \in DOMAIN entries : entries[d] \in AnEvent
    BY SeqElement
  <2>3. \A d \in DOMAIN entries : entries[d].to \in Int
    BY <2>2 DEF AnEvent, Events
  <2> QED
    BY <2>1, <2>3 DEF Numbered
<1>6. ASSUME NEW step, NEW c, c \in Chosen(entries, step),
             e.type = "model.attempt.discarded" => e.step # step
      PROVE  c \in Chosen(new, step)
  BY <1>5, <1>6, ChosenGrown DEF Of
<1>7. t.step # None => Open(t.step.id, new, t)
  <2>1. CASE e.type = "step.started"
    <3>1. e.step \notin s.seenSteps /\ t.step.id = e.step /\ e.step \in t.seenSteps
      BY <2>1, <1>2 DEF Valid, ValidStepStarted
    <3>2. Of(entries, "step.finished", e.step) = {}
      BY <3>1 DEF Begun, Of
    <3>3. Of(new, "step.finished", e.step) = {}
      BY <3>2, <2>1, OfGrown
    <3> HIDE DEF new, t
    <3> QED
      BY <3>1, <3>3 DEF Open
  <2>2. CASE e.type \in {"step.finished", "turn.started"}
    BY <2>2, <1>2
  <2>3. CASE e.type \notin {"step.started", "step.finished", "turn.started"}
    <3>1. \A step : Of(new, "step.finished", step) = Of(entries, "step.finished", step)
      BY <2>3, OfOther
    <3>2. t.step = s.step /\ t.seenSteps = s.seenSteps
      BY <2>3, <1>2
    <3>3. s.step # None => Open(s.step.id, entries, s)
      BY DEF Begun
    <3> HIDE DEF new, t
    <3> QED
      BY <3>1, <3>2, <3>3 DEF Open
  <2> QED
    BY <2>1, <2>2, <2>3
<1> HIDE DEF new, t, n
<1>8. ASSUME NEW i \in DOMAIN new
      PROVE  /\ new[i].type \in {"model.delta", "tool.call", "step.finished"} => new[i].step \in t.seenSteps
             /\ new[i].type = "model.delta" => Of(new, "model.request", new[i].step) # {}
             /\ new[i].type = "tool.call" => new[i].call \in Chosen(new, new[i].step)
  <2>1. CASE i = n
    <3>1. /\ e.type \in {"model.delta", "tool.call", "step.finished"} => e.step \in t.seenSteps
          /\ e.type = "model.delta" => Of(new, "model.request", e.step) # {}
      BY <1>2, <1>3, <1>4 DEF Fits
    <3>2. e.type = "tool.call" => e.call \in Chosen(new, e.step)
      BY <1>6 DEF Fits
    <3> QED
      BY <2>1, <3>1, <3>2, <1>1
  <2>2. CASE i \in DOMAIN entries
    <3>1. new[i] = entries[i]
      BY <2>2, <1>1
    <3>2. /\ new[i].type \in {"model.delta", "tool.call", "step.finished"} => new[i].step \in t.seenSteps
          /\ new[i].type = "model.delta" => Of(new, "model.request", new[i].step) # {}
      BY <2>2, <3>1, <1>2, <1>3 DEF Begun
    <3>3. ASSUME new[i].type = "tool.call" PROVE new[i].call \in Chosen(new, new[i].step)
      <4>1. new[i].call \in Chosen(entries, new[i].step)
        BY <2>2, <3>1, <3>3 DEF Begun
      <4>2. Intended(entries, new[i].step) # {}
        BY <2>2, <3>1, <3>3 DEF Intended, CallsOf, Of
      <4>3. e.type = "model.attempt.discarded" => e.step # new[i].step
        BY <4>2 DEF Fits
      <4> QED
        BY <4>1, <4>3, <1>6
    <3> QED
      BY <3>2, <3>3
  <2> QED
    BY <2>1, <2>2, <1>1
<1> QED
  BY <1>7, <1>8 DEF Begun, new, t

-----------------------------------------------------------------------------
(* What the ways of advancing keep.                                        *)

LEMMA Elsewhere ==
  ASSUME NEW r, r.pc \notin Recording, NEW entries, NEW s
  PROVE  NothingStreamed(r) /\ InBatch(r, entries, s)
  BY DEF NothingStreamed, InBatch, Recording

LEMMA FailedElsewhere ==
  ASSUME NEW l
  PROVE  Failed(l).pc \notin Recording /\ IdleLoop.pc \notin Recording
  BY DEF Failed, IdleLoop, Recording

(* A step that appends nothing.                                            *)
LEMMA QuietRecorded ==
  ASSUME Coherent, Recorded, UNCHANGED <<log, durable>>, NEW l \in Loops, NEW next,
         loop' = [loop EXCEPT ![l] = next],
         \/ view' = view
         \/ view' = [view EXCEPT ![l] = durable]
         \/ view' = [view EXCEPT ![l] = EmptyState],
         NothingStreamed(next), view'[l].lastSeq = durable.lastSeq => InBatch(next, log, durable)
  PROVE  Recorded'
<1>1. ASSUME NEW m \in Loops
      PROVE  /\ NothingStreamed(loop'[m])
             /\ view'[m].lastSeq = durable.lastSeq => InBatch(loop'[m], log, durable)
  <2>1. CASE m = l
    BY <2>1, <1>1 DEF Coherent, TypeOK
  <2>2. CASE m # l
    <3>1. loop'[m] = loop[m] /\ view'[m] = view[m]
      BY <2>2 DEF Coherent, TypeOK
    <3> QED
      BY <3>1, <1>1 DEF Recorded
  <2> QED
    BY <2>1, <2>2
<1> QED
  BY <1>1 DEF Recorded

(* #emit: a replica that is behind appends nothing, and one that appended  *)
(* leaves the others behind.                                               *)
LEMMA EmitRecorded ==
  ASSUME Coherent, Coherent', Recorded, NEW l \in Loops,
         NEW event, DOMAIN event = DOMAIN NoEvent, NEW next, Emit(l, event, next),
         NEW e, e = NextEvent(l, event), NothingStreamed(next),
         view[l] = durable /\ InBatch(loop[l], log, durable) /\ Valid(durable, e) =>
           Fits(event, log, durable) /\ InBatch(next, Append(log, e), Apply(durable, e))
  PROVE  Recorded'
<1>t. /\ log \in Seq(AnEvent) /\ log' \in Seq(AnEvent) /\ durable \in AState /\ durable' \in AState
      /\ view \in [Loops -> AState] /\ loop \in [Loops -> LoopStates]
  BY DEF Coherent, TypeOK
<1>1. CASE UNCHANGED <<log, durable, view>> /\ loop' = [loop EXCEPT ![l] = Failed(l)]
  BY <1>1, QuietRecorded, FailedElsewhere, Elsewhere
<1>2. CASE /\ Valid(view[l], e) /\ AppendAccepted(l, e) /\ Persist(e)
           /\ view' = view \/ view' = [view EXCEPT ![l] = Apply(@, e)]
           /\ loop' = [loop EXCEPT ![l] = next] \/ loop' = [loop EXCEPT ![l] = Failed(l)]
  <2>1. view[l] = durable /\ log' = Append(log, e) /\ durable' = Apply(durable, e)
    BY <1>2 DEF AppendAccepted, Persist, Coherent, CasCoherent
  <2>2. InBatch(loop[l], log, durable) /\ Valid(durable, e)
    BY <1>2, <2>1 DEF Recorded
  <2>3. e \in AnEvent
    BY <1>t, <2>1, Appended
  <2>4. e.type = event.type /\ e.step = event.step /\ e.call = event.call
    BY DEF NextEvent, NoEvent
  <2>5. Fits(e, log, durable) /\ InBatch(next, log', durable')
    BY <2>1, <2>2, <2>4 DEF Fits
  <2>6. /\ e.seq \in Int /\ durable.lastSeq \in Int /\ e.seq > durable.lastSeq
        /\ durable'.lastSeq = e.seq
        /\ e.type = "model.attempt.discarded" => e.to < e.seq
    <3>1. e.seq \in Int /\ durable.lastSeq \in Int
      BY <1>t, <2>3 DEF AnEvent, Events, AState, SessionStates
    <3>2. e.seq > durable.lastSeq /\ (e.type = "model.attempt.discarded" => e.to < e.seq)
      BY <2>2 DEF Valid
    <3> QED
      BY <3>1, <3>2, <1>t, <2>1, ApplySteps
  <2>7. Numbered(log', durable'.lastSeq) /\ Begun(log', durable')
    <3>1. Numbered(log, durable.lastSeq) /\ Begun(log, durable)
      BY DEF Recorded
    <3> QED
      BY <3>1, <1>t, <2>1, <2>2, <2>3, <2>5, <2>6, NumberedGrown, BegunGrown
  <2>8. ASSUME NEW m \in Loops
        PROVE  /\ NothingStreamed(loop'[m])
               /\ view'[m].lastSeq = durable'.lastSeq => InBatch(loop'[m], log', durable')
    <3>1. CASE m = l
      <4>1. loop'[m] = next \/ loop'[m] = Failed(l)
        BY <3>1, <1>t, <1>2
      <4> QED
        BY <4>1, <2>5, FailedElsewhere, Elsewhere
    <3>2. CASE m # l
      <4>1. view'[m] = view[m] /\ view[m] \in AState /\ loop'[m] = loop[m]
        BY <3>2, <1>t, <1>2
      <4>2. view[m].lastSeq <= durable.lastSeq /\ view[m].lastSeq \in Int
        BY <4>1 DEF Coherent, CasCoherent, AState, SessionStates
      <4>3. NothingStreamed(loop[m])
        BY DEF Recorded
      <4> QED
        BY <4>1, <4>2, <4>3, <2>6
    <3> QED
      BY <3>1, <3>2
  <2> QED
    BY <2>7, <2>8 DEF Recorded
<1> QED
  BY <1>1, <1>2 DEF Emit

(* Most events touch no batch, and lead where none is recorded.            *)
LEMMA EmitElsewhere ==
  ASSUME Coherent, Coherent', Recorded, NEW l \in Loops,
         NEW event, DOMAIN event = DOMAIN NoEvent, NEW next, Emit(l, event, next),
         event.type \notin {"model.delta", "tool.call", "model.attempt.discarded"},
         next.pc \notin Recording
  PROVE  Recorded'
<1>1. Fits(event, log, durable)
  BY DEF Fits
<1> QED
  BY <1>1, Elsewhere, EmitRecorded

LEMMA QuietElsewhere ==
  ASSUME Coherent, Recorded, UNCHANGED <<log, durable>>, NEW l \in Loops, NEW next,
         loop' = [loop EXCEPT ![l] = next],
         \/ view' = view
         \/ view' = [view EXCEPT ![l] = durable]
         \/ view' = [view EXCEPT ![l] = EmptyState],
         next.pc \notin Recording
  PROVE  Recorded'
  BY QuietRecorded, Elsewhere

(* Where the shorthands lead.                                              *)
LEMMA Places ==
  ASSUME Coherent, NEW l \in Loops
  PROVE  /\ DOMAIN loop[l] = {"pc", "turn", "step", "batch", "i", "call", "attempt", "via", "failed",
                              "aborted", "outcome", "action", "asks", "calls", "missing"}
         /\ \A failed : NextCall(l, failed).pc \in {"recoverAsks", "reload", "permission", "finish"}
         /\ \A pc : Goto(l, pc).pc = pc
         /\ Failed(l).pc \in {"idle", "closing"} /\ IdleLoop.pc = "idle"
<1>1. DOMAIN loop[l] = {"pc", "turn", "step", "batch", "i", "call", "attempt", "via", "failed",
                        "aborted", "outcome", "action", "asks", "calls", "missing"}
  BY DEF Coherent, TypeOK, LoopStates
<1>2. \A failed : NextCall(l, failed).pc \in {"recoverAsks", "reload", "permission", "finish"}
  BY <1>1 DEF NextCall
<1>3. \A pc : Goto(l, pc).pc = pc
  BY <1>1 DEF Goto
<1>4. Failed(l).pc \in {"idle", "closing"} /\ IdleLoop.pc = "idle"
  BY DEF Failed, IdleLoop
<1> QED
  BY <1>1, <1>2, <1>3, <1>4

-----------------------------------------------------------------------------
(* The actions.                                                            *)

(* A step the state does not know has no work in the log.                  *)
LEMMA NewStep ==
  ASSUME NEW entries, NEW s, Begun(entries, s), NEW step, step \notin s.seenSteps
  PROVE  /\ Of(entries, "step.finished", step) = {}
         /\ Intended(entries, step) = {} /\ Chosen(entries, step) = {}
  BY DEF Begun, Of, Intended, Chosen, Kept, CallsOf

(* runTurn, resumeTurn and #driveTurn.                                     *)
LEMMA DriveRecorded ==
  ASSUME Coherent, Coherent', Recorded, NEW l \in Loops,
         \/ RunTurn(l) \/ BeginTurn(l) \/ ResumeTurn(l) \/ Abort(l)
         \/ DriveAborted(l) \/ FinishTurn(l) \/ StartStep(l)
  PROVE  Recorded'
<1>f. /\ DOMAIN loop[l] = {"pc", "turn", "step", "batch", "i", "call", "attempt", "via", "failed",
                           "aborted", "outcome", "action", "asks", "calls", "missing"}
      /\ \A pc : Goto(l, pc).pc = pc
      /\ Failed(l).pc \in {"idle", "closing"} /\ IdleLoop.pc = "idle"
  BY Places
<1>r. /\ Begun(log, durable) /\ NothingStreamed(loop[l])
      /\ view[l].lastSeq = durable.lastSeq => InBatch(loop[l], log, durable)
  BY DEF Recorded
<1>1. CASE RunTurn(l)
  <2>1. [IdleLoop EXCEPT !.pc = "begin", !.turn = durable.lastSeq + 1].pc = "begin"
    BY DEF IdleLoop
  <2> QED
    BY <1>1, <2>1, QuietElsewhere DEF RunTurn, Reload, Recording
<1>2. CASE ResumeTurn(l)
  <2> DEFINE next == [IdleLoop EXCEPT !.pc = "recover", !.turn = durable.turn]
  <2>1. next.pc = "recover" /\ next.batch = <<>> /\ DOMAIN <<>> = {}
    BY DEF IdleLoop
  <2> HIDE DEF next
  <2>2. NothingStreamed(next) /\ InBatch(next, log, durable)
    BY <2>1 DEF NothingStreamed, Batch, InBatch, Recording
  <2> QED
    BY <1>2, <2>2, QuietRecorded DEF ResumeTurn, Reload, next
<1>3. CASE Abort(l)
  <2> DEFINE next == [loop[l] EXCEPT !.aborted = TRUE]
  <2>1. /\ next.pc = loop[l].pc /\ next.step = loop[l].step /\ next.batch = loop[l].batch
        /\ next.i = loop[l].i /\ next.missing = loop[l].missing
    BY <1>f
  <2> HIDE DEF next
  <2>2. NothingStreamed(next) /\ (view[l].lastSeq = durable.lastSeq => InBatch(next, log, durable))
    BY <2>1, <1>r DEF NothingStreamed, Batch, InBatch
  <2> QED
    BY <1>3, <2>2, QuietRecorded DEF Abort, Move, next
<1>4. CASE DriveAborted(l)
  BY <1>4, <1>f, QuietElsewhere DEF DriveAborted, Move, Recording
<1>5. CASE BeginTurn(l)
  <2> DEFINE event == [NoEvent EXCEPT !.type = "turn.started", !.turn = loop[l].turn]
  <2>1. DOMAIN event = DOMAIN NoEvent /\ event.type = "turn.started"
    BY DEF NoEvent
  <2> HIDE DEF event
  <2> QED
    BY <1>5, <1>f, <2>1, EmitElsewhere DEF BeginTurn, Recording, event
<1>6. CASE FinishTurn(l)
  <2> DEFINE event == [NoEvent EXCEPT !.type = "turn.finished", !.turn = loop[l].turn,
                                      !.outcome = PersistedReason(StopReason(loop[l].turn))]
  <2>1. DOMAIN event = DOMAIN NoEvent /\ event.type = "turn.finished"
    BY DEF NoEvent
  <2> HIDE DEF event
  <2> QED
    BY <1>6, <1>f, <2>1, EmitElsewhere DEF FinishTurn, Recording, event
<1>7. CASE StartStep(l)
  <2> DEFINE index == (IF view[l].turn = None THEN 0 ELSE view[l].lastStep) + 1
             step  == <<loop[l].turn, index>>
             event == [NoEvent EXCEPT !.type = "step.started", !.turn = loop[l].turn,
                                      !.step = step, !.index = index]
             next  == [loop[l] EXCEPT !.pc = "model", !.step = step, !.batch = <<>>, !.attempt = 1,
                                      !.via = "batch", !.failed = FALSE]
             e     == NextEvent(l, event)
             new   == Append(log, e)
             n     == Apply(durable, e)
  <2> HIDE DEF index, step
  <2>1. /\ DOMAIN event = DOMAIN NoEvent /\ event.type = "step.started" /\ event.step = step
        /\ e.type = "step.started" /\ e.step = step
    BY DEF NoEvent, NextEvent
  <2>2. next.pc = "model" /\ next.step = step /\ next.batch = <<>> /\ DOMAIN <<>> = {}
    BY <1>f
  <2>3. Emit(l, event, next)
    BY <1>7 DEF StartStep, index, step
  <2> HIDE DEF event, next, e
  <2>4. ASSUME Valid(durable, e) PROVE Fits(event, log, durable) /\ InBatch(next, new, n)
    <3>1. step \notin durable.seenSteps
      BY <2>1, <2>4 DEF Valid, ValidStepStarted
    <3>2. /\ Of(log, "step.finished", step) = {}
          /\ Intended(log, step) = {} /\ Chosen(log, step) = {}
      BY <3>1, <1>r, NewStep
    <3>3. log \in Seq(AnEvent) /\ durable \in AState
      BY DEF Coherent, TypeOK
    <3>4. Of(new, "step.finished", step) = {} /\ Chosen(new, step) = {}
      BY <2>1, <3>2, <3>3, OfOther, ChosenGrown
    <3>5. Intended(new, step) = Intended(log, step)
      BY <2>1, <3>3, IntendedOther
    <3>6. step \in n.seenSteps
      BY <2>1, <3>3, ApplySteps
    <3>7. Fits(event, log, durable)
      BY <2>1 DEF Fits
    <3> HIDE DEF new, n
    <3> QED
      BY <2>2, <3>2, <3>4, <3>5, <3>6, <3>7 DEF InBatch, Open, Recording
  <2>5. NothingStreamed(next)
    BY <2>2 DEF NothingStreamed, Batch
  <2> QED
    BY <2>1, <2>3, <2>4, <2>5, EmitRecorded DEF e
<1> QED
  BY <1>1, <1>2, <1>3, <1>4, <1>5, <1>6, <1>7

LEMMA OpenKept ==
  ASSUME NEW entries \in Seq(AnEvent), NEW s \in AState, NEW e, e.type # "step.finished",
         NEW step, Open(step, entries, s)
  PROVE  Open(step, Append(entries, e), Apply(s, e))
<1>1. Of(Append(entries, e), "step.finished", step) = Of(entries, "step.finished", step)
  BY OfOther
<1>2. step \in Apply(s, e).seenSteps
  BY ApplySteps DEF Open
<1> QED
  BY <1>1, <1>2 DEF Open

LEMMA BatchGrown ==
  ASSUME NEW r, r.batch \in Seq(CallIds), NEW c \in CallIds, NEW q, q.batch = Append(r.batch, c)
  PROVE  Batch(q) = Batch(r) \cup {c}
<1> DEFINE n == Len(r.batch) + 1
<1>1. /\ DOMAIN q.batch = DOMAIN r.batch \cup {n} /\ q.batch[n] = c
      /\ \A i \in DOMAIN r.batch : q.batch[i] = r.batch[i]
  BY Grown
<1> HIDE DEF n
<1> QED
  BY <1>1 DEF Batch

(* callModel: what the model streams is what the log holds of it.          *)
LEMMA ModelRecorded ==
  ASSUME Coherent, Coherent', Recorded, NEW l \in Loops, ModelPhase(l)
  PROVE  Recorded'
<1> DEFINE step == loop[l].step
           here(event) == NextEvent(l, event)
<1>f. /\ DOMAIN loop[l] = {"pc", "turn", "step", "batch", "i", "call", "attempt", "via", "failed",
                           "aborted", "outcome", "action", "asks", "calls", "missing"}
      /\ \A pc : Goto(l, pc).pc = pc
      /\ Failed(l).pc \in {"idle", "closing"} /\ IdleLoop.pc = "idle"
  BY Places
<1>r. /\ Begun(log, durable) /\ NothingStreamed(loop[l]) /\ Numbered(log, durable.lastSeq)
      /\ view[l].lastSeq = durable.lastSeq => InBatch(loop[l], log, durable)
  BY DEF Recorded
<1>t. /\ log \in Seq(AnEvent) /\ durable \in AState /\ durable.lastSeq \in Int
      /\ loop[l].batch \in Seq(CallIds)
  BY LoopType DEF Coherent, TypeOK, AState, SessionStates, LoopStates
<1>n. DOMAIN <<>> = {}
  OBVIOUS
<1>1. CASE RequestModel(l)
  <2> DEFINE event == InStep(l, "model.request")
             e     == here(event)
             next  == Goto(l, "stream")
             new   == Append(log, e)
             n     == Apply(durable, e)
  <2>1. /\ DOMAIN event = DOMAIN NoEvent /\ event.type = "model.request"
        /\ e.type = "model.request" /\ e.step = step
    BY DEF InStep, NextEvent, NoEvent
  <2>2. next.pc = "stream" /\ next.step = step /\ next.batch = loop[l].batch
    BY <1>f DEF Goto
  <2>3. Emit(l, event, next) /\ loop[l].pc = "model"
    BY <1>1 DEF RequestModel
  <2> HIDE DEF event, next, e
  <2>4. ASSUME InBatch(loop[l], log, durable) PROVE InBatch(next, new, n)
    <3>1. /\ Open(step, log, durable) /\ Intended(log, step) = {} /\ Chosen(log, step) = {}
          /\ Batch(loop[l]) = {}
      BY <2>3, <2>4, <1>r DEF InBatch, Recording, NothingStreamed
    <3>2. Open(step, new, n) /\ Intended(new, step) = {} /\ Chosen(new, step) = {}
      BY <3>1, <2>1, <1>t, OpenKept, IntendedOther, ChosenGrown
    <3>3. Len(log) + 1 \in Of(new, "model.request", step)
      BY <2>1, <1>t, OfGrown
    <3>4. Batch(next) = {}
      BY <3>1, <2>2 DEF Batch
    <3> HIDE DEF new, n, step
    <3> QED
      BY <2>2, <3>2, <3>3, <3>4 DEF InBatch, Recording
  <2>5. Fits(event, log, durable) /\ NothingStreamed(next)
    BY <2>1, <2>2 DEF Fits, NothingStreamed
  <2> QED
    BY <2>1, <2>3, <2>4, <2>5, EmitRecorded DEF e
<1>2. CASE DiscardDeltas(l)
  <2> DEFINE next == [loop[l] EXCEPT !.pc = "stream", !.batch = <<>>]
             active == Kept(log, step)
  <2>1. /\ next.pc = "stream" /\ next.step = step /\ Batch(next) = {} /\ NothingStreamed(next)
    BY <1>f, <1>n DEF Batch, NothingStreamed
  <2>2. loop[l].pc = "discard"
    BY <1>2 DEF DiscardDeltas
  <2>3. ActiveDeltas(step) = active
    BY OfLog
  <2> HIDE DEF next
  <2>4. CASE active = {} /\ Move(l, next)
    <3>1. Chosen(log, step) = {}
      BY <2>4 DEF Chosen, CallsOf
    <3>2. InBatch(loop[l], log, durable) => InBatch(next, log, durable)
      BY <2>1, <2>2, <3>1 DEF InBatch, Recording
    <3> QED
      BY <2>1, <2>4, <3>2, <1>r, QuietRecorded DEF Move
  <2>5. ASSUME NEW first \in active, NEW last \in active,
               \A i \in active : first <= i /\ i <= last,
               Emit(l, [InStep(l, "model.attempt.discarded") EXCEPT
                          !.from = log[first].seq, !.to = log[last].seq], next)
        PROVE  Recorded'
    <3> DEFINE event == [InStep(l, "model.attempt.discarded") EXCEPT
                           !.from = log[first].seq, !.to = log[last].seq]
               e     == here(event)
               new   == Append(log, e)
               n     == Apply(durable, e)
    <3>1. /\ DOMAIN event = DOMAIN NoEvent /\ event.type = "model.attempt.discarded" /\ event.step = step
          /\ e.type = "model.attempt.discarded" /\ e.step = step
          /\ e.from = log[first].seq /\ e.to = log[last].seq
      BY DEF InStep, NextEvent, NoEvent
    <3> HIDE DEF event, e
    <3>2. ASSUME InBatch(loop[l], log, durable) PROVE Fits(event, log, durable) /\ InBatch(next, new, n)
      <4>1. /\ Open(step, log, durable) /\ Intended(log, step) = {}
            /\ Of(log, "model.request", step) # {}
        BY <2>2, <3>2 DEF InBatch, Recording
      <4>2. ASSUME NEW i \in active PROVE ~(log[i].seq < e.from \/ e.to < log[i].seq)
        <5>1. i \in DOMAIN log /\ first \in DOMAIN log /\ last \in DOMAIN log
          BY DEF Kept, Of
        <5>2. log[first].seq <= log[i].seq /\ log[i].seq <= log[last].seq
          BY <5>1, <2>5, <1>r DEF Numbered
        <5>3. log[first] \in AnEvent /\ log[i] \in AnEvent /\ log[last] \in AnEvent
          BY <5>1, <1>t, SeqElement
        <5>4. log[first].seq \in Int /\ log[i].seq \in Int /\ log[last].seq \in Int
          BY <5>3 DEF AnEvent, Events
        <5> QED
          BY <5>2, <5>4, <3>1
      <4>3. Chosen(new, step) = {}
        BY <4>2, <3>1, <1>t, ChosenGrown
      <4>4. /\ Open(step, new, n)
            /\ Intended(new, step) = {} /\ Of(new, "model.request", step) # {}
        <5>1. e.type # "step.finished" /\ e.type # "tool.call" /\ e.type # "model.request"
          BY <3>1
        <5>2. Open(step, new, n)
          BY <4>1, <5>1, <1>t, OpenKept
        <5>3. Intended(new, step) = Intended(log, step)
          BY <5>1, <1>t, IntendedOther
        <5>4. Of(new, "model.request", step) = Of(log, "model.request", step)
          BY <5>1, <1>t, OfOther
        <5> QED
          BY <4>1, <5>2, <5>3, <5>4
      <4>5. Fits(event, log, durable)
        BY <4>1, <3>1 DEF Fits
      <4> HIDE DEF new, n, step
      <4> QED
        BY <4>3, <4>4, <4>5, <2>1 DEF InBatch, Recording
    <3> QED
      BY <3>1, <3>2, <2>1, <2>5, EmitRecorded DEF e, event
  <2> QED
    BY <1>2, <2>3, <2>4, <2>5 DEF DiscardDeltas, next
<1>3. CASE StreamEnd(l)
  <2> DEFINE next == [loop[l] EXCEPT !.i = 1, !.pc = IF loop[l].batch = <<>> THEN "finish" ELSE "intents"]
  <2>1. /\ next.step = step /\ next.batch = loop[l].batch /\ next.i = 1
        /\ next.pc = IF loop[l].batch = <<>> THEN "finish" ELSE "intents"
    BY <1>f
  <2>2. loop[l].pc = "stream" /\ Move(l, next)
    BY <1>3 DEF StreamEnd
  <2> HIDE DEF next
  <2>3. ASSUME loop[l].batch # <<>>, InBatch(loop[l], log, durable)
        PROVE  InBatch(next, log, durable)
    <3>1. 1 \in DOMAIN loop[l].batch
      BY <2>3, <1>t, EmptySeq, LenProperties
    <3>2. {next.batch[k] : k \in 1 .. (next.i - 1)} = {}
      BY <2>1
    <3>3. Batch(next) = Batch(loop[l]) /\ next.pc = "intents"
      BY <2>1, <2>3 DEF Batch
    <3> QED
      BY <3>1, <3>2, <3>3, <2>1, <2>2, <2>3 DEF InBatch, Recording
  <2>4. loop[l].batch = <<>> => InBatch(next, log, durable)
    BY <2>1, Elsewhere DEF Recording
  <2>5. NothingStreamed(next)
    BY <2>1 DEF NothingStreamed
  <2> QED
    BY <2>2, <2>3, <2>4, <2>5, <1>r, QuietRecorded DEF Move
<1>4. CASE StreamFail(l)
  <2> DEFINE next == [loop[l] EXCEPT !.pc = "discard", !.attempt = @ + 1]
  <2>1. next.pc = "discard" /\ next.step = step
    BY <1>f
  <2>2. loop[l].pc = "stream" /\ (Move(l, Failed(l)) \/ Move(l, next))
    BY <1>4 DEF StreamFail
  <2> HIDE DEF next
  <2>3. InBatch(loop[l], log, durable) => InBatch(next, log, durable)
    BY <2>1, <2>2 DEF InBatch, Recording
  <2>4. NothingStreamed(next)
    BY <2>1 DEF NothingStreamed
  <2> QED
    BY <2>2, <2>3, <2>4, <1>f, <1>r, QuietRecorded, QuietElsewhere DEF Move, Recording
<1>5. ASSUME NEW c \in CallIds, StreamCall(l, c) PROVE Recorded'
  <2> DEFINE event == [InStep(l, "model.delta") EXCEPT !.call = c]
             e     == here(event)
             next  == [loop[l] EXCEPT !.batch = Append(@, c)]
             new   == Append(log, e)
             n     == Apply(durable, e)
  <2>1. /\ DOMAIN event = DOMAIN NoEvent /\ event.type = "model.delta" /\ event.step = step
        /\ e.type = "model.delta" /\ e.step = step /\ e.call = c
    BY DEF InStep, NextEvent, NoEvent
  <2>2. Emit(l, event, next) /\ loop[l].pc = "stream"
    BY <1>5 DEF StreamCall
  <2>3. next.pc = "stream" /\ next.step = step /\ next.batch = Append(loop[l].batch, c)
    BY <2>2, <1>f
  <2> HIDE DEF event, next, e
  <2>4. Batch(next) = Batch(loop[l]) \cup {c}
    BY <2>3, <1>t, BatchGrown
  <2>5. ASSUME InBatch(loop[l], log, durable), Valid(durable, e)
        PROVE  Fits(event, log, durable) /\ InBatch(next, new, n)
    <3>1. /\ Open(step, log, durable) /\ Intended(log, step) = {}
          /\ Of(log, "model.request", step) # {} /\ Chosen(log, step) = Batch(loop[l])
      BY <2>2, <2>5 DEF InBatch, Recording
    <3>2. Open(step, new, n) /\ Intended(new, step) = {} /\ Of(new, "model.request", step) # {}
      BY <3>1, <2>1, <1>t, OpenKept, IntendedOther, OfOther
    <3>3. ASSUME NEW d \in Of(log, "model.attempt.discarded", step) PROVE log[d].to < e.seq
      <4>1. log[d].to <= durable.lastSeq /\ log[d] \in AnEvent
        BY <1>r, <1>t, SeqElement DEF Numbered, Of
      <4>2. log[d].to \in Int
        BY <4>1 DEF AnEvent, Events
      <4>3. durable.lastSeq < e.seq /\ e.seq \in Int
        <5>1. view[l].lastSeq \in Int
          BY LoopType DEF Coherent, AState, SessionStates
        <5>2. e.seq = view[l].lastSeq + 1
          BY DEF e, event, InStep, NextEvent, NoEvent
        <5> QED
          BY <5>1, <5>2, <2>5, <1>t DEF Valid
      <4> QED
        BY <4>1, <4>2, <4>3, <1>t
    <3>4. Chosen(new, step) = Chosen(log, step) \cup {c}
      BY <3>3, <2>1, <1>t, ChosenGrown
    <3>5. Fits(event, log, durable)
      BY <3>1, <2>1 DEF Fits, Open
    <3> HIDE DEF new, n, step
    <3> QED
      BY <3>1, <3>2, <3>4, <3>5, <2>3, <2>4 DEF InBatch, Recording
  <2>6. NothingStreamed(next)
    BY <2>3 DEF NothingStreamed
  <2> QED
    BY <2>1, <2>2, <2>5, <2>6, EmitRecorded DEF e
<1> QED
  BY <1>1, <1>2, <1>3, <1>4, <1>5 DEF ModelPhase

(* The tool batch: the intents grow with the place in the batch.           *)
LEMMA IntentRecorded ==
  ASSUME Coherent, Coherent', Recorded, NEW l \in Loops, RecordIntent(l)
  PROVE  Recorded'
<1> DEFINE step == loop[l].step
           i == loop[l].i
           b == loop[l].batch
           event == [InStep(l, "tool.call") EXCEPT !.call = b[i]]
           e == NextEvent(l, event)
           next == IF i < Len(b) THEN [loop[l] EXCEPT !.i = i + 1]
                   ELSE [loop[l] EXCEPT !.pc = "permission", !.i = 1, !.call = b[1]]
           new == Append(log, e)
           n == Apply(durable, e)
<1>f. DOMAIN loop[l] = {"pc", "turn", "step", "batch", "i", "call", "attempt", "via", "failed",
                        "aborted", "outcome", "action", "asks", "calls", "missing"}
  BY Places
<1>t. /\ log \in Seq(AnEvent) /\ durable \in AState
      /\ b \in Seq(CallIds) /\ i \in Nat
  BY LoopType DEF Coherent, TypeOK, LoopStates
<1>1. loop[l].pc = "intents" /\ i \in DOMAIN b /\ Emit(l, event, next)
  BY DEF RecordIntent
<1>2. /\ DOMAIN event = DOMAIN NoEvent /\ event.type = "tool.call" /\ event.step = step /\ event.call = b[i]
      /\ e.type = "tool.call" /\ e.step = step /\ e.call = b[i]
  BY DEF InStep, NextEvent, NoEvent
<1>3. /\ i < Len(b) => /\ next.pc = "intents" /\ next.step = step /\ next.batch = b /\ next.i = i + 1
      /\ ~(i < Len(b)) => next.pc = "permission"
  BY <1>1, <1>f
<1>4. NothingStreamed(next)
  BY <1>3 DEF NothingStreamed
<1>5. ASSUME InBatch(loop[l], log, durable)
      PROVE  Fits(event, log, durable) /\ InBatch(next, new, n)
  <2>1. /\ Open(step, log, durable) /\ Of(log, "model.request", step) # {}
        /\ Chosen(log, step) = Batch(loop[l])
        /\ Intended(log, step) = {b[k] : k \in 1 .. (i - 1)}
    BY <1>1, <1>5 DEF InBatch, Recording
  <2>2. Fits(event, log, durable)
    <3>1. b[i] \in Batch(loop[l])
      BY <1>1 DEF Batch
    <3> HIDE DEF event
    <3> QED
      BY <2>1, <3>1, <1>2 DEF Fits, Open
  <2>3. CASE i < Len(b)
    <3> HIDE DEF event, e, next
    <3>1. Open(step, new, n)
      BY <1>2, <1>t, <2>1, OpenKept
    <3>2. Of(new, "model.request", step) = Of(log, "model.request", step)
      BY <1>2, <1>t, OfOther
    <3>3. Chosen(new, step) = Chosen(log, step)
      BY <1>2, <1>t, ChosenGrown
    <3>4. Intended(new, step) = {b[k] : k \in 1 .. i}
      <4>1. Intended(new, step) = Intended(log, step) \cup {b[i]}
        BY <1>2, <1>t, IntendedGrown
      <4>2. 1 .. i = (1 .. (i - 1)) \cup {i}
        BY <1>1, <1>t, LenProperties
      <4>3. {b[k] : k \in (1 .. (i - 1)) \cup {i}} = {b[k] : k \in 1 .. (i - 1)} \cup {b[i]}
        OBVIOUS
      <4> QED
        BY <4>1, <4>2, <4>3, <2>1
    <3>5. i + 1 \in DOMAIN b /\ (i + 1) - 1 = i
      BY <2>3, <1>1, <1>t, LenProperties
    <3>6. Batch(next) = Batch(loop[l])
      BY <2>3, <1>3 DEF Batch
    <3>7. /\ next.pc = "intents" /\ next.step = step /\ next.batch = b /\ next.i = i + 1
      BY <2>3, <1>3
    <3>8. {next.batch[k] : k \in 1 .. (next.i - 1)} = {b[k] : k \in 1 .. i}
      BY <3>7, <3>5
    <3> HIDE DEF new, n, step, i, b
    <3> QED
      BY <2>1, <2>2, <3>1, <3>2, <3>3, <3>4, <3>5, <3>6, <3>7, <3>8 DEF InBatch, Recording
  <2>4. CASE ~(i < Len(b))
    <3>1. next.pc \notin Recording
      BY <2>4, <1>3 DEF Recording
    <3> HIDE DEF next, new, n
    <3> QED
      BY <2>2, <3>1, Elsewhere
  <2> QED
    BY <2>3, <2>4
<1> HIDE DEF event, next, e
<1> QED
  BY <1>1, <1>2, <1>4, <1>5, EmitRecorded DEF e

LEMMA ToolRecorded ==
  ASSUME Coherent, Coherent', Recorded, NEW l \in Loops,
         ToolPhase(l) \/ FinishStep(l) \/ Maintain(l)
  PROVE  Recorded'
<1>f. /\ DOMAIN loop[l] = {"pc", "turn", "step", "batch", "i", "call", "attempt", "via", "failed",
                           "aborted", "outcome", "action", "asks", "calls", "missing"}
      /\ \A failed : NextCall(l, failed).pc \in {"recoverAsks", "reload", "permission", "finish"}
      /\ \A pc : Goto(l, pc).pc = pc
      /\ Failed(l).pc \in {"idle", "closing"} /\ IdleLoop.pc = "idle"
  BY Places
<1>e. /\ \A outcome : /\ DOMAIN ToolResult(l, outcome) = DOMAIN NoEvent
                       /\ ToolResult(l, outcome).type = "tool.result"
      /\ DOMAIN ForRequest(l, "permission.requested") = DOMAIN NoEvent
      /\ ForRequest(l, "permission.requested").type = "permission.requested"
  BY DEF ToolResult, ForRequest, ForCall, InStep, NoEvent
<1>1. CASE RecordIntent(l)
  BY <1>1, IntentRecorded
<1>2. CASE RejectUnregistered(l)
  BY <1>2, <1>f, <1>e, EmitElsewhere DEF RejectUnregistered, Recording
<1>3. CASE RequestPermission(l)
  BY <1>3, <1>f, <1>e, EmitElsewhere DEF RequestPermission, Recording
<1>4. ASSUME NEW decision, ResolvePermission(l, decision) PROVE Recorded'
  <2> DEFINE event == [ForRequest(l, "permission.resolved") EXCEPT !.decision = decision]
             next == [loop[l] EXCEPT !.pc = IF decision = "allow" THEN "run" ELSE "deny", !.attempt = 1]
  <2>1. DOMAIN event = DOMAIN NoEvent /\ event.type = "permission.resolved"
    BY DEF ForRequest, ForCall, InStep, NoEvent
  <2>2. next.pc \in {"run", "deny"}
    BY <1>f
  <2> HIDE DEF event, next
  <2> QED
    BY <1>4, <2>1, <2>2, EmitElsewhere DEF ResolvePermission, Recording, event, next
<1>5. CASE RecordDenial(l)
  BY <1>5, <1>f, <1>e, EmitElsewhere DEF RecordDenial, Recording
<1>6. CASE RunTool(l)
  <2>1. PICK next : loop' = [loop EXCEPT ![l] = next] /\ next.pc \notin Recording
    <3>1. \A outcome : [loop[l] EXCEPT !.pc = "record", !.outcome = outcome].pc = "record"
      BY <1>f
    <3>2. /\ [loop EXCEPT ![l].attempt = @ + 1] = [loop EXCEPT ![l] = [loop[l] EXCEPT !.attempt = @ + 1]]
          /\ [loop[l] EXCEPT !.attempt = @ + 1].pc = "run"
      BY <1>6, <1>f DEF RunTool
    <3>3. \A action : [loop[l] EXCEPT !.pc = "feed", !.action = action].pc = "feed"
      BY <1>f
    <3>4. CASE \E outcome \in {"succeeded", "failed"} :
                 loop' = [loop EXCEPT ![l] = [loop[l] EXCEPT !.pc = "record", !.outcome = outcome]]
      BY <3>1, <3>4 DEF Recording
    <3>5. CASE loop' = [loop EXCEPT ![l].attempt = @ + 1]
      BY <3>2, <3>5 DEF Recording
    <3>6. CASE \E action : loop' = [loop EXCEPT ![l] = [loop[l] EXCEPT !.pc = "feed", !.action = action]]
      BY <3>3, <3>6 DEF Recording
    <3>7. CASE loop' = [loop EXCEPT ![l] = Failed(l)]
      BY <1>f, <3>7 DEF Recording
    <3> QED
      BY <1>6, <3>4, <3>5, <3>6, <3>7 DEF RunTool
  <2> QED
    BY <1>6, <2>1, QuietElsewhere DEF RunTool
<1>7. CASE RecordResult(l)
  BY <1>7, <1>f, <1>e, EmitElsewhere DEF RecordResult, Recording
<1>8. CASE RecordFailure(l)
  BY <1>8, <1>f, <1>e, EmitElsewhere DEF RecordFailure, Recording
<1>9. CASE FinishStep(l)
  <2> DEFINE event == [InStep(l, "step.finished") EXCEPT !.turn = loop[l].step[1],
                         !.outcome = IF loop[l].failed THEN "failed" ELSE "succeeded"]
             next == Goto(l, IF loop[l].via = "calls" /\ At("tool.call", loop[l].step) = {}
                             THEN "drive" ELSE "compact")
  <2>1. DOMAIN event = DOMAIN NoEvent /\ event.type = "step.finished"
    BY DEF InStep, NoEvent
  <2>2. next.pc \in {"drive", "compact"}
    BY <1>f
  <2>3. Emit(l, event, next)
    BY <1>9 DEF FinishStep
  <2> HIDE DEF event, next
  <2> QED
    BY <2>1, <2>2, <2>3, EmitElsewhere DEF Recording
<1>10. CASE Maintain(l)
  <2> DEFINE type == MaintenanceTypes[loop[l].pc]
             event == [NoEvent EXCEPT !.type = type]
             next == Goto(l, IF loop[l].pc = "compact" THEN "checkpoint" ELSE "drive")
  <2>1. next.pc \in {"checkpoint", "drive"}
    BY <1>f
  <2>2. type \in {"compaction.applied", "checkpoint.created"}
    BY <1>10 DEF Maintain, MaintenanceTypes
  <2>3. DOMAIN event = DOMAIN NoEvent /\ event.type = type
    BY DEF NoEvent
  <2>4. Move(l, next) \/ Emit(l, event, next)
    BY <1>10 DEF Maintain
  <2> HIDE DEF event, next, type
  <2> QED
    BY <2>1, <2>2, <2>3, <2>4, EmitElsewhere, QuietElsewhere DEF Move, Recording
<1> QED
  BY <1>1, <1>2, <1>3, <1>4, <1>5, <1>6, <1>7, <1>8, <1>9, <1>10 DEF ToolPhase

(* recoverActiveStep.  What is missing from the batch is read off the log  *)
(* with the state, and shrinks with every intent recorded.                 *)
LEMMA ReconcileRecorded ==
  ASSUME Coherent, Coherent', Recorded, NEW l \in Loops, Recover(l) \/ ReconcileIntent(l)
  PROVE  Recorded'
<1>f. /\ DOMAIN loop[l] = {"pc", "turn", "step", "batch", "i", "call", "attempt", "via", "failed",
                           "aborted", "outcome", "action", "asks", "calls", "missing"}
      /\ \A pc : Goto(l, pc).pc = pc
      /\ Failed(l).pc \in {"idle", "closing"} /\ IdleLoop.pc = "idle"
  BY Places
<1>r. /\ Begun(log, durable) /\ NothingStreamed(loop[l]) /\ Numbered(log, durable.lastSeq)
      /\ view[l].lastSeq = durable.lastSeq => InBatch(loop[l], log, durable)
  BY DEF Recorded
<1>t. log \in Seq(AnEvent) /\ durable \in AState
  BY DEF Coherent, TypeOK
<1>1. CASE Recover(l)
  <2> DEFINE step == durable.step.id
             missing == [loop[l] EXCEPT !.step = step, !.pc = "reconcile", !.missing = MissingIntents(step)]
             restarted(pc) == [loop[l] EXCEPT !.step = step, !.pc = pc]
  <2>1. loop[l].pc = "recover" /\ view' = [view EXCEPT ![l] = durable] /\ UNCHANGED <<log, durable>>
    BY <1>1 DEF Recover, Reload
  <2>2. Batch(loop[l]) = {}
    BY <2>1, <1>r DEF NothingStreamed
  <2>3. CASE durable.turn = None \/ durable.step = None
    <3>1. loop' = [loop EXCEPT ![l] = Goto(l, "drive")]
      BY <1>1, <2>3 DEF Recover
    <3> QED
      BY <2>1, <3>1, <1>f, QuietElsewhere DEF Recording
  <2>4. CASE ~(durable.turn = None \/ durable.step = None) /\ At("tool.call", step) # {}
    <3>1. loop' = [loop EXCEPT ![l] = missing]
      BY <1>1, <2>4 DEF Recover
    <3>2. missing.pc = "reconcile" /\ missing.step = step /\ missing.missing = MissingIntents(step)
      BY <1>f
    <3>3. Open(step, log, durable)
      BY <2>4, <1>r DEF Begun
    <3>4. /\ At("tool.call", step) = Of(log, "tool.call", step) /\ ActiveDeltas(step) = Kept(log, step)
          /\ CallsAt(At("tool.call", step)) = Intended(log, step)
      BY OfLog DEF Intended
    <3>5. Intended(log, step) # {}
      BY <2>4, <3>4 DEF Intended, CallsOf
    <3>6. /\ MissingIntents(step) \subseteq Kept(log, step)
          /\ \A i \in Kept(log, step) : log[i].call \notin Intended(log, step) => i \in MissingIntents(step)
      BY <3>4 DEF MissingIntents
    <3>7. Chosen(log, step) \subseteq Intended(log, step) \cup CallsOf(log, MissingIntents(step))
      BY <3>6 DEF Chosen, CallsOf
    <3> HIDE DEF missing, step
    <3>8. NothingStreamed(missing) /\ InBatch(missing, log, durable)
      BY <3>2, <3>3, <3>5, <3>6, <3>7 DEF NothingStreamed, InBatch, Recording
    <3> QED
      BY <2>1, <3>1, <3>8, QuietRecorded
  <2>5. CASE ~(durable.turn = None \/ durable.step = None) /\ At("tool.call", step) = {}
    <3> DEFINE pc == IF At("model.request", step) # {} THEN "discard" ELSE "model"
    <3>1. loop' = [loop EXCEPT ![l] = restarted(pc)]
      BY <1>1, <2>5 DEF Recover
    <3>2. restarted(pc).pc = pc /\ restarted(pc).step = step /\ restarted(pc).batch = loop[l].batch
      BY <1>f
    <3>3. Open(step, log, durable)
      BY <2>5, <1>r DEF Begun
    <3>4. Intended(log, step) = {}
      BY <2>5, OfLog DEF Intended, CallsOf
    <3>5. pc = "discard" => Of(log, "model.request", step) # {}
      BY OfLog
    <3>6. ASSUME pc = "model" PROVE Chosen(log, step) = {}
      <4>1. Of(log, "model.request", step) = {}
        BY <3>6, OfLog
      <4>2. Kept(log, step) = {}
        BY <4>1, <1>r DEF Begun, Kept, Of
      <4> QED
        BY <4>2 DEF Chosen, CallsOf
    <3>7. pc \in {"discard", "model"}
      OBVIOUS
    <3> DEFINE next == restarted(pc)
    <3>8. Batch(next) = {}
      BY <2>2, <3>2 DEF Batch
    <3>9. loop' = [loop EXCEPT ![l] = next] /\ next.pc = pc /\ next.step = step
      BY <3>1, <3>2
    <3> HIDE DEF next, step, pc
    <3>10. NothingStreamed(next) /\ InBatch(next, log, durable)
      BY <3>3, <3>4, <3>5, <3>6, <3>7, <3>8, <3>9 DEF NothingStreamed, InBatch, Recording
    <3> QED
      BY <2>1, <3>9, <3>10, QuietRecorded
  <2> QED
    BY <2>3, <2>4, <2>5
<1>2. CASE ReconcileIntent(l)
  <2> DEFINE step == loop[l].step
  <2>1. loop[l].pc = "reconcile"
    BY <1>2 DEF ReconcileIntent
  <2>2. CASE Move(l, Failed(l))
    BY <2>2, <1>f, QuietElsewhere DEF Move, Recording
  <2>3. ASSUME NEW i \in loop[l].missing \cap DOMAIN log,
               Emit(l, [InStep(l, "tool.call") EXCEPT !.call = log[i].call],
                    [loop[l] EXCEPT !.missing = @ \ {i}])
        PROVE  Recorded'
    <3> DEFINE event == [InStep(l, "tool.call") EXCEPT !.call = log[i].call]
               e == NextEvent(l, event)
               next == [loop[l] EXCEPT !.missing = @ \ {i}]
               new == Append(log, e)
               n == Apply(durable, e)
    <3>1. /\ DOMAIN event = DOMAIN NoEvent /\ event.type = "tool.call" /\ event.step = step
          /\ event.call = log[i].call
          /\ e.type = "tool.call" /\ e.step = step /\ e.call = log[i].call
      BY DEF InStep, NextEvent, NoEvent
    <3>2. next.pc = "reconcile" /\ next.step = step /\ next.missing = loop[l].missing \ {i}
      BY <2>1, <1>f
    <3>3. Emit(l, event, next)
      BY <2>3
    <3> HIDE DEF event, e, next
    <3>4. ASSUME InBatch(loop[l], log, durable) PROVE Fits(event, log, durable) /\ InBatch(next, new, n)
      <4>1. /\ Open(step, log, durable) /\ loop[l].missing \subseteq Kept(log, step)
            /\ Intended(log, step) # {}
            /\ Chosen(log, step) \subseteq Intended(log, step) \cup CallsOf(log, loop[l].missing)
        BY <2>1, <3>4 DEF InBatch, Recording
      <4>2. Fits(event, log, durable)
        <5>1. log[i].call \in Chosen(log, step)
          BY <4>1 DEF Chosen, CallsOf
        <5> QED
          BY <4>1, <5>1, <3>1 DEF Fits, Open
      <4>3. Open(step, new, n)
        BY <4>1, <3>1, <1>t, OpenKept
      <4>4. Kept(new, step) = Kept(log, step)
        BY <3>1, <1>t, KeptGrown
      <4>5. Chosen(new, step) = Chosen(log, step)
        BY <3>1, <1>t, ChosenGrown
      <4>6. Intended(new, step) = Intended(log, step) \cup {log[i].call}
        BY <3>1, <1>t, IntendedGrown
      <4>7. CallsOf(new, next.missing) = CallsOf(log, next.missing)
        <5>1. \A k \in next.missing : k \in DOMAIN log
          BY <3>2, <4>1 DEF Kept, Of
        <5>2. \A k \in DOMAIN log : new[k] = log[k]
          BY <1>t, Grown
        <5> HIDE DEF new
        <5> QED
          BY <5>1, <5>2 DEF CallsOf
      <4>8. CallsOf(log, loop[l].missing) \subseteq CallsOf(log, next.missing) \cup {log[i].call}
        BY <3>2 DEF CallsOf
      <4>9. Chosen(new, step) \subseteq Intended(new, step) \cup CallsOf(new, next.missing)
        BY <4>1, <4>5, <4>6, <4>7, <4>8
      <4>10. next.missing \subseteq Kept(new, step) /\ Intended(new, step) # {}
        BY <4>1, <4>4, <4>6, <3>2
      <4> HIDE DEF new, n, step
      <4> QED
        BY <4>2, <4>3, <4>9, <4>10, <3>2 DEF InBatch, Recording
    <3>5. NothingStreamed(next)
      BY <3>2 DEF NothingStreamed
    <3> QED
      BY <3>1, <3>3, <3>4, <3>5, EmitRecorded DEF e
  <2> QED
    BY <1>2, <2>2, <2>3 DEF ReconcileIntent
<1> QED
  BY <1>1, <1>2

LEMMA RecoveryRecorded ==
  ASSUME Coherent, Coherent', Recorded, NEW l \in Loops, RecoveryPhase(l)
  PROVE  Recorded'
<1>f. /\ DOMAIN loop[l] = {"pc", "turn", "step", "batch", "i", "call", "attempt", "via", "failed",
                           "aborted", "outcome", "action", "asks", "calls", "missing"}
      /\ \A pc : Goto(l, pc).pc = pc
      /\ Failed(l).pc \in {"idle", "closing"} /\ IdleLoop.pc = "idle"
  BY Places
<1>1. CASE Recover(l) \/ ReconcileIntent(l)
  BY <1>1, ReconcileRecorded
<1>2. CASE RecoverAsks(l)
  <2> DEFINE next == [loop[l] EXCEPT !.pc = "recoverAsks", !.via = "asks", !.asks = durable.asks]
  <2>1. next.pc = "recoverAsks"
    BY <1>f
  <2> HIDE DEF next
  <2> QED
    BY <1>2, <2>1, QuietElsewhere DEF RecoverAsks, Reload, Recording, next
<1>3. ASSUME NEW decision, RecoverAsk(l, decision) PROVE Recorded'
  <2> DEFINE ask == Head(loop[l].asks)
             event == [InStep(l, "permission.resolved") EXCEPT
                         !.call = ask.call, !.req = ask.req, !.decision = decision]
             skipped == [loop[l] EXCEPT !.asks = Tail(@)]
             next == [[loop[l] EXCEPT !.asks = Tail(@), !.call = ask.call, !.attempt = 1]
                        EXCEPT !.pc = IF decision = "allow" THEN "run" ELSE "deny"]
  <2>1. DOMAIN event = DOMAIN NoEvent /\ event.type = "permission.resolved"
    BY DEF InStep, NoEvent
  <2>2. skipped.pc = "recoverAsks" /\ next.pc \in {"run", "deny"}
    BY <1>3, <1>f DEF RecoverAsk
  <2>3. Move(l, skipped) \/ Emit(l, event, next)
    BY <1>3 DEF RecoverAsk
  <2> HIDE DEF event, skipped, next
  <2> QED
    BY <2>1, <2>2, <2>3, EmitElsewhere, QuietElsewhere DEF Move, Recording
<1>4. CASE RecoverCalls(l)
  <2> DEFINE next == [loop[l] EXCEPT !.pc = "recoverCalls", !.via = "calls", !.calls = durable.calls]
  <2>1. next.pc = "recoverCalls"
    BY <1>f
  <2> HIDE DEF next
  <2> QED
    BY <1>4, <2>1, QuietElsewhere DEF RecoverCalls, Reload, Recording, next
<1>5. CASE ReloadAfterCall(l)
  BY <1>5, <1>f, QuietElsewhere DEF ReloadAfterCall, Reload, Recording
<1>6. CASE RecoverCall(l)
  <2> DEFINE here == [loop[l] EXCEPT !.calls = Tail(@), !.call = Head(loop[l].calls).call,
                                     !.step = view[l].step.id, !.action = "feed-back"]
  <2>1. \A pc : [here EXCEPT !.pc = pc].pc = pc
    BY <1>f
  <2>2. [here EXCEPT !.pc = "run", !.attempt = 2].pc = "run"
    BY <1>f
  <2>3. PICK next : Move(l, next) /\ next.pc \notin Recording
    <3> HIDE DEF here
    <3>1. \/ Move(l, Failed(l)) \/ Move(l, [here EXCEPT !.pc = "run", !.attempt = 2])
          \/ \E pc \in {"feed", "permission", "deny"} : Move(l, [here EXCEPT !.pc = pc])
      BY <1>6 DEF RecoverCall, here
    <3> QED
      BY <1>f, <2>1, <2>2, <3>1 DEF Recording
  <2> QED
    BY <2>3, QuietElsewhere DEF Move
<1>7. CASE RecoverFinish(l)
  <2> DEFINE next == [loop[l] EXCEPT !.pc = "finish", !.step = durable.step.id,
                        !.failed = \/ ResultsOf(durable.step.id) \cap {"denied", "error"} # {}
                                   \/ At("tool.call", durable.step.id) = {}]
  <2>1. next.pc = "finish"
    BY <1>f
  <2>2. loop' = [loop EXCEPT ![l] = Goto(l, "drive")] \/ loop' = [loop EXCEPT ![l] = next]
    BY <1>7 DEF RecoverFinish
  <2>3. UNCHANGED <<log, durable>> /\ view' = [view EXCEPT ![l] = durable]
    BY <1>7 DEF RecoverFinish, Reload
  <2> HIDE DEF next
  <2>4. CASE loop' = [loop EXCEPT ![l] = Goto(l, "drive")]
    BY <1>f, <2>3, <2>4, QuietElsewhere DEF Recording
  <2>5. CASE loop' = [loop EXCEPT ![l] = next]
    BY <2>1, <2>3, <2>5, QuietElsewhere DEF Recording
  <2> QED
    BY <2>2, <2>4, <2>5
<1> QED
  BY <1>1, <1>2, <1>3, <1>4, <1>5, <1>6, <1>7 DEF RecoveryPhase

(* closeAfterFailure.                                                      *)
LEMMA CloseRecorded ==
  ASSUME Coherent, Coherent', Recorded, NEW l \in Loops, ClosePhase(l)
  PROVE  Recorded'
<1>f. /\ DOMAIN loop[l] = {"pc", "turn", "step", "batch", "i", "call", "attempt", "via", "failed",
                           "aborted", "outcome", "action", "asks", "calls", "missing"}
      /\ \A pc : Goto(l, pc).pc = pc
      /\ Failed(l).pc \in {"idle", "closing"} /\ IdleLoop.pc = "idle"
  BY Places
<1>1. CASE CloseReload(l)
  <2> DEFINE asks == [loop[l] EXCEPT !.pc = "closeAsks", !.asks = durable.asks]
             calls == [loop[l] EXCEPT !.pc = "closeCalls", !.calls = durable.calls]
  <2>1. asks.pc = "closeAsks" /\ calls.pc = "closeCalls"
    BY <1>f
  <2>2. \/ loop' = [loop EXCEPT ![l] = asks] \/ loop' = [loop EXCEPT ![l] = calls]
        \/ \E pc \in {"closeStep", "closeTurn"} : loop' = [loop EXCEPT ![l] = Goto(l, pc)]
    BY <1>1 DEF CloseReload
  <2>3. UNCHANGED <<log, durable>> /\ view' = [view EXCEPT ![l] = durable]
    BY <1>1 DEF CloseReload, Reload
  <2> HIDE DEF asks, calls
  <2>4. PICK next : loop' = [loop EXCEPT ![l] = next] /\ next.pc \notin Recording
    BY <1>f, <2>1, <2>2 DEF Recording
  <2> QED
    BY <2>3, <2>4, QuietElsewhere
<1>2. CASE CloseAsk(l)
  <2> DEFINE ask == Head(loop[l].asks)
             event == [NoEvent EXCEPT !.type = "permission.resolved", !.req = ask.req, !.step = ask.step,
                                      !.call = ask.call, !.decision = "deny"]
             next == [loop[l] EXCEPT !.asks = Tail(@)]
  <2>1. DOMAIN event = DOMAIN NoEvent /\ event.type = "permission.resolved"
    BY DEF NoEvent
  <2>2. next.pc = "closeAsks"
    BY <1>2, <1>f DEF CloseAsk
  <2>3. Emit(l, event, next)
    BY <1>2 DEF CloseAsk
  <2> HIDE DEF event, next
  <2> QED
    BY <2>1, <2>2, <2>3, EmitElsewhere DEF Recording
<1>3. CASE CloseCall(l)
  <2> DEFINE call == Head(loop[l].calls)
             event == [NoEvent EXCEPT !.type = "tool.result", !.call = call.call, !.step = call.step,
                                      !.outcome = "error"]
             next == [loop[l] EXCEPT !.calls = Tail(@)]
  <2>1. DOMAIN event = DOMAIN NoEvent /\ event.type = "tool.result"
    BY DEF NoEvent
  <2>2. next.pc = "closeCalls"
    BY <1>3, <1>f DEF CloseCall
  <2>3. Emit(l, event, next)
    BY <1>3 DEF CloseCall
  <2> HIDE DEF event, next
  <2> QED
    BY <2>1, <2>2, <2>3, EmitElsewhere DEF Recording
<1>4. CASE CloseStep(l)
  <2> DEFINE event == [NoEvent EXCEPT !.type = "step.finished", !.turn = view[l].step.turn,
                                      !.step = view[l].step.id, !.outcome = loop[l].outcome]
  <2>1. DOMAIN event = DOMAIN NoEvent /\ event.type = "step.finished"
    BY DEF NoEvent
  <2>2. Emit(l, event, loop[l]) /\ loop[l].pc = "closeStep"
    BY <1>4 DEF CloseStep
  <2> HIDE DEF event
  <2> QED
    BY <2>1, <2>2, EmitElsewhere DEF Recording
<1>5. CASE CloseTurn(l)
  <2> DEFINE event == [NoEvent EXCEPT !.type = "turn.finished", !.turn = view[l].turn,
                                      !.outcome = loop[l].outcome]
  <2>1. DOMAIN event = DOMAIN NoEvent /\ event.type = "turn.finished"
    BY DEF NoEvent
  <2>2. Move(l, IdleLoop) \/ Emit(l, event, IdleLoop)
    BY <1>5 DEF CloseTurn
  <2> HIDE DEF event
  <2> QED
    BY <1>f, <2>1, <2>2, EmitElsewhere, QuietElsewhere DEF Move, Recording
<1> QED
  BY <1>1, <1>2, <1>3, <1>4, <1>5 DEF ClosePhase

LEMMA EnvironmentRecorded ==
  ASSUME Coherent, Recorded, NEW l \in Loops, PortFails(l) \/ Crash(l)
  PROVE  Recorded'
<1>1. Failed(l).pc \in {"idle", "closing"} /\ IdleLoop.pc = "idle"
  BY Places
<1>2. CASE PortFails(l)
  BY <1>1, <1>2, QuietElsewhere DEF PortFails, Recording
<1>3. CASE Crash(l)
  BY <1>1, <1>3, QuietElsewhere DEF Crash, Recording
<1> QED
  BY <1>2, <1>3

LEMMA InitRecorded == Init => Recorded
<1> SUFFICES ASSUME Init PROVE Recorded
  OBVIOUS
<1>1. DOMAIN log = {} /\ durable.step = None
  BY DEF Init, EmptyState
<1>2. \A l \in Loops : loop[l].pc \notin Recording
  BY DEF Init, IdleLoop, Recording
<1> QED
  BY <1>1, <1>2, Elsewhere DEF Recorded, Numbered, Begun

LEMMA NextRecorded == Coherent /\ Coherent' /\ Recorded /\ [Next]_vars => Recorded'
<1> SUFFICES ASSUME Coherent, Coherent', Recorded, [Next]_vars PROVE Recorded'
  OBVIOUS
<1>1. CASE UNCHANGED vars
  BY <1>1 DEF vars, Recorded
<1>2. ASSUME NEW l \in Loops,
             \/ RunTurn(l) \/ ResumeTurn(l) \/ Proceed(l)
             \/ Abort(l) \/ PortFails(l) \/ Crash(l)
      PROVE  Recorded'
  BY <1>2, DriveRecorded, ModelRecorded, ToolRecorded, RecoveryRecorded, CloseRecorded,
     EnvironmentRecorded DEF Proceed
<1> QED
  BY <1>1, <1>2 DEF Next

(* Every intent in the log was chosen by a model attempt that was not      *)
(* discarded (Begun), whatever the replicas lost, retried or fought over.  *)
THEOREM NoIntentIsDiscarded == Spec => []IntentsAreActive
<1>1. Recorded => IntentsAreActive
  BY OfLog DEF Recorded, Begun, Chosen, IntentsAreActive
<1>2. Init => Coherent /\ Recorded
  BY InitCoherent, InitRecorded
<1>3. Coherent /\ Recorded /\ [Next]_vars => (Coherent /\ Recorded)'
  BY NextCoherent, NextRecorded
<1> QED
  BY <1>1, <1>2, <1>3, PTL DEF Spec

-----------------------------------------------------------------------------
(***************************************************************************)
(* What a turn is reported as, for any number of replicas, calls, steps    *)
(* and faults and any budgets: a turn with a denied tool never ends as     *)
(* completed, and a completed one ends in a step that called no tool.      *)
(***************************************************************************)

(* What the state of a log has pending belongs to its active step, once    *)
(* each, and has no result.                                                *)
Settled(s) ==
  /\ s.turn = None => s.step = None
  /\ s.turn # None => s.turn \in s.seenTurns
  /\ s.step # None => s.step.turn = s.turn /\ s.step.id[1] = s.turn
  /\ s.step = None => s.calls = <<>>
  /\ \A j, k \in DOMAIN s.calls : s.calls[j].call = s.calls[k].call => j = k
  /\ \A k \in DOMAIN s.calls : /\ s.calls[k].step = s.step.id
                               /\ s.calls[k].call \in s.seenCalls
                               /\ s.calls[k].call \notin s.doneCalls
  /\ s.doneCalls \subseteq s.seenCalls

(* The state and the log tell the same of every step, call and turn.       *)
Accounted(entries, s) ==
  /\ \A step \in s.seenSteps :
       Of(entries, "step.finished", step) = {} => s.step # None /\ step = s.step.id
  /\ \A k \in DOMAIN s.calls : s.calls[k].call \in Intended(entries, s.step.id)
  /\ \A i \in DOMAIN entries :
       /\ entries[i].type = "tool.call" =>
            /\ entries[i].call \in s.seenCalls
            /\ PendingCall(s, entries[i].call) => entries[i].step = s.step.id
       /\ entries[i].type = "tool.result" =>
            /\ entries[i].call \in s.doneCalls /\ entries[i].step \in s.seenSteps
            /\ Intended(entries, entries[i].step) # {}
       /\ entries[i].type = "step.finished" => entries[i].turn = entries[i].step[1]
       /\ entries[i].type = "turn.finished" =>
            entries[i].turn \in s.seenTurns /\ (s.turn = None \/ entries[i].turn # s.turn)

Denied(entries, step) == \E i \in Of(entries, "tool.result", step) : entries[i].outcome = "denied"

FinishedOf(entries, turn) ==
  {i \in DOMAIN entries : entries[i].type = "step.finished" /\ entries[i].turn = turn}

(* A step with a denied call does not succeed, and is the last of its turn *)
(* like every step that does not.                                          *)
Ended(entries, s) ==
  /\ \A i \in DOMAIN entries :
       entries[i].type = "step.finished" /\ entries[i].outcome = "succeeded" =>
         ~Denied(entries, entries[i].step)
  /\ \A i, j \in DOMAIN entries :
       /\ entries[i].type = "step.finished" /\ entries[j].type = "step.finished"
       /\ entries[i].turn = entries[j].turn /\ i < j
       => entries[i].outcome = "succeeded"
  /\ s.step # None => \A i \in FinishedOf(entries, s.turn) : entries[i].outcome = "succeeded"

(* How a turn was reported: as failed or aborted after a denial, and as    *)
(* completed after a last step that succeeded without a call.              *)
Reported(entries) ==
  \A j \in DOMAIN entries : entries[j].type = "turn.finished" =>
    /\ \A i \in DOMAIN entries :
         /\ entries[i].type = "tool.result" /\ entries[i].outcome = "denied"
         /\ entries[j].turn = entries[i].step[1]
         => entries[j].outcome \in {"failed", "aborted"}
    /\ entries[j].outcome = "completed" =>
         \E m \in FinishedOf(entries, entries[j].turn) :
           /\ m < j /\ \A i \in FinishedOf(entries, entries[j].turn) : i < j => i <= m
           /\ entries[m].outcome = "succeeded" /\ Of(entries, "tool.call", entries[m].step) = {}

Trail == Settled(durable) /\ Accounted(log, durable) /\ Ended(log, durable) /\ Reported(log)

(* What an appended event must be for the trail to stay so.                *)
Sound(e) ==
  /\ e.type = "tool.call" => Open(e.step, log, durable)
  /\ e.type = "step.started" => e.step[1] = e.turn /\ StopReason(e.turn) = None
  /\ e.type = "step.finished" => e.outcome \in {"failed", "aborted"} \/ ~Denied(log, e.step)
  /\ e.type = "turn.finished" =>
       \/ e.outcome \in {"failed", "aborted"}
       \/ StopReason(e.turn) # None /\ e.outcome = PersistedReason(StopReason(e.turn))

-----------------------------------------------------------------------------
(* What one more event does.                                               *)

LEMMA ApplySeen ==
  ASSUME NEW s \in AState, NEW e
  PROVE  LET n == Apply(s, e)
         IN  /\ n.seenTurns = IF e.type = "turn.started" THEN s.seenTurns \cup {e.turn} ELSE s.seenTurns
             /\ n.doneCalls = IF e.type = "tool.result" THEN s.doneCalls \cup {e.call} ELSE s.doneCalls
             /\ n.seenReqs = IF e.type = "permission.requested" THEN s.seenReqs \cup {e.req} ELSE s.seenReqs
             /\ n.doneReqs = IF e.type = "permission.resolved" THEN s.doneReqs \cup {e.req} ELSE s.doneReqs
<1> DEFINE n == Apply(s, e)
           b == ApplyBody(s, e)
<1>1. /\ n.seenTurns = b.seenTurns /\ n.doneCalls = b.doneCalls
      /\ n.seenReqs = b.seenReqs /\ n.doneReqs = b.doneReqs
  BY DEF Apply
<1> QED
  BY <1>1 DEF ApplyBody, ApplyTurnStarted, ApplyStepStarted, ApplyStepFinished, ApplyToolCall, ApplyToolResult,
     ApplyPermissionRequested, ApplyPermissionResolved, ApplyTurnFinished, AState, SessionStates

(* The pending calls, as the four kinds of event change them.              *)
LEMMA CallsGrown ==
  ASSUME NEW s \in AState, NEW e, Settled(s), Valid(s, e), Apply(s, e) \in AState
  PROVE  LET n == Apply(s, e)
         IN  /\ e.type = "tool.call" =>
                  /\ DOMAIN n.calls = DOMAIN s.calls \cup {Len(s.calls) + 1}
                  /\ Len(s.calls) + 1 \notin DOMAIN s.calls
                  /\ n.calls[Len(s.calls) + 1] = [call |-> e.call, step |-> e.step]
                  /\ \A k \in DOMAIN s.calls : n.calls[k] = s.calls[k]
             /\ e.type = "tool.result" =>
                  /\ s.step # None /\ e.step = s.step.id
                  /\ PendingCall(s, e.call)
                  /\ \A k \in DOMAIN n.calls : \E j \in DOMAIN s.calls :
                       n.calls[k] = s.calls[j] /\ s.calls[j].call # e.call
                  /\ \A j, k \in DOMAIN n.calls : n.calls[j].call = n.calls[k].call => j = k
             /\ e.type = "step.finished" => s.calls = <<>>
             /\ e.type \notin {"tool.call", "tool.result"} => n.calls = s.calls
<1> DEFINE n == Apply(s, e)
<1>s. s.calls \in Seq(PendingCalls(Steps, CallIds)) /\ n.calls \in Seq(PendingCalls(Steps, CallIds))
  BY DEF AState, SessionStates
<1>1. ASSUME e.type = "tool.call"
      PROVE  /\ DOMAIN n.calls = DOMAIN s.calls \cup {Len(s.calls) + 1}
             /\ Len(s.calls) + 1 \notin DOMAIN s.calls
             /\ n.calls[Len(s.calls) + 1] = [call |-> e.call, step |-> e.step]
             /\ \A k \in DOMAIN s.calls : n.calls[k] = s.calls[k]
  <2>1. n.calls = Append(s.calls, [call |-> e.call, step |-> e.step])
    BY <1>1, ApplyFields
  <2> HIDE DEF n
  <2> QED
    BY <2>1, <1>s, Grown
<1>2. ASSUME e.type = "tool.result"
      PROVE  /\ s.step # None /\ e.step = s.step.id
             /\ PendingCall(s, e.call)
             /\ \A k \in DOMAIN n.calls : \E j \in DOMAIN s.calls :
                  n.calls[k] = s.calls[j] /\ s.calls[j].call # e.call
             /\ \A j, k \in DOMAIN n.calls : n.calls[j].call = n.calls[k].call => j = k
  <2> DEFINE D == {k \in DOMAIN s.calls : s.calls[k].call = e.call}
             first == First(D)
  <2>1. D # {} /\ PendingCall(s, e.call)
    BY <1>2 DEF Valid, ValidToolResult, PendingCall
  <2>2. s.step # None
    <3>1. s.calls # <<>>
      BY <2>1, <1>s, EmptySeq
    <3> QED
      BY <3>1 DEF Settled
  <2>3. e.step = s.step.id
    BY <1>2, <2>2 DEF Valid, AssociatedTypes, ActiveStepAssociation
  <2>4. n.calls = RemoveAt(s.calls, first)
    BY <1>2, ApplyFields
  <2>5. DOMAIN s.calls = 1..Len(s.calls) /\ DOMAIN n.calls = 1..Len(n.calls)
    BY <1>s, LenProperties
  <2> HIDE DEF n, D
  <2>6. /\ first \in D
        /\ \A k \in DOMAIN n.calls : \E j \in DOMAIN s.calls :
             n.calls[k] = s.calls[j] /\ j = IF k < first THEN k ELSE k + 1
    <3>1. D \in SUBSET (DOMAIN s.calls)
      BY DEF D
    <3> QED
      BY <3>1, <2>1, <2>4, <1>s, Spliced
  <2>7. first \in DOMAIN s.calls /\ s.calls[first].call = e.call /\ first \in Int
    BY <2>5, <2>6 DEF D
  <2> HIDE DEF first
  <2>8. ASSUME NEW k \in DOMAIN n.calls
        PROVE  \E j \in DOMAIN s.calls : n.calls[k] = s.calls[j] /\ s.calls[j].call # e.call
    <3>1. PICK j \in DOMAIN s.calls : n.calls[k] = s.calls[j] /\ j = IF k < first THEN k ELSE k + 1
      BY <2>6
    <3>2. j # first
      BY <3>1, <2>5, <2>7
    <3> QED
      BY <3>1, <3>2, <2>7 DEF Settled
  <2>9. ASSUME NEW a \in DOMAIN n.calls, NEW b \in DOMAIN n.calls, n.calls[a].call = n.calls[b].call
        PROVE  a = b
    <3>1. PICK i \in DOMAIN s.calls : n.calls[a] = s.calls[i] /\ i = IF a < first THEN a ELSE a + 1
      BY <2>6
    <3>2. PICK j \in DOMAIN s.calls : n.calls[b] = s.calls[j] /\ j = IF b < first THEN b ELSE b + 1
      BY <2>6
    <3>3. i = j
      BY <3>1, <3>2, <2>9 DEF Settled
    <3>4. a \in Int /\ b \in Int
      BY <2>5
    <3> QED
      BY <3>1, <3>2, <3>3, <3>4, <2>7
  <2> QED
    BY <2>1, <2>2, <2>3, <2>8, <2>9
<1>3. ASSUME e.type = "step.finished" PROVE s.calls = <<>>
  <2>1. s.step.id = e.step /\ \A k \in DOMAIN s.calls : s.calls[k].step # e.step
    BY <1>3 DEF Valid, ValidStepFinished, StepHasNoPendingWork
  <2>2. ~(1 \in DOMAIN s.calls)
    BY <2>1 DEF Settled
  <2>3. DOMAIN s.calls = 1..Len(s.calls) /\ Len(s.calls) \in Nat
    BY <1>s, LenProperties
  <2> QED
    BY <2>2, <2>3, <1>s, EmptySeq
<1>4. e.type \notin {"tool.call", "tool.result"} => n.calls = s.calls
  BY ApplyFields
<1> HIDE DEF n
<1> QED
  BY <1>1, <1>2, <1>3, <1>4 DEF n

LEMMA SettledGrown ==
  ASSUME NEW s \in AState, NEW e, Settled(s), Valid(s, e), Apply(s, e) \in AState,
         e.type = "tool.call" => s.step # None /\ e.step = s.step.id,
         e.type = "step.started" => e.step[1] = e.turn
  PROVE  Settled(Apply(s, e))
<1> DEFINE n == Apply(s, e)
<1>1. /\ n.turn = CASE e.type = "turn.started" -> e.turn
                    [] e.type = "turn.finished" -> None
                    [] OTHER -> s.turn
      /\ n.step = CASE e.type = "step.started" -> [turn |-> e.turn, id |-> e.step]
                    [] e.type \in {"step.finished", "turn.started"} -> None
                    [] OTHER -> s.step
      /\ n.seenTurns = IF e.type = "turn.started" THEN s.seenTurns \cup {e.turn} ELSE s.seenTurns
      /\ n.seenCalls = IF e.type = "tool.call" THEN s.seenCalls \cup {e.call} ELSE s.seenCalls
      /\ n.doneCalls = IF e.type = "tool.result" THEN s.doneCalls \cup {e.call} ELSE s.doneCalls
  BY ApplyFields, ApplySteps, ApplySeen
<1>c. /\ e.type = "tool.call" =>
           /\ DOMAIN n.calls = DOMAIN s.calls \cup {Len(s.calls) + 1}
           /\ Len(s.calls) + 1 \notin DOMAIN s.calls
           /\ n.calls[Len(s.calls) + 1] = [call |-> e.call, step |-> e.step]
           /\ \A k \in DOMAIN s.calls : n.calls[k] = s.calls[k]
      /\ e.type = "tool.result" =>
           /\ s.step # None /\ e.step = s.step.id
           /\ PendingCall(s, e.call)
           /\ \A k \in DOMAIN n.calls : \E j \in DOMAIN s.calls :
                n.calls[k] = s.calls[j] /\ s.calls[j].call # e.call
           /\ \A j, k \in DOMAIN n.calls : n.calls[j].call = n.calls[k].call => j = k
      /\ e.type = "step.finished" => s.calls = <<>>
      /\ e.type \notin {"tool.call", "tool.result"} => n.calls = s.calls
  BY CallsGrown
<1>d. DOMAIN <<>> = {}
  OBVIOUS
<1> HIDE DEF n
<1>2. CASE e.type = "tool.call"
  <2>1. e.call \notin s.seenCalls
    BY <1>2 DEF Valid, ValidToolCall
  <2>2. n.step = s.step /\ n.turn = s.turn /\ n.seenTurns = s.seenTurns /\ n.doneCalls = s.doneCalls
        /\ n.seenCalls = s.seenCalls \cup {e.call}
    BY <1>1, <1>2
  <2>3. ASSUME NEW j \in DOMAIN n.calls, NEW k \in DOMAIN n.calls, n.calls[j].call = n.calls[k].call
        PROVE  j = k
    BY <2>1, <2>3, <1>2, <1>c DEF Settled
  <2>4. ASSUME NEW k \in DOMAIN n.calls
        PROVE  /\ n.calls[k].step = s.step.id
               /\ n.calls[k].call \in n.seenCalls /\ n.calls[k].call \notin s.doneCalls
    BY <2>1, <2>2, <1>2, <1>c DEF Settled
  <2> QED
    BY <2>2, <2>3, <2>4, <1>2 DEF Settled, n
<1>3. CASE e.type = "tool.result"
  <2>1. e.call \in s.seenCalls
    BY <1>3, <1>c DEF Settled, PendingCall
  <2>2. n.step = s.step /\ n.turn = s.turn /\ n.seenTurns = s.seenTurns /\ n.seenCalls = s.seenCalls
        /\ n.doneCalls = s.doneCalls \cup {e.call}
    BY <1>1, <1>3
  <2>3. ASSUME NEW k \in DOMAIN n.calls
        PROVE  /\ n.calls[k].step = s.step.id
               /\ n.calls[k].call \in n.seenCalls /\ n.calls[k].call \notin n.doneCalls
    <3>1. PICK j \in DOMAIN s.calls : n.calls[k] = s.calls[j] /\ s.calls[j].call # e.call
      BY <1>3, <1>c
    <3> QED
      BY <3>1, <2>2 DEF Settled
  <2> QED
    BY <2>1, <2>2, <2>3, <1>3, <1>c DEF Settled, n
<1>4. CASE e.type = "step.started"
  <2>1. s.turn # None /\ s.turn = e.turn /\ s.step = None
    BY <1>4 DEF Valid, ValidStepStarted
  <2>2. n.calls = <<>> /\ n.turn = s.turn /\ n.step = [turn |-> e.turn, id |-> e.step]
        /\ n.seenTurns = s.seenTurns /\ n.doneCalls = s.doneCalls /\ n.seenCalls = s.seenCalls
    BY <2>1, <1>4, <1>1, <1>c DEF Settled
  <2> QED
    BY <2>1, <2>2, <1>4, <1>d DEF Settled, n
<1>5. CASE e.type = "step.finished"
  <2>1. n.calls = <<>> /\ n.turn = s.turn /\ n.step = None
        /\ n.seenTurns = s.seenTurns /\ n.doneCalls = s.doneCalls /\ n.seenCalls = s.seenCalls
    BY <1>5, <1>1, <1>c
  <2> QED
    BY <2>1, <1>d DEF Settled, n
<1>6. CASE e.type \in {"turn.started", "turn.finished"}
  <2>1. s.step = None
    BY <1>6 DEF Valid, ValidTurnStarted, ValidTurnFinished, Settled
  <2>2. n.calls = <<>> /\ n.step = None
        /\ n.doneCalls = s.doneCalls /\ n.seenCalls = s.seenCalls
        /\ (n.turn = None \/ n.turn \in n.seenTurns)
    BY <2>1, <1>6, <1>1, <1>c DEF Settled
  <2> QED
    BY <2>2, <1>d DEF Settled, n
<1>7. CASE e.type \notin {"tool.call", "tool.result", "step.started", "step.finished", "turn.started", "turn.finished"}
  <2>1. n.calls = s.calls /\ n.step = s.step /\ n.turn = s.turn
        /\ n.seenTurns = s.seenTurns /\ n.doneCalls = s.doneCalls /\ n.seenCalls = s.seenCalls
    BY <1>7, <1>1, <1>c
  <2> QED
    BY <2>1 DEF Settled, n
<1> QED
  BY <1>2, <1>3, <1>4, <1>5, <1>6, <1>7

(* An event of another kind, or about another step, changes no such set.   *)
LEMMA AccountedGrown ==
  ASSUME NoneIsNoStep, NEW entries \in Seq(AnEvent), NEW s \in AState, NEW e \in AnEvent,
         Settled(s), Accounted(entries, s), Begun(entries, s),
         Valid(s, e), Apply(s, e) \in AState,
         e.type = "tool.call" => s.step # None /\ e.step = s.step.id
  PROVE  Accounted(Append(entries, e), Apply(s, e))
<1> DEFINE new == Append(entries, e)
           t == Apply(s, e)
           n == Len(entries) + 1
<1>1. /\ DOMAIN new = DOMAIN entries \cup {n} /\ new[n] = e
      /\ \A i \in DOMAIN entries : new[i] = entries[i]
  BY Grown
<1>2. /\ t.turn = CASE e.type = "turn.started" -> e.turn
                    [] e.type = "turn.finished" -> None
                    [] OTHER -> s.turn
      /\ t.step = CASE e.type = "step.started" -> [turn |-> e.turn, id |-> e.step]
                    [] e.type \in {"step.finished", "turn.started"} -> None
                    [] OTHER -> s.step
      /\ t.seenTurns = IF e.type = "turn.started" THEN s.seenTurns \cup {e.turn} ELSE s.seenTurns
      /\ t.seenSteps = IF e.type = "step.started" THEN s.seenSteps \cup {e.step} ELSE s.seenSteps
      /\ t.seenCalls = IF e.type = "tool.call" THEN s.seenCalls \cup {e.call} ELSE s.seenCalls
      /\ t.doneCalls = IF e.type = "tool.result" THEN s.doneCalls \cup {e.call} ELSE s.doneCalls
  BY ApplyFields, ApplySteps, ApplySeen
<1>c. /\ e.type = "tool.call" =>
           /\ DOMAIN t.calls = DOMAIN s.calls \cup {Len(s.calls) + 1}
           /\ t.calls[Len(s.calls) + 1] = [call |-> e.call, step |-> e.step]
           /\ \A k \in DOMAIN s.calls : t.calls[k] = s.calls[k]
      /\ e.type = "tool.result" =>
           /\ s.step # None /\ e.step = s.step.id
           /\ PendingCall(s, e.call)
           /\ \A k \in DOMAIN t.calls : \E j \in DOMAIN s.calls :
                t.calls[k] = s.calls[j] /\ s.calls[j].call # e.call
      /\ e.type = "step.finished" => s.calls = <<>>
      /\ e.type \notin {"tool.call", "tool.result"} => t.calls = s.calls
  BY CallsGrown
<1>d. DOMAIN <<>> = {}
  OBVIOUS
<1>o. \A step : Of(new, "step.finished", step) =
        Of(entries, "step.finished", step) \cup (IF e.type = "step.finished" /\ e.step = step THEN {n} ELSE {})
  BY OfGrown
<1>i. \A step : Intended(new, step) =
        Intended(entries, step) \cup (IF e.type = "tool.call" /\ e.step = step THEN {e.call} ELSE {})
  BY IntendedGrown
<1> HIDE DEF new, t, n
(* Whatever was pending keeps the active step.                             *)
<1>3. \A k \in DOMAIN t.calls : t.step = s.step
  <2>1. s.step = None => s.calls = <<>>
    BY DEF Settled
  <2>2. e.type = "turn.started" => s.calls = <<>>
    BY <2>1 DEF Valid, ValidTurnStarted, Settled
  <2>3. e.type = "step.started" => s.calls = <<>>
    BY <2>1 DEF Valid, ValidStepStarted
  <2> QED
    BY <2>2, <2>3, <1>2, <1>c, <1>d
<1>4. ASSUME NEW step \in t.seenSteps, Of(new, "step.finished", step) = {}
      PROVE  t.step # None /\ step = t.step.id
  <2>1. Of(entries, "step.finished", step) = {} /\ ~(e.type = "step.finished" /\ e.step = step)
    BY <1>4, <1>o
  <2>2. CASE e.type = "step.started"
    <3>1. s.step = None
      BY <2>2 DEF Valid, ValidStepStarted
    <3>2. step = e.step
      BY <2>1, <2>2, <3>1, <1>2 DEF Accounted
    <3>3. [turn |-> e.turn, id |-> e.step] # None
      BY DEF NoneIsNoStep, AnEvent, Events
    <3> QED
      BY <2>2, <3>2, <3>3, <1>2
  <2>3. CASE e.type # "step.started"
    <3>1. s.step # None /\ step = s.step.id
      BY <2>1, <2>3, <1>2 DEF Accounted
    <3>2. e.type # "step.finished"
      BY <2>1, <3>1 DEF Valid, ValidStepFinished
    <3>3. e.type # "turn.started"
      BY <3>1 DEF Valid, ValidTurnStarted, Settled
    <3> QED
      BY <2>3, <3>1, <3>2, <3>3, <1>2
  <2> QED
    BY <2>2, <2>3
<1>5. ASSUME NEW k \in DOMAIN t.calls PROVE t.calls[k].call \in Intended(new, t.step.id)
  <2>1. t.step = s.step
    BY <1>3
  <2>2. CASE e.type = "tool.call"
    BY <2>1, <2>2, <1>c, <1>i DEF Accounted
  <2>3. CASE e.type # "tool.call"
    <3>1. \E j \in DOMAIN s.calls : t.calls[k] = s.calls[j]
      BY <2>3, <1>c
    <3> QED
      BY <2>1, <3>1, <1>i DEF Accounted
  <2> QED
    BY <2>2, <2>3
<1>6. ASSUME NEW i \in DOMAIN new, new[i].type = "tool.call"
      PROVE  /\ new[i].call \in t.seenCalls
             /\ PendingCall(t, new[i].call) => new[i].step = t.step.id
  <2>1. CASE i = n
    BY <2>1, <1>6, <1>1, <1>2
  <2>2. CASE i \in DOMAIN entries
    <3>1. new[i] = entries[i] /\ entries[i].call \in s.seenCalls
          /\ (PendingCall(s, entries[i].call) => entries[i].step = s.step.id)
      BY <2>2, <1>6, <1>1 DEF Accounted
    <3>2. ASSUME PendingCall(t, new[i].call) PROVE new[i].step = t.step.id
      <4>1. PICK k \in DOMAIN t.calls : t.calls[k].call = new[i].call
        BY <3>2 DEF PendingCall
      <4>2. PendingCall(s, new[i].call)
        <5>1. CASE e.type = "tool.call"
          <6>1. e.call \notin s.seenCalls
            BY <5>1 DEF Valid, ValidToolCall
          <6>2. k \in DOMAIN s.calls /\ t.calls[k] = s.calls[k]
            BY <4>1, <5>1, <6>1, <3>1, <1>c
          <6> QED
            BY <4>1, <6>2 DEF PendingCall
        <5>2. CASE e.type # "tool.call"
          <6>1. \E j \in DOMAIN s.calls : t.calls[k] = s.calls[j]
            BY <5>2, <1>c
          <6> QED
            BY <4>1, <6>1 DEF PendingCall
        <5> QED
          BY <5>1, <5>2
      <4> QED
        BY <3>1, <4>1, <4>2, <1>3
    <3> QED
      BY <3>1, <3>2, <1>2
  <2> QED
    BY <2>1, <2>2, <1>1
<1>7. ASSUME NEW i \in DOMAIN new, new[i].type = "tool.result"
      PROVE  /\ new[i].call \in t.doneCalls /\ new[i].step \in t.seenSteps
             /\ Intended(new, new[i].step) # {}
  <2>1. CASE i = n
    <3>1. e.type = "tool.result" /\ s.step # None /\ e.step = s.step.id /\ PendingCall(s, e.call)
      BY <2>1, <1>7, <1>1, <1>c
    <3>2. e.step \in s.seenSteps
      BY <3>1 DEF Begun, Open
    <3>3. Intended(entries, e.step) # {}
      BY <3>1 DEF PendingCall, Accounted
    <3> QED
      BY <2>1, <3>1, <3>2, <3>3, <1>1, <1>2, <1>i
  <2>2. CASE i \in DOMAIN entries
    BY <2>2, <1>7, <1>1, <1>2, <1>i DEF Accounted
  <2> QED
    BY <2>1, <2>2, <1>1
<1>8. ASSUME NEW i \in DOMAIN new, new[i].type = "step.finished" PROVE new[i].turn = new[i].step[1]
  <2>1. CASE i = n
    BY <2>1, <1>8, <1>1 DEF Valid, ValidStepFinished, Settled
  <2>2. CASE i \in DOMAIN entries
    BY <2>2, <1>8, <1>1 DEF Accounted
  <2> QED
    BY <2>1, <2>2, <1>1
<1>9. ASSUME NEW i \in DOMAIN new, new[i].type = "turn.finished"
      PROVE  new[i].turn \in t.seenTurns /\ (t.turn = None \/ new[i].turn # t.turn)
  <2>1. CASE i = n
    BY <2>1, <1>9, <1>1, <1>2 DEF Valid, ValidTurnFinished, Settled
  <2>2. CASE i \in DOMAIN entries
    <3>1. new[i].turn \in s.seenTurns /\ (s.turn = None \/ new[i].turn # s.turn)
      BY <2>2, <1>9, <1>1 DEF Accounted
    <3>2. e.type = "turn.started" => e.turn \notin s.seenTurns
      BY DEF Valid, ValidTurnStarted
    <3> QED
      BY <3>1, <3>2, <1>2
  <2> QED
    BY <2>1, <2>2, <1>1
<1> QED
  BY <1>4, <1>5, <1>6, <1>7, <1>8, <1>9 DEF Accounted, new, t

LEMMA DeniedGrown ==
  ASSUME NEW entries \in Seq(AnEvent), NEW e, NEW step,
         e.type # "tool.result" \/ e.step # step \/ e.outcome # "denied"
  PROVE  Denied(Append(entries, e), step) <=> Denied(entries, step)
<1> DEFINE new == Append(entries, e)
           n == Len(entries) + 1
<1>1. new[n] = e /\ \A i \in Of(entries, "tool.result", step) : new[i] = entries[i]
  BY Grown DEF Of
<1>2. Of(new, "tool.result", step) =
        Of(entries, "tool.result", step) \cup (IF e.type = "tool.result" /\ e.step = step THEN {n} ELSE {})
  BY OfGrown
<1> HIDE DEF new, n
<1> QED
  BY <1>1, <1>2 DEF Denied, new

(* The greatest position of a log at which something happened.             *)
LEMMA LastOf ==
  ASSUME NEW S, NEW entries \in Seq(S), NEW D \in SUBSET (DOMAIN entries), D # {}
  PROVE  Max(D) \in D /\ \A i \in D : i <= Max(D)
<1>1. DOMAIN entries = 1..Len(entries) /\ Len(entries) \in Nat
  BY LenProperties
<1>2. \E i \in D : \A j \in D : j <= i
  BY <1>1, GreatestIn
<1>3. \A i, j \in D : j <= i => i >= j
  BY <1>1
<1>4. \E i \in D : \A j \in D : i >= j
  BY <1>2, <1>3
<1>5. Max(D) \in D /\ \A j \in D : Max(D) >= j
  BY <1>4 DEF Max
<1> QED
  BY <1>1, <1>5

(* StopReason, of a turn with a finished step.                             *)
LEMMA WhyStop ==
  ASSUME TypeOK, NEW turn, StopReason(turn) # None \/ FinishedOf(log, turn) # {}
  PROVE  \E m \in FinishedOf(log, turn) :
           /\ \A i \in FinishedOf(log, turn) : i <= m
           /\ StopReason(turn) = None => log[m].outcome = "succeeded"
           /\ StopReason(turn) = "completed" =>
                log[m].outcome = "succeeded" /\ Of(log, "tool.call", log[m].step) = {}
           /\ log[m].outcome # "succeeded" /\ Denied(log, log[m].step) =>
                StopReason(turn) = "permission-denied"
<1> DEFINE D == FinishedOf(log, turn)
           m == Max(D)
<1>1. FinishedSteps(turn) = D
  BY DEF FinishedSteps, FinishedOf
<1>2. D # {}
  BY <1>1 DEF StopReason
<1>3. m \in D /\ \A i \in D : i <= m
  <2>1. D \in SUBSET (DOMAIN log)
    BY DEF FinishedOf
  <2> HIDE DEF D
  <2> QED
    BY <2>1, <1>2, LastOf DEF TypeOK
<1>4. StopReason(turn) =
        IF LastOutcome(log[m]) # "completed" THEN LastOutcome(log[m])
        ELSE IF Cardinality(D) >= MaxSteps THEN "max-steps"
        ELSE IF Of(log, "tool.call", log[m].step) = {} THEN "completed"
        ELSE None
  BY <1>1, <1>2, OfLog DEF StopReason
<1> HIDE DEF D, m
<1>5. /\ LastOutcome(log[m]) = "completed" <=> log[m].outcome = "succeeded"
      /\ LastOutcome(log[m]) # "completed" => LastOutcome(log[m]) \in FailureStopReasons
      /\ log[m].outcome # "succeeded" /\ "denied" \in ResultsOf(log[m].step) =>
           LastOutcome(log[m]) = "permission-denied"
  BY DEF LastOutcome, FailureStopReasons
<1>6. Denied(log, log[m].step) => "denied" \in ResultsOf(log[m].step)
  BY OfLog DEF Denied, ResultsOf
<1>7. StopReason(turn) = None => LastOutcome(log[m]) = "completed"
  BY <1>4, <1>5, AbsentAssumption
<1>8. StopReason(turn) = "completed" =>
        LastOutcome(log[m]) = "completed" /\ Of(log, "tool.call", log[m].step) = {}
  BY <1>4, AbsentAssumption DEF Outcomes
<1> QED
  BY <1>3, <1>4, <1>5, <1>6, <1>7, <1>8 DEF D

LEMMA EndedGrown ==
  ASSUME TypeOK, Trail, Begun(log, durable),
         NEW e, Valid(durable, e), Sound(e), Persist(e)
  PROVE  Ended(log', durable')
<1> DEFINE n == Len(log) + 1
           step == durable.step.id
<1>1. /\ DOMAIN log' = DOMAIN log \cup {n} /\ log'[n] = e
      /\ \A i \in DOMAIN log : i \in Nat /\ n \in Nat /\ i < n /\ log'[i] = log[i]
      /\ n \notin DOMAIN log /\ n \in Nat
  BY Grown DEF Persist, TypeOK
<1>2. /\ durable'.turn = CASE e.type = "turn.started" -> e.turn
                           [] e.type = "turn.finished" -> None
                           [] OTHER -> durable.turn
      /\ durable'.step = CASE e.type = "step.started" -> [turn |-> e.turn, id |-> e.step]
                           [] e.type \in {"step.finished", "turn.started"} -> None
                           [] OTHER -> durable.step
  BY ApplyFields DEF Persist, TypeOK
<1>d. \A s : e.type # "tool.result" \/ e.step # s => (Denied(log', s) <=> Denied(log, s))
  BY DeniedGrown DEF Persist, TypeOK
<1>r. ASSUME e.type = "tool.result"
      PROVE  durable.step # None /\ e.step = step /\ Of(log, "step.finished", step) = {}
  <2>1. durable.step # None /\ e.step = step
    <3>2. PICK k \in DOMAIN durable.calls : TRUE
      BY <1>r DEF Valid, ValidToolResult
    <3>3. DOMAIN <<>> = {}
      OBVIOUS
    <3>4. durable.step # None
      BY <3>2, <3>3 DEF Trail, Settled
    <3> QED
      BY <1>r, <3>4 DEF Valid, AssociatedTypes, ActiveStepAssociation
  <2> QED
    BY <2>1 DEF Begun, Open
<1>e. /\ \A i \in DOMAIN log : log[i].type = "step.finished" /\ log[i].outcome = "succeeded" =>
             ~Denied(log, log[i].step)
      /\ \A i, j \in DOMAIN log :
           /\ log[i].type = "step.finished" /\ log[j].type = "step.finished"
           /\ log[i].turn = log[j].turn /\ i < j
           => log[i].outcome = "succeeded"
      /\ durable.step # None => \A i \in FinishedOf(log, durable.turn) : log[i].outcome = "succeeded"
  BY DEF Trail, Ended
<1>f. e.type = "step.finished" =>
        /\ durable.step # None /\ durable.turn = e.turn
        /\ e.outcome = "succeeded" => ~Denied(log, e.step)
  BY DEF Valid, ValidStepFinished, Trail, Settled, Sound
<1> HIDE DEF n
<1>3. ASSUME NEW i \in DOMAIN log', log'[i].type = "step.finished", log'[i].outcome = "succeeded"
      PROVE  ~Denied(log', log'[i].step)
  <2>1. CASE i = n
    BY <2>1, <1>3, <1>1, <1>d, <1>f
  <2>2. CASE i \in DOMAIN log
    <3>1. ~Denied(log, log[i].step) /\ log'[i] = log[i]
      BY <2>2, <1>3, <1>1, <1>e
    <3>2. ~(e.type = "tool.result" /\ e.step = log[i].step)
      BY <2>2, <3>1, <1>3, <1>r DEF Of
    <3> QED
      BY <3>1, <3>2, <1>d
  <2> QED
    BY <2>1, <2>2, <1>1
<1>4. ASSUME NEW i \in DOMAIN log', NEW j \in DOMAIN log',
             log'[i].type = "step.finished", log'[j].type = "step.finished",
             log'[i].turn = log'[j].turn, i < j
      PROVE  log'[i].outcome = "succeeded"
  <2>1. i \in DOMAIN log
    BY <1>4, <1>1
  <2>2. CASE j \in DOMAIN log
    BY <2>1, <2>2, <1>4, <1>1, <1>e
  <2>3. CASE j = n
    <3>1. i \in FinishedOf(log, durable.turn) /\ durable.step # None
      BY <2>1, <2>3, <1>4, <1>1, <1>f DEF FinishedOf
    <3> QED
      BY <2>1, <3>1, <1>1, <1>e
  <2> QED
    BY <2>2, <2>3, <1>1
<1>5. ASSUME durable'.step # None, NEW i \in FinishedOf(log', durable'.turn)
      PROVE  log'[i].outcome = "succeeded"
  <2>1. i \in DOMAIN log' /\ log'[i].type = "step.finished" /\ log'[i].turn = durable'.turn
    BY <1>5 DEF FinishedOf
  <2>2. e.type # "step.finished"
    BY <1>5, <1>2
  <2>3. i \in DOMAIN log /\ log'[i] = log[i] /\ i \in FinishedOf(log, durable'.turn)
    BY <2>1, <2>2, <1>1 DEF FinishedOf
  <2>4. CASE e.type = "step.started"
    <3>1. durable'.turn = e.turn /\ StopReason(e.turn) = None
      BY <2>4, <1>2 DEF Sound, Valid, ValidStepStarted
    <3>2. PICK m \in FinishedOf(log, e.turn) :
            (\A k \in FinishedOf(log, e.turn) : k <= m) /\ log[m].outcome = "succeeded"
      BY <2>3, <3>1, WhyStop
    <3>3. m \in DOMAIN log /\ log[m].type = "step.finished" /\ log[m].turn = log[i].turn /\ log[i].type = "step.finished"
      BY <2>3, <3>1, <3>2 DEF FinishedOf
    <3>4. i < m \/ i = m
      BY <2>3, <3>1, <3>2, <3>3, <1>1
    <3> QED
      BY <2>3, <3>2, <3>3, <3>4, <1>e
  <2>5. CASE e.type # "step.started"
    <3>1. durable.step # None /\ durable'.turn = durable.turn
      <4>1. durable'.step = durable.step /\ e.type # "turn.started"
        BY <1>5, <2>2, <2>5, <1>2
      <4>2. e.type # "turn.finished"
        BY <4>1, <1>5 DEF Valid, ValidTurnFinished
      <4> QED
        BY <4>1, <4>2, <1>5, <1>2
    <3> QED
      BY <2>3, <3>1, <1>e
  <2> QED
    BY <2>4, <2>5
<1> QED
  BY <1>3, <1>4, <1>5 DEF Ended

LEMMA ReportedGrown ==
  ASSUME TypeOK, Trail, Begun(log, durable),
         NEW e, Valid(durable, e), Sound(e), Persist(e)
  PROVE  Reported(log')
<1> DEFINE n == Len(log) + 1
           step == durable.step.id
<1>1. /\ DOMAIN log' = DOMAIN log \cup {n} /\ log'[n] = e
      /\ \A i \in DOMAIN log : i \in Nat /\ n \in Nat /\ i < n /\ log'[i] = log[i]
      /\ n \notin DOMAIN log /\ n \in Nat
  BY Grown DEF Persist, TypeOK
<1>r. e.type = "tool.result" => durable.step # None /\ e.step = step
  <2> SUFFICES ASSUME e.type = "tool.result" PROVE durable.step # None /\ e.step = step
    OBVIOUS
  <2>1. PICK k \in DOMAIN durable.calls : TRUE
    BY DEF Valid, ValidToolResult
  <2>2. DOMAIN <<>> = {}
    OBVIOUS
  <2>3. durable.step # None
    BY <2>1, <2>2 DEF Trail, Settled
  <2> QED
    BY <2>3 DEF Valid, AssociatedTypes, ActiveStepAssociation
<1>f. \A i \in DOMAIN log' : e.type # "step.finished" \/ i # n =>
        \A turn : i \in FinishedOf(log', turn) <=> i \in FinishedOf(log, turn)
  <2> HIDE DEF n
  <2> QED
    BY <1>1 DEF FinishedOf
<1>c. \A s : Of(log', "tool.call", s) =
        Of(log, "tool.call", s) \cup (IF e.type = "tool.call" /\ e.step = s THEN {n} ELSE {})
  BY OfGrown DEF Persist, TypeOK
<1>v. e.type = "turn.finished" => durable.turn = e.turn /\ durable.step = None
  BY DEF Valid, ValidTurnFinished
<1> HIDE DEF n
<1>2. ASSUME NEW i \in DOMAIN log', NEW j \in DOMAIN log', log'[j].type = "turn.finished",
             log'[i].type = "tool.result", log'[i].outcome = "denied", log'[j].turn = log'[i].step[1]
      PROVE  log'[j].outcome \in {"failed", "aborted"}
  <2>1. CASE i \in DOMAIN log /\ j \in DOMAIN log
    BY <2>1, <1>1, <1>2 DEF Trail, Reported
  <2>2. CASE i = n
    <3>1. e.type = "tool.result" /\ j \in DOMAIN log /\ log'[j] = log[j]
      BY <2>2, <1>1, <1>2
    <3>2. log[j].turn = durable.turn /\ durable.turn # None
      BY <2>2, <3>1, <1>1, <1>2, <1>r DEF Trail, Settled
    <3> QED
      BY <3>1, <3>2, <1>2 DEF Trail, Accounted
  <2>3. CASE i \in DOMAIN log /\ j = n
    <3>1. /\ e.type = "turn.finished" /\ log[i].type = "tool.result" /\ log[i].outcome = "denied"
          /\ e.turn = log[i].step[1]
      BY <2>3, <1>1, <1>2
    <3>2. PICK k : k \in Of(log, "step.finished", log[i].step)
      BY <2>3, <3>1, <1>v DEF Trail, Accounted
    <3>3. k \in DOMAIN log /\ log[k].type = "step.finished" /\ log[k].step = log[i].step
      BY <3>2 DEF Of
    <3>4. log[k].turn = e.turn
      BY <3>1, <3>3 DEF Trail, Accounted
    <3>5. Denied(log, log[k].step)
      BY <2>3, <3>1, <3>3 DEF Denied, Of
    <3>6. log[k].outcome # "succeeded"
      BY <3>3, <3>5 DEF Trail, Ended
    <3>7. k \in FinishedOf(log, e.turn)
      BY <3>3, <3>4 DEF FinishedOf
    <3>8. PICK m \in FinishedOf(log, e.turn) :
            /\ \A x \in FinishedOf(log, e.turn) : x <= m
            /\ log[m].outcome # "succeeded" /\ Denied(log, log[m].step) =>
                 StopReason(e.turn) = "permission-denied"
      BY <3>7, WhyStop
    <3>9. m = k
      <4>1. m \in DOMAIN log /\ log[m].type = "step.finished" /\ log[m].turn = log[k].turn /\ k <= m
        BY <3>4, <3>7, <3>8 DEF FinishedOf
      <4>2. ~(k < m)
        BY <3>3, <3>6, <4>1 DEF Trail, Ended
      <4> QED
        BY <3>3, <4>1, <4>2, <1>1
    <3>10. StopReason(e.turn) = "permission-denied"
      BY <3>5, <3>6, <3>8, <3>9
    <3>11. PersistedReason(StopReason(e.turn)) = "failed"
      BY <3>10 DEF PersistedReason, FailureStopReasons
    <3> QED
      BY <2>3, <3>1, <3>11, <1>1 DEF Sound
  <2> QED
    BY <2>1, <2>2, <2>3, <1>1
<1>3. ASSUME NEW j \in DOMAIN log', log'[j].type = "turn.finished", log'[j].outcome = "completed"
      PROVE  \E m \in FinishedOf(log', log'[j].turn) :
               /\ m < j /\ \A i \in FinishedOf(log', log'[j].turn) : i < j => i <= m
               /\ log'[m].outcome = "succeeded" /\ Of(log', "tool.call", log'[m].step) = {}
  <2> DEFINE turn == log'[j].turn
             Final(m) == /\ m < j /\ \A i \in FinishedOf(log, turn) : i < j => i <= m
                         /\ log[m].outcome = "succeeded" /\ Of(log, "tool.call", log[m].step) = {}
  <2>1. \E m \in FinishedOf(log, turn) : Final(m)
    <3>1. CASE j \in DOMAIN log
      BY <3>1, <1>1, <1>3 DEF Trail, Reported
    <3>2. CASE j = n
      <4>1. /\ e.type = "turn.finished" /\ turn = e.turn /\ StopReason(e.turn) # None
            /\ PersistedReason(StopReason(e.turn)) = "completed"
        BY <3>2, <1>1, <1>3 DEF Sound
      <4>2. StopReason(e.turn) = "completed"
        BY <4>1 DEF PersistedReason
      <4>3. PICK m \in FinishedOf(log, e.turn) :
              /\ \A i \in FinishedOf(log, e.turn) : i <= m
              /\ log[m].outcome = "succeeded" /\ Of(log, "tool.call", log[m].step) = {}
        BY <4>1, <4>2, WhyStop
      <4>4. m < j
        BY <3>2, <1>1 DEF FinishedOf
      <4> QED
        BY <4>1, <4>3, <4>4
    <3> QED
      BY <3>1, <3>2, <1>1
  <2>2. PICK m \in FinishedOf(log, turn) : Final(m)
    BY <2>1
  <2>3. m \in DOMAIN log /\ log[m].type = "step.finished" /\ log'[m] = log[m] /\ m \in DOMAIN log'
    BY <1>1 DEF FinishedOf
  <2>4. m \in FinishedOf(log', turn)
    BY <2>3 DEF FinishedOf
  <2>5. ASSUME NEW i \in FinishedOf(log', turn), i < j PROVE i <= m
    <3>1. i \in DOMAIN log
      BY <2>5, <1>1 DEF FinishedOf
    <3>2. i \in FinishedOf(log, turn)
      BY <3>1, <1>1 DEF FinishedOf
    <3> QED
      BY <2>2, <2>5, <3>2
  <2>6. Of(log', "tool.call", log[m].step) = {}
    <3>1. ~(e.type = "tool.call" /\ e.step = log[m].step)
      BY <2>3 DEF Sound, Open, Of
    <3> QED
      BY <2>2, <3>1, <1>c
  <2> QED
    BY <2>2, <2>3, <2>4, <2>5, <2>6
<1> QED
  BY <1>2, <1>3 DEF Reported

LEMMA TrailGrown ==
  ASSUME NoneIsNoStep, TypeOK, TypeOK', Trail, Begun(log, durable),
         NEW e \in AnEvent, Valid(durable, e), Sound(e), Persist(e)
  PROVE  Trail'
<1>1. log \in Seq(AnEvent) /\ durable \in AState /\ durable' \in AState
      /\ log' = Append(log, e) /\ durable' = Apply(durable, e)
  BY DEF TypeOK, Persist
<1>2. e.type = "tool.call" => durable.step # None /\ e.step = durable.step.id
  BY DEF Sound, Open, Trail, Accounted
<1>3. Settled(durable')
  BY <1>1, <1>2, SettledGrown DEF Trail, Sound
<1>4. Accounted(log', durable')
  BY <1>1, <1>2, AccountedGrown DEF Trail
<1>5. Ended(log', durable') /\ Reported(log')
  BY EndedGrown, ReportedGrown
<1> QED
  BY <1>3, <1>4, <1>5 DEF Trail

-----------------------------------------------------------------------------
(* What a replica carries to the end of a step.                            *)

Executing == {"permission", "ask", "deny", "run", "record", "feed"}
Streaming == {"model", "discard", "stream", "intents"}

(* What a replica holds wherever it is.                                    *)
Held(r) ==
  /\ r.pc \in Closing => r.outcome \in {"failed", "aborted"}
  /\ r.pc = "record" => r.outcome \in {"succeeded", "failed"}
  /\ r.pc = "recoverAsks" => r.via = "asks"
  /\ r.pc \in {"recoverCalls", "reload"} => r.via = "calls"

(* A replica r that knows the log: before the tools nothing has a result,  *)
(* and then the flag in memory tells of a denial, live or recovered.       *)
Flagged(r, entries) ==
  /\ r.pc \in Streaming => Of(entries, "tool.result", r.step) = {}
  /\ r.pc = "finish" \/ (r.pc \in Executing /\ r.via = "batch") =>
       (Denied(entries, r.step) => r.failed)

(* The inductive invariant.                                                *)
Concluded ==
  /\ Trail
  /\ \A l \in Loops : /\ Held(loop[l])
                      /\ view[l].lastSeq = durable.lastSeq => Flagged(loop[l], log)

LEMMA Aside ==
  ASSUME NEW r, r.pc \notin Streaming \cup Executing \cup {"finish"}, NEW entries
  PROVE  Flagged(r, entries)
  BY DEF Flagged

LEMMA FailedHeld ==
  ASSUME NEW l, NEW entries
  PROVE  /\ Held(Failed(l)) /\ Flagged(Failed(l), entries)
         /\ Held(IdleLoop) /\ Flagged(IdleLoop, entries)
<1>1. /\ Failed(l).pc \in {"idle", "closing"} /\ IdleLoop.pc = "idle"
      /\ Failed(l).pc = "closing" => Failed(l).outcome \in {"failed", "aborted"}
  BY DEF Failed, IdleLoop
<1> QED
  BY <1>1, Aside DEF Held, Closing, Streaming, Executing

(* A step that appends nothing.                                            *)
LEMMA QuietConcluded ==
  ASSUME Coherent, Concluded, UNCHANGED <<log, durable>>, NEW l \in Loops, NEW next,
         loop' = [loop EXCEPT ![l] = next],
         \/ view' = view
         \/ view' = [view EXCEPT ![l] = durable]
         \/ view' = [view EXCEPT ![l] = EmptyState],
         Held(next), view'[l].lastSeq = durable.lastSeq => Flagged(next, log)
  PROVE  Concluded'
<1>1. ASSUME NEW m \in Loops
      PROVE  Held(loop'[m]) /\ (view'[m].lastSeq = durable.lastSeq => Flagged(loop'[m], log))
  <2>1. CASE m = l
    BY <2>1, <1>1 DEF Coherent, TypeOK
  <2>2. CASE m # l
    <3>1. loop'[m] = loop[m] /\ view'[m] = view[m]
      BY <2>2 DEF Coherent, TypeOK
    <3> QED
      BY <3>1, <1>1 DEF Concluded
  <2> QED
    BY <2>1, <2>2
<1>2. Settled(durable)' /\ Accounted(log, durable)' /\ Ended(log, durable)' /\ Reported(log)'
  <2>1. log' = log /\ durable' = durable
    OBVIOUS
  <2>2. Settled(durable) /\ Accounted(log, durable) /\ Ended(log, durable) /\ Reported(log)
    BY DEF Concluded, Trail
  <2>3. Settled(durable')
    BY <2>1, <2>2
  <2>4. Accounted(log', durable') /\ Ended(log', durable') /\ Reported(log')
    BY <2>1, <2>2
  <2> QED
    BY <2>3, <2>4
<1>3. Trail'
  BY <1>2 DEF Trail
<1> QED
  BY <1>1, <1>3 DEF Concluded

(* #emit.                                                                  *)
LEMMA EmitConcluded ==
  ASSUME NoneIsNoStep, Coherent, Coherent', Recorded, Concluded, NEW l \in Loops,
         NEW event, DOMAIN event = DOMAIN NoEvent, NEW next, Emit(l, event, next),
         NEW e, e = NextEvent(l, event), Held(next),
         (view[l] = durable /\ Valid(durable, e) /\ InBatch(loop[l], log, durable) /\ Flagged(loop[l], log))
           => Sound(e) /\ Flagged(next, Append(log, e))
  PROVE  Concluded'
<1>t. /\ log \in Seq(AnEvent) /\ log' \in Seq(AnEvent) /\ durable \in AState /\ durable' \in AState
      /\ view \in [Loops -> AState] /\ loop \in [Loops -> LoopStates] /\ TypeOK /\ TypeOK'
  BY DEF Coherent, TypeOK
<1>1. CASE UNCHANGED <<log, durable, view>> /\ loop' = [loop EXCEPT ![l] = Failed(l)]
  BY <1>1, QuietConcluded, FailedHeld
<1>2. CASE /\ Valid(view[l], e) /\ AppendAccepted(l, e) /\ Persist(e)
           /\ view' = view \/ view' = [view EXCEPT ![l] = Apply(@, e)]
           /\ loop' = [loop EXCEPT ![l] = next] \/ loop' = [loop EXCEPT ![l] = Failed(l)]
  <2>1. view[l] = durable /\ log' = Append(log, e) /\ durable' = Apply(durable, e)
    BY <1>2 DEF AppendAccepted, Persist, Coherent, CasCoherent
  <2>2. InBatch(loop[l], log, durable) /\ Flagged(loop[l], log) /\ Valid(durable, e)
    BY <1>2, <2>1 DEF Recorded, Concluded
  <2>3. e \in AnEvent
    BY <1>t, <2>1, Appended
  <2>4. Sound(e) /\ Flagged(next, log')
    BY <2>1, <2>2
  <2>5. Trail'
    <3>1. Trail /\ Begun(log, durable)
      BY DEF Concluded, Recorded
    <3> QED
      BY <3>1, <1>t, <1>2, <2>2, <2>3, <2>4, TrailGrown
  <2>6. e.seq \in Int /\ durable.lastSeq \in Int /\ e.seq > durable.lastSeq /\ durable'.lastSeq = e.seq
    <3>1. e.seq \in Int /\ durable.lastSeq \in Int
      BY <1>t, <2>3 DEF AnEvent, Events, AState, SessionStates
    <3>2. e.seq > durable.lastSeq
      BY <2>2 DEF Valid
    <3> QED
      BY <3>1, <3>2, <1>t, <2>1, ApplySteps
  <2>7. ASSUME NEW m \in Loops
        PROVE  Held(loop'[m]) /\ (view'[m].lastSeq = durable'.lastSeq => Flagged(loop'[m], log'))
    <3>1. CASE m = l
      <4>1. loop'[m] = next \/ loop'[m] = Failed(l)
        BY <3>1, <1>t, <1>2
      <4> QED
        BY <4>1, <2>4, FailedHeld
    <3>2. CASE m # l
      <4>1. view'[m] = view[m] /\ view[m] \in AState /\ loop'[m] = loop[m]
        BY <3>2, <1>t, <1>2
      <4>2. view[m].lastSeq <= durable.lastSeq /\ view[m].lastSeq \in Int
        BY <4>1 DEF Coherent, CasCoherent, AState, SessionStates
      <4>3. Held(loop[m])
        BY DEF Concluded
      <4> QED
        BY <4>1, <4>2, <4>3, <2>6
    <3> QED
      BY <3>1, <3>2
  <2> QED
    BY <2>5, <2>7 DEF Concluded
<1> QED
  BY <1>1, <1>2 DEF Emit

(* Most events need no reason, and most places carry nothing.              *)
LEMMA EmitAside ==
  ASSUME NoneIsNoStep, Coherent, Coherent', Recorded, Concluded, NEW l \in Loops,
         NEW event, DOMAIN event = DOMAIN NoEvent, NEW next, Emit(l, event, next),
         Held(next), next.pc \notin Streaming \cup Executing \cup {"finish"},
         \/ event.type \notin {"tool.call", "step.started", "step.finished", "turn.finished"}
         \/ event.type \in {"step.finished", "turn.finished"} /\ event.outcome \in {"failed", "aborted"}
  PROVE  Concluded'
<1> DEFINE e == NextEvent(l, event)
<1>1. e.type = event.type /\ e.outcome = event.outcome
  BY DEF NextEvent, NoEvent
<1>2. Sound(e)
  BY <1>1 DEF Sound
<1>3. Flagged(next, Append(log, e))
  BY Aside
<1>4. e = NextEvent(l, event)
  OBVIOUS
<1> HIDE DEF e
<1> QED
  BY <1>2, <1>3, <1>4, EmitConcluded

LEMMA QuietAside ==
  ASSUME Coherent, Concluded, UNCHANGED <<log, durable>>, NEW l \in Loops, NEW next,
         loop' = [loop EXCEPT ![l] = next],
         \/ view' = view
         \/ view' = [view EXCEPT ![l] = durable]
         \/ view' = [view EXCEPT ![l] = EmptyState],
         Held(next), next.pc \notin Streaming \cup Executing \cup {"finish"}
  PROVE  Concluded'
  BY QuietConcluded, Aside

(* Where Goto leads when the replica held nothing to lose.                 *)
LEMMA PlainHeld ==
  ASSUME NEW r, r.pc \notin Closing \cup {"record", "recoverAsks", "recoverCalls", "reload"}
  PROVE  Held(r)
  BY DEF Held

-----------------------------------------------------------------------------
(* The actions.                                                            *)

LEMMA DriveConcluded ==
  ASSUME NoneIsNoStep, Coherent, Coherent', Recorded, Concluded, NEW l \in Loops,
         \/ RunTurn(l) \/ BeginTurn(l) \/ ResumeTurn(l) \/ Abort(l)
         \/ DriveAborted(l) \/ FinishTurn(l) \/ StartStep(l)
  PROVE  Concluded'
<1>f. /\ DOMAIN loop[l] = {"pc", "turn", "step", "batch", "i", "call", "attempt", "via", "failed",
                           "aborted", "outcome", "action", "asks", "calls", "missing"}
      /\ \A pc : Goto(l, pc).pc = pc
      /\ Failed(l).pc \in {"idle", "closing"} /\ IdleLoop.pc = "idle"
  BY Places
<1>h. Held(Failed(l)) /\ Held(IdleLoop)
  BY FailedHeld
<1>p. \A r : r.pc \in {"begin", "recover", "drive", "idle"} =>
        Held(r) /\ r.pc \notin Streaming \cup Executing \cup {"finish"}
  BY PlainHeld DEF Closing, Streaming, Executing
<1>1. CASE RunTurn(l)
  <2> DEFINE next == [IdleLoop EXCEPT !.pc = "begin", !.turn = durable.lastSeq + 1]
  <2>1. next.pc = "begin"
    BY DEF IdleLoop
  <2>2. /\ loop' = [loop EXCEPT ![l] = next] /\ view' = [view EXCEPT ![l] = durable]
        /\ UNCHANGED <<log, durable>>
    BY <1>1 DEF RunTurn, Reload
  <2> HIDE DEF next
  <2>3. Held(next) /\ next.pc \notin Streaming \cup Executing \cup {"finish"}
    BY <1>p, <2>1
  <2> QED
    BY <2>2, <2>3, QuietAside
<1>2. CASE ResumeTurn(l)
  <2> DEFINE next == [IdleLoop EXCEPT !.pc = "recover", !.turn = durable.turn]
  <2>1. next.pc = "recover"
    BY DEF IdleLoop
  <2>2. /\ loop' = [loop EXCEPT ![l] = next] /\ view' = [view EXCEPT ![l] = durable]
        /\ UNCHANGED <<log, durable>>
    BY <1>2 DEF ResumeTurn, Reload
  <2> HIDE DEF next
  <2>3. Held(next) /\ next.pc \notin Streaming \cup Executing \cup {"finish"}
    BY <1>p, <2>1
  <2> QED
    BY <2>2, <2>3, QuietAside
<1>3. CASE Abort(l)
  <2> DEFINE next == [loop[l] EXCEPT !.aborted = TRUE]
  <2>1. /\ next.pc = loop[l].pc /\ next.step = loop[l].step /\ next.outcome = loop[l].outcome
        /\ next.via = loop[l].via /\ next.failed = loop[l].failed
    BY <1>f
  <2> HIDE DEF next
  <2>2. /\ Held(loop[l]) => Held(next)
        /\ Flagged(loop[l], log) => Flagged(next, log)
    BY <2>1 DEF Held, Flagged
  <2> QED
    BY <1>3, <2>2, QuietConcluded DEF Abort, Move, next, Concluded
<1>4. CASE DriveAborted(l)
  <2>1. Failed(l).pc \notin Streaming \cup Executing \cup {"finish"}
    BY <1>f DEF Streaming, Executing
  <2> QED
    BY <1>4, <1>h, <2>1, QuietAside DEF DriveAborted, Move
<1>5. CASE BeginTurn(l)
  <2> DEFINE event == [NoEvent EXCEPT !.type = "turn.started", !.turn = loop[l].turn]
  <2>1. DOMAIN event = DOMAIN NoEvent /\ event.type = "turn.started"
    BY DEF NoEvent
  <2>2. Emit(l, event, Goto(l, "drive"))
    BY <1>5 DEF BeginTurn
  <2> HIDE DEF event
  <2> QED
    BY <2>2, <1>f, <1>p, <2>1, EmitAside
<1>6. CASE FinishTurn(l)
  <2> DEFINE event == [NoEvent EXCEPT !.type = "turn.finished", !.turn = loop[l].turn,
                                      !.outcome = PersistedReason(StopReason(loop[l].turn))]
             e == NextEvent(l, event)
  <2>1. /\ DOMAIN event = DOMAIN NoEvent
        /\ e.type = "turn.finished" /\ e.turn = loop[l].turn
        /\ e.outcome = PersistedReason(StopReason(loop[l].turn))
    BY DEF NoEvent, NextEvent
  <2>2. Emit(l, event, IdleLoop) /\ StopReason(loop[l].turn) # None
    BY <1>6 DEF FinishTurn
  <2> HIDE DEF event, e
  <2>3. Sound(e)
    BY <2>1, <2>2 DEF Sound
  <2>4. Flagged(IdleLoop, Append(log, e)) /\ e = NextEvent(l, event)
    BY FailedHeld DEF e
  <2> QED
    BY <1>h, <2>1, <2>2, <2>3, <2>4, EmitConcluded
<1>7. CASE StartStep(l)
  <2> DEFINE index == (IF view[l].turn = None THEN 0 ELSE view[l].lastStep) + 1
             step  == <<loop[l].turn, index>>
             event == [NoEvent EXCEPT !.type = "step.started", !.turn = loop[l].turn,
                                      !.step = step, !.index = index]
             next  == [loop[l] EXCEPT !.pc = "model", !.step = step, !.batch = <<>>, !.attempt = 1,
                                      !.via = "batch", !.failed = FALSE]
             e     == NextEvent(l, event)
             new   == Append(log, e)
  <2>0. step[1] = loop[l].turn
    OBVIOUS
  <2> HIDE DEF index, step
  <2>1. /\ DOMAIN event = DOMAIN NoEvent
        /\ e.type = "step.started" /\ e.step = step /\ e.turn = loop[l].turn
    BY DEF NoEvent, NextEvent
  <2>2. next.pc = "model" /\ next.step = step
    BY <1>f
  <2>3. Emit(l, event, next) /\ StopReason(loop[l].turn) = None
    BY <1>7 DEF StartStep, index, step
  <2> HIDE DEF event, next, e
  <2>4. Sound(e)
    BY <2>0, <2>1, <2>3 DEF Sound
  <2>5. ASSUME Valid(durable, e) PROVE Flagged(next, new)
    <3>1. step \notin durable.seenSteps
      BY <2>1, <2>5 DEF Valid, ValidStepStarted
    <3>2. Of(log, "tool.result", step) = {}
      BY <3>1 DEF Concluded, Trail, Accounted, Of
    <3>3. Of(new, "tool.result", step) = {}
      <4>1. log \in Seq(AnEvent) /\ e.type # "tool.result"
        BY <2>1 DEF Coherent, TypeOK
      <4>2. Of(new, "tool.result", step) = Of(log, "tool.result", step)
        BY <4>1, OfOther
      <4> QED
        BY <3>2, <4>2
    <3> HIDE DEF new
    <3> QED
      BY <2>2, <3>3 DEF Flagged, Executing
  <2>6. Held(next)
    BY <2>2, PlainHeld DEF Closing
  <2>7. Valid(durable, e) => Sound(e) /\ Flagged(next, Append(log, e))
    BY <2>4, <2>5
  <2>8. e = NextEvent(l, event)
    BY DEF e
  <2> QED
    BY <2>1, <2>3, <2>6, <2>7, <2>8, EmitConcluded
<1> QED
  BY <1>1, <1>2, <1>3, <1>4, <1>5, <1>6, <1>7

(* callModel and the recording of the batch: no result yet.                *)
LEMMA ModelConcluded ==
  ASSUME NoneIsNoStep, Coherent, Coherent', Recorded, Concluded, NEW l \in Loops,
         ModelPhase(l) \/ RecordIntent(l)
  PROVE  Concluded'
<1> DEFINE step == loop[l].step
<1>f. /\ DOMAIN loop[l] = {"pc", "turn", "step", "batch", "i", "call", "attempt", "via", "failed",
                           "aborted", "outcome", "action", "asks", "calls", "missing"}
      /\ \A pc : Goto(l, pc).pc = pc
      /\ Failed(l).pc \in {"idle", "closing"} /\ IdleLoop.pc = "idle"
  BY Places
<1>t. log \in Seq(AnEvent)
  BY DEF Coherent, TypeOK
<1>p. \A r : r.pc \in Streaming \cup {"finish", "permission"} => Held(r)
  BY PlainHeld DEF Closing, Streaming
<1>q. /\ view[l].lastSeq = durable.lastSeq => Flagged(loop[l], log)
      /\ Held(Failed(l)) /\ Flagged(Failed(l), log)
  BY FailedHeld DEF Concluded
(* Without results there is no denial to carry.                            *)
<1>n. ASSUME NEW entries, NEW next, next.step = step, Of(entries, "tool.result", step) = {}
      PROVE  Flagged(next, entries)
  BY <1>n DEF Flagged, Denied
<1>s. ASSUME loop[l].pc \in Streaming, NEW next, next.step = step,
             next.pc \in Streaming \cup {"finish", "permission"}, Move(l, next)
      PROVE  Concluded'
  <2>1. Flagged(loop[l], log) => Flagged(next, log)
    BY <1>s, <1>n DEF Flagged
  <2>2. Held(next)
    BY <1>s, <1>p
  <2> QED
    BY <1>s, <2>1, <2>2, <1>q, QuietConcluded DEF Move
<1>m. ASSUME loop[l].pc \in Streaming, NEW event, DOMAIN event = DOMAIN NoEvent,
             event.type \in {"model.request", "model.delta", "model.attempt.discarded", "tool.call"},
             event.step = step, NEW next, next.step = step,
             next.pc \in Streaming \cup {"finish", "permission"}, Emit(l, event, next),
             event.type = "tool.call" => loop[l].pc = "intents"
      PROVE  Concluded'
  <2> DEFINE e == NextEvent(l, event)
  <2>1. e.type = event.type /\ e.step = step
    BY <1>m DEF NextEvent, NoEvent
  <2> HIDE DEF e
  <2>2. ASSUME Flagged(loop[l], log), InBatch(loop[l], log, durable)
        PROVE  Sound(e) /\ Flagged(next, Append(log, e))
    <3>1. Of(Append(log, e), "tool.result", step) = Of(log, "tool.result", step)
      BY <2>1, <1>m, <1>t, OfOther
    <3>2. Flagged(next, Append(log, e))
      BY <3>1, <2>2, <1>m, <1>n DEF Flagged
    <3>3. e.type = "tool.call" => Open(step, log, durable)
      BY <2>1, <2>2, <1>m DEF InBatch, Recording
    <3> QED
      BY <2>1, <3>2, <3>3, <1>m DEF Sound
  <2>3. Held(next)
    BY <1>m, <1>p
  <2>4. /\ e = NextEvent(l, event)
        /\ Flagged(loop[l], log) /\ InBatch(loop[l], log, durable) =>
             Sound(e) /\ Flagged(next, Append(log, e))
    BY <2>2 DEF e
  <2>5. DOMAIN event = DOMAIN NoEvent /\ Emit(l, event, next)
    BY <1>m
  <2> QED
    BY <2>3, <2>4, <2>5, EmitConcluded
<1>1. CASE RequestModel(l)
  <2> DEFINE event == InStep(l, "model.request")
  <2>1. DOMAIN event = DOMAIN NoEvent /\ event.type = "model.request" /\ event.step = step
    BY DEF InStep, NoEvent
  <2>2. Goto(l, "stream").step = step /\ Goto(l, "stream").pc = "stream"
    BY <1>f DEF Goto
  <2>3. Emit(l, event, Goto(l, "stream")) /\ loop[l].pc = "model"
    BY <1>1 DEF RequestModel
  <2> HIDE DEF event
  <2> QED
    BY <2>1, <2>2, <2>3, <1>m DEF Streaming
<1>2. CASE DiscardDeltas(l)
  <2> DEFINE next == [loop[l] EXCEPT !.pc = "stream", !.batch = <<>>]
             event(from, to) == [InStep(l, "model.attempt.discarded") EXCEPT !.from = from, !.to = to]
  <2>1. next.pc = "stream" /\ next.step = step /\ loop[l].pc = "discard"
    BY <1>2, <1>f DEF DiscardDeltas
  <2>2. \A from, to : /\ DOMAIN event(from, to) = DOMAIN NoEvent /\ event(from, to).step = step
                      /\ event(from, to).type = "model.attempt.discarded"
    BY DEF InStep, NoEvent
  <2>3. Move(l, next) \/ \E from, to : Emit(l, event(from, to), next)
    BY <1>2 DEF DiscardDeltas
  <2> HIDE DEF next, event
  <2> QED
    BY <2>1, <2>2, <2>3, <1>m, <1>s DEF Streaming
<1>3. CASE StreamEnd(l)
  <2> DEFINE next == [loop[l] EXCEPT !.i = 1, !.pc = IF loop[l].batch = <<>> THEN "finish" ELSE "intents"]
  <2>1. next.step = step /\ next.pc \in {"finish", "intents"} /\ loop[l].pc = "stream" /\ Move(l, next)
    BY <1>3, <1>f DEF StreamEnd
  <2> HIDE DEF next
  <2> QED
    BY <2>1, <1>s DEF Streaming
<1>4. CASE StreamFail(l)
  <2> DEFINE next == [loop[l] EXCEPT !.pc = "discard", !.attempt = @ + 1]
  <2>1. next.pc = "discard" /\ next.step = step /\ loop[l].pc = "stream"
    BY <1>4, <1>f DEF StreamFail
  <2>2. Move(l, Failed(l)) \/ Move(l, next)
    BY <1>4 DEF StreamFail
  <2> HIDE DEF next
  <2> QED
    BY <2>1, <2>2, <1>q, <1>s, QuietConcluded DEF Move, Streaming
<1>5. ASSUME NEW c \in CallIds, StreamCall(l, c) PROVE Concluded'
  <2> DEFINE event == [InStep(l, "model.delta") EXCEPT !.call = c]
             next  == [loop[l] EXCEPT !.batch = Append(@, c)]
  <2>1. DOMAIN event = DOMAIN NoEvent /\ event.type = "model.delta" /\ event.step = step
    BY DEF InStep, NoEvent
  <2>2. next.pc = "stream" /\ next.step = step /\ loop[l].pc = "stream" /\ Emit(l, event, next)
    BY <1>5, <1>f DEF StreamCall
  <2> HIDE DEF event, next
  <2> QED
    BY <2>1, <2>2, <1>m DEF Streaming
<1>6. CASE RecordIntent(l)
  <2> DEFINE i == loop[l].i
             event == [InStep(l, "tool.call") EXCEPT !.call = loop[l].batch[i]]
             next == IF i < Len(loop[l].batch) THEN [loop[l] EXCEPT !.i = i + 1]
                     ELSE [loop[l] EXCEPT !.pc = "permission", !.i = 1, !.call = loop[l].batch[1]]
  <2>1. DOMAIN event = DOMAIN NoEvent /\ event.type = "tool.call" /\ event.step = step
    BY DEF InStep, NoEvent
  <2>2. next.pc \in {"intents", "permission"} /\ next.step = step /\ loop[l].pc = "intents" /\ Emit(l, event, next)
    BY <1>6, <1>f DEF RecordIntent
  <2> HIDE DEF event, next
  <2> QED
    BY <2>1, <2>2, <1>m DEF Streaming
<1> QED
  BY <1>1, <1>2, <1>3, <1>4, <1>5, <1>6 DEF ModelPhase

-----------------------------------------------------------------------------
(* The tools of a step.                                                    *)

(* Where NextCall leads, and what it keeps.                                *)
LEMMA NextCallKeeps ==
  ASSUME NEW l, NEW f \in BOOLEAN, loop[l] \in LoopStates
  PROVE  LET next == NextCall(l, f)
         IN  /\ next.step = loop[l].step /\ next.via = loop[l].via
             /\ loop[l].via = "asks" => next.pc = "recoverAsks"
             /\ loop[l].via = "calls" => next.pc = "reload"
             /\ loop[l].via = "batch" => /\ next.pc \in {"permission", "finish"}
                                         /\ loop[l].failed => next.failed
                                         /\ f => next.failed
<1> DEFINE i == loop[l].i
           more == [loop[l] EXCEPT !.pc = "permission", !.i = i + 1, !.call = loop[l].batch[i + 1],
                                   !.failed = @ \/ f]
           last == [loop[l] EXCEPT !.pc = "finish", !.failed = @ \/ f]
           next == NextCall(l, f)
<1>1. /\ DOMAIN loop[l] = {"pc", "turn", "step", "batch", "i", "call", "attempt", "via", "failed",
                           "aborted", "outcome", "action", "asks", "calls", "missing"}
      /\ loop[l].failed \in BOOLEAN
  BY DEF LoopStates
<1>2. CASE loop[l].via \in {"asks", "calls"}
  BY <1>1, <1>2 DEF NextCall
<1>3. CASE loop[l].via \notin {"asks", "calls"}
  <2>1. next = more \/ next = last
    BY <1>3 DEF NextCall
  <2>2. /\ more.pc = "permission" /\ last.pc = "finish"
        /\ more.step = loop[l].step /\ last.step = loop[l].step
        /\ more.via = loop[l].via /\ last.via = loop[l].via
    BY <1>1
  <2>3. more.failed = (loop[l].failed \/ f) /\ last.failed = (loop[l].failed \/ f)
    BY <1>1
  <2> HIDE DEF more, last, next
  <2>4. loop[l].failed \/ f => next.failed
    BY <2>1, <2>3
  <2> QED
    BY <2>1, <2>2, <2>4, <1>3 DEF next
<1> QED
  BY <1>2, <1>3

(* A recorded result, and on to the next call.                             *)
LEMMA ResultConcluded ==
  ASSUME NoneIsNoStep, Coherent, Coherent', Recorded, Concluded, NEW l \in Loops,
         loop[l].pc \in Executing, NEW outcome, NEW f \in BOOLEAN, outcome = "denied" => f,
         Emit(l, ToolResult(l, outcome), NextCall(l, f))
  PROVE  Concluded'
<1> DEFINE event == ToolResult(l, outcome)
           next  == NextCall(l, f)
           e     == NextEvent(l, event)
<1>1. /\ DOMAIN event = DOMAIN NoEvent
      /\ e.type = "tool.result" /\ e.step = loop[l].step /\ e.outcome = outcome
  BY DEF ToolResult, ForCall, InStep, NoEvent, NextEvent
<1>2. loop[l] \in LoopStates /\ log \in Seq(AnEvent)
  BY DEF Coherent, TypeOK
<1>3. loop[l].via \in {"batch", "asks", "calls"}
  BY <1>2 DEF LoopStates
<1>4. /\ next.step = loop[l].step /\ next.via = loop[l].via
      /\ loop[l].via = "asks" => next.pc = "recoverAsks"
      /\ loop[l].via = "calls" => next.pc = "reload"
      /\ loop[l].via = "batch" => /\ next.pc \in {"permission", "finish"}
                                  /\ loop[l].failed => next.failed
                                  /\ f => next.failed
  BY <1>2, NextCallKeeps
<1>5. Emit(l, event, next) /\ e = NextEvent(l, event)
  OBVIOUS
<1> HIDE DEF event, next, e
<1>6. Sound(e)
  BY <1>1 DEF Sound
<1>7. Held(next)
  BY <1>3, <1>4 DEF Held, Closing
<1>8. Flagged(loop[l], log) => Flagged(next, Append(log, e))
  <2>1. CASE loop[l].via = "batch"
    <3>1. outcome = "denied" => next.failed
      BY <2>1, <1>4
    <3>2. ASSUME outcome # "denied" PROVE Denied(Append(log, e), loop[l].step) <=> Denied(log, loop[l].step)
      BY <3>2, <1>1, <1>2, DeniedGrown
    <3>3. Flagged(loop[l], log) => (Denied(log, loop[l].step) => loop[l].failed)
      BY <2>1 DEF Flagged
    <3>4. Flagged(loop[l], log) => (Denied(Append(log, e), next.step) => next.failed)
      BY <3>1, <3>2, <3>3, <2>1, <1>4
    <3>5. next.pc \notin Streaming
      BY <2>1, <1>4 DEF Streaming
    <3> QED
      BY <3>4, <3>5 DEF Flagged
  <2>2. CASE loop[l].via # "batch"
    <3>1. next.pc \notin Streaming \cup Executing \cup {"finish"}
      BY <2>2, <1>3, <1>4 DEF Streaming, Executing
    <3> QED
      BY <3>1, Aside
  <2> QED
    BY <2>1, <2>2
<1> QED
  BY <1>1, <1>5, <1>6, <1>7, <1>8, EmitConcluded

(* From one place in the handling of a call to another.                    *)
LEMMA StaysFlagged ==
  ASSUME NEW r, r.pc \in Executing, NEW next, next.pc \in Executing,
         next.step = r.step, next.via = r.via, next.failed = r.failed,
         NEW entries, NEW longer, Denied(longer, r.step) <=> Denied(entries, r.step), Flagged(r, entries)
  PROVE  Flagged(next, longer)
<1>1. next.pc \notin Streaming /\ next.pc # "finish"
  BY DEF Streaming, Executing
<1>2. r.via = "batch" => (Denied(entries, r.step) => r.failed)
  BY DEF Flagged
<1>3. next.via = "batch" => (Denied(longer, next.step) => next.failed)
  BY <1>2
<1> QED
  BY <1>1, <1>3 DEF Flagged

LEMMA ToolConcluded ==
  ASSUME NoneIsNoStep, Coherent, Coherent', Recorded, Concluded, NEW l \in Loops,
         \/ RejectUnregistered(l) \/ RequestPermission(l)
         \/ \E d \in {"allow", "deny"} : ResolvePermission(l, d)
         \/ RecordDenial(l) \/ RunTool(l) \/ RecordResult(l) \/ RecordFailure(l)
  PROVE  Concluded'
<1>f. /\ DOMAIN loop[l] = {"pc", "turn", "step", "batch", "i", "call", "attempt", "via", "failed",
                           "aborted", "outcome", "action", "asks", "calls", "missing"}
      /\ \A pc : Goto(l, pc).pc = pc
      /\ Failed(l).pc \in {"idle", "closing"} /\ IdleLoop.pc = "idle"
  BY Places
<1>t. log \in Seq(AnEvent)
  BY DEF Coherent, TypeOK
<1>q. /\ view[l].lastSeq = durable.lastSeq => Flagged(loop[l], log)
      /\ Held(loop[l]) /\ Held(Failed(l)) /\ \A entries : Flagged(Failed(l), entries)
  BY FailedHeld DEF Concluded
<1>x. \A pc \in {"permission", "ask", "deny", "run", "record", "feed"} : pc \in Executing
  BY DEF Executing
<1>b. FALSE \in BOOLEAN /\ TRUE \in BOOLEAN
  OBVIOUS
<1>1. CASE RejectUnregistered(l)
  <2>1. loop[l].pc = "permission" /\ Emit(l, ToolResult(l, "error"), NextCall(l, TRUE))
    BY <1>1 DEF RejectUnregistered
  <2> QED
    BY <2>1, <1>x, <1>b, ResultConcluded
<1>2. CASE RecordDenial(l)
  <2>1. loop[l].pc = "deny" /\ Emit(l, ToolResult(l, "denied"), NextCall(l, TRUE))
    BY <1>2 DEF RecordDenial
  <2> QED
    BY <2>1, <1>x, <1>b, ResultConcluded
<1>3. CASE RecordResult(l)
  <2>1. loop[l].pc = "record" /\ Emit(l, ToolResult(l, loop[l].outcome), NextCall(l, FALSE))
    BY <1>3 DEF RecordResult
  <2>2. loop[l].outcome # "denied"
    BY <2>1, <1>q DEF Held
  <2> QED
    BY <2>1, <2>2, <1>x, <1>b, ResultConcluded
<1>4. CASE RecordFailure(l)
  <2> DEFINE event == ToolResult(l, "error")
  <2>1. DOMAIN event = DOMAIN NoEvent /\ event.type = "tool.result"
    BY DEF ToolResult, ForCall, InStep, NoEvent
  <2>2. loop[l].pc = "feed"
    BY <1>4 DEF RecordFailure
  <2>3. Emit(l, event, NextCall(l, FALSE)) \/ Emit(l, event, Failed(l))
    BY <1>4 DEF RecordFailure
  <2>4. CASE Emit(l, event, NextCall(l, FALSE))
    <3>1. Emit(l, ToolResult(l, "error"), NextCall(l, FALSE)) /\ ("error" = "denied" => FALSE)
      BY <2>4
    <3>2. loop[l].pc \in Executing
      BY <2>2, <1>x
    <3> HIDE DEF event
    <3> QED
      BY <3>1, <3>2, <1>b, ResultConcluded
  <2> HIDE DEF event
  <2>5. CASE Emit(l, event, Failed(l))
    <3>1. Failed(l).pc \notin Streaming \cup Executing \cup {"finish"}
      BY <1>f DEF Streaming, Executing
    <3> QED
      BY <3>1, <2>1, <2>5, <1>q, EmitAside
  <2> QED
    BY <2>3, <2>4, <2>5
<1>a. ASSUME loop[l].pc \in Executing, NEW event, DOMAIN event = DOMAIN NoEvent,
             event.type \in {"permission.requested", "permission.resolved"},
             NEW next, next.pc \in {"ask", "deny", "run"}, next.step = loop[l].step,
             next.via = loop[l].via, next.failed = loop[l].failed, Emit(l, event, next)
      PROVE  Concluded'
  <2> DEFINE e == NextEvent(l, event)
  <2>1. e.type = event.type
    BY <1>a DEF NextEvent, NoEvent
  <2>2. e = NextEvent(l, event)
    OBVIOUS
  <2> HIDE DEF e
  <2>3. Sound(e)
    BY <2>1, <1>a DEF Sound
  <2>4. Held(next)
    BY <1>a, PlainHeld DEF Closing
  <2>5. next.pc \in Executing
    BY <1>a, <1>x
  <2>6. Denied(Append(log, e), loop[l].step) <=> Denied(log, loop[l].step)
    BY <2>1, <1>a, <1>t, DeniedGrown
  <2>7. Flagged(loop[l], log) => Flagged(next, Append(log, e))
    BY <2>5, <2>6, <1>a, StaysFlagged
  <2> QED
    BY <2>2, <2>3, <2>4, <2>7, <1>a, EmitConcluded
<1>5. CASE RequestPermission(l)
  <2> DEFINE event == ForRequest(l, "permission.requested")
  <2>1. DOMAIN event = DOMAIN NoEvent /\ event.type = "permission.requested"
    BY DEF ForRequest, ForCall, InStep, NoEvent
  <2>2. /\ Goto(l, "ask").step = loop[l].step /\ Goto(l, "ask").via = loop[l].via
        /\ Goto(l, "ask").failed = loop[l].failed /\ Goto(l, "ask").pc = "ask"
    BY <1>f DEF Goto
  <2>3. loop[l].pc = "permission" /\ Emit(l, event, Goto(l, "ask"))
    BY <1>5 DEF RequestPermission
  <2> HIDE DEF event
  <2> QED
    BY <2>1, <2>2, <2>3, <1>x, <1>a
<1>6. ASSUME NEW d \in {"allow", "deny"}, ResolvePermission(l, d) PROVE Concluded'
  <2> DEFINE event == [ForRequest(l, "permission.resolved") EXCEPT !.decision = d]
             next  == [loop[l] EXCEPT !.pc = IF d = "allow" THEN "run" ELSE "deny", !.attempt = 1]
  <2>1. DOMAIN event = DOMAIN NoEvent /\ event.type = "permission.resolved"
    BY DEF ForRequest, ForCall, InStep, NoEvent
  <2>2. /\ next.step = loop[l].step /\ next.via = loop[l].via
        /\ next.failed = loop[l].failed /\ next.pc \in {"run", "deny"}
    BY <1>f
  <2>3. loop[l].pc = "ask" /\ Emit(l, event, next)
    BY <1>6 DEF ResolvePermission
  <2> HIDE DEF event, next
  <2> QED
    BY <2>1, <2>2, <2>3, <1>x, <1>a
<1>7. CASE RunTool(l)
  <2>1. loop[l].pc = "run" /\ UNCHANGED <<log, durable, view>>
    BY <1>7 DEF RunTool
  <2>2. ASSUME NEW next, loop' = [loop EXCEPT ![l] = next], Held(next),
               next.pc \in Executing, next.step = loop[l].step,
               next.via = loop[l].via, next.failed = loop[l].failed
        PROVE  Concluded'
    <3>1. Flagged(loop[l], log) => Flagged(next, log)
      BY <2>1, <2>2, <1>x, StaysFlagged
    <3> QED
      BY <3>1, <2>1, <2>2, <1>q, QuietConcluded
  <2> DEFINE done(outcome) == [loop[l] EXCEPT !.pc = "record", !.outcome = outcome]
             again         == [loop[l] EXCEPT !.attempt = @ + 1]
             fed(action)   == [loop[l] EXCEPT !.pc = "feed", !.action = action]
  <2>3. \/ \E outcome \in {"succeeded", "failed"} : loop' = [loop EXCEPT ![l] = done(outcome)]
        \/ loop' = [loop EXCEPT ![l] = again]
        \/ \E action : loop' = [loop EXCEPT ![l] = fed(action)]
        \/ loop' = [loop EXCEPT ![l] = Failed(l)]
    BY <1>7, <1>f DEF RunTool
  <2>4. /\ \A outcome : /\ done(outcome).pc = "record" /\ done(outcome).outcome = outcome
                        /\ done(outcome).step = loop[l].step /\ done(outcome).via = loop[l].via
                        /\ done(outcome).failed = loop[l].failed
        /\ again.pc = "run" /\ again.step = loop[l].step /\ again.via = loop[l].via
        /\ again.failed = loop[l].failed
        /\ \A action : /\ fed(action).pc = "feed"
                       /\ fed(action).step = loop[l].step /\ fed(action).via = loop[l].via
                       /\ fed(action).failed = loop[l].failed
    BY <1>f, <2>1
  <2> HIDE DEF done, again, fed
  <2>5. ASSUME NEW outcome \in {"succeeded", "failed"}, loop' = [loop EXCEPT ![l] = done(outcome)]
        PROVE  Concluded'
    <3>1. Held(done(outcome))
      BY <2>4, <2>5 DEF Held, Closing
    <3> QED
      BY <3>1, <2>2, <2>4, <2>5, <1>x
  <2>6. CASE loop' = [loop EXCEPT ![l] = again]
    <3>1. Held(again)
      BY <2>4, PlainHeld DEF Closing
    <3> QED
      BY <3>1, <2>2, <2>4, <2>6, <1>x
  <2>7. ASSUME NEW action, loop' = [loop EXCEPT ![l] = fed(action)] PROVE Concluded'
    <3>1. Held(fed(action))
      BY <2>4, PlainHeld DEF Closing
    <3> QED
      BY <3>1, <2>2, <2>4, <2>7, <1>x
  <2>8. CASE loop' = [loop EXCEPT ![l] = Failed(l)]
    BY <2>1, <2>8, <1>q, QuietConcluded
  <2> QED
    BY <2>3, <2>5, <2>6, <2>7, <2>8
<1> QED
  BY <1>1, <1>2, <1>3, <1>4, <1>5, <1>6, <1>7

-----------------------------------------------------------------------------
(* The end of a step, and recovery.                                        *)

LEMMA FinishConcluded ==
  ASSUME NoneIsNoStep, Coherent, Coherent', Recorded, Concluded, NEW l \in Loops,
         FinishStep(l) \/ Maintain(l)
  PROVE  Concluded'
<1>f. /\ \A pc : Goto(l, pc).pc = pc
      /\ Failed(l).pc \in {"idle", "closing"} /\ IdleLoop.pc = "idle"
  BY Places
<1>p. \A r : r.pc \in {"compact", "checkpoint", "drive"} =>
        Held(r) /\ r.pc \notin Streaming \cup Executing \cup {"finish"}
  BY PlainHeld DEF Closing, Streaming, Executing
<1>1. CASE FinishStep(l)
  <2> DEFINE outcome == IF loop[l].failed THEN "failed" ELSE "succeeded"
             event == [InStep(l, "step.finished") EXCEPT !.turn = loop[l].step[1], !.outcome = outcome]
             next  == Goto(l, IF loop[l].via = "calls" /\ At("tool.call", loop[l].step) = {}
                              THEN "drive" ELSE "compact")
             e     == NextEvent(l, event)
  <2>1. /\ DOMAIN event = DOMAIN NoEvent
        /\ e.type = "step.finished" /\ e.step = loop[l].step /\ e.outcome = outcome
    BY DEF InStep, NoEvent, NextEvent
  <2>2. e = NextEvent(l, event)
    OBVIOUS
  <2>3. next.pc \in {"drive", "compact"}
    BY <1>f
  <2>4. loop[l].pc = "finish" /\ Emit(l, event, next)
    BY <1>1 DEF FinishStep
  <2>5. outcome = "failed" \/ ~loop[l].failed
    OBVIOUS
  <2> HIDE DEF event, next, e, outcome
  <2>6. Flagged(loop[l], log) => Sound(e)
    BY <2>1, <2>4, <2>5 DEF Flagged, Sound
  <2>7. Flagged(next, Append(log, e)) /\ Held(next)
    BY <2>3, <1>p, Aside
  <2> QED
    BY <2>1, <2>2, <2>4, <2>6, <2>7, EmitConcluded
<1>2. CASE Maintain(l)
  <2> DEFINE next  == Goto(l, IF loop[l].pc = "compact" THEN "checkpoint" ELSE "drive")
             type  == MaintenanceTypes[loop[l].pc]
             event == [NoEvent EXCEPT !.type = type]
  <2>1. next.pc \in {"drive", "checkpoint"}
    BY <1>f
  <2>2. loop[l].pc \in {"compact", "checkpoint"} /\ (Move(l, next) \/ Emit(l, event, next))
    BY <1>2 DEF Maintain
  <2>3. type \in {"compaction.applied", "checkpoint.created"}
    BY <2>2 DEF MaintenanceTypes
  <2>4. DOMAIN event = DOMAIN NoEvent /\ event.type = type
    BY DEF NoEvent
  <2> HIDE DEF next, type, event
  <2>5. Held(next) /\ next.pc \notin Streaming \cup Executing \cup {"finish"}
    BY <2>1, <1>p
  <2>6. CASE Move(l, next)
    BY <2>5, <2>6, QuietAside DEF Move
  <2>7. CASE Emit(l, event, next)
    BY <2>3, <2>4, <2>5, <2>7, EmitAside
  <2> QED
    BY <2>2, <2>6, <2>7
<1> QED
  BY <1>1, <1>2

(* Without an intent a step has no result, so its model may start again.   *)
LEMMA NoIntentNoResult ==
  ASSUME Trail, NEW step, Of(log, "tool.call", step) = {}
  PROVE  Of(log, "tool.result", step) = {}
<1>1. Intended(log, step) = {}
  BY DEF Intended, CallsOf
<1>2. \A i \in DOMAIN log : log[i].type = "tool.result" => Intended(log, log[i].step) # {}
  BY DEF Trail, Accounted
<1> QED
  BY <1>1, <1>2 DEF Of

(* The calls that recovery takes up leave the verdict to RecoverFinish.    *)
LEMMA RecoveredAside ==
  ASSUME NEW r, r.pc \in Executing, r.via # "batch", NEW entries
  PROVE  Flagged(r, entries)
  BY DEF Flagged, Streaming, Executing

LEMMA RecoveryConcluded ==
  ASSUME NoneIsNoStep, Coherent, Coherent', Recorded, Concluded, NEW l \in Loops, RecoveryPhase(l)
  PROVE  Concluded'
<1>f. /\ DOMAIN loop[l] = {"pc", "turn", "step", "batch", "i", "call", "attempt", "via", "failed",
                           "aborted", "outcome", "action", "asks", "calls", "missing"}
      /\ \A pc : Goto(l, pc).pc = pc
      /\ Failed(l).pc \in {"idle", "closing"} /\ IdleLoop.pc = "idle"
  BY Places
<1>v. \A pc : Goto(l, pc).via = loop[l].via
  BY <1>f DEF Goto
<1>q. /\ Held(loop[l]) /\ Held(Failed(l)) /\ \A entries : Flagged(Failed(l), entries)
      /\ Trail
  BY FailedHeld DEF Concluded
<1>p. \A r : \/ r.pc \in {"drive", "reconcile"}
             \/ r.pc = "recoverAsks" /\ r.via = "asks"
             \/ r.pc = "recoverCalls" /\ r.via = "calls"
             => Held(r) /\ r.pc \notin Streaming \cup Executing \cup {"finish"}
  BY DEF Held, Closing, Streaming, Executing
<1>c. \A r : r.pc \in {"permission", "deny", "run", "feed"} /\ r.via # "batch" =>
        Held(r) /\ \A entries : Flagged(r, entries)
  BY PlainHeld, RecoveredAside DEF Closing, Executing
<1>r. ASSUME NEW next, loop' = [loop EXCEPT ![l] = next], UNCHANGED <<log, durable>>,
             view' = [view EXCEPT ![l] = durable],
             Held(next) /\ next.pc \notin Streaming \cup Executing \cup {"finish"}
      PROVE  Concluded'
  BY <1>r, QuietAside
<1>1. CASE Recover(l)
  <2> DEFINE step == durable.step.id
             again == [loop[l] EXCEPT !.step = step]
             known == [again EXCEPT !.pc = "reconcile", !.missing = MissingIntents(step)]
             fresh == [again EXCEPT !.pc = IF At("model.request", step) # {} THEN "discard" ELSE "model"]
  <2>1. /\ known.pc = "reconcile"
        /\ fresh.pc \in {"discard", "model"} /\ fresh.step = step
    BY <1>f
  <2>2. /\ UNCHANGED <<log, durable>> /\ view' = [view EXCEPT ![l] = durable]
        /\ \/ loop' = [loop EXCEPT ![l] = Goto(l, "drive")]
           \/ loop' = [loop EXCEPT ![l] = known]
           \/ loop' = [loop EXCEPT ![l] = fresh] /\ At("tool.call", step) = {}
    BY <1>1 DEF Recover, Reload
  <2> HIDE DEF step, again, known, fresh
  <2>3. CASE loop' = [loop EXCEPT ![l] = Goto(l, "drive")]
    BY <2>2, <2>3, <1>f, <1>p, <1>r
  <2>4. CASE loop' = [loop EXCEPT ![l] = known]
    BY <2>1, <2>2, <2>4, <1>p, <1>r
  <2>5. CASE loop' = [loop EXCEPT ![l] = fresh] /\ At("tool.call", step) = {}
    <3>1. Of(log, "tool.result", step) = {}
      BY <2>5, <1>q, OfLog, NoIntentNoResult
    <3>2. fresh.pc \notin Executing \cup {"finish"}
      BY <2>1 DEF Executing
    <3>3. Flagged(fresh, log)
      BY <2>1, <3>1, <3>2 DEF Flagged
    <3>4. Held(fresh)
      BY <2>1, PlainHeld DEF Closing
    <3> QED
      BY <2>2, <2>5, <3>3, <3>4, QuietConcluded
  <2> QED
    BY <2>2, <2>3, <2>4, <2>5
<1>2. CASE ReconcileIntent(l)
  <2> DEFINE event(i) == [InStep(l, "tool.call") EXCEPT !.call = log[i].call]
             next(i) == [loop[l] EXCEPT !.missing = @ \ {i}]
  <2>1. loop[l].pc = "reconcile"
        /\ (Move(l, Failed(l)) \/ \E i \in loop[l].missing : Emit(l, event(i), next(i)))
    BY <1>2 DEF ReconcileIntent
  <2>2. \A i : /\ DOMAIN event(i) = DOMAIN NoEvent /\ event(i).type = "tool.call"
               /\ event(i).step = loop[l].step
               /\ next(i).pc = loop[l].pc
    BY <1>f DEF InStep, NoEvent
  <2> HIDE DEF event, next
  <2>3. CASE Move(l, Failed(l))
    BY <2>3, <1>q, QuietConcluded DEF Move
  <2>4. ASSUME NEW i, Emit(l, event(i), next(i)) PROVE Concluded'
    <3> DEFINE e == NextEvent(l, event(i))
    <3>1. e.type = "tool.call" /\ e.step = loop[l].step
      BY <2>2 DEF NextEvent, NoEvent
    <3>2. e = NextEvent(l, event(i))
      OBVIOUS
    <3> HIDE DEF e
    <3>3. InBatch(loop[l], log, durable) => Sound(e)
      BY <2>1, <3>1 DEF InBatch, Recording, Sound
    <3>4. Held(next(i)) /\ next(i).pc \notin Streaming \cup Executing \cup {"finish"}
      BY <2>1, <2>2, <1>p
    <3>5. Flagged(next(i), Append(log, e))
      BY <3>4, Aside
    <3>6. DOMAIN event(i) = DOMAIN NoEvent
      BY <2>2
    <3> QED
      BY <2>4, <3>2, <3>3, <3>4, <3>5, <3>6, EmitConcluded
  <2> QED
    BY <2>1, <2>3, <2>4
<1>3. CASE RecoverAsks(l)
  <2> DEFINE next == [loop[l] EXCEPT !.pc = "recoverAsks", !.via = "asks", !.asks = durable.asks]
  <2>1. next.pc = "recoverAsks" /\ next.via = "asks"
    BY <1>f
  <2>2. /\ UNCHANGED <<log, durable>> /\ view' = [view EXCEPT ![l] = durable]
        /\ loop' = [loop EXCEPT ![l] = next]
    BY <1>3 DEF RecoverAsks, Reload
  <2> HIDE DEF next
  <2> QED
    BY <2>1, <2>2, <1>p, <1>r
<1>4. ASSUME NEW d \in {"allow", "deny"}, RecoverAsk(l, d) PROVE Concluded'
  <2> DEFINE ask == Head(loop[l].asks)
             event == [InStep(l, "permission.resolved") EXCEPT
                         !.call = ask.call, !.req = ask.req, !.decision = d]
             skip == [loop[l] EXCEPT !.asks = Tail(@)]
             here == [loop[l] EXCEPT !.asks = Tail(@), !.call = ask.call, !.attempt = 1]
             next == [here EXCEPT !.pc = IF d = "allow" THEN "run" ELSE "deny"]
  <2>1. /\ DOMAIN event = DOMAIN NoEvent /\ event.type = "permission.resolved"
        /\ skip.pc = loop[l].pc /\ skip.via = loop[l].via
        /\ next.pc \in {"run", "deny"} /\ next.via = loop[l].via
    BY <1>f DEF InStep, NoEvent
  <2>2. loop[l].pc = "recoverAsks" /\ (Move(l, skip) \/ Emit(l, event, next))
    BY <1>4 DEF RecoverAsk
  <2>3. loop[l].via = "asks"
    BY <2>2, <1>q DEF Held
  <2> HIDE DEF ask, event, skip, here, next
  <2>4. CASE Move(l, skip)
    <3>1. Held(skip) /\ skip.pc \notin Streaming \cup Executing \cup {"finish"}
      BY <2>1, <2>2, <2>3, <1>p
    <3> QED
      BY <2>4, <3>1, QuietAside DEF Move
  <2>5. CASE Emit(l, event, next)
    <3> DEFINE e == NextEvent(l, event)
    <3>1. e.type = "permission.resolved"
      BY <2>1 DEF NextEvent, NoEvent
    <3>2. e = NextEvent(l, event)
      OBVIOUS
    <3> HIDE DEF e
    <3>3. Sound(e)
      BY <3>1 DEF Sound
    <3>4. Held(next) /\ Flagged(next, Append(log, e))
      BY <2>1, <2>3, <1>c
    <3> QED
      BY <2>1, <2>5, <3>2, <3>3, <3>4, EmitConcluded
  <2> QED
    BY <2>2, <2>4, <2>5
<1>5. CASE RecoverCalls(l)
  <2> DEFINE next == [loop[l] EXCEPT !.pc = "recoverCalls", !.via = "calls", !.calls = durable.calls]
  <2>1. next.pc = "recoverCalls" /\ next.via = "calls"
    BY <1>f
  <2>2. /\ UNCHANGED <<log, durable>> /\ view' = [view EXCEPT ![l] = durable]
        /\ loop' = [loop EXCEPT ![l] = next]
    BY <1>5 DEF RecoverCalls, Reload
  <2> HIDE DEF next
  <2> QED
    BY <2>1, <2>2, <1>p, <1>r
<1>6. CASE ReloadAfterCall(l)
  <2>1. /\ UNCHANGED <<log, durable>> /\ view' = [view EXCEPT ![l] = durable]
        /\ loop' = [loop EXCEPT ![l] = Goto(l, "recoverCalls")]
        /\ loop[l].pc = "reload"
    BY <1>6 DEF ReloadAfterCall, Reload
  <2>2. Goto(l, "recoverCalls").via = "calls"
    BY <2>1, <1>q, <1>v DEF Held
  <2> QED
    BY <2>1, <2>2, <1>f, <1>p, <1>r
<1>7. CASE RecoverCall(l)
  <2> DEFINE c == Head(loop[l].calls).call
             here == [loop[l] EXCEPT !.calls = Tail(@), !.call = c, !.step = view[l].step.id,
                                     !.action = "feed-back"]
             at(pc) == [here EXCEPT !.pc = pc]
             again == [here EXCEPT !.pc = "run", !.attempt = 2]
  <2>1. /\ \A pc : at(pc).pc = pc /\ at(pc).via = loop[l].via
        /\ again.pc = "run" /\ again.via = loop[l].via
    BY <1>f
  <2>2. /\ loop[l].pc = "recoverCalls"
        /\ \/ Move(l, Failed(l)) \/ Move(l, again)
           \/ \E pc \in {"permission", "deny", "feed"} : Move(l, at(pc))
    BY <1>7 DEF RecoverCall
  <2> HIDE DEF c, here, at, again
  <2>3. loop[l].via # "batch"
    BY <2>2, <1>q DEF Held
  <2>4. ASSUME NEW next, Move(l, next), Held(next) /\ \A entries : Flagged(next, entries)
        PROVE  Concluded'
    BY <2>4, QuietConcluded DEF Move
  <2>5. Held(again) /\ \A entries : Flagged(again, entries)
    BY <2>1, <2>3, <1>c
  <2>6. ASSUME NEW pc \in {"permission", "deny", "feed"}
        PROVE  Held(at(pc)) /\ \A entries : Flagged(at(pc), entries)
    BY <2>1, <2>3, <1>c
  <2> QED
    BY <2>2, <2>4, <2>5, <2>6, <1>q
<1>8. CASE RecoverFinish(l)
  <2> DEFINE step == durable.step.id
             next == [loop[l] EXCEPT !.pc = "finish", !.step = step,
                        !.failed = \/ ResultsOf(step) \cap {"denied", "error"} # {}
                                   \/ At("tool.call", step) = {}]
  <2>1. /\ UNCHANGED <<log, durable>> /\ view' = [view EXCEPT ![l] = durable]
        /\ loop' = [loop EXCEPT ![l] = Goto(l, "drive")] \/ loop' = [loop EXCEPT ![l] = next]
    BY <1>8 DEF RecoverFinish, Reload
  <2>2. next.pc = "finish" /\ next.step = step
    BY <1>f
  <2>3. next.failed = (ResultsOf(step) \cap {"denied", "error"} # {} \/ At("tool.call", step) = {})
    BY <1>f
  <2>4. Denied(log, step) => next.failed
    <3>1. Denied(log, step) => "denied" \in ResultsOf(step)
      BY OfLog DEF Denied, ResultsOf
    <3> HIDE DEF next, step
    <3> QED
      BY <3>1, <2>3
  <2> HIDE DEF next, step
  <2>5. Held(next) /\ Flagged(next, log)
    <3>1. next.pc \notin Streaming
      BY <2>2 DEF Streaming
    <3> QED
      BY <2>2, <2>4, <3>1, PlainHeld DEF Flagged, Closing
  <2>6. CASE loop' = [loop EXCEPT ![l] = Goto(l, "drive")]
    BY <2>1, <2>6, <1>f, <1>p, <1>r
  <2>7. CASE loop' = [loop EXCEPT ![l] = next]
    BY <2>1, <2>5, <2>7, QuietConcluded
  <2> QED
    BY <2>1, <2>6, <2>7
<1> QED
  BY <1>1, <1>2, <1>3, <1>4, <1>5, <1>6, <1>7, <1>8 DEF RecoveryPhase

LEMMA CloseConcluded ==
  ASSUME NoneIsNoStep, Coherent, Coherent', Recorded, Concluded, NEW l \in Loops, ClosePhase(l)
  PROVE  Concluded'
<1>f. /\ DOMAIN loop[l] = {"pc", "turn", "step", "batch", "i", "call", "attempt", "via", "failed",
                           "aborted", "outcome", "action", "asks", "calls", "missing"}
      /\ \A pc : Goto(l, pc).pc = pc
      /\ Failed(l).pc \in {"idle", "closing"} /\ IdleLoop.pc = "idle"
  BY Places
<1>g. \A pc : Goto(l, pc).outcome = loop[l].outcome
  BY <1>f DEF Goto
<1>q. loop[l].pc \in Closing => loop[l].outcome \in {"failed", "aborted"}
  BY DEF Concluded, Held
<1>p. \A r : r.pc \in Closing /\ r.outcome \in {"failed", "aborted"} =>
        Held(r) /\ r.pc \notin Streaming \cup Executing \cup {"finish"}
  BY DEF Held, Closing, Streaming, Executing
<1>i. Held(IdleLoop) /\ IdleLoop.pc \notin Streaming \cup Executing \cup {"finish"}
  BY <1>f, FailedHeld DEF Streaming, Executing
<1>1. CASE CloseReload(l)
  <2> DEFINE asks  == [loop[l] EXCEPT !.pc = "closeAsks", !.asks = durable.asks]
             calls == [loop[l] EXCEPT !.pc = "closeCalls", !.calls = durable.calls]
  <2>1. /\ asks.pc = "closeAsks" /\ asks.outcome = loop[l].outcome
        /\ calls.pc = "closeCalls" /\ calls.outcome = loop[l].outcome
    BY <1>f
  <2>2. /\ UNCHANGED <<log, durable>> /\ view' = [view EXCEPT ![l] = durable]
        /\ loop[l].pc \in {"closing", "closeAsks", "closeCalls", "closeStep"}
        /\ \/ loop' = [loop EXCEPT ![l] = asks] \/ loop' = [loop EXCEPT ![l] = calls]
           \/ \E pc \in {"closeStep", "closeTurn"} : loop' = [loop EXCEPT ![l] = Goto(l, pc)]
    BY <1>1 DEF CloseReload, Reload
  <2> HIDE DEF asks, calls
  <2>3. loop[l].outcome \in {"failed", "aborted"}
    BY <2>2, <1>q DEF Closing
  <2>4. ASSUME NEW next, next.pc \in Closing, next.outcome = loop[l].outcome, loop' = [loop EXCEPT ![l] = next]
        PROVE  Concluded'
    <3>1. Held(next) /\ next.pc \notin Streaming \cup Executing \cup {"finish"}
      BY <2>3, <2>4, <1>p
    <3> QED
      BY <2>2, <2>4, <3>1, QuietAside
  <2>5. \A pc \in {"closeAsks", "closeCalls", "closeStep", "closeTurn"} : pc \in Closing
    BY DEF Closing
  <2> QED
    BY <2>1, <2>2, <2>4, <2>5, <1>f, <1>g
<1>2. CASE CloseAsk(l)
  <2> DEFINE ask == Head(loop[l].asks)
             event == [NoEvent EXCEPT !.type = "permission.resolved", !.req = ask.req, !.step = ask.step,
                                      !.call = ask.call, !.decision = "deny"]
             next == [loop[l] EXCEPT !.asks = Tail(@)]
  <2>1. DOMAIN event = DOMAIN NoEvent /\ event.type = "permission.resolved"
    BY DEF NoEvent
  <2>2. next.pc = loop[l].pc /\ next.outcome = loop[l].outcome /\ loop[l].pc = "closeAsks"
    BY <1>2, <1>f DEF CloseAsk
  <2>3. Emit(l, event, next)
    BY <1>2 DEF CloseAsk
  <2> HIDE DEF event, next
  <2>4. Held(next) /\ next.pc \notin Streaming \cup Executing \cup {"finish"}
    BY <2>2, <1>p, <1>q DEF Closing
  <2> QED
    BY <2>1, <2>3, <2>4, EmitAside
<1>3. CASE CloseCall(l)
  <2> DEFINE call == Head(loop[l].calls)
             event == [NoEvent EXCEPT !.type = "tool.result", !.call = call.call, !.step = call.step,
                                      !.outcome = "error"]
             next == [loop[l] EXCEPT !.calls = Tail(@)]
  <2>1. DOMAIN event = DOMAIN NoEvent /\ event.type = "tool.result"
    BY DEF NoEvent
  <2>2. next.pc = loop[l].pc /\ next.outcome = loop[l].outcome /\ loop[l].pc = "closeCalls"
    BY <1>3, <1>f DEF CloseCall
  <2>3. Emit(l, event, next)
    BY <1>3 DEF CloseCall
  <2> HIDE DEF event, next
  <2>4. Held(next) /\ next.pc \notin Streaming \cup Executing \cup {"finish"}
    BY <2>2, <1>p, <1>q DEF Closing
  <2> QED
    BY <2>1, <2>3, <2>4, EmitAside
<1>4. CASE CloseStep(l)
  <2> DEFINE event == [NoEvent EXCEPT !.type = "step.finished", !.turn = view[l].step.turn,
                                      !.step = view[l].step.id, !.outcome = loop[l].outcome]
  <2>1. DOMAIN event = DOMAIN NoEvent /\ event.type = "step.finished" /\ event.outcome = loop[l].outcome
    BY DEF NoEvent
  <2>2. Emit(l, event, loop[l]) /\ loop[l].pc = "closeStep"
    BY <1>4 DEF CloseStep
  <2> HIDE DEF event
  <2>3. Held(loop[l]) /\ loop[l].pc \notin Streaming \cup Executing \cup {"finish"}
        /\ loop[l].outcome \in {"failed", "aborted"}
    BY <2>2, <1>p, <1>q DEF Closing
  <2> QED
    BY <2>1, <2>2, <2>3, EmitAside
<1>5. CASE CloseTurn(l)
  <2> DEFINE event == [NoEvent EXCEPT !.type = "turn.finished", !.turn = view[l].turn,
                                      !.outcome = loop[l].outcome]
  <2>1. DOMAIN event = DOMAIN NoEvent /\ event.type = "turn.finished" /\ event.outcome = loop[l].outcome
    BY DEF NoEvent
  <2>2. loop[l].pc = "closeTurn" /\ (Move(l, IdleLoop) \/ Emit(l, event, IdleLoop))
    BY <1>5 DEF CloseTurn
  <2>3. loop[l].outcome \in {"failed", "aborted"}
    BY <2>2, <1>q DEF Closing
  <2> HIDE DEF event
  <2>4. CASE Move(l, IdleLoop)
    BY <2>4, <1>i, QuietAside DEF Move
  <2>5. CASE Emit(l, event, IdleLoop)
    BY <2>1, <2>3, <2>5, <1>i, EmitAside
  <2> QED
    BY <2>2, <2>4, <2>5
<1> QED
  BY <1>1, <1>2, <1>3, <1>4, <1>5 DEF ClosePhase

LEMMA EnvironmentConcluded ==
  ASSUME Coherent, Concluded, NEW l \in Loops, PortFails(l) \/ Crash(l)
  PROVE  Concluded'
<1>1. Held(Failed(l)) /\ Held(IdleLoop) /\ \A entries : Flagged(Failed(l), entries) /\ Flagged(IdleLoop, entries)
  BY FailedHeld
<1>2. CASE PortFails(l)
  BY <1>1, <1>2, QuietConcluded DEF PortFails
<1>3. CASE Crash(l)
  BY <1>1, <1>3, QuietConcluded DEF Crash
<1> QED
  BY <1>2, <1>3

LEMMA InitConcluded == Init => Concluded
<1> SUFFICES ASSUME Init PROVE Concluded
  OBVIOUS
<1>1. /\ DOMAIN log = {} /\ durable.step = None /\ durable.turn = None
      /\ durable.calls = <<>> /\ DOMAIN durable.calls = {}
      /\ durable.seenSteps = {} /\ durable.doneCalls = {} /\ durable.seenCalls = {}
  BY DEF Init, EmptyState
<1>2. \A l \in Loops : loop[l] = IdleLoop
  BY DEF Init
<1>3. Settled(durable)
  BY <1>1 DEF Settled
<1>4. Accounted(log, durable) /\ Ended(log, durable) /\ Reported(log)
  BY <1>1 DEF Accounted, Ended, Reported
<1> QED
  BY <1>2, <1>3, <1>4, FailedHeld DEF Concluded, Trail

LEMMA NextConcluded ==
  ASSUME NoneIsNoStep, Coherent, Coherent', Recorded, Concluded, [Next]_vars
  PROVE  Concluded'
<1>1. CASE UNCHANGED vars
  <2>1. log' = log /\ durable' = durable /\ loop' = loop /\ view' = view
    BY <1>1 DEF vars
  <2>2. Settled(durable) /\ Accounted(log, durable) /\ Ended(log, durable) /\ Reported(log)
    BY DEF Concluded, Trail
  <2>3. Settled(durable') /\ Accounted(log', durable') /\ Ended(log', durable') /\ Reported(log')
    BY <2>1, <2>2
  <2>4. \A l \in Loops : /\ Held(loop'[l])
                         /\ view'[l].lastSeq = durable'.lastSeq => Flagged(loop'[l], log')
    BY <2>1 DEF Concluded
  <2> QED
    BY <2>3, <2>4 DEF Concluded, Trail
<1>2. ASSUME NEW l \in Loops,
             \/ RunTurn(l) \/ ResumeTurn(l) \/ Proceed(l)
             \/ Abort(l) \/ PortFails(l) \/ Crash(l)
      PROVE  Concluded'
  BY <1>2, DriveConcluded, ModelConcluded, ToolConcluded, FinishConcluded, RecoveryConcluded,
     CloseConcluded, EnvironmentConcluded DEF Proceed, ToolPhase
<1> QED
  BY <1>1, <1>2 DEF Next

(* What the invariant says of the reported turns is what the runs check.   *)
LEMMA ConcludedMeans ==
  ASSUME Coherent, Concluded
  PROVE  DeniedTurnFails /\ CompletedMeansAnswered
<1>1. DeniedTurnFails
  BY DEF Concluded, Trail, Reported, DeniedTurnFails
<1>2. ASSUME NEW j \in DOMAIN log, log[j].type = "turn.finished", log[j].outcome = "completed"
      PROVE  LET last == log[Max({i \in FinishedSteps(log[j].turn) : i < j})]
             IN  last.outcome = "succeeded" /\ At("tool.call", last.step) = {}
  <2> DEFINE D == {i \in FinishedSteps(log[j].turn) : i < j}
  <2>1. FinishedSteps(log[j].turn) = FinishedOf(log, log[j].turn)
    BY DEF FinishedSteps, FinishedOf
  <2>2. PICK m \in FinishedOf(log, log[j].turn) :
          /\ m < j /\ \A i \in FinishedOf(log, log[j].turn) : i < j => i <= m
          /\ log[m].outcome = "succeeded" /\ Of(log, "tool.call", log[m].step) = {}
    BY <1>2 DEF Concluded, Trail, Reported
  <2>3. m \in D /\ \A i \in D : i <= m
    BY <2>1, <2>2
  <2>4. D \in SUBSET (DOMAIN log) /\ log \in Seq(AnEvent)
    BY DEF FinishedSteps, Coherent, TypeOK
  <2> HIDE DEF D
  <2>5. Max(D) \in D /\ \A i \in D : i <= Max(D)
    BY <2>3, <2>4, LastOf
  <2>6. DOMAIN log = 1..Len(log) /\ Len(log) \in Nat
    BY <2>4, LenProperties
  <2>7. Max(D) = m
    BY <2>3, <2>4, <2>5, <2>6
  <2> QED
    BY <2>2, <2>7, OfLog DEF D
<1> QED
  BY <1>1, <1>2 DEF CompletedMeansAnswered

(* However a step was finished, live by a flag in memory or by a recovery  *)
(* that reads the log, after crashes, lost acknowledgements and rivals: a  *)
(* denied tool fails its turn.                                             *)
THEOREM DenialFailsTurn ==
  ASSUME NoneIsNoStep
  PROVE  Spec => []DeniedTurnFails
<1>1. Coherent /\ Concluded => DeniedTurnFails
  BY ConcludedMeans
<1>2. Init => Coherent /\ Recorded /\ Concluded
  BY InitCoherent, InitRecorded, InitConcluded
<1>3. Coherent /\ Recorded /\ Concluded /\ [Next]_vars => (Coherent /\ Recorded /\ Concluded)'
  BY NextCoherent, NextRecorded, NextConcluded
<1> QED
  BY <1>1, <1>2, <1>3, PTL DEF Spec

(* And a turn is reported completed only after a step the model answered   *)
(* without asking for a tool.                                              *)
THEOREM CompletedIsAnswered ==
  ASSUME NoneIsNoStep
  PROVE  Spec => []CompletedMeansAnswered
<1>1. Coherent /\ Concluded => CompletedMeansAnswered
  BY ConcludedMeans
<1>2. Init => Coherent /\ Recorded /\ Concluded
  BY InitCoherent, InitRecorded, InitConcluded
<1>3. Coherent /\ Recorded /\ Concluded /\ [Next]_vars => (Coherent /\ Recorded /\ Concluded)'
  BY NextCoherent, NextRecorded, NextConcluded
<1> QED
  BY <1>1, <1>2, <1>3, PTL DEF Spec

-----------------------------------------------------------------------------
(***************************************************************************)
(* What a session that one replica runs owes to the tools: they run only   *)
(* after the whole batch of intents, never after their result, and, with   *)
(* the default recovery budget, never again after an operation that did    *)
(* not live to record it.  (Rivals break the first: see AgentLoop.)        *)
(***************************************************************************)

AfterBatch == Executing \cup {"recoverAsks", "recoverCalls", "reload"}

(* The calls from one place of r's batch to another are pending, each once. *)
Awaited(r, s, from, to) ==
  /\ \A k \in from .. to : PendingCall(s, r.batch[k])
  /\ \A j, k \in from .. to : r.batch[j] = r.batch[k] => j = k

(* A replica r at work on a log with state s: what it still has to execute *)
(* is what is pending, and beyond the intents the batch is in the log.     *)
Working(r, s, entries) ==
  /\ r.pc \in Recording => r.via = "batch"
  /\ r.pc = "intents" => Awaited(r, s, 1, r.i - 1)
  /\ r.pc \in Executing => PendingCall(s, r.call)
  /\ r.pc \in Executing /\ r.via = "batch" =>
       r.i \in DOMAIN r.batch /\ r.call = r.batch[r.i] /\ Awaited(r, s, r.i, Len(r.batch))
  /\ r.pc \in {"recoverCalls", "reload"} => r.calls = s.calls
  /\ r.pc \in Executing /\ r.via = "calls" =>
       s.calls # <<>> /\ r.call = s.calls[1].call /\ r.calls = Tail(s.calls)
  /\ r.pc \in AfterBatch => Chosen(entries, r.step) \subseteq Intended(entries, r.step)

(* A call ran only after its approval was answered, which happens once.    *)
Answered(r) ==
  /\ \A c \in CallIds : runs[c] > 0 => c \in durable.doneReqs
  /\ \A c \in ranBefore : runs[c] > 0
  /\ durable.doneReqs \subseteq durable.seenReqs
  /\ \A k \in DOMAIN durable.asks : /\ durable.asks[k].req = durable.asks[k].call
                                    /\ durable.asks[k].req \in durable.seenReqs
                                    /\ durable.asks[k].req \notin durable.doneReqs
  /\ r.pc = "run" => r.call \in durable.doneReqs /\ r.call \notin ranBefore

(* The inductive invariant, on top of the earlier ones.                    *)
Effective(l) ==
  /\ Working(loop[l], durable, log)
  /\ RecoveryAttempts = 1 => Answered(loop[l])

Alone(l) == Loops = {l} /\ Coherent /\ OneAsk /\ Recorded /\ Concluded /\ Effective(l)

-----------------------------------------------------------------------------
(* What one more event does to the pending calls and to the batch.         *)

LEMMA PendingGrown ==
  ASSUME NEW s \in AState, NEW e, Settled(s), Valid(s, e), Apply(s, e) \in AState, NEW c
  PROVE  /\ e.type = "tool.call" => PendingCall(Apply(s, e), e.call)
         /\ PendingCall(s, c) /\ (e.type # "tool.result" \/ c # e.call) => PendingCall(Apply(s, e), c)
<1> DEFINE n == Apply(s, e)
<1>c. /\ e.type = "tool.call" =>
           /\ DOMAIN n.calls = DOMAIN s.calls \cup {Len(s.calls) + 1}
           /\ n.calls[Len(s.calls) + 1] = [call |-> e.call, step |-> e.step]
           /\ \A k \in DOMAIN s.calls : n.calls[k] = s.calls[k]
      /\ e.type \notin {"tool.call", "tool.result"} => n.calls = s.calls
  BY CallsGrown
<1>s. s.calls \in Seq(PendingCalls(Steps, CallIds)) /\ n.calls \in Seq(PendingCalls(Steps, CallIds))
  BY DEF AState, SessionStates
<1>f. e.type = "tool.result" =>
        n.calls = RemoveAt(s.calls, First({k \in DOMAIN s.calls : s.calls[k].call = e.call}))
  BY ApplyFields
<1> HIDE DEF n
<1>1. CASE e.type = "tool.call"
  BY <1>1, <1>c DEF PendingCall, n
<1>2. CASE e.type = "tool.result"
  <2> SUFFICES ASSUME PendingCall(s, c), c # e.call PROVE PendingCall(n, c)
    BY <1>2 DEF n
  <2> DEFINE D == {k \in DOMAIN s.calls : s.calls[k].call = e.call}
             first == First(D)
  <2>1. D # {} /\ D \in SUBSET (DOMAIN s.calls)
    BY <1>2 DEF Valid, ValidToolResult
  <2>2. n.calls = RemoveAt(s.calls, first)
    BY <1>2, <1>f
  <2>3. DOMAIN s.calls = 1..Len(s.calls) /\ DOMAIN n.calls = 1..Len(n.calls) /\ Len(s.calls) \in Nat
    BY <1>s, LenProperties
  <2>4. PICK j \in DOMAIN s.calls : s.calls[j].call = c
    BY DEF PendingCall
  <2> HIDE DEF D
  <2>5. /\ Len(n.calls) = Len(s.calls) - 1 /\ first \in D
        /\ \A k \in DOMAIN n.calls : \E i \in DOMAIN s.calls :
             n.calls[k] = s.calls[i] /\ i = IF k < first THEN k ELSE k + 1
    BY <2>1, <2>2, <1>s, Spliced
  <2>6. first \in DOMAIN s.calls /\ j # first
    BY <2>4, <2>5 DEF D
  <2> HIDE DEF first
  <2> DEFINE k == IF j < first THEN j ELSE j - 1
  <2>7. k \in DOMAIN n.calls /\ j = (IF k < first THEN k ELSE k + 1)
    BY <2>3, <2>5, <2>6
  <2>8. n.calls[k] = s.calls[j]
    BY <2>5, <2>7
  <2> QED
    BY <2>4, <2>7, <2>8 DEF PendingCall
<1>3. CASE e.type \notin {"tool.call", "tool.result"}
  BY <1>3, <1>c DEF PendingCall, n
<1> QED
  BY <1>1, <1>2, <1>3

(* The result of the first pending call leaves the others as they are.     *)
LEMMA FirstAnswered ==
  ASSUME NEW s \in AState, NEW e, Settled(s), Valid(s, e), Apply(s, e) \in AState,
         e.type = "tool.result", s.calls # <<>>, e.call = s.calls[1].call
  PROVE  Apply(s, e).calls = Tail(s.calls)
<1> DEFINE n == Apply(s, e)
           D == {k \in DOMAIN s.calls : s.calls[k].call = e.call}
<1>1. s.calls \in Seq(PendingCalls(Steps, CallIds)) /\ n.calls \in Seq(PendingCalls(Steps, CallIds))
  BY DEF AState, SessionStates
<1>2. n.calls = RemoveAt(s.calls, First(D))
  BY ApplyFields
<1>3. /\ DOMAIN s.calls = 1..Len(s.calls) /\ Len(s.calls) \in Nat /\ Len(s.calls) # 0
      /\ DOMAIN n.calls = 1..Len(n.calls)
  BY <1>1, LenProperties, EmptySeq
<1>4. D = {1}
  <2>1. 1 \in DOMAIN s.calls
    BY <1>3
  <2> QED
    BY <2>1 DEF Settled
<1> HIDE DEF n, D
<1>5. /\ Len(n.calls) = Len(s.calls) - 1 /\ First(D) = 1
      /\ \A k \in DOMAIN n.calls : \E i \in DOMAIN s.calls :
           n.calls[k] = s.calls[i] /\ i = IF k < 1 THEN k ELSE k + 1
  <2>1. D \in SUBSET (DOMAIN s.calls) /\ D # {}
    BY <1>3, <1>4
  <2>2. First(D) \in D /\ Len(n.calls) = Len(s.calls) - 1
    BY <2>1, <1>1, <1>2, Spliced
  <2>3. First(D) = 1
    BY <2>2, <1>4
  <2> QED
    BY <2>1, <2>2, <2>3, <1>1, <1>2, Spliced
<1>6. /\ Tail(s.calls) \in Seq(PendingCalls(Steps, CallIds)) /\ Len(Tail(s.calls)) = Len(s.calls) - 1
      /\ \A i \in 1..Len(Tail(s.calls)) : Tail(s.calls)[i] = s.calls[i + 1]
  BY <1>1, HeadTailProperties
<1>7. \A k \in 1..Len(n.calls) : n.calls[k] = Tail(s.calls)[k]
  <2> SUFFICES ASSUME NEW k \in 1..Len(n.calls) PROVE n.calls[k] = Tail(s.calls)[k]
    OBVIOUS
  <2>1. n.calls[k] = s.calls[k + 1]
    BY <1>3, <1>5
  <2> QED
    BY <2>1, <1>5, <1>6
<1> QED
  BY <1>1, <1>5, <1>6, <1>7, SeqEqual DEF n

(* Only deltas, discards and intents change the batch of a step.           *)
LEMMA BatchKept ==
  ASSUME NEW entries \in Seq(AnEvent), NEW e, NEW step,
         e.type \notin {"tool.call", "model.delta", "model.attempt.discarded"}
  PROVE  /\ Chosen(Append(entries, e), step) = Chosen(entries, step)
         /\ Intended(Append(entries, e), step) = Intended(entries, step)
  BY ChosenGrown, IntendedOther

-----------------------------------------------------------------------------
(* What the ways of advancing keep.                                        *)

LEMMA Elsewise ==
  ASSUME NEW r, r.pc \notin Recording \cup AfterBatch, NEW s, NEW entries
  PROVE  Working(r, s, entries)
  BY DEF Working, Recording, AfterBatch, Executing

LEMMA FailedWorking ==
  ASSUME NEW l, NEW s, NEW entries
  PROVE  /\ Working(Failed(l), s, entries) /\ Failed(l).pc \notin Recording \cup AfterBatch
         /\ Working(IdleLoop, s, entries) /\ IdleLoop.pc \notin Recording \cup AfterBatch
<1>1. Failed(l).pc \in {"idle", "closing"} /\ IdleLoop.pc = "idle"
  BY DEF Failed, IdleLoop
<1>2. Failed(l).pc \notin Recording \cup AfterBatch /\ IdleLoop.pc \notin Recording \cup AfterBatch
  BY <1>1 DEF Recording, AfterBatch, Executing
<1> QED
  BY <1>2, Elsewise

(* A step that appends nothing and runs nothing.                           *)
LEMMA QuietEffective ==
  ASSUME NEW l, Alone(l), NEW next, loop' = [loop EXCEPT ![l] = next],
         UNCHANGED <<log, durable, runs>>, Working(next, durable, log),
         \/ UNCHANGED ranBefore /\ (next.pc = "run" =>
              (loop[l].pc = "run" /\ next.call = loop[l].call) \/ RecoveryAttempts # 1)
         \/ NewOperation /\ next.pc # "run"
  PROVE  Effective(l)'
<1>1. loop'[l] = next
  BY DEF Alone, Coherent, TypeOK
<1>2. Working(loop'[l], durable', log')
  BY <1>1
<1>3. RecoveryAttempts = 1 => Answered(loop[l])'
  <2> SUFFICES ASSUME RecoveryAttempts = 1 PROVE Answered(loop[l])'
    OBVIOUS
  <2>1. Answered(loop[l])
    BY DEF Alone, Effective
  <2>2. (\A c \in ranBefore' : runs'[c] > 0) /\ (next.pc = "run" => next.call \in durable.doneReqs /\ next.call \notin ranBefore')
    BY <2>1 DEF Answered, NewOperation
  <2> QED
    BY <2>1, <2>2, <1>1 DEF Answered
<1> QED
  BY <1>2, <1>3 DEF Effective

(* What is asked and answered, after one more event.                       *)
LEMMA AnsweredGrown ==
  ASSUME NEW l, Alone(l), Coherent', Answered(loop[l]), UNCHANGED <<runs, ranBefore>>,
         NEW e, Valid(durable, e), Persist(e),
         e.type = "permission.requested" => e.req = e.call,
         NEW next, next.pc = "run" => e.type = "permission.resolved" /\ e.req = next.call,
         NEW same, same = next \/ same.pc # "run"
  PROVE  /\ \A c \in CallIds : runs'[c] > 0 => c \in durable'.doneReqs
         /\ \A c \in ranBefore' : runs'[c] > 0
         /\ durable'.doneReqs \subseteq durable'.seenReqs
         /\ \A k \in DOMAIN durable'.asks : /\ durable'.asks[k].req = durable'.asks[k].call
                                            /\ durable'.asks[k].req \in durable'.seenReqs
                                            /\ durable'.asks[k].req \notin durable'.doneReqs
         /\ same.pc = "run" => same.call \in durable'.doneReqs /\ same.call \notin ranBefore'
<1>t. /\ durable \in AState /\ durable' \in AState /\ durable' = Apply(durable, e)
      /\ ranBefore \subseteq CallIds
  BY DEF Alone, Coherent, TypeOK, Persist
<1>s. durable.asks \in Seq(PendingAsks(Steps, CallIds)) /\ durable'.asks \in Seq(PendingAsks(Steps, CallIds))
  BY <1>t DEF AState, SessionStates
<1>1. /\ durable'.seenReqs = IF e.type = "permission.requested" THEN durable.seenReqs \cup {e.req} ELSE durable.seenReqs
      /\ durable'.doneReqs = IF e.type = "permission.resolved" THEN durable.doneReqs \cup {e.req} ELSE durable.doneReqs
  BY <1>t, ApplySeen
<1>2. durable'.asks = CASE e.type = "permission.requested" ->
                             Append(durable.asks, [req |-> e.req, step |-> e.step, call |-> e.call])
                        [] e.type = "permission.resolved" ->
                             RemoveAt(durable.asks, First({k \in DOMAIN durable.asks : durable.asks[k].req = e.req}))
                        [] OTHER -> durable.asks
  BY <1>t, ApplyFields
<1>3. /\ \A c \in CallIds : runs[c] > 0 => c \in durable.doneReqs
      /\ \A c \in ranBefore : runs[c] > 0
      /\ durable.doneReqs \subseteq durable.seenReqs
      /\ \A k \in DOMAIN durable.asks : /\ durable.asks[k].req = durable.asks[k].call
                                        /\ durable.asks[k].req \in durable.seenReqs
                                        /\ durable.asks[k].req \notin durable.doneReqs
  BY DEF Answered
<1>4. e.type = "permission.resolved" => e.req \in durable.seenReqs /\ e.req \notin durable.doneReqs
  BY <1>3 DEF Valid, ValidPermissionResolved
<1>5. e.type = "permission.requested" => e.req \notin durable.seenReqs
  BY DEF Valid, ValidPermissionRequested
<1>6. ASSUME NEW k \in DOMAIN durable'.asks
      PROVE  /\ durable'.asks[k].req = durable'.asks[k].call
             /\ durable'.asks[k].req \in durable'.seenReqs
             /\ durable'.asks[k].req \notin durable'.doneReqs
  <2>1. CASE e.type = "permission.requested"
    <3> DEFINE n == Len(durable.asks) + 1
               ask == [req |-> e.req, step |-> e.step, call |-> e.call]
    <3>1. durable'.asks = Append(durable.asks, ask)
      BY <2>1, <1>2
    <3>2. ask.req = e.req /\ ask.call = e.call
      OBVIOUS
    <3> HIDE DEF ask
    <3>3. /\ DOMAIN durable'.asks = DOMAIN durable.asks \cup {n} /\ durable'.asks[n] = ask
          /\ \A i \in DOMAIN durable.asks : durable'.asks[i] = durable.asks[i]
      BY <3>1, <1>s, Grown
    <3> HIDE DEF n
    <3>4. e.req \notin durable.doneReqs /\ e.req = e.call
      BY <2>1, <1>3, <1>5
    <3> QED
      BY <2>1, <3>2, <3>3, <3>4, <1>1, <1>3
  <2>2. CASE e.type = "permission.resolved"
    <3> DEFINE D == {i \in DOMAIN durable.asks : durable.asks[i].req = e.req}
    <3>1. D # {} /\ D \in SUBSET (DOMAIN durable.asks)
      BY <2>2 DEF Valid, ValidPermissionResolved
    <3>2. durable'.asks = RemoveAt(durable.asks, First(D))
      BY <2>2, <1>2
    <3> HIDE DEF D
    <3>3. Len(durable'.asks) = Len(durable.asks) - 1
      BY <3>1, <3>2, <1>s, Spliced
    <3>4. Len(durable.asks) <= 1
      BY DEF Alone, OneAsk, OneApprovalAtATime
    <3>5. DOMAIN durable'.asks = 1..Len(durable'.asks) /\ Len(durable'.asks) \in Nat /\ Len(durable.asks) \in Nat
      BY <1>s, LenProperties
    <3> QED
      BY <3>3, <3>4, <3>5
  <2>3. CASE e.type \notin {"permission.requested", "permission.resolved"}
    <3>1. durable'.asks = durable.asks /\ durable'.seenReqs = durable.seenReqs /\ durable'.doneReqs = durable.doneReqs
      BY <2>3, <1>1, <1>2
    <3> QED
      BY <3>1, <1>3
  <2> QED
    BY <2>1, <2>2, <2>3
<1>7. durable.doneReqs \subseteq durable'.doneReqs /\ durable'.doneReqs \subseteq durable'.seenReqs
  BY <1>1, <1>3, <1>4
<1>8. ASSUME same.pc = "run" PROVE same.call \in durable'.doneReqs /\ same.call \notin ranBefore'
  <2>1. same.call = e.req /\ e.type = "permission.resolved"
    BY <1>8
  <2> QED
    BY <2>1, <1>1, <1>3, <1>4, <1>t
<1>9. \A c \in CallIds : runs'[c] > 0 => c \in durable'.doneReqs
  BY <1>3, <1>7
<1>10. \A c \in ranBefore' : runs'[c] > 0
  BY <1>3
<1> QED
  BY <1>6, <1>7, <1>8, <1>9, <1>10

(* #emit.                                                                  *)
LEMMA EmitEffective ==
  ASSUME NEW l, Alone(l), Coherent', NEW event, DOMAIN event = DOMAIN NoEvent, NEW next,
         Emit(l, event, next), NEW e, e = NextEvent(l, event),
         (/\ view[l] = durable /\ Valid(durable, e) /\ Apply(durable, e) \in AState
          /\ InBatch(loop[l], log, durable))
           => Working(next, Apply(durable, e), Append(log, e)),
         event.type = "permission.requested" => event.req = event.call,
         next.pc = "run" /\ RecoveryAttempts = 1 =>
           event.type = "permission.resolved" /\ event.req = next.call
  PROVE  Effective(l)'
<1>t. /\ view \in [Loops -> AState] /\ loop \in [Loops -> LoopStates] /\ l \in Loops
  BY DEF Alone, Coherent, TypeOK
<1>q. /\ Working(Failed(l), durable', log') /\ Failed(l).pc \notin Recording \cup AfterBatch
      /\ UNCHANGED <<runs, ranBefore>>
  BY FailedWorking DEF Emit
<1>r. Failed(l).pc # "run"
  BY <1>q DEF AfterBatch, Executing
<1>1. CASE UNCHANGED <<log, durable, view>> /\ loop' = [loop EXCEPT ![l] = Failed(l)]
  <2>1. UNCHANGED <<log, durable, runs>> /\ Working(Failed(l), durable, log)
    BY <1>1, <1>q
  <2> QED
    BY <2>1, <1>1, <1>q, <1>r, QuietEffective
<1>2. CASE /\ Valid(view[l], e) /\ AppendAccepted(l, e) /\ Persist(e)
           /\ loop' = [loop EXCEPT ![l] = next] \/ loop' = [loop EXCEPT ![l] = Failed(l)]
  <2>1. view[l] = durable /\ log' = Append(log, e) /\ durable' = Apply(durable, e)
    BY <1>2, <1>t DEF AppendAccepted, Persist, Alone, Coherent, CasCoherent
  <2>2. InBatch(loop[l], log, durable) /\ Valid(durable, e) /\ Apply(durable, e) \in AState
    <3>1. durable' \in AState
      BY DEF Coherent, TypeOK
    <3> QED
      BY <3>1, <1>2, <1>t, <2>1 DEF Alone, Recorded
  <2>3. e.type = event.type /\ e.req = event.req /\ e.call = event.call
    BY DEF NextEvent, NoEvent
  <2>4. loop'[l] = next \/ loop'[l] = Failed(l)
    BY <1>2, <1>t
  <2>5. Working(loop'[l], durable', log')
    BY <2>1, <2>2, <2>4, <1>q
  <2>6. ASSUME RecoveryAttempts = 1 PROVE Answered(loop[l])'
    <3>1. Answered(loop[l])
      BY <2>6 DEF Alone, Effective
    <3>2. loop'[l] = next \/ loop'[l].pc # "run"
      BY <2>4, <1>r
    <3>3. /\ e.type = "permission.requested" => e.req = e.call
          /\ next.pc = "run" => e.type = "permission.resolved" /\ e.req = next.call
      BY <2>3, <2>6
    <3>4. Persist(e)
      BY <1>2
    <3>5. /\ \A c \in CallIds : runs'[c] > 0 => c \in durable'.doneReqs
          /\ \A c \in ranBefore' : runs'[c] > 0
          /\ durable'.doneReqs \subseteq durable'.seenReqs
          /\ \A k \in DOMAIN durable'.asks : /\ durable'.asks[k].req = durable'.asks[k].call
                                             /\ durable'.asks[k].req \in durable'.seenReqs
                                             /\ durable'.asks[k].req \notin durable'.doneReqs
          /\ loop'[l].pc = "run" => loop'[l].call \in durable'.doneReqs /\ loop'[l].call \notin ranBefore'
      BY <3>1, <3>2, <3>3, <3>4, <2>2, <1>q, AnsweredGrown
    <3> QED
      BY <3>5 DEF Answered
  <2> QED
    BY <2>5, <2>6 DEF Effective
<1> QED
  BY <1>1, <1>2 DEF Emit

(* To a place where nothing is left to execute.                            *)
LEMMA EmitElsewise ==
  ASSUME NEW l, Alone(l), Coherent', NEW event, DOMAIN event = DOMAIN NoEvent, NEW next,
         Emit(l, event, next), event.type # "permission.requested", next.pc \notin Recording \cup AfterBatch
  PROVE  Effective(l)'
<1> DEFINE e == NextEvent(l, event)
<1>1. e = NextEvent(l, event) /\ next.pc # "run"
  BY DEF AfterBatch, Executing
<1>2. Working(next, Apply(durable, e), Append(log, e))
  BY Elsewise
<1> HIDE DEF e
<1> QED
  BY <1>1, <1>2, EmitEffective

LEMMA QuietElsewise ==
  ASSUME NEW l, Alone(l), NEW next, loop' = [loop EXCEPT ![l] = next],
         UNCHANGED <<log, durable, runs>>, UNCHANGED ranBefore \/ NewOperation,
         next.pc \notin Recording \cup AfterBatch
  PROVE  Effective(l)'
<1>1. Working(next, durable, log) /\ next.pc # "run"
  BY Elsewise DEF AfterBatch, Executing
<1> QED
  BY <1>1, QuietEffective

(* Nor is anything left where the batch is still being recorded.           *)
LEMMA RecordingWorking ==
  ASSUME NEW r, r.pc \in Recording, r.via = "batch", r.pc = "intents" => r.i = 1, NEW s, NEW entries
  PROVE  Working(r, s, entries)
<1>1. r.pc \notin AfterBatch
  BY DEF Recording, AfterBatch, Executing
<1>2. r.pc = "intents" => Awaited(r, s, 1, r.i - 1)
  BY DEF Awaited
<1> QED
  BY <1>1, <1>2 DEF Working, AfterBatch

LEMMA EmitRecording ==
  ASSUME NEW l, Alone(l), Coherent', NEW event, DOMAIN event = DOMAIN NoEvent, NEW next,
         Emit(l, event, next), event.type # "permission.requested",
         next.pc \in Recording \ {"intents"}, next.via = "batch"
  PROVE  Effective(l)'
<1> DEFINE e == NextEvent(l, event)
<1>1. e = NextEvent(l, event) /\ next.pc # "run"
  BY DEF Recording
<1>2. Working(next, Apply(durable, e), Append(log, e))
  BY RecordingWorking
<1> HIDE DEF e
<1> QED
  BY <1>1, <1>2, EmitEffective

LEMMA QuietRecording ==
  ASSUME NEW l, Alone(l), NEW next, loop' = [loop EXCEPT ![l] = next],
         UNCHANGED <<log, durable, runs>>, UNCHANGED ranBefore \/ NewOperation,
         next.pc \in Recording, next.via = "batch", next.pc = "intents" => next.i = 1
  PROVE  Effective(l)'
<1>1. Working(next, durable, log) /\ next.pc # "run"
  BY RecordingWorking DEF Recording
<1> QED
  BY <1>1, QuietEffective

(* The same work, seen from a record that differs elsewhere.               *)
LEMMA SameWorking ==
  ASSUME NEW s, NEW entries, NEW r, Working(r, s, entries), NEW t,
         t.pc = r.pc, t.via = r.via, t.step = r.step, t.batch = r.batch, t.i = r.i,
         t.call = r.call, t.calls = r.calls
  PROVE  Working(t, s, entries)
<1>1. \A from, to : Awaited(r, s, from, to) <=> Awaited(t, s, from, to)
  BY DEF Awaited
<1> QED
  BY <1>1 DEF Working

-----------------------------------------------------------------------------
(* Each action keeps it.                                                   *)

LEMMA DriveEffective ==
  ASSUME NEW l, Alone(l), Coherent',
         \/ RunTurn(l) \/ BeginTurn(l) \/ ResumeTurn(l) \/ Abort(l)
         \/ DriveAborted(l) \/ FinishTurn(l) \/ StartStep(l)
  PROVE  Effective(l)'
<1>f. /\ DOMAIN loop[l] = {"pc", "turn", "step", "batch", "i", "call", "attempt", "via", "failed",
                           "aborted", "outcome", "action", "asks", "calls", "missing"}
      /\ \A pc : Goto(l, pc).pc = pc
      /\ Failed(l).pc \in {"idle", "closing"} /\ IdleLoop.pc = "idle"
  BY Places DEF Alone
<1>e. \A pc : pc \in {"idle", "begin", "drive", "closing"} => pc \notin Recording \cup AfterBatch
  BY DEF Recording, AfterBatch, Executing
<1>1. CASE RunTurn(l)
  <2> DEFINE next == [IdleLoop EXCEPT !.pc = "begin", !.turn = durable.lastSeq + 1]
  <2>1. next.pc = "begin"
    BY DEF IdleLoop
  <2>2. loop' = [loop EXCEPT ![l] = next] /\ UNCHANGED <<log, durable, runs>> /\ NewOperation
    BY <1>1 DEF RunTurn
  <2> HIDE DEF next
  <2> QED
    BY <2>1, <2>2, <1>e, QuietElsewise
<1>2. CASE ResumeTurn(l)
  <2> DEFINE next == [IdleLoop EXCEPT !.pc = "recover", !.turn = durable.turn]
  <2>1. next.pc = "recover" /\ next.via = "batch"
    BY DEF IdleLoop
  <2>2. loop' = [loop EXCEPT ![l] = next] /\ UNCHANGED <<log, durable, runs>> /\ NewOperation
    BY <1>2 DEF ResumeTurn
  <2> HIDE DEF next
  <2> QED
    BY <2>1, <2>2, QuietRecording DEF Recording
<1>3. CASE Abort(l)
  <2> DEFINE next == [loop[l] EXCEPT !.aborted = TRUE]
  <2>1. /\ next.pc = loop[l].pc /\ next.via = loop[l].via /\ next.step = loop[l].step
        /\ next.batch = loop[l].batch /\ next.i = loop[l].i /\ next.call = loop[l].call
        /\ next.calls = loop[l].calls
    BY <1>f
  <2>2. loop' = [loop EXCEPT ![l] = next] /\ UNCHANGED <<log, durable, runs, ranBefore>>
    BY <1>3 DEF Abort, Move
  <2> HIDE DEF next
  <2>3. Working(loop[l], durable, log)
    BY DEF Alone, Effective
  <2>4. Working(next, durable, log)
    BY <2>1, <2>3, SameWorking
  <2> QED
    BY <2>1, <2>2, <2>4, QuietEffective
<1>4. CASE DriveAborted(l)
  <2>1. loop' = [loop EXCEPT ![l] = Failed(l)] /\ UNCHANGED <<log, durable, runs, ranBefore>>
    BY <1>4 DEF DriveAborted, Move
  <2>2. Failed(l).pc \notin Recording \cup AfterBatch
    BY <1>e, <1>f
  <2> QED
    BY <2>1, <2>2, QuietElsewise
<1>5. CASE BeginTurn(l)
  <2> DEFINE event == [NoEvent EXCEPT !.type = "turn.started", !.turn = loop[l].turn]
  <2>1. DOMAIN event = DOMAIN NoEvent /\ event.type = "turn.started" /\ Emit(l, event, Goto(l, "drive"))
    BY <1>5 DEF NoEvent, BeginTurn
  <2>2. Goto(l, "drive").pc \notin Recording \cup AfterBatch
    BY <1>e, <1>f
  <2> HIDE DEF event
  <2> QED
    BY <2>1, <2>2, EmitElsewise
<1>6. CASE FinishTurn(l)
  <2> DEFINE event == [NoEvent EXCEPT !.type = "turn.finished", !.turn = loop[l].turn,
                                      !.outcome = PersistedReason(StopReason(loop[l].turn))]
  <2>1. DOMAIN event = DOMAIN NoEvent /\ event.type = "turn.finished"
    BY DEF NoEvent
  <2>2. Emit(l, event, IdleLoop)
    BY <1>6 DEF FinishTurn
  <2>3. IdleLoop.pc \notin Recording \cup AfterBatch
    BY <1>e, <1>f
  <2> HIDE DEF event
  <2> QED
    BY <2>1, <2>2, <2>3, EmitElsewise
<1>7. CASE StartStep(l)
  <2> DEFINE index == (IF view[l].turn = None THEN 0 ELSE view[l].lastStep) + 1
             step  == <<loop[l].turn, index>>
             event == [NoEvent EXCEPT !.type = "step.started", !.turn = loop[l].turn,
                                      !.step = step, !.index = index]
             next  == [loop[l] EXCEPT !.pc = "model", !.step = step, !.batch = <<>>, !.attempt = 1,
                                      !.via = "batch", !.failed = FALSE]
  <2> HIDE DEF index, step
  <2>1. DOMAIN event = DOMAIN NoEvent /\ event.type = "step.started"
    BY DEF NoEvent
  <2>2. next.pc = "model" /\ next.via = "batch"
    BY <1>f
  <2>3. Emit(l, event, next)
    BY <1>7 DEF StartStep, index, step
  <2> HIDE DEF event, next
  <2> QED
    BY <2>1, <2>2, <2>3, EmitRecording DEF Recording
<1> QED
  BY <1>1, <1>2, <1>3, <1>4, <1>5, <1>6, <1>7

LEMMA ModelEffective ==
  ASSUME NEW l, Alone(l), Coherent', ModelPhase(l)
  PROVE  Effective(l)'
<1>f. /\ DOMAIN loop[l] = {"pc", "turn", "step", "batch", "i", "call", "attempt", "via", "failed",
                           "aborted", "outcome", "action", "asks", "calls", "missing"}
      /\ \A pc : Goto(l, pc).pc = pc
      /\ Failed(l).pc \in {"idle", "closing"} /\ IdleLoop.pc = "idle"
  BY Places DEF Alone
<1>e. \A pc : pc \in {"idle", "finish", "closing"} => pc \notin Recording \cup AfterBatch
  BY DEF Recording, AfterBatch, Executing
<1>b. loop[l].pc \in Recording => loop[l].via = "batch"
  BY DEF Alone, Effective, Working
<1>1. CASE RequestModel(l)
  <2> DEFINE event == InStep(l, "model.request")
             next == Goto(l, "stream")
  <2>1. DOMAIN event = DOMAIN NoEvent /\ event.type = "model.request"
    BY DEF InStep, NoEvent
  <2>2. Emit(l, event, next) /\ loop[l].pc = "model"
    BY <1>1 DEF RequestModel
  <2>3. next.pc = "stream" /\ next.via = "batch"
    BY <1>f, <1>b, <2>2 DEF Goto, Recording
  <2> HIDE DEF event, next
  <2> QED
    BY <2>1, <2>2, <2>3, EmitRecording DEF Recording
<1>2. CASE DiscardDeltas(l)
  <2> DEFINE next == [loop[l] EXCEPT !.pc = "stream", !.batch = <<>>]
             covers(i, j) == [InStep(l, "model.attempt.discarded") EXCEPT
                                !.from = log[i].seq, !.to = log[j].seq]
  <2>1. loop[l].pc = "discard" /\ (Move(l, next) \/ \E i, j : Emit(l, covers(i, j), next))
    BY <1>2 DEF DiscardDeltas
  <2>2. next.pc = "stream" /\ next.via = "batch"
    BY <1>f, <1>b, <2>1 DEF Recording
  <2>3. ASSUME NEW i, NEW j
        PROVE  DOMAIN covers(i, j) = DOMAIN NoEvent /\ covers(i, j).type = "model.attempt.discarded"
    BY DEF InStep, NoEvent
  <2> HIDE DEF next, covers
  <2>4. ASSUME NEW i, NEW j, Emit(l, covers(i, j), next) PROVE Effective(l)'
    BY <2>2, <2>3, <2>4, EmitRecording DEF Recording
  <2>5. CASE Move(l, next)
    BY <2>2, <2>5, QuietRecording DEF Move, Recording
  <2> QED
    BY <2>1, <2>4, <2>5
<1>3. CASE StreamEnd(l)
  <2> DEFINE next == [loop[l] EXCEPT !.i = 1, !.pc = IF loop[l].batch = <<>> THEN "finish" ELSE "intents"]
  <2>1. loop[l].pc = "stream" /\ Move(l, next)
    BY <1>3 DEF StreamEnd
  <2>2. next.pc \in {"finish", "intents"} /\ next.i = 1 /\ next.via = "batch"
    BY <1>f, <1>b, <2>1 DEF Recording
  <2> HIDE DEF next
  <2> QED
    BY <2>1, <2>2, <1>e, QuietRecording, QuietElsewise DEF Move, Recording
<1>4. CASE StreamFail(l)
  <2> DEFINE next == [loop[l] EXCEPT !.pc = "discard", !.attempt = @ + 1]
  <2>1. loop[l].pc = "stream" /\ (Move(l, Failed(l)) \/ Move(l, next))
    BY <1>4 DEF StreamFail
  <2>2. next.pc = "discard" /\ next.via = "batch"
    BY <1>f, <1>b, <2>1 DEF Recording
  <2>3. Failed(l).pc \notin Recording \cup AfterBatch
    BY <1>e, <1>f
  <2> HIDE DEF next
  <2>4. CASE Move(l, Failed(l))
    BY <2>3, <2>4, QuietElsewise DEF Move
  <2>5. CASE Move(l, next)
    BY <2>2, <2>5, QuietRecording DEF Move, Recording
  <2> QED
    BY <2>1, <2>4, <2>5
<1>5. ASSUME NEW c \in CallIds, StreamCall(l, c) PROVE Effective(l)'
  <2> DEFINE event == [InStep(l, "model.delta") EXCEPT !.call = c]
             next == [loop[l] EXCEPT !.batch = Append(@, c)]
  <2>1. DOMAIN event = DOMAIN NoEvent /\ event.type = "model.delta"
    BY DEF InStep, NoEvent
  <2>2. Emit(l, event, next) /\ loop[l].pc = "stream"
    BY <1>5 DEF StreamCall
  <2>3. next.pc = "stream" /\ next.via = "batch"
    BY <1>f, <1>b, <2>2 DEF Recording
  <2> HIDE DEF event, next
  <2> QED
    BY <2>1, <2>2, <2>3, EmitRecording DEF Recording
<1> QED
  BY <1>1, <1>2, <1>3, <1>4, <1>5 DEF ModelPhase

LEMMA AwaitedGrown ==
  ASSUME NEW s \in AState, NEW e, Settled(s), Valid(s, e), Apply(s, e) \in AState,
         e.type = "tool.call", NEW r, NEW i \in Nat \ {0}, e.call = r.batch[i], Awaited(r, s, 1, i - 1)
  PROVE  Awaited(r, Apply(s, e), 1, i)
<1> DEFINE n == Apply(s, e)
<1>1. e.call \notin s.seenCalls
  BY DEF Valid, ValidToolCall
<1>2. PendingCall(n, e.call) /\ \A c : PendingCall(s, c) => PendingCall(n, c)
  BY PendingGrown
<1>3. \A k \in 1 .. (i - 1) : r.batch[k] \in s.seenCalls
  BY DEF Awaited, Settled, PendingCall
<1> HIDE DEF n
<1>4. \A k \in 1 .. i : k \in 1 .. (i - 1) \/ k = i
  OBVIOUS
<1>5. \A k \in 1 .. i : PendingCall(n, r.batch[k])
  BY <1>2, <1>4 DEF Awaited
<1>6. ASSUME NEW j \in 1 .. i, NEW k \in 1 .. i, r.batch[j] = r.batch[k] PROVE j = k
  BY <1>1, <1>3, <1>4, <1>6 DEF Awaited
<1> QED
  BY <1>5, <1>6 DEF Awaited, n

LEMMA IntentEffective ==
  ASSUME NEW l, Alone(l), Coherent', RecordIntent(l)
  PROVE  Effective(l)'
<1> DEFINE step == loop[l].step
           i == loop[l].i
           b == loop[l].batch
           event == [InStep(l, "tool.call") EXCEPT !.call = b[i]]
           e == NextEvent(l, event)
           more == [loop[l] EXCEPT !.i = i + 1]
           done == [loop[l] EXCEPT !.pc = "permission", !.i = 1, !.call = b[1]]
           next == IF i < Len(b) THEN more ELSE done
           new == Append(log, e)
           n == Apply(durable, e)
<1>f. DOMAIN loop[l] = {"pc", "turn", "step", "batch", "i", "call", "attempt", "via", "failed",
                        "aborted", "outcome", "action", "asks", "calls", "missing"}
  BY Places DEF Alone
<1>t. /\ log \in Seq(AnEvent) /\ durable \in AState /\ Settled(durable)
      /\ b \in Seq(CallIds) /\ i \in Nat
  BY LoopType DEF Alone, Coherent, TypeOK, LoopStates, Concluded, Trail
<1>1. loop[l].pc = "intents" /\ i \in DOMAIN b /\ Emit(l, event, next)
  BY DEF RecordIntent
<1>2. /\ DOMAIN event = DOMAIN NoEvent /\ event.type = "tool.call"
      /\ e.type = "tool.call" /\ e.step = step /\ e.call = b[i]
  BY DEF InStep, NextEvent, NoEvent
<1>3. loop[l].via = "batch" /\ Awaited(loop[l], durable, 1, i - 1)
  BY <1>1 DEF Alone, Effective, Working, Recording
<1>4. /\ more.pc = "intents" /\ more.via = "batch" /\ more.batch = b /\ more.i = i + 1
      /\ done.pc = "permission" /\ done.via = "batch" /\ done.batch = b /\ done.i = 1
      /\ done.call = b[1] /\ done.step = step
  BY <1>1, <1>3, <1>f
<1>5. i \in 1..Len(b) /\ Len(b) \in Nat /\ DOMAIN b = 1..Len(b)
  BY <1>1, <1>t, LenProperties
<1>6. ASSUME Valid(durable, e), n \in AState, InBatch(loop[l], log, durable) PROVE Working(next, n, new)
  <2>2. Awaited(loop[l], n, 1, i)
    BY <1>2, <1>3, <1>5, <1>6, <1>t, AwaitedGrown
  <2>3. Chosen(new, step) = Batch(loop[l]) /\ Intended(new, step) = {b[k] : k \in 1 .. (i - 1)} \cup {b[i]}
    <3>1. Chosen(log, step) = Batch(loop[l]) /\ Intended(log, step) = {b[k] : k \in 1 .. (i - 1)}
      BY <1>1, <1>6 DEF InBatch
    <3> HIDE DEF e, event
    <3> QED
      BY <3>1, <1>2, <1>t, ChosenGrown, IntendedGrown
  <2> HIDE DEF n, new, event, e, more, done
  <2>4. CASE i < Len(b)
    <3>1. next = more /\ more.i - 1 = i
      BY <2>4, <1>4, <1>5
    <3>2. Awaited(more, n, 1, i)
      BY <2>2, <1>4 DEF Awaited
    <3>3. more.pc \notin AfterBatch
      BY <1>4 DEF AfterBatch, Executing
    <3> HIDE DEF next
    <3>4. Working(more, n, new)
      BY <3>1, <3>2, <3>3, <1>4 DEF Working, AfterBatch
    <3> QED
      BY <3>1, <3>4
  <2>5. CASE ~(i < Len(b))
    <3>1. next = done /\ i = Len(b) /\ 1 \in 1 .. Len(b)
      BY <2>5, <1>5
    <3>2. Awaited(done, n, 1, Len(done.batch))
      BY <2>2, <3>1, <1>4 DEF Awaited
    <3>3. PendingCall(n, done.call)
      BY <3>1, <3>2, <1>4 DEF Awaited
    <3>4. Chosen(new, done.step) \subseteq Intended(new, done.step)
      <4>1. \A k \in DOMAIN b : k \in 1 .. (i - 1) \/ k = i
        BY <3>1, <1>5
      <4> QED
        BY <2>3, <4>1, <1>4 DEF Batch
    <3> HIDE DEF next
    <3>5. Working(done, n, new)
      BY <3>1, <3>2, <3>3, <3>4, <1>4, <1>5 DEF Working, Recording
    <3> QED
      BY <3>1, <3>5
  <2> QED
    BY <2>4, <2>5
<1>7. next.pc # "run"
  BY <1>4
<1> HIDE DEF event, e, next, more, done, n, new
<1> QED
  BY <1>1, <1>2, <1>6, <1>7, EmitEffective DEF e, n, new

(* From one place in the handling of a call to another.                    *)
LEMMA StaysWorking ==
  ASSUME NEW s, NEW entries, NEW r, r.pc \in Executing, Working(r, s, entries),
         NEW next, next.pc \in Executing, next.via = r.via, next.step = r.step,
         next.batch = r.batch, next.i = r.i, next.call = r.call, next.calls = r.calls,
         NEW t, t.calls = s.calls, NEW longer,
         Chosen(longer, r.step) = Chosen(entries, r.step), Intended(longer, r.step) = Intended(entries, r.step)
  PROVE  Working(next, t, longer)
<1>1. \A c : PendingCall(s, c) <=> PendingCall(t, c)
  BY DEF PendingCall
<1>2. \A from, to : Awaited(r, s, from, to) => Awaited(next, t, from, to)
  BY <1>1 DEF Awaited
<1>3. r.pc \in AfterBatch /\ next.pc \notin Recording \cup {"recoverCalls", "reload"}
  BY DEF AfterBatch, Executing, Recording
<1> QED
  BY <1>1, <1>2, <1>3 DEF Working, Recording

LEMMA NextCallMoves ==
  ASSUME NEW l, NEW f, loop[l] \in LoopStates, NEW next, next = NextCall(l, f)
  PROVE  /\ next.step = loop[l].step /\ next.via = loop[l].via /\ next.calls = loop[l].calls
         /\ next.batch = loop[l].batch
         /\ loop[l].via = "asks" => next.pc = "recoverAsks"
         /\ loop[l].via = "calls" => next.pc = "reload"
         /\ loop[l].via = "batch" =>
              IF loop[l].i < Len(loop[l].batch)
              THEN next.pc = "permission" /\ next.i = loop[l].i + 1 /\ next.call = loop[l].batch[loop[l].i + 1]
              ELSE next.pc = "finish"
<1> DEFINE i == loop[l].i
           more == [loop[l] EXCEPT !.pc = "permission", !.i = i + 1, !.call = loop[l].batch[i + 1],
                                   !.failed = @ \/ f]
           last == [loop[l] EXCEPT !.pc = "finish", !.failed = @ \/ f]
<1>1. DOMAIN loop[l] = {"pc", "turn", "step", "batch", "i", "call", "attempt", "via", "failed",
                        "aborted", "outcome", "action", "asks", "calls", "missing"}
  BY DEF LoopStates
<1>2. CASE loop[l].via \in {"asks", "calls"}
  BY <1>1, <1>2 DEF NextCall
<1>3. CASE loop[l].via \notin {"asks", "calls"}
  <2>1. next = IF i < Len(loop[l].batch) THEN more ELSE last
    BY <1>3 DEF NextCall
  <2>2. /\ more.pc = "permission" /\ last.pc = "finish"
        /\ more.step = loop[l].step /\ last.step = loop[l].step
        /\ more.via = loop[l].via /\ last.via = loop[l].via
        /\ more.calls = loop[l].calls /\ last.calls = loop[l].calls
        /\ more.batch = loop[l].batch /\ last.batch = loop[l].batch
        /\ more.i = i + 1 /\ more.call = loop[l].batch[i + 1]
    BY <1>1
  <2> HIDE DEF more, last
  <2> QED
    BY <2>1, <2>2, <1>3
<1> QED
  BY <1>2, <1>3

(* A recorded result, and on to the next call.                             *)
LEMMA ResultEffective ==
  ASSUME NEW l, Alone(l), Coherent', loop[l].pc \in Executing, NEW outcome, NEW f,
         Emit(l, ToolResult(l, outcome), NextCall(l, f))
  PROVE  Effective(l)'
<1> DEFINE r == loop[l]
           event == ToolResult(l, outcome)
           next  == NextCall(l, f)
           e     == NextEvent(l, event)
           n     == Apply(durable, e)
           new   == Append(log, e)
<1>1. /\ DOMAIN event = DOMAIN NoEvent /\ event.type = "tool.result"
      /\ e.type = "tool.result" /\ e.step = r.step /\ e.call = r.call
  BY DEF ToolResult, ForCall, InStep, NoEvent, NextEvent
<1>t. /\ r \in LoopStates /\ log \in Seq(AnEvent) /\ durable \in AState /\ Settled(durable)
      /\ r.batch \in Seq(CallIds) /\ r.i \in Nat /\ r.via \in {"batch", "asks", "calls"}
  BY LoopType DEF Alone, Coherent, TypeOK, LoopStates, Concluded, Trail
<1>w. /\ PendingCall(durable, r.call) /\ Chosen(log, r.step) \subseteq Intended(log, r.step)
      /\ r.via = "batch" => /\ r.i \in DOMAIN r.batch /\ r.call = r.batch[r.i]
                            /\ Awaited(r, durable, r.i, Len(r.batch))
      /\ r.via = "calls" => durable.calls # <<>> /\ r.call = durable.calls[1].call /\ r.calls = Tail(durable.calls)
  BY DEF Alone, Effective, Working, AfterBatch
<1>2. /\ next.step = r.step /\ next.via = r.via /\ next.calls = r.calls /\ next.batch = r.batch
      /\ r.via = "asks" => next.pc = "recoverAsks"
      /\ r.via = "calls" => next.pc = "reload"
      /\ r.via = "batch" =>
           IF r.i < Len(r.batch)
           THEN next.pc = "permission" /\ next.i = r.i + 1 /\ next.call = r.batch[r.i + 1]
           ELSE next.pc = "finish"
  BY <1>t, NextCallMoves
<1>3. Emit(l, event, next) /\ e = NextEvent(l, event)
  OBVIOUS
<1> HIDE DEF event, next, e
<1>4. ASSUME Valid(durable, e), n \in AState PROVE Working(next, n, new)
  <2>1. Chosen(new, next.step) \subseteq Intended(new, next.step)
    BY <1>1, <1>2, <1>w, <1>t, BatchKept
  <2>2. ASSUME NEW c, PendingCall(durable, c), c # r.call PROVE PendingCall(n, c)
    BY <2>2, <1>1, <1>4, <1>t, PendingGrown
  <2>3. r.via = "calls" => n.calls = r.calls
    BY <1>1, <1>4, <1>t, <1>w, FirstAnswered
  <2> HIDE DEF n, new
  <2>4. CASE r.via # "batch"
    <3>1. next.pc \in {"recoverAsks", "reload"} /\ (next.pc = "reload" => next.calls = n.calls)
      BY <2>3, <2>4, <1>2, <1>t
    <3> QED
      BY <2>1, <3>1 DEF Working, Recording, Executing
  <2>5. CASE r.via = "batch" /\ ~(r.i < Len(r.batch))
    <3>1. next.pc \notin Recording \cup AfterBatch
      BY <2>5, <1>2 DEF Recording, AfterBatch, Executing
    <3> QED
      BY <3>1, Elsewise
  <2>6. CASE r.via = "batch" /\ r.i < Len(r.batch)
    <3>1. r.i + 1 \in r.i .. Len(r.batch) /\ DOMAIN r.batch = 1..Len(r.batch) /\ r.i \in 1..Len(r.batch)
      BY <2>6, <1>t, <1>w, LenProperties
    <3>2. next.pc = "permission" /\ next.i = r.i + 1 /\ next.call = r.batch[next.i]
      BY <2>6, <1>2
    <3>3. Len(r.batch) \in Nat
      BY <1>t, LenProperties
    <3>4. \A k \in (r.i + 1) .. Len(r.batch) : k \in r.i .. Len(r.batch) /\ k # r.i
      BY <3>1, <3>3, <1>t
    <3>5. \A k \in (r.i + 1) .. Len(r.batch) : r.batch[k] # r.call /\ PendingCall(durable, r.batch[k])
      BY <3>1, <3>4, <2>6, <1>w DEF Awaited
    <3>6. Awaited(next, n, r.i + 1, Len(r.batch))
      <4>1. \A k \in (r.i + 1) .. Len(r.batch) : PendingCall(n, r.batch[k])
        BY <3>5, <2>2
      <4>2. \A j, k \in (r.i + 1) .. Len(r.batch) : r.batch[j] = r.batch[k] => j = k
        BY <3>4, <2>6, <1>w DEF Awaited
      <4> QED
        BY <4>1, <4>2, <1>2 DEF Awaited
    <3>7. r.i + 1 \in (r.i + 1) .. Len(r.batch) /\ r.i + 1 \in DOMAIN r.batch
      BY <3>1, <3>3, <2>6, <1>t
    <3>8. PendingCall(n, next.call)
      BY <3>2, <3>6, <3>7, <1>2 DEF Awaited
    <3> QED
      BY <3>2, <3>6, <3>7, <3>8, <2>1, <2>6, <1>2 DEF Working, Recording
  <2> QED
    BY <2>4, <2>5, <2>6
<1>5. next.pc # "run"
  BY <1>2, <1>t
<1> HIDE DEF n, new
<1> QED
  BY <1>1, <1>3, <1>4, <1>5, EmitEffective DEF n, new

(* The side effect itself: the call was allowed, and this operation is the *)
(* first that runs it.                                                     *)
LEMMA RunEffective ==
  ASSUME NEW l, Alone(l), RunTool(l)
  PROVE  Effective(l)'
<1>f. /\ DOMAIN loop[l] = {"pc", "turn", "step", "batch", "i", "call", "attempt", "via", "failed",
                           "aborted", "outcome", "action", "asks", "calls", "missing"}
      /\ Failed(l).pc \in {"idle", "closing"}
  BY Places DEF Alone
<1>t. loop \in [Loops -> LoopStates] /\ l \in Loops /\ runs \in [CallIds -> Nat] /\ ranBefore \subseteq CallIds
  BY DEF Alone, Coherent, TypeOK
<1>1. /\ loop[l].pc = "run" /\ UNCHANGED <<log, durable, ranBefore>>
      /\ runs' = [runs EXCEPT ![loop[l].call] = @ + 1]
  BY DEF RunTool
<1>2. Working(loop[l], durable, log)
  BY DEF Alone, Effective
<1>3. ASSUME RecoveryAttempts = 1
      PROVE  /\ \A c \in CallIds : runs'[c] > 0 => c \in durable'.doneReqs
             /\ \A c \in ranBefore' : runs'[c] > 0
             /\ durable'.doneReqs \subseteq durable'.seenReqs
             /\ \A k \in DOMAIN durable'.asks : /\ durable'.asks[k].req = durable'.asks[k].call
                                                /\ durable'.asks[k].req \in durable'.seenReqs
                                                /\ durable'.asks[k].req \notin durable'.doneReqs
             /\ loop[l].call \in durable'.doneReqs /\ loop[l].call \notin ranBefore'
  <2>1. Answered(loop[l])
    BY <1>3 DEF Alone, Effective
  <2>2. ASSUME NEW c \in CallIds PROVE runs'[c] = IF c = loop[l].call THEN runs[c] + 1 ELSE runs[c]
    BY <1>1, <1>t
  <2>3. \A c \in CallIds : runs'[c] > 0 => c \in durable.doneReqs
    BY <2>1, <2>2, <1>1 DEF Answered
  <2>4. \A c \in ranBefore : runs'[c] > 0
    <3> SUFFICES ASSUME NEW c \in ranBefore PROVE runs'[c] > 0
      OBVIOUS
    <3>1. c \in CallIds /\ runs[c] \in Nat /\ runs[c] > 0
      BY <2>1, <1>t DEF Answered
    <3> QED
      BY <3>1, <2>2
  <2> QED
    BY <2>1, <2>3, <2>4, <1>1 DEF Answered
<1>4. ASSUME NEW next, loop' = [loop EXCEPT ![l] = next], Working(next, durable, log),
             next.pc = "run" => next.call = loop[l].call
      PROVE  Effective(l)'
  <2>1. loop'[l] = next
    BY <1>4, <1>t
  <2>2. Working(loop'[l], durable', log')
    BY <2>1, <1>1, <1>4
  <2>3. ASSUME RecoveryAttempts = 1 PROVE Answered(loop[l])'
    BY <2>1, <2>3, <1>3, <1>4 DEF Answered
  <2> QED
    BY <2>2, <2>3 DEF Effective
<1> DEFINE done(outcome) == [loop[l] EXCEPT !.pc = "record", !.outcome = outcome]
           again         == [loop[l] EXCEPT !.attempt = @ + 1]
           fed(action)   == [loop[l] EXCEPT !.pc = "feed", !.action = action]
<1>5. \/ \E outcome \in {"succeeded", "failed"} : loop' = [loop EXCEPT ![l] = done(outcome)]
      \/ loop' = [loop EXCEPT ![l] = again]
      \/ \E action : loop' = [loop EXCEPT ![l] = fed(action)]
      \/ loop' = [loop EXCEPT ![l] = Failed(l)]
  BY <1>f DEF RunTool
<1> DEFINE Same(next) == /\ next.via = loop[l].via /\ next.step = loop[l].step
                         /\ next.batch = loop[l].batch /\ next.i = loop[l].i
                         /\ next.call = loop[l].call /\ next.calls = loop[l].calls
<1>6. /\ \A outcome : done(outcome).pc = "record" /\ Same(done(outcome))
      /\ again.pc = "run" /\ Same(again)
      /\ \A action : fed(action).pc = "feed" /\ Same(fed(action))
  BY <1>f, <1>1
<1> HIDE DEF done, again, fed
<1>7. ASSUME NEW next, loop' = [loop EXCEPT ![l] = next], next.pc \in {"record", "run", "feed"}, Same(next)
      PROVE  Effective(l)'
  <2>1. loop[l].pc \in Executing /\ next.pc \in Executing
    BY <1>7, <1>1 DEF Executing
  <2>2. Working(next, durable, log)
    BY <2>1, <1>2, <1>7, StaysWorking
  <2> QED
    BY <2>2, <1>4, <1>7
<1>8. CASE loop' = [loop EXCEPT ![l] = Failed(l)]
  <2>1. Working(Failed(l), durable, log) /\ Failed(l).pc # "run"
    BY FailedWorking, <1>f
  <2> QED
    BY <2>1, <1>4, <1>8
<1> HIDE DEF Same
<1> QED
  BY <1>5, <1>6, <1>7, <1>8

LEMMA ToolEffective ==
  ASSUME NEW l, Alone(l), Coherent',
         \/ RejectUnregistered(l) \/ RequestPermission(l)
         \/ \E d \in {"allow", "deny"} : ResolvePermission(l, d)
         \/ RecordDenial(l) \/ RecordResult(l) \/ RecordFailure(l)
  PROVE  Effective(l)'
<1>f. /\ DOMAIN loop[l] = {"pc", "turn", "step", "batch", "i", "call", "attempt", "via", "failed",
                           "aborted", "outcome", "action", "asks", "calls", "missing"}
      /\ \A pc : Goto(l, pc).pc = pc
      /\ Failed(l).pc \in {"idle", "closing"} /\ IdleLoop.pc = "idle"
  BY Places DEF Alone
<1>t. log \in Seq(AnEvent) /\ durable \in AState
  BY DEF Alone, Coherent, TypeOK
<1>w. Working(loop[l], durable, log)
  BY DEF Alone, Effective
<1>x. \A pc \in {"permission", "ask", "deny", "run", "record", "feed"} : pc \in Executing
  BY DEF Executing
<1>1. CASE RejectUnregistered(l)
  <2>1. loop[l].pc = "permission" /\ Emit(l, ToolResult(l, "error"), NextCall(l, TRUE))
    BY <1>1 DEF RejectUnregistered
  <2> QED
    BY <2>1, <1>x, ResultEffective
<1>2. CASE RecordDenial(l)
  <2>1. loop[l].pc = "deny" /\ Emit(l, ToolResult(l, "denied"), NextCall(l, TRUE))
    BY <1>2 DEF RecordDenial
  <2> QED
    BY <2>1, <1>x, ResultEffective
<1>3. CASE RecordResult(l)
  <2>1. loop[l].pc = "record" /\ Emit(l, ToolResult(l, loop[l].outcome), NextCall(l, FALSE))
    BY <1>3 DEF RecordResult
  <2> QED
    BY <2>1, <1>x, ResultEffective
<1>4. CASE RecordFailure(l)
  <2>1. /\ loop[l].pc = "feed"
        /\ \/ Emit(l, ToolResult(l, "error"), NextCall(l, FALSE))
           \/ Emit(l, ToolResult(l, "error"), Failed(l))
    BY <1>4 DEF RecordFailure
  <2>2. DOMAIN ToolResult(l, "error") = DOMAIN NoEvent /\ ToolResult(l, "error").type = "tool.result"
    BY DEF ToolResult, ForCall, InStep, NoEvent
  <2>3. Failed(l).pc \notin Recording \cup AfterBatch
    BY FailedWorking
  <2>4. CASE Emit(l, ToolResult(l, "error"), NextCall(l, FALSE))
    BY <2>1, <2>4, <1>x, ResultEffective
  <2>5. CASE Emit(l, ToolResult(l, "error"), Failed(l))
    BY <2>2, <2>3, <2>5, EmitElsewise
  <2> QED
    BY <2>1, <2>4, <2>5
<1>a. ASSUME loop[l].pc \in Executing, NEW event, DOMAIN event = DOMAIN NoEvent,
             event.type \in {"permission.requested", "permission.resolved"}, event.req = loop[l].call,
             event.type = "permission.requested" => event.req = event.call,
             NEW next, next.pc \in {"ask", "deny", "run"}, next.pc = "run" => event.type = "permission.resolved",
             next.step = loop[l].step, next.via = loop[l].via, next.batch = loop[l].batch,
             next.i = loop[l].i, next.call = loop[l].call, next.calls = loop[l].calls, Emit(l, event, next)
      PROVE  Effective(l)'
  <2> DEFINE e == NextEvent(l, event)
  <2>1. e.type = event.type
    BY <1>a DEF NextEvent, NoEvent
  <2>2. e = NextEvent(l, event)
    OBVIOUS
  <2> HIDE DEF e
  <2>3. Apply(durable, e).calls = durable.calls
    BY <2>1, <1>a, <1>t, ApplyFields
  <2>4. /\ Chosen(Append(log, e), loop[l].step) = Chosen(log, loop[l].step)
        /\ Intended(Append(log, e), loop[l].step) = Intended(log, loop[l].step)
    BY <2>1, <1>a, <1>t, BatchKept
  <2>5. next.pc \in Executing
    BY <1>a, <1>x
  <2>6. Working(next, Apply(durable, e), Append(log, e))
    BY <2>3, <2>4, <2>5, <1>a, <1>w, StaysWorking
  <2> QED
    BY <2>2, <2>6, <1>a, EmitEffective
<1>5. CASE RequestPermission(l)
  <2> DEFINE event == ForRequest(l, "permission.requested")
             next  == Goto(l, "ask")
  <2>1. /\ DOMAIN event = DOMAIN NoEvent /\ event.type = "permission.requested"
        /\ event.req = loop[l].call /\ event.call = loop[l].call
    BY DEF ForRequest, ForCall, InStep, NoEvent
  <2>2. /\ next.step = loop[l].step /\ next.via = loop[l].via /\ next.batch = loop[l].batch
        /\ next.i = loop[l].i /\ next.call = loop[l].call /\ next.calls = loop[l].calls /\ next.pc = "ask"
    BY <1>f DEF Goto
  <2>3. loop[l].pc = "permission" /\ Emit(l, event, next)
    BY <1>5 DEF RequestPermission
  <2> HIDE DEF event, next
  <2> QED
    BY <2>1, <2>2, <2>3, <1>x, <1>a
<1>6. ASSUME NEW d \in {"allow", "deny"}, ResolvePermission(l, d) PROVE Effective(l)'
  <2> DEFINE event == [ForRequest(l, "permission.resolved") EXCEPT !.decision = d]
             next  == [loop[l] EXCEPT !.pc = IF d = "allow" THEN "run" ELSE "deny", !.attempt = 1]
  <2>1. /\ DOMAIN event = DOMAIN NoEvent /\ event.type = "permission.resolved"
        /\ event.req = loop[l].call
    BY DEF ForRequest, ForCall, InStep, NoEvent
  <2>2. /\ next.step = loop[l].step /\ next.via = loop[l].via /\ next.batch = loop[l].batch
        /\ next.i = loop[l].i /\ next.call = loop[l].call /\ next.calls = loop[l].calls
        /\ next.pc \in {"run", "deny"}
    BY <1>f
  <2>3. loop[l].pc = "ask" /\ Emit(l, event, next)
    BY <1>6 DEF ResolvePermission
  <2> HIDE DEF event, next
  <2> QED
    BY <2>1, <2>2, <2>3, <1>x, <1>a
<1> QED
  BY <1>1, <1>2, <1>3, <1>4, <1>5, <1>6

LEMMA FinishEffective ==
  ASSUME NEW l, Alone(l), Coherent', FinishStep(l) \/ Maintain(l)
  PROVE  Effective(l)'
<1>f. \A pc : Goto(l, pc).pc = pc
  BY Places DEF Alone
<1>e. \A pc : pc \in {"drive", "compact", "checkpoint"} => Goto(l, pc).pc \notin Recording \cup AfterBatch
  BY <1>f DEF Recording, AfterBatch, Executing
<1>1. CASE FinishStep(l)
  <2> DEFINE event == [InStep(l, "step.finished") EXCEPT !.turn = loop[l].step[1],
                         !.outcome = IF loop[l].failed THEN "failed" ELSE "succeeded"]
  <2>1. DOMAIN event = DOMAIN NoEvent /\ event.type = "step.finished"
    BY DEF InStep, NoEvent
  <2>2. PICK pc \in {"drive", "compact"} : Emit(l, event, Goto(l, pc))
    BY <1>1 DEF FinishStep
  <2> HIDE DEF event
  <2> QED
    BY <2>1, <2>2, <1>e, EmitElsewise
<1>2. CASE Maintain(l)
  <2> DEFINE event(type) == [NoEvent EXCEPT !.type = type]
  <2>1. \A type : DOMAIN event(type) = DOMAIN NoEvent /\ event(type).type = type
    BY DEF NoEvent
  <2>2. PICK pc \in {"checkpoint", "drive"}, type \in {"compaction.applied", "checkpoint.created"} :
          Move(l, Goto(l, pc)) \/ Emit(l, event(type), Goto(l, pc))
    BY <1>2 DEF Maintain, MaintenanceTypes
  <2> HIDE DEF event
  <2>3. CASE Move(l, Goto(l, pc))
    BY <2>3, <1>e, QuietElsewise DEF Move
  <2>4. CASE Emit(l, event(type), Goto(l, pc))
    BY <2>1, <2>4, <1>e, EmitElsewise
  <2> QED
    BY <2>2, <2>3, <2>4
<1> QED
  BY <1>1, <1>2

LEMMA CloseEffective ==
  ASSUME NEW l, Alone(l), Coherent', ClosePhase(l)
  PROVE  Effective(l)'
<1>f. /\ DOMAIN loop[l] = {"pc", "turn", "step", "batch", "i", "call", "attempt", "via", "failed",
                           "aborted", "outcome", "action", "asks", "calls", "missing"}
      /\ \A pc : Goto(l, pc).pc = pc
  BY Places DEF Alone
<1>e. \A r : r.pc \in Closing => r.pc \notin Recording \cup AfterBatch
  BY DEF Closing, Recording, AfterBatch, Executing
<1>i. IdleLoop.pc \notin Recording \cup AfterBatch
  BY FailedWorking
<1>c. \A pc \in {"closing", "closeAsks", "closeCalls", "closeStep", "closeTurn"} : pc \in Closing
  BY DEF Closing
<1>1. CASE CloseReload(l)
  <2> DEFINE asks  == [loop[l] EXCEPT !.pc = "closeAsks", !.asks = durable.asks]
             calls == [loop[l] EXCEPT !.pc = "closeCalls", !.calls = durable.calls]
  <2>1. asks.pc = "closeAsks" /\ calls.pc = "closeCalls"
    BY <1>f
  <2>2. /\ UNCHANGED <<log, durable, runs, ranBefore>>
        /\ \/ loop' = [loop EXCEPT ![l] = asks] \/ loop' = [loop EXCEPT ![l] = calls]
           \/ \E pc \in {"closeStep", "closeTurn"} : loop' = [loop EXCEPT ![l] = Goto(l, pc)]
    BY <1>1 DEF CloseReload
  <2> HIDE DEF asks, calls
  <2>3. ASSUME NEW next, next.pc \in Closing, loop' = [loop EXCEPT ![l] = next] PROVE Effective(l)'
    BY <2>2, <2>3, <1>e, QuietElsewise
  <2> QED
    BY <2>1, <2>2, <2>3, <1>c, <1>f
<1>2. CASE CloseAsk(l)
  <2> DEFINE ask == Head(loop[l].asks)
             event == [NoEvent EXCEPT !.type = "permission.resolved", !.req = ask.req, !.step = ask.step,
                                      !.call = ask.call, !.decision = "deny"]
             next == [loop[l] EXCEPT !.asks = Tail(@)]
  <2>1. DOMAIN event = DOMAIN NoEvent /\ event.type = "permission.resolved"
    BY DEF NoEvent
  <2>2. loop[l].pc = "closeAsks" /\ Emit(l, event, next)
    BY <1>2 DEF CloseAsk
  <2>3. next.pc \in Closing
    BY <2>2, <1>f, <1>c
  <2> HIDE DEF event, next
  <2> QED
    BY <2>1, <2>2, <2>3, <1>e, EmitElsewise
<1>3. CASE CloseCall(l)
  <2> DEFINE call == Head(loop[l].calls)
             event == [NoEvent EXCEPT !.type = "tool.result", !.call = call.call, !.step = call.step,
                                      !.outcome = "error"]
             next == [loop[l] EXCEPT !.calls = Tail(@)]
  <2>1. DOMAIN event = DOMAIN NoEvent /\ event.type = "tool.result"
    BY DEF NoEvent
  <2>2. loop[l].pc = "closeCalls" /\ Emit(l, event, next)
    BY <1>3 DEF CloseCall
  <2>3. next.pc \in Closing
    BY <2>2, <1>f, <1>c
  <2> HIDE DEF event, next
  <2> QED
    BY <2>1, <2>2, <2>3, <1>e, EmitElsewise
<1>4. CASE CloseStep(l)
  <2> DEFINE event == [NoEvent EXCEPT !.type = "step.finished", !.turn = view[l].step.turn,
                                      !.step = view[l].step.id, !.outcome = loop[l].outcome]
  <2>1. DOMAIN event = DOMAIN NoEvent /\ event.type = "step.finished"
    BY DEF NoEvent
  <2>2. loop[l].pc = "closeStep" /\ Emit(l, event, loop[l])
    BY <1>4 DEF CloseStep
  <2> HIDE DEF event
  <2> QED
    BY <2>1, <2>2, <1>c, <1>e, EmitElsewise
<1>5. CASE CloseTurn(l)
  <2> DEFINE event == [NoEvent EXCEPT !.type = "turn.finished", !.turn = view[l].turn,
                                      !.outcome = loop[l].outcome]
  <2>1. DOMAIN event = DOMAIN NoEvent /\ event.type = "turn.finished"
    BY DEF NoEvent
  <2>2. Move(l, IdleLoop) \/ Emit(l, event, IdleLoop)
    BY <1>5 DEF CloseTurn
  <2> HIDE DEF event
  <2>3. CASE Move(l, IdleLoop)
    BY <2>3, <1>i, QuietElsewise DEF Move
  <2>4. CASE Emit(l, event, IdleLoop)
    BY <2>1, <2>4, <1>i, EmitElsewise
  <2> QED
    BY <2>2, <2>3, <2>4
<1> QED
  BY <1>1, <1>2, <1>3, <1>4, <1>5 DEF ClosePhase

LEMMA EnvironmentEffective ==
  ASSUME NEW l, Alone(l), PortFails(l) \/ Crash(l)
  PROVE  Effective(l)'
<1>1. Failed(l).pc \notin Recording \cup AfterBatch /\ IdleLoop.pc \notin Recording \cup AfterBatch
  BY FailedWorking
<1>2. CASE PortFails(l)
  BY <1>1, <1>2, QuietElsewise DEF PortFails
<1>3. CASE Crash(l)
  BY <1>1, <1>3, QuietElsewise DEF Crash
<1> QED
  BY <1>2, <1>3

-----------------------------------------------------------------------------
(* Recovery.                                                               *)

LEMMA ReconcileEffective ==
  ASSUME NEW l, Alone(l), Coherent', Recover(l) \/ ReconcileIntent(l)
  PROVE  Effective(l)'
<1>f. /\ DOMAIN loop[l] = {"pc", "turn", "step", "batch", "i", "call", "attempt", "via", "failed",
                           "aborted", "outcome", "action", "asks", "calls", "missing"}
      /\ \A pc : Goto(l, pc).pc = pc
  BY Places DEF Alone
<1>b. loop[l].pc \in Recording => loop[l].via = "batch"
  BY DEF Alone, Effective, Working
<1>1. CASE Recover(l)
  <2> DEFINE step == durable.step.id
             here == [loop[l] EXCEPT !.step = step]
             reconcile == [here EXCEPT !.pc = "reconcile", !.missing = MissingIntents(step)]
             restart(pc) == [here EXCEPT !.pc = pc]
  <2>1. /\ loop[l].pc = "recover" /\ UNCHANGED <<log, durable, runs, ranBefore>>
        /\ \/ loop' = [loop EXCEPT ![l] = Goto(l, "drive")]
           \/ loop' = [loop EXCEPT ![l] = reconcile]
           \/ \E pc \in {"discard", "model"} : loop' = [loop EXCEPT ![l] = restart(pc)]
    BY <1>1 DEF Recover
  <2>2. /\ reconcile.pc = "reconcile" /\ reconcile.via = "batch"
        /\ \A pc : restart(pc).pc = pc /\ restart(pc).via = "batch"
    BY <2>1, <1>f, <1>b DEF Recording
  <2>3. Goto(l, "drive").pc \notin Recording \cup AfterBatch
    BY <1>f DEF Recording, AfterBatch, Executing
  <2> HIDE DEF reconcile, restart
  <2>4. ASSUME NEW next, next.pc \in Recording \ {"intents"}, next.via = "batch", loop' = [loop EXCEPT ![l] = next]
        PROVE  Effective(l)'
    BY <2>1, <2>4, QuietRecording
  <2>5. \A pc \in {"discard", "model", "reconcile"} : pc \in Recording \ {"intents"}
    BY DEF Recording
  <2>6. CASE loop' = [loop EXCEPT ![l] = Goto(l, "drive")]
    BY <2>1, <2>3, <2>6, QuietElsewise
  <2> QED
    BY <2>1, <2>2, <2>4, <2>5, <2>6
<1>2. CASE ReconcileIntent(l)
  <2> DEFINE event(i) == [InStep(l, "tool.call") EXCEPT !.call = log[i].call]
             next(i) == [loop[l] EXCEPT !.missing = @ \ {i}]
  <2>1. loop[l].pc = "reconcile" /\ (Move(l, Failed(l)) \/ \E i : Emit(l, event(i), next(i)))
    BY <1>2 DEF ReconcileIntent
  <2>2. \A i : /\ DOMAIN event(i) = DOMAIN NoEvent /\ event(i).type = "tool.call"
               /\ next(i).pc = "reconcile" /\ next(i).via = "batch"
    BY <2>1, <1>f, <1>b DEF InStep, NoEvent, Recording
  <2>3. Failed(l).pc \notin Recording \cup AfterBatch
    BY FailedWorking
  <2> HIDE DEF event, next
  <2>4. CASE Move(l, Failed(l))
    BY <2>3, <2>4, QuietElsewise DEF Move
  <2>5. ASSUME NEW i, Emit(l, event(i), next(i)) PROVE Effective(l)'
    BY <2>2, <2>5, EmitRecording DEF Recording
  <2> QED
    BY <2>1, <2>4, <2>5
<1> QED
  BY <1>1, <1>2

LEMMA RecoveryEffective ==
  ASSUME NEW l, Alone(l), Coherent', RecoveryPhase(l)
  PROVE  Effective(l)'
<1>f. /\ DOMAIN loop[l] = {"pc", "turn", "step", "batch", "i", "call", "attempt", "via", "failed",
                           "aborted", "outcome", "action", "asks", "calls", "missing"}
      /\ \A pc : Goto(l, pc).pc = pc
  BY Places DEF Alone
<1>t. /\ log \in Seq(AnEvent) /\ durable \in AState /\ loop[l] \in LoopStates /\ l \in Loops
      /\ durable.asks \in Seq(PendingAsks(Steps, CallIds)) /\ durable.calls \in Seq(PendingCalls(Steps, CallIds))
  BY LoopType DEF Alone, Coherent, TypeOK, AState, SessionStates
<1>h. /\ loop[l].pc \notin {"idle", "closing"} => view[l] = durable /\ InBatch(loop[l], log, durable)
      /\ Place(loop[l], durable)
  BY Here, <1>t DEF Alone, Recorded
<1>w. /\ Working(loop[l], durable, log) /\ Held(loop[l])
      /\ loop[l].pc \in AfterBatch => Chosen(log, loop[l].step) \subseteq Intended(log, loop[l].step)
  BY <1>t DEF Alone, Effective, Working, Concluded
(* In one of the walks of recovery.                                        *)
<1>p. ASSUME NEW r, r.pc \in {"recoverAsks", "recoverCalls", "reload"},
             r.pc # "recoverAsks" => r.calls = durable.calls,
             Chosen(log, r.step) \subseteq Intended(log, r.step)
      PROVE  Working(r, durable, log) /\ r.pc # "run"
  BY <1>p DEF Working, Recording, Executing
<1>1. CASE RecoverAsks(l)
  <2> DEFINE next == [loop[l] EXCEPT !.pc = "recoverAsks", !.via = "asks", !.asks = durable.asks]
  <2>1. next.pc = "recoverAsks" /\ next.step = loop[l].step
    BY <1>f
  <2>2. /\ loop[l].pc = "reconcile" /\ loop[l].missing = {} /\ UNCHANGED <<log, durable, runs, ranBefore>>
        /\ loop' = [loop EXCEPT ![l] = next]
    BY <1>1 DEF RecoverAsks
  <2> HIDE DEF next
  <2>3. Chosen(log, next.step) \subseteq Intended(log, next.step)
    <3>1. Chosen(log, loop[l].step) \subseteq Intended(log, loop[l].step) \cup CallsOf(log, {})
      BY <2>2, <1>h DEF InBatch
    <3>2. CallsOf(log, {}) = {}
      BY DEF CallsOf
    <3> QED
      BY <3>1, <3>2, <2>1
  <2>4. Working(next, durable, log) /\ next.pc # "run"
    BY <2>1, <2>3, <1>p
  <2> QED
    BY <2>2, <2>4, QuietEffective
<1>2. ASSUME NEW d \in {"allow", "deny"}, RecoverAsk(l, d) PROVE Effective(l)'
  <2> DEFINE ask == Head(loop[l].asks)
             event == [InStep(l, "permission.resolved") EXCEPT
                         !.call = ask.call, !.req = ask.req, !.decision = d]
             skip == [loop[l] EXCEPT !.asks = Tail(@)]
             here == [loop[l] EXCEPT !.asks = Tail(@), !.call = ask.call, !.attempt = 1]
             next == [here EXCEPT !.pc = IF d = "allow" THEN "run" ELSE "deny"]
             e == NextEvent(l, event)
  <2>1. /\ DOMAIN event = DOMAIN NoEvent /\ event.type = "permission.resolved" /\ event.req = ask.req
        /\ e.type = "permission.resolved"
        /\ skip.pc = loop[l].pc /\ skip.step = loop[l].step
        /\ next.pc \in {"run", "deny"} /\ next.via = loop[l].via /\ next.step = loop[l].step
        /\ next.call = ask.call
    BY <1>f DEF InStep, NoEvent, NextEvent
  <2>2. /\ loop[l].pc = "recoverAsks" /\ loop[l].asks # <<>>
        /\ Move(l, skip) \/ (PendingCall(view[l], ask.call) /\ Emit(l, event, next))
    BY <1>2 DEF RecoverAsk
  <2>3. loop[l].via = "asks" /\ Chosen(log, loop[l].step) \subseteq Intended(log, loop[l].step)
    BY <2>2, <1>w DEF Held, AfterBatch
  <2>4. 1 \in DOMAIN durable.asks /\ ask = durable.asks[1]
    <3>1. loop[l].asks = durable.asks
      BY <2>2, <1>h DEF Place, Walking
    <3> QED
      BY <3>1, <2>2, <1>t, EmptySeq, LenProperties
  <2>5. e = NextEvent(l, event)
    OBVIOUS
  <2> HIDE DEF ask, event, skip, here, next, e
  <2>6. CASE Move(l, skip)
    <3>1. Working(skip, durable, log) /\ skip.pc # "run"
      BY <2>1, <2>2, <2>3, <1>p
    <3> QED
      BY <2>6, <3>1, QuietEffective DEF Move
  <2>7. CASE PendingCall(view[l], ask.call) /\ Emit(l, event, next)
    <3>1. PendingCall(durable, next.call)
      BY <2>1, <2>2, <2>7, <1>h
    <3>2. PendingCall(Apply(durable, e), next.call)
      <4>1. Apply(durable, e).calls = durable.calls
        BY <2>1, <1>t, ApplyFields
      <4> QED
        BY <3>1, <4>1 DEF PendingCall
    <3>3. Chosen(Append(log, e), next.step) \subseteq Intended(Append(log, e), next.step)
      BY <2>1, <2>3, <1>t, BatchKept
    <3>4. Working(next, Apply(durable, e), Append(log, e))
      BY <2>1, <2>3, <3>2, <3>3 DEF Working, Recording
    <3>5. RecoveryAttempts = 1 => event.req = next.call
      BY <2>1, <2>4 DEF Alone, Effective, Answered
    <3> QED
      BY <2>1, <2>5, <2>7, <3>4, <3>5, EmitEffective
  <2> QED
    BY <2>2, <2>6, <2>7
<1>3. CASE RecoverCalls(l)
  <2> DEFINE next == [loop[l] EXCEPT !.pc = "recoverCalls", !.via = "calls", !.calls = durable.calls]
  <2>1. next.pc = "recoverCalls" /\ next.step = loop[l].step /\ next.calls = durable.calls
    BY <1>f
  <2>2. /\ loop[l].pc = "recoverAsks" /\ UNCHANGED <<log, durable, runs, ranBefore>>
        /\ loop' = [loop EXCEPT ![l] = next]
    BY <1>3 DEF RecoverCalls
  <2> HIDE DEF next
  <2>3. Working(next, durable, log) /\ next.pc # "run"
    BY <2>1, <2>2, <1>p, <1>w DEF AfterBatch
  <2> QED
    BY <2>2, <2>3, QuietEffective
<1>4. CASE ReloadAfterCall(l)
  <2> DEFINE next == Goto(l, "recoverCalls")
  <2>1. next.pc = "recoverCalls" /\ next.step = loop[l].step /\ next.calls = loop[l].calls
    BY <1>f DEF Goto
  <2>2. /\ loop[l].pc = "reload" /\ UNCHANGED <<log, durable, runs, ranBefore>>
        /\ loop' = [loop EXCEPT ![l] = next]
    BY <1>4 DEF ReloadAfterCall
  <2> HIDE DEF next
  <2>3. loop[l].calls = durable.calls
    BY <2>2, <1>w DEF Working
  <2>4. Working(next, durable, log) /\ next.pc # "run"
    BY <2>1, <2>2, <2>3, <1>p, <1>w DEF AfterBatch
  <2> QED
    BY <2>2, <2>4, QuietEffective
<1>5. CASE RecoverCall(l)
  <2> DEFINE c == Head(loop[l].calls).call
             here == [loop[l] EXCEPT !.calls = Tail(@), !.call = c, !.step = view[l].step.id,
                                     !.action = "feed-back"]
             at(pc) == [here EXCEPT !.pc = pc]
             again == [here EXCEPT !.pc = "run", !.attempt = 2]
  <2>1. /\ loop[l].pc = "recoverCalls" /\ loop[l].calls # <<>>
        /\ \/ Move(l, Failed(l)) \/ (Move(l, again) /\ RecoveryAttempts > 1)
           \/ \E pc \in {"permission", "deny", "feed"} : Move(l, at(pc))
    BY <1>5 DEF RecoverCall
  <2>2. /\ loop[l].calls = durable.calls /\ view[l] = durable /\ loop[l].step = durable.step.id
        /\ loop[l].via = "calls" /\ Chosen(log, loop[l].step) \subseteq Intended(log, loop[l].step)
    BY <2>1, <1>w, <1>h DEF Working, Place, InActiveStep, Held, AfterBatch
  <2> DEFINE First1(r) == /\ r.via = "calls" /\ r.step = loop[l].step /\ r.call = c
                          /\ r.calls = Tail(durable.calls)
  <2>3. /\ \A pc : at(pc).pc = pc /\ First1(at(pc))
        /\ again.pc = "run" /\ First1(again)
    BY <2>2, <1>f
  <2>4. c = durable.calls[1].call /\ PendingCall(durable, c) /\ durable.calls # <<>>
    <3>1. 1 \in DOMAIN durable.calls /\ c = durable.calls[1].call
      BY <2>1, <2>2, <1>t, EmptySeq, LenProperties
    <3> QED
      BY <3>1, <2>1, <2>2 DEF PendingCall
  <2> HIDE DEF c, here, at, again
  <2>5. ASSUME NEW next, next.pc \in {"permission", "deny", "feed", "run"}, First1(next),
               next.pc = "run" => RecoveryAttempts # 1, Move(l, next)
        PROVE  Effective(l)'
    <3>1. Working(next, durable, log)
      BY <2>2, <2>4, <2>5 DEF Working, Recording
    <3> QED
      BY <2>5, <3>1, QuietEffective DEF Move
  <2>6. RecoveryAttempts > 1 => RecoveryAttempts # 1
    BY LoopAssumption
  <2>7. CASE Move(l, Failed(l))
    <3>1. Failed(l).pc \notin Recording \cup AfterBatch
      BY FailedWorking
    <3> QED
      BY <3>1, <2>7, QuietElsewise DEF Move
  <2> HIDE DEF First1
  <2>8. ASSUME NEW pc \in {"permission", "deny", "feed"}, Move(l, at(pc)) PROVE Effective(l)'
    <3>1. at(pc).pc = pc /\ First1(at(pc))
      BY <2>3
    <3> QED
      BY <3>1, <2>5, <2>8
  <2>9. CASE Move(l, again) /\ RecoveryAttempts > 1
    BY <2>3, <2>5, <2>6, <2>9
  <2> QED
    BY <2>1, <2>7, <2>8, <2>9
<1>6. CASE RecoverFinish(l)
  <2> DEFINE step == durable.step.id
             next == [loop[l] EXCEPT !.pc = "finish", !.step = step,
                        !.failed = \/ ResultsOf(step) \cap {"denied", "error"} # {}
                                   \/ At("tool.call", step) = {}]
  <2>1. /\ UNCHANGED <<log, durable, runs, ranBefore>>
        /\ loop' = [loop EXCEPT ![l] = Goto(l, "drive")] \/ loop' = [loop EXCEPT ![l] = next]
    BY <1>6 DEF RecoverFinish
  <2>2. next.pc = "finish" /\ Goto(l, "drive").pc = "drive"
    BY <1>f
  <2> HIDE DEF next
  <2>3. next.pc \notin Recording \cup AfterBatch /\ Goto(l, "drive").pc \notin Recording \cup AfterBatch
    BY <2>2 DEF Recording, AfterBatch, Executing
  <2> QED
    BY <2>1, <2>3, QuietElsewise
<1> QED
  BY <1>1, <1>2, <1>3, <1>4, <1>5, <1>6, ReconcileEffective DEF RecoveryPhase

-----------------------------------------------------------------------------
(* The invariant, and what it says of a step that runs a tool.             *)

LEMMA InitEffective ==
  ASSUME NEW l, l \in Loops, Init
  PROVE  Effective(l)
<1>1. loop[l] = IdleLoop /\ \A c \in CallIds : runs[c] = 0
  BY DEF Init
<1>2. ranBefore = {} /\ durable.doneReqs = {} /\ durable.seenReqs = {} /\ DOMAIN durable.asks = {}
  BY DEF Init, EmptyState
<1>3. Working(loop[l], durable, log) /\ loop[l].pc # "run"
  BY <1>1, FailedWorking DEF AfterBatch, Executing
<1> QED
  BY <1>1, <1>2, <1>3 DEF Effective, Answered

LEMMA NextEffective ==
  ASSUME NEW l, Alone(l), Coherent', [Next]_vars
  PROVE  Effective(l)'
<1>1. CASE UNCHANGED vars
  <2>1. /\ log' = log /\ durable' = durable /\ loop' = loop /\ runs' = runs /\ ranBefore' = ranBefore
    BY <1>1 DEF vars
  <2>2. Working(loop[l], durable, log) /\ (RecoveryAttempts = 1 => Answered(loop[l]))
    BY DEF Alone, Effective
  <2>3. Working(loop'[l], durable', log')
    BY <2>1, <2>2
  <2>4. RecoveryAttempts = 1 => Answered(loop[l])'
    BY <2>1, <2>2 DEF Answered
  <2> QED
    BY <2>3, <2>4 DEF Effective
<1>2. CASE Next
  <2>1. \/ RunTurn(l) \/ ResumeTurn(l) \/ Proceed(l)
        \/ Abort(l) \/ PortFails(l) \/ Crash(l)
    BY <1>2 DEF Next, Alone
  <2> QED
    BY <2>1, DriveEffective, ModelEffective, IntentEffective, ToolEffective, RunEffective, FinishEffective,
       RecoveryEffective, CloseEffective, EnvironmentEffective DEF Proceed, ToolPhase
<1> QED
  BY <1>1, <1>2

(* All the invariants together.                                            *)
LEMMA InitAlone ==
  ASSUME NEW l, Loops = {l}, NoneIsNoStep, Init
  PROVE  Alone(l)
<1>1. l \in Loops
  OBVIOUS
<1> QED
  BY <1>1, InitCoherent, InitOne, InitRecorded, InitConcluded, InitEffective DEF Alone

LEMMA NextAlone ==
  ASSUME NEW l, NoneIsNoStep, Alone(l), [Next]_vars
  PROVE  Alone(l)'
<1>1. Coherent'
  BY NextCoherent DEF Alone
<1>2. OneAsk'
  BY NextOne, <1>1 DEF Alone
<1>3. Recorded' /\ Concluded'
  BY NextRecorded, NextConcluded, <1>1 DEF Alone
<1>4. Effective(l)'
  BY NextEffective, <1>1
<1> QED
  BY <1>1, <1>2, <1>3, <1>4 DEF Alone

LEMMA RunsAreRunTool ==
  ASSUME NEW l, Alone(l), [Next]_vars, NEW c \in CallIds, Ran(c)
  PROVE  RunTool(l) /\ loop[l].call = c
<1>t. runs \in [CallIds -> Nat]
  BY DEF Alone, Coherent, TypeOK
<1>1. runs' # runs
  BY <1>t DEF Ran
<1>2. RunTool(l)
  <2>1. Next
    BY <1>1 DEF vars
  <2>2. \/ RunTurn(l) \/ ResumeTurn(l) \/ Proceed(l)
        \/ Abort(l) \/ PortFails(l) \/ Crash(l)
    BY <2>1 DEF Next, Alone
  <2>3. Proceed(l)
    BY <2>2, <1>1 DEF RunTurn, ResumeTurn, Abort, Move, PortFails, Crash
  <2>4. ToolPhase(l)
    BY <2>3, <1>1 DEF Proceed, BeginTurn, DriveAborted, FinishTurn, StartStep, ModelPhase, FinishStep, Maintain,
       RecoveryPhase, ClosePhase, Emit, Move, RequestModel, DiscardDeltas, StreamEnd, StreamFail, StreamCall,
       Recover, ReconcileIntent, RecoverAsks, RecoverAsk, RecoverCalls, ReloadAfterCall, RecoverCall, RecoverFinish,
       CloseReload, CloseAsk, CloseCall, CloseStep, CloseTurn
  <2> QED
    BY <2>4, <1>1 DEF ToolPhase, RecordIntent, RejectUnregistered, RequestPermission, ResolvePermission,
       RecordDenial, RecordResult, RecordFailure, Emit
<1>3. runs' = [runs EXCEPT ![loop[l].call] = @ + 1]
  BY <1>2 DEF RunTool
<1>4. runs'[c] = IF loop[l].call = c THEN runs[c] + 1 ELSE runs[c]
  BY <1>3, <1>t
<1>5. runs[c] \in Nat
  BY <1>t
<1> QED
  BY <1>2, <1>4, <1>5 DEF Ran

(* The call a replica runs is pending, its step is the active one, and the *)
(* batch of that step is in the log.                                       *)
LEMMA RunsWhatIsPending ==
  ASSUME NEW l, Alone(l), RunTool(l)
  PROVE  /\ PendingCall(durable, loop[l].call) /\ loop[l].step = durable.step.id
         /\ Chosen(log, durable.step.id) \subseteq Intended(log, durable.step.id)
         /\ RecoveryAttempts = 1 => loop[l].call \notin ranBefore
<1>1. loop[l].pc = "run" /\ l \in Loops
  BY DEF RunTool, Alone
<1>2. loop[l].step = durable.step.id
  BY <1>1 DEF Alone, OneAsk, Place, InActiveStep
<1>3. Working(loop[l], durable, log) /\ (RecoveryAttempts = 1 => Answered(loop[l]))
  BY DEF Alone, Effective
<1> QED
  BY <1>1, <1>2, <1>3 DEF Working, AfterBatch, Executing, Answered

(* In a session one replica runs, whatever crashes, fails or is lost: when *)
(* a tool runs, every intent the model chose in its step is in the log.    *)
THEOREM BatchBeforeEffects ==
  ASSUME NEW l, Loops = {l}, NoneIsNoStep
  PROVE  Spec => IntentsBeforeEffects
<1>1. ASSUME Alone(l), [Next]_vars
      PROVE  [\A c \in CallIds : Ran(c) =>
                \A k \in Positions("tool.call", c) :
                  CallsAt(ActiveDeltas(log[k].step)) \subseteq CallsAt(At("tool.call", log[k].step))]_vars
  <2> SUFFICES ASSUME NEW c \in CallIds, Ran(c), NEW k \in Positions("tool.call", c)
               PROVE  CallsAt(ActiveDeltas(log[k].step)) \subseteq CallsAt(At("tool.call", log[k].step))
    OBVIOUS
  <2>1. RunTool(l) /\ loop[l].call = c
    BY <1>1, RunsAreRunTool
  <2>2. PendingCall(durable, c) /\ Chosen(log, durable.step.id) \subseteq Intended(log, durable.step.id)
    BY <1>1, <2>1, RunsWhatIsPending
  <2>3. log[k].step = durable.step.id
    BY <1>1, <2>2 DEF Positions, Alone, Concluded, Trail, Accounted
  <2> QED
    BY <2>2, <2>3, OfLog DEF Chosen, Intended
<1>2. Init => Alone(l)
  BY InitAlone
<1>3. Alone(l) /\ [Next]_vars => Alone(l)'
  BY NextAlone
<1> QED
  BY <1>1, <1>2, <1>3, PTL DEF Spec, IntentsBeforeEffects

(* And the call that runs has no result yet.                               *)
THEOREM ResultsAreFinal ==
  ASSUME NEW l, Loops = {l}, NoneIsNoStep
  PROVE  Spec => NoRunAfterResult
<1>1. ASSUME Alone(l), [Next]_vars
      PROVE  [\A c \in CallIds : Ran(c) => Positions("tool.result", c) = {}]_vars
  <2> SUFFICES ASSUME NEW c \in CallIds, Ran(c), NEW k \in Positions("tool.result", c) PROVE FALSE
    OBVIOUS
  <2>1. RunTool(l) /\ loop[l].call = c
    BY <1>1, RunsAreRunTool
  <2>2. PendingCall(durable, c)
    BY <1>1, <2>1, RunsWhatIsPending
  <2>3. c \notin durable.doneCalls
    BY <1>1, <2>2 DEF PendingCall, Alone, Concluded, Trail, Settled
  <2>4. c \in durable.doneCalls
    BY <1>1 DEF Positions, Alone, Concluded, Trail, Accounted
  <2> QED
    BY <2>3, <2>4
<1>2. Init => Alone(l)
  BY InitAlone
<1>3. Alone(l) /\ [Next]_vars => Alone(l)'
  BY NextAlone
<1> QED
  BY <1>1, <1>2, <1>3, PTL DEF Spec, NoRunAfterResult

(* With the default recovery budget, a call that ran in an earlier         *)
(* operation, one that did not live to record its result, runs no more.    *)
THEOREM UnknownStaysUnknown ==
  ASSUME NEW l, Loops = {l}, NoneIsNoStep, RecoveryAttempts = 1
  PROVE  Spec => UnknownNotRerun
<1>1. ASSUME Alone(l), [Next]_vars
      PROVE  [\A c \in ranBefore : ~Ran(c)]_vars
  <2> SUFFICES ASSUME NEW c \in ranBefore, Ran(c) PROVE FALSE
    OBVIOUS
  <2>1. c \in CallIds
    BY <1>1 DEF Alone, Coherent, TypeOK
  <2>2. RunTool(l) /\ loop[l].call = c
    BY <1>1, <2>1, RunsAreRunTool
  <2> QED
    BY <1>1, <2>2, RunsWhatIsPending
<1>2. Init => Alone(l)
  BY InitAlone
<1>3. Alone(l) /\ [Next]_vars => Alone(l)'
  BY NextAlone
<1> QED
  BY <1>1, <1>2, <1>3, PTL DEF Spec, UnknownNotRerun

-----------------------------------------------------------------------------
(* The log of a session one replica runs implements SessionLifecycle: an   *)
(* approval is followed by nothing but its answer, and the end of a turn   *)
(* by nothing but a new turn, also when recovery or closing takes over.    *)
(* (A rival breaks it: see AgentLoop.)                                     *)

(* The status tells whether a turn runs and whether an approval is pending *)
Mode(s) ==
  /\ s.turn = None => s.status \in Lifecycle!Startable /\ s.asks = <<>>
  /\ s.turn # None => s.status = IF s.asks = <<>> THEN "running" ELSE "waiting_approval"

(* The turn last started, None if none was.                                *)
Latest(s, turn) ==
  IF s.seenTurns = {} THEN turn = None
  ELSE turn \in s.seenTurns /\ \A t \in s.seenTurns : t <= turn

(* A turn is named after a number the log has reached, the active one is   *)
(* the last.                                                               *)
Dated(s) ==
  /\ \A t \in s.seenTurns : t \in Int /\ t <= s.lastSeq
  /\ \E turn : Latest(s, turn) /\ s.turn \in {None, turn}

(* Chosen, pending and awaited calls have names.                           *)
Named(entries, s) ==
  /\ \A i \in DOMAIN entries : entries[i].type = "model.delta" => entries[i].call \in CallIds
  /\ \A k \in DOMAIN s.calls : s.calls[k].call \in CallIds
  /\ \A k \in DOMAIN s.asks : s.asks[k].req \in CallIds

(* An approval is only awaited after the whole batch of its step.          *)
Complete(entries, s) == s.asks # <<>> => Chosen(entries, s.step.id) \subseteq Intended(entries, s.step.id)

Lively(entries, s) == Mode(s) /\ Dated(s) /\ Named(entries, s) /\ Complete(entries, s)

(* A replica about to start a turn, or past the end of a step.             *)
Poised(r, s) ==
  /\ r.pc = "begin" => r.turn = s.lastSeq + 1
  /\ r.pc \in {"compact", "checkpoint"} => s.turn # None

(* The inductive invariant, on top of the earlier ones.                    *)
Living(l) == Lively(log, durable) /\ Poised(loop[l], durable)

(* What an appended event must be for the lifecycle to allow it.           *)
Permitted(e) ==
  /\ e.seq = durable.lastSeq + 1
  /\ durable.asks # <<>> => e.type = "permission.resolved"
  /\ durable.turn = None => e.type = "turn.started"
  /\ e.type = "turn.started" => e.turn = durable.lastSeq + 1
  /\ e.type \in {"model.delta", "tool.call"} => e.call \in CallIds
  /\ e.type = "permission.requested" =>
       e.req \in CallIds /\ Chosen(log, durable.step.id) \subseteq Intended(log, durable.step.id)

-----------------------------------------------------------------------------
(* What one more event does.                                               *)

(* The turn of the lifecycle is the last one started.                      *)
LEMMA LatestTurn ==
  ASSUME NEW s, NEW turn, s.seenTurns \subseteq Int, None \notin Int,
         Latest(s, turn), s.turn \in {None, turn}
  PROVE  (IF s.turn # None THEN s.turn
          ELSE IF s.seenTurns = {} THEN None ELSE Max(s.seenTurns)) = turn
<1>1. CASE s.seenTurns = {}
  BY <1>1 DEF Latest
<1>2. CASE s.seenTurns # {} /\ s.turn = None
  <2>1. turn \in s.seenTurns /\ \A t \in s.seenTurns : t <= turn
    BY <1>2 DEF Latest
  <2>2. Max(s.seenTurns) \in s.seenTurns /\ \A t \in s.seenTurns : t <= Max(s.seenTurns)
    BY <2>1 DEF Max
  <2>3. Max(s.seenTurns) <= turn /\ turn <= Max(s.seenTurns)
    BY <2>1, <2>2
  <2>4. Max(s.seenTurns) \in Int /\ turn \in Int
    BY <2>1, <2>2
  <2> QED
    BY <2>3, <2>4, <1>2
<1>3. CASE s.turn # None
  BY <1>3
<1> QED
  BY <1>1, <1>2, <1>3

LEMMA ApplyStatus ==
  ASSUME NEW s \in AState, NEW e
  PROVE  LET n == Apply(s, e)
         IN  /\ e.type \in {"turn.started", "step.started", "step.finished"} => n.status = "running"
             /\ e.type = "permission.requested" => n.status = "waiting_approval"
             /\ e.type = "permission.resolved" /\ n.asks = <<>> /\ s.turn # None => n.status = "running"
             /\ e.type = "turn.finished" => n.status \in {"done", "failed", "aborted"}
             /\ e.type \notin {"turn.started", "step.started", "step.finished", "permission.requested",
                               "permission.resolved", "turn.finished"} => n.status = s.status
             /\ e.type = "turn.started" => n.turn = e.turn
             /\ e.type = "turn.finished" => n.turn = None
             /\ e.type \notin {"turn.started", "turn.finished"} => n.turn = s.turn
<1> DEFINE n == Apply(s, e)
           b == ApplyBody(s, e)
<1>1. n.status = b.status /\ n.asks = b.asks /\ n.turn = b.turn
  BY DEF Apply
<1>2. CASE e.type = "turn.finished"
  <2>1. b.status = TerminalStatus(e.outcome)
    BY <1>2 DEF ApplyBody, ApplyTurnFinished, AState, SessionStates
  <2>2. TerminalStatus(e.outcome) \in {"done", "failed", "aborted"}
    BY DEF TerminalStatus
  <2>3. b.turn = None
    BY <1>2 DEF ApplyBody, ApplyTurnFinished, AState, SessionStates
  <2> QED
    BY <1>1, <1>2, <2>1, <2>2, <2>3
<1>3. CASE e.type # "turn.finished"
  BY <1>1, <1>3 DEF ApplyBody, ApplyTurnStarted, ApplyStepStarted, ApplyStepFinished, ApplyToolCall, ApplyToolResult,
     ApplyPermissionRequested, ApplyPermissionResolved, AState, SessionStates
<1> QED
  BY <1>2, <1>3

(* The answer to the only request leaves none.                             *)
LEMMA AnswerClears ==
  ASSUME NEW s \in AState, Len(s.asks) <= 1, NEW e, e.type = "permission.resolved", Valid(s, e)
  PROVE  s.asks # <<>> /\ Apply(s, e).asks = <<>>
<1> DEFINE D == {k \in DOMAIN s.asks : s.asks[k].req = e.req}
           A == PendingAsks(Steps, CallIds)
           left == RemoveAt(s.asks, First(D))
<1>1. s.asks \in Seq(A)
  BY DEF AState, SessionStates
<1>2. D # {} /\ D \in SUBSET (DOMAIN s.asks)
  BY DEF Valid, ValidPermissionResolved
<1>3. Apply(s, e).asks = left
  BY ApplyFields
<1> HIDE DEF D, A
<1>4. Len(left) = Len(s.asks) - 1 /\ Len(left) \in Nat
  BY <1>1, <1>2, Spliced
<1>5. left \in Seq(A)
  BY <1>1, <1>2, SpliceType
<1>6. Len(left) = 0 /\ s.asks # <<>>
  <2>1. Len(s.asks) \in Nat /\ (s.asks = <<>> => Len(s.asks) = 0)
    BY <1>1, LenProperties, EmptySeq
  <2>2. \A m, k \in Nat : m <= 1 /\ k = m - 1 => m = 1 /\ k = 0
    OBVIOUS
  <2>3. Len(s.asks) = 1 /\ Len(left) = 0
    BY <1>4, <2>1, <2>2
  <2> QED
    BY <2>1, <2>3
<1>7. left = <<>>
  BY <1>5, <1>6, EmptySeq
<1> QED
  BY <1>3, <1>6, <1>7

(* What is pending after one more event.                                   *)
LEMMA WaitingGrown ==
  ASSUME NEW e, Coherent, OneApprovalAtATime, Valid(durable, e), Permitted(e), NEW n, n = Apply(durable, e)
  PROVE  /\ e.type = "permission.requested" => durable.asks = <<>> /\ Len(n.asks) = 1 /\ n.asks # <<>>
              /\ n.asks[1] = [req |-> e.req, step |-> e.step, call |-> e.call] /\ DOMAIN n.asks = {1}
         /\ e.type = "permission.resolved" => durable.asks # <<>>
         /\ e.type # "permission.requested" => n.asks = <<>>
         /\ e.type \notin {"permission.requested", "permission.resolved"} => durable.asks = <<>>
<1>1. durable \in AState
  BY DEF Coherent, TypeOK
<1>2. CASE e.type = "permission.requested"
  <2>1. durable.asks = <<>>
    BY <1>2 DEF Permitted
  <2>2. n.asks = Append(<<>>, [req |-> e.req, step |-> e.step, call |-> e.call])
    BY <1>1, <1>2, <2>1, ApplyFields
  <2> QED
    BY <1>2, <2>1, <2>2
<1>3. CASE e.type = "permission.resolved"
  BY <1>1, <1>3, AnswerClears DEF OneApprovalAtATime
<1>4. CASE e.type \notin {"permission.requested", "permission.resolved"}
  <2>1. n.asks = durable.asks
    BY <1>1, <1>4, ApplyFields
  <2> QED
    BY <1>4, <2>1 DEF Permitted
<1> QED
  BY <1>2, <1>3, <1>4

LEMMA ModeGrown ==
  ASSUME Coherent, OneApprovalAtATime, Mode(durable), NEW e, Valid(durable, e), Permitted(e),
         NEW n, n = Apply(durable, e)
  PROVE  Mode(n)
<1> DEFINE s == durable
<1>1. s \in AState /\ e.seq > s.lastSeq /\ None \notin Int
  BY LoopAssumption DEF Coherent, TypeOK, Valid
<1>2. /\ e.type # "permission.requested" => n.asks = <<>>
      /\ e.type = "permission.requested" => n.asks # <<>>
      /\ e.type = "permission.resolved" => s.asks # <<>>
      /\ e.type \notin {"permission.requested", "permission.resolved"} => s.asks = <<>>
  BY WaitingGrown
<1>3. /\ e.type \in {"turn.started", "step.started", "step.finished"} => n.status = "running"
      /\ e.type = "permission.requested" => n.status = "waiting_approval"
      /\ e.type = "permission.resolved" /\ n.asks = <<>> /\ s.turn # None => n.status = "running"
      /\ e.type = "turn.finished" => n.status \in {"done", "failed", "aborted"}
      /\ e.type \notin {"turn.started", "step.started", "step.finished", "permission.requested",
                        "permission.resolved", "turn.finished"} => n.status = s.status
  BY <1>1, ApplyStatus
<1>4. /\ e.type = "turn.started" => n.turn = e.turn
      /\ e.type = "turn.finished" => n.turn = None
      /\ e.type \notin {"turn.started", "turn.finished"} => n.turn = s.turn
  BY <1>1, ApplyStatus
<1>5. s.lastSeq + 1 \in Int
  BY <1>1 DEF AState, SessionStates
<1>6. e.type = "turn.started" => n.turn # None
  BY <1>1, <1>4, <1>5 DEF Permitted
<1>7. e.type # "turn.started" => s.turn # None /\ s.status = IF s.asks = <<>> THEN "running" ELSE "waiting_approval"
  BY DEF Permitted, Mode
<1>s. n.status \in {"done", "failed", "aborted"} => n.status \in Lifecycle!Startable
  BY DEF Lifecycle!Startable
<1>8. CASE e.type = "turn.started"
  BY <1>8, <1>2, <1>3, <1>6 DEF Mode
<1>9. CASE e.type = "turn.finished"
  BY <1>9, <1>2, <1>3, <1>4, <1>s DEF Mode
<1>10. CASE e.type \notin {"turn.started", "turn.finished"}
  <2>1. n.turn = s.turn /\ s.turn # None
    BY <1>10, <1>4, <1>7
  <2>2. n.status = IF n.asks = <<>> THEN "running" ELSE "waiting_approval"
    BY <1>10, <1>2, <1>3, <1>7
  <2> QED
    BY <2>1, <2>2 DEF Mode
<1> QED
  BY <1>8, <1>9, <1>10

LEMMA DatedGrown ==
  ASSUME Coherent, Dated(durable), NEW e, Valid(durable, e), Permitted(e),
         NEW n, n = Apply(durable, e)
  PROVE  /\ Dated(n)
         /\ e.type = "turn.started" => Latest(n, e.turn)
<1> DEFINE s == durable
<1>1. s \in AState /\ s.lastSeq \in Int /\ None \notin Int
  BY LoopAssumption DEF Coherent, TypeOK, AState, SessionStates
<1>2. /\ n.seenTurns = IF e.type = "turn.started" THEN s.seenTurns \cup {e.turn} ELSE s.seenTurns
      /\ n.lastSeq = s.lastSeq + 1
  BY <1>1, ApplySeen, ApplySteps DEF Permitted
<1>3. /\ e.type = "turn.started" => n.turn = e.turn
      /\ e.type = "turn.finished" => n.turn = None
      /\ e.type \notin {"turn.started", "turn.finished"} => n.turn = s.turn
  BY <1>1, ApplyStatus
<1>4. PICK turn : Latest(s, turn) /\ s.turn \in {None, turn}
  BY DEF Dated
<1>5. \A t \in s.seenTurns : t \in Int /\ t <= s.lastSeq
  BY DEF Dated
<1>6. CASE e.type = "turn.started"
  <2>1. e.turn = s.lastSeq + 1 /\ n.seenTurns = s.seenTurns \cup {e.turn} /\ n.turn = e.turn
    BY <1>6, <1>2, <1>3 DEF Permitted
  <2>2. \A t \in n.seenTurns : t \in Int /\ t <= n.lastSeq /\ t <= e.turn
    BY <2>1, <1>1, <1>2, <1>5
  <2>3. Latest(n, e.turn)
    BY <2>1, <2>2 DEF Latest
  <2> QED
    BY <2>1, <2>2, <2>3 DEF Dated
<1>7. CASE e.type # "turn.started"
  <2>1. n.seenTurns = s.seenTurns /\ n.turn \in {None, s.turn}
    BY <1>7, <1>2, <1>3
  <2>2. \A t \in n.seenTurns : t \in Int /\ t <= n.lastSeq
    BY <2>1, <1>1, <1>2, <1>5
  <2>3. Latest(n, turn) /\ n.turn \in {None, turn}
    BY <2>1, <1>4 DEF Latest
  <2> QED
    BY <1>7, <2>2, <2>3 DEF Dated
<1> QED
  BY <1>6, <1>7

LEMMA NamedGrown ==
  ASSUME Coherent, OneApprovalAtATime, Settled(durable), Named(log, durable),
         NEW e, Valid(durable, e), Permitted(e), NEW n \in AState, n = Apply(durable, e),
         NEW longer, longer = Append(log, e)
  PROVE  Named(longer, n)
<1> DEFINE s == durable
<1>1. s \in AState /\ log \in Seq(AnEvent)
  BY DEF Coherent, TypeOK
<1>2. /\ e.type = "permission.requested" =>
           n.asks[1] = [req |-> e.req, step |-> e.step, call |-> e.call] /\ DOMAIN n.asks = {1}
      /\ e.type # "permission.requested" => n.asks = <<>>
  BY WaitingGrown
<1>3. \A k \in DOMAIN n.asks : n.asks[k].req \in CallIds
  BY <1>2 DEF Permitted
<1>4. /\ e.type = "tool.call" =>
           /\ DOMAIN n.calls = DOMAIN s.calls \cup {Len(s.calls) + 1}
           /\ n.calls[Len(s.calls) + 1] = [call |-> e.call, step |-> e.step]
           /\ \A k \in DOMAIN s.calls : n.calls[k] = s.calls[k]
      /\ e.type = "tool.result" =>
           \A k \in DOMAIN n.calls : \E j \in DOMAIN s.calls : n.calls[k] = s.calls[j]
      /\ e.type \notin {"tool.call", "tool.result"} => n.calls = s.calls
  BY <1>1, CallsGrown
<1>5. /\ \A i \in DOMAIN log : log[i].type = "model.delta" => log[i].call \in CallIds
      /\ \A k \in DOMAIN s.calls : s.calls[k].call \in CallIds
      /\ e.type \in {"model.delta", "tool.call"} => e.call \in CallIds
  BY DEF Named, Permitted
<1>6. \A k \in DOMAIN n.calls : n.calls[k].call \in CallIds
  BY <1>4, <1>5
<1>7. /\ DOMAIN longer = DOMAIN log \cup {Len(log) + 1} /\ longer[Len(log) + 1] = e
      /\ \A i \in DOMAIN log : longer[i] = log[i]
  BY <1>1, Grown
<1>8. \A i \in DOMAIN longer : longer[i].type = "model.delta" => longer[i].call \in CallIds
  BY <1>5, <1>7
<1> QED
  BY <1>3, <1>6, <1>8 DEF Named

LEMMA CompleteGrown ==
  ASSUME Coherent, OneApprovalAtATime, NEW e, Valid(durable, e), Permitted(e),
         NEW n, n = Apply(durable, e)
  PROVE  Complete(Append(log, e), n)
<1>1. durable \in AState /\ log \in Seq(AnEvent)
  BY DEF Coherent, TypeOK
<1>2. CASE e.type = "permission.requested"
  <2>1. n.step = durable.step
    BY <1>1, <1>2, ApplyFields
  <2>2. /\ Chosen(Append(log, e), durable.step.id) = Chosen(log, durable.step.id)
        /\ Intended(Append(log, e), durable.step.id) = Intended(log, durable.step.id)
    BY <1>1, <1>2, BatchKept
  <2>3. Chosen(log, durable.step.id) \subseteq Intended(log, durable.step.id)
    BY <1>2 DEF Permitted
  <2> QED
    BY <2>1, <2>2, <2>3 DEF Complete
<1>3. CASE e.type # "permission.requested"
  BY <1>3, WaitingGrown DEF Complete
<1> QED
  BY <1>2, <1>3

LEMMA LivelyGrown ==
  ASSUME Coherent, OneApprovalAtATime, Settled(durable), Lively(log, durable),
         NEW e, Valid(durable, e), Permitted(e), NEW n \in AState, n = Apply(durable, e)
  PROVE  Lively(Append(log, e), n)
BY ModeGrown, DatedGrown, NamedGrown, CompleteGrown DEF Lively

(* The event is a transition of the lifecycle.                             *)
LEMMA Transition ==
  ASSUME Coherent, OneApprovalAtATime, Lively(log, durable), NEW e, Valid(durable, e), Permitted(e),
         durable' = Apply(durable, e), durable' \in AState
  PROVE  Lifecycle!Next
<1> DEFINE s == durable
           n == durable'
           turn(q) == IF q.turn # None THEN q.turn ELSE IF q.seenTurns = {} THEN None ELSE Max(q.seenTurns)
           req(q) == IF q.asks = <<>> THEN None ELSE q.asks[1].req
<1>1. s \in AState /\ None \notin Int /\ None \notin CallIds
  BY LoopAssumption DEF Coherent, TypeOK
<1>2. Mode(s) /\ Dated(s) /\ Mode(n) /\ Dated(n)
  BY ModeGrown, DatedGrown DEF Lively
<1>3. n.lastSeq = s.lastSeq + 1
  BY <1>1, ApplySteps DEF Permitted
<1>4. PICK t : Latest(s, t) /\ s.turn \in {None, t}
  BY <1>2 DEF Dated
<1>5. PICK u : Latest(n, u) /\ n.turn \in {None, u}
  BY <1>2 DEF Dated
<1>6. turn(s) = t /\ turn(n) = u
  BY <1>1, <1>2, <1>4, <1>5, LatestTurn DEF Dated
<1>7. n.seenTurns = IF e.type = "turn.started" THEN s.seenTurns \cup {e.turn} ELSE s.seenTurns
  BY <1>1, ApplySeen
<1>8. s.seenTurns \subseteq Int /\ n.seenTurns \subseteq Int
  BY <1>2 DEF Dated
<1>9. e.type # "turn.started" => t = u
  <2> SUFFICES ASSUME e.type # "turn.started" PROVE t = u
    OBVIOUS
  <2>1. n.seenTurns = s.seenTurns
    BY <1>7
  <2>2. CASE s.seenTurns = {}
    BY <2>1, <2>2, <1>4, <1>5 DEF Latest
  <2>3. CASE s.seenTurns # {}
    <3>1. t \in Int /\ u \in Int /\ t <= u /\ u <= t
      BY <2>1, <2>3, <1>4, <1>5, <1>8 DEF Latest
    <3> QED
      BY <3>1
  <2> QED
    BY <2>2, <2>3
<1>10. e.type = "turn.started" => u # t /\ u # None
  <2> SUFFICES ASSUME e.type = "turn.started" PROVE u # t /\ u # None
    OBVIOUS
  <2>1. e.turn \notin s.seenTurns
    BY DEF Valid, ValidTurnStarted
  <2>2. e.turn \in n.seenTurns /\ \A x \in n.seenTurns : x <= e.turn
    BY <1>2, <1>7, DatedGrown DEF Lively, Latest
  <2>3. u \in n.seenTurns /\ \A x \in n.seenTurns : x <= u
    BY <2>2, <1>5 DEF Latest
  <2>4. u \in Int /\ e.turn \in Int /\ u <= e.turn /\ e.turn <= u
    BY <2>2, <2>3, <1>8
  <2>5. u = e.turn
    BY <2>4
  <2>6. t = None \/ t \in s.seenTurns
    BY <1>4 DEF Latest
  <2> QED
    BY <2>1, <2>4, <2>5, <2>6, <1>1
<1>11. /\ e.type = "permission.requested" => s.asks = <<>> /\ n.asks # <<>> /\ n.asks[1].req = e.req
       /\ e.type = "permission.resolved" => s.asks # <<>>
       /\ e.type # "permission.requested" => n.asks = <<>>
       /\ e.type \notin {"permission.requested", "permission.resolved"} => s.asks = <<>>
  <2>1. e.type = "permission.requested" => n.asks[1] = [req |-> e.req, step |-> e.step, call |-> e.call]
    BY WaitingGrown
  <2>2. /\ e.type = "permission.requested" => s.asks = <<>> /\ n.asks # <<>>
        /\ e.type = "permission.resolved" => s.asks # <<>>
        /\ e.type # "permission.requested" => n.asks = <<>>
        /\ e.type \notin {"permission.requested", "permission.resolved"} => s.asks = <<>>
    BY WaitingGrown
  <2> QED
    BY <2>1, <2>2
<1>12. /\ e.type # "turn.started" => s.turn # None
       /\ e.type = "permission.requested" => e.req # None
  BY <1>1 DEF Permitted
<1>13. e.type = "turn.started" => s.turn = None
  BY DEF Valid, ValidTurnStarted
<1>14. /\ e.type \in {"turn.started", "step.started", "step.finished"} => n.status = "running"
       /\ e.type = "permission.requested" => n.status = "waiting_approval"
       /\ e.type = "permission.resolved" /\ n.asks = <<>> /\ s.turn # None => n.status = "running"
       /\ e.type = "turn.finished" => n.status \in {"done", "failed", "aborted"}
       /\ e.type \notin {"turn.started", "step.started", "step.finished", "permission.requested",
                         "permission.resolved", "turn.finished"} => n.status = s.status
  BY <1>1, ApplyStatus
<1>15. /\ s.turn = None => s.status \in Lifecycle!Startable
       /\ s.turn # None => s.status = IF s.asks = <<>> THEN "running" ELSE "waiting_approval"
  BY <1>2 DEF Mode
<1>o. Lifecycle!Observe
  BY <1>3 DEF Lifecycle!Observe
<1>16. CASE e.type = "turn.started"
  <2>1. s.status \in Lifecycle!Startable /\ n.status = "running" /\ req(s) = req(n)
    BY <1>16, <1>11, <1>13, <1>14, <1>15
  <2>2. turn(n) \notin {None, turn(s)}
    BY <1>16, <1>6, <1>10
  <2>3. Lifecycle!TurnStarted
    BY <2>1, <2>2, <1>o DEF Lifecycle!TurnStarted
  <2> QED
    BY <2>3 DEF Lifecycle!Next
<1>17. CASE e.type = "permission.requested"
  <2>1. s.status = "running" /\ n.status = "waiting_approval" /\ req(n) # None /\ turn(n) = turn(s)
    BY <1>17, <1>6, <1>9, <1>11, <1>12, <1>14, <1>15
  <2>2. Lifecycle!PermissionRequested
    BY <2>1, <1>o DEF Lifecycle!PermissionRequested
  <2> QED
    BY <2>2 DEF Lifecycle!Next
<1>18. CASE e.type = "permission.resolved"
  <2>1. s.status = "waiting_approval" /\ n.status = "running" /\ req(n) = None /\ turn(n) = turn(s)
    BY <1>18, <1>6, <1>9, <1>11, <1>12, <1>14, <1>15
  <2>2. Lifecycle!PermissionResolved
    BY <2>1, <1>o DEF Lifecycle!PermissionResolved
  <2> QED
    BY <2>2 DEF Lifecycle!Next
<1>19. CASE e.type = "turn.finished"
  <2>1. s.status = "running" /\ n.status \in {"done", "failed", "aborted"}
        /\ req(n) = req(s) /\ turn(n) = turn(s)
    BY <1>19, <1>6, <1>9, <1>11, <1>12, <1>14, <1>15
  <2>2. Lifecycle!TurnFinished
    BY <2>1, <1>o DEF Lifecycle!TurnFinished, Lifecycle!Startable
  <2> QED
    BY <2>2 DEF Lifecycle!Next
<1>20. CASE e.type \notin {"turn.started", "permission.requested", "permission.resolved", "turn.finished"}
  <2>1. s.status = "running" /\ n.status = "running" /\ req(n) = req(s) /\ turn(n) = turn(s)
    BY <1>20, <1>6, <1>9, <1>11, <1>12, <1>14, <1>15
  <2>2. Lifecycle!RunningEvent
    BY <2>1, <1>o DEF Lifecycle!RunningEvent
  <2> QED
    BY <2>2 DEF Lifecycle!Next
<1> QED
  BY <1>16, <1>17, <1>18, <1>19, <1>20

-----------------------------------------------------------------------------
(* What the ways of advancing keep.                                        *)

(* A step keeps the invariant and is one of the lifecycle, or no step.     *)
Follows(l) == Living(l)' /\ [Lifecycle!Next]_(Lifecycle!lifecycle)

LEMMA FailedPoised ==
  ASSUME NEW l, NEW s
  PROVE  Poised(Failed(l), s) /\ Poised(IdleLoop, s)
<1>1. Failed(l).pc \in {"idle", "closing"} /\ IdleLoop.pc = "idle"
  BY DEF Failed, IdleLoop
<1> QED
  BY <1>1 DEF Poised

(* A place where Poised asks nothing.                                      *)
LEMMA Unposed ==
  ASSUME NEW r, r.pc \notin {"begin", "compact", "checkpoint"}, NEW s
  PROVE  Poised(r, s)
BY DEF Poised

LEMMA QuietFollows ==
  ASSUME NEW l, Alone(l), Living(l), UNCHANGED <<log, durable>>, NEW next,
         loop' = [loop EXCEPT ![l] = next], Poised(next, durable)
  PROVE  Follows(l)
<1>1. log' = log /\ durable' = durable /\ loop'[l] = next
  BY DEF Alone, Coherent, TypeOK
<1>2. Lively(log', durable') /\ Poised(loop'[l], durable')
  BY <1>1 DEF Living
<1>3. UNCHANGED Lifecycle!lifecycle
  BY <1>1 DEF Lifecycle!lifecycle
<1> QED
  BY <1>2, <1>3 DEF Follows, Living

LEMMA EmitFollows ==
  ASSUME NEW l, Alone(l), Coherent', Living(l), NEW event, DOMAIN event = DOMAIN NoEvent, NEW next,
         Emit(l, event, next), NEW e, e = NextEvent(l, event),
         (/\ view[l] = durable /\ Valid(durable, e) /\ Apply(durable, e) \in AState
          /\ e.seq = durable.lastSeq + 1)
           => Permitted(e) /\ Poised(next, Apply(durable, e))
  PROVE  Follows(l)
<1>t. view \in [Loops -> AState] /\ loop \in [Loops -> LoopStates] /\ l \in Loops
  BY DEF Alone, Coherent, TypeOK
<1>1. CASE UNCHANGED <<log, durable, view>> /\ loop' = [loop EXCEPT ![l] = Failed(l)]
  BY <1>1, FailedPoised, QuietFollows
<1>2. CASE /\ Valid(view[l], e) /\ AppendAccepted(l, e) /\ Persist(e)
           /\ loop' = [loop EXCEPT ![l] = next] \/ loop' = [loop EXCEPT ![l] = Failed(l)]
  <2>1. view[l] = durable /\ log' = Append(log, e) /\ durable' = Apply(durable, e)
    BY <1>2, <1>t DEF AppendAccepted, Persist, Alone, Coherent, CasCoherent
  <2>2. durable' \in AState
    BY DEF Coherent, TypeOK
  <2>3. e.seq = view[l].lastSeq + 1
    BY DEF NextEvent, NoEvent
  <2>4. Valid(durable, e) /\ Permitted(e) /\ Poised(next, durable')
    BY <1>2, <2>1, <2>2, <2>3
  <2>5. loop'[l] = next \/ loop'[l] = Failed(l)
    BY <1>2, <1>t
  <2>6. Poised(loop'[l], durable')
    BY <2>4, <2>5, FailedPoised
  <2>7. Coherent /\ OneApprovalAtATime /\ Settled(durable) /\ Lively(log, durable)
    BY DEF Alone, OneAsk, Concluded, Trail, Living
  <2>8. Lively(log', durable')
    BY <2>1, <2>2, <2>4, <2>7, LivelyGrown
  <2>9. Lifecycle!Next
    BY <2>1, <2>2, <2>4, <2>7, Transition
  <2> QED
    BY <2>6, <2>8, <2>9 DEF Follows, Living
<1> QED
  BY <1>1, <1>2 DEF Emit

(* An event of a turn that runs, from a place where no approval is awaited *)
LEMMA EmitRunning ==
  ASSUME NEW l, Alone(l), Coherent', Living(l), NEW event, DOMAIN event = DOMAIN NoEvent, NEW next,
         Emit(l, event, next), loop[l].pc \notin MayWait,
         event.type \notin {"turn.started", "permission.requested"},
         event.type \in {"model.delta", "tool.call"} => event.call \in CallIds,
         Valid(durable, NextEvent(l, event)) => durable.turn # None,
         next.pc \notin {"begin", "compact", "checkpoint"}
  PROVE  Follows(l)
<1> DEFINE e == NextEvent(l, event)
<1>1. e.type = event.type /\ e.call = event.call
  BY DEF NextEvent, NoEvent
<1>2. durable.asks = <<>>
  BY DEF Alone, OneAsk, Place
<1>3. e = NextEvent(l, event)
  OBVIOUS
<1> HIDE DEF e
<1> QED
  BY <1>1, <1>2, <1>3, EmitFollows, Unposed DEF Permitted

-----------------------------------------------------------------------------
(* The actions.                                                            *)

LEMMA DriveFollows ==
  ASSUME NEW l, Alone(l), Coherent', Living(l),
         \/ RunTurn(l) \/ BeginTurn(l) \/ ResumeTurn(l) \/ Abort(l)
         \/ DriveAborted(l) \/ FinishTurn(l) \/ StartStep(l)
  PROVE  Follows(l)
<1>f. /\ DOMAIN loop[l] = {"pc", "turn", "step", "batch", "i", "call", "attempt", "via", "failed",
                           "aborted", "outcome", "action", "asks", "calls", "missing"}
      /\ \A pc : Goto(l, pc).pc = pc
      /\ Failed(l).pc \in {"idle", "closing"} /\ IdleLoop.pc = "idle"
  BY Places DEF Alone
<1>p. Poised(loop[l], durable)
  BY DEF Living
<1>1. CASE RunTurn(l)
  <2> DEFINE next == [IdleLoop EXCEPT !.pc = "begin", !.turn = durable.lastSeq + 1]
  <2>1. next.pc = "begin" /\ next.turn = durable.lastSeq + 1
    BY DEF IdleLoop
  <2>2. loop' = [loop EXCEPT ![l] = next] /\ UNCHANGED <<log, durable>>
    BY <1>1 DEF RunTurn
  <2> HIDE DEF next
  <2>3. Poised(next, durable)
    BY <2>1 DEF Poised
  <2> QED
    BY <2>2, <2>3, QuietFollows
<1>2. CASE ResumeTurn(l)
  <2> DEFINE next == [IdleLoop EXCEPT !.pc = "recover", !.turn = durable.turn]
  <2>1. next.pc = "recover"
    BY DEF IdleLoop
  <2>2. loop' = [loop EXCEPT ![l] = next] /\ UNCHANGED <<log, durable>>
    BY <1>2 DEF ResumeTurn
  <2> HIDE DEF next
  <2> QED
    BY <2>1, <2>2, Unposed, QuietFollows
<1>3. CASE Abort(l)
  <2> DEFINE next == [loop[l] EXCEPT !.aborted = TRUE]
  <2>1. next.pc = loop[l].pc /\ next.turn = loop[l].turn
    BY <1>f
  <2>2. loop' = [loop EXCEPT ![l] = next] /\ UNCHANGED <<log, durable>>
    BY <1>3 DEF Abort, Move
  <2> HIDE DEF next
  <2>3. Poised(next, durable)
    BY <2>1, <1>p DEF Poised
  <2> QED
    BY <2>2, <2>3, QuietFollows
<1>4. CASE DriveAborted(l)
  BY <1>4, FailedPoised, QuietFollows DEF DriveAborted, Move
<1>5. CASE BeginTurn(l)
  <2> DEFINE event == [NoEvent EXCEPT !.type = "turn.started", !.turn = loop[l].turn]
             e == NextEvent(l, event)
             next == Goto(l, "drive")
  <2>1. DOMAIN event = DOMAIN NoEvent /\ e.type = "turn.started" /\ e.turn = loop[l].turn
    BY DEF NoEvent, NextEvent
  <2>2. loop[l].pc = "begin" /\ Emit(l, event, next)
    BY <1>5 DEF BeginTurn
  <2>3. next.pc = "drive" /\ e = NextEvent(l, event)
    BY <1>f
  <2> HIDE DEF event, e, next
  <2>4. loop[l].turn = durable.lastSeq + 1 /\ durable.asks = <<>>
    BY <2>2, <1>p DEF Poised, Alone, OneAsk, Place, MayWait
  <2>5. e.seq = durable.lastSeq + 1 => Permitted(e)
    BY <2>1, <2>4 DEF Permitted
  <2> QED
    BY <2>1, <2>2, <2>3, <2>5, Unposed, EmitFollows
<1>6. CASE FinishTurn(l)
  <2> DEFINE event == [NoEvent EXCEPT !.type = "turn.finished", !.turn = loop[l].turn,
                                      !.outcome = PersistedReason(StopReason(loop[l].turn))]
             e == NextEvent(l, event)
  <2>1. DOMAIN event = DOMAIN NoEvent /\ event.type = "turn.finished" /\ e.type = "turn.finished"
    BY DEF NoEvent, NextEvent
  <2>2. loop[l].pc = "drive" /\ Emit(l, event, IdleLoop)
    BY <1>6 DEF FinishTurn
  <2> HIDE DEF event
  <2>3. Valid(durable, e) => durable.turn # None
    BY <2>1 DEF Valid, ValidTurnFinished
  <2> QED
    BY <2>1, <2>2, <2>3, <1>f, EmitRunning DEF MayWait
<1>7. CASE StartStep(l)
  <2> DEFINE index == (IF view[l].turn = None THEN 0 ELSE view[l].lastStep) + 1
             step  == <<loop[l].turn, index>>
             event == [NoEvent EXCEPT !.type = "step.started", !.turn = loop[l].turn,
                                      !.step = step, !.index = index]
             next  == [loop[l] EXCEPT !.pc = "model", !.step = step, !.batch = <<>>, !.attempt = 1,
                                      !.via = "batch", !.failed = FALSE]
             e == NextEvent(l, event)
  <2> HIDE DEF index, step
  <2>1. DOMAIN event = DOMAIN NoEvent /\ event.type = "step.started" /\ e.type = "step.started"
    BY DEF NoEvent, NextEvent
  <2>2. next.pc = "model"
    BY <1>f
  <2>3. loop[l].pc = "drive" /\ Emit(l, event, next)
    BY <1>7 DEF StartStep, index, step
  <2> HIDE DEF event, next
  <2>4. Valid(durable, e) => durable.turn # None
    BY <2>1 DEF Valid, ValidStepStarted
  <2> QED
    BY <2>1, <2>2, <2>3, <2>4, EmitRunning DEF MayWait
<1> QED
  BY <1>1, <1>2, <1>3, <1>4, <1>5, <1>6, <1>7

(* Within the active step the turn runs.                                   *)
LEMMA InTurn ==
  ASSUME NEW l, Alone(l), loop[l].pc \in InActiveStep
  PROVE  durable.turn # None /\ durable.step # None /\ loop[l].step = durable.step.id
BY DEF Alone, OneAsk, Place

LEMMA ModelFollows ==
  ASSUME NEW l, Alone(l), Coherent', Living(l), ModelPhase(l)
  PROVE  Follows(l)
<1>f. /\ DOMAIN loop[l] = {"pc", "turn", "step", "batch", "i", "call", "attempt", "via", "failed",
                           "aborted", "outcome", "action", "asks", "calls", "missing"}
      /\ \A pc : Goto(l, pc).pc = pc
  BY Places DEF Alone
<1>a. loop[l].pc \in {"model", "discard", "stream"} => durable.turn # None /\ loop[l].pc \notin MayWait
  BY InTurn DEF InActiveStep, MayWait
<1>1. CASE RequestModel(l)
  <2> DEFINE event == InStep(l, "model.request")
             next == Goto(l, "stream")
  <2>1. DOMAIN event = DOMAIN NoEvent /\ event.type = "model.request"
    BY DEF InStep, NoEvent
  <2>2. Emit(l, event, next) /\ loop[l].pc = "model"
    BY <1>1 DEF RequestModel
  <2>3. next.pc = "stream"
    BY <1>f
  <2> HIDE DEF event, next
  <2> QED
    BY <2>1, <2>2, <2>3, <1>a, EmitRunning
<1>2. CASE DiscardDeltas(l)
  <2> DEFINE next == [loop[l] EXCEPT !.pc = "stream", !.batch = <<>>]
             covers(i, j) == [InStep(l, "model.attempt.discarded") EXCEPT
                                !.from = log[i].seq, !.to = log[j].seq]
  <2>1. loop[l].pc = "discard" /\ (Move(l, next) \/ \E i, j : Emit(l, covers(i, j), next))
    BY <1>2 DEF DiscardDeltas
  <2>2. next.pc = "stream"
    BY <1>f
  <2>3. ASSUME NEW i, NEW j
        PROVE  DOMAIN covers(i, j) = DOMAIN NoEvent /\ covers(i, j).type = "model.attempt.discarded"
    BY DEF InStep, NoEvent
  <2> HIDE DEF next, covers
  <2>4. ASSUME NEW i, NEW j, Emit(l, covers(i, j), next) PROVE Follows(l)
    BY <2>1, <2>2, <2>3, <2>4, <1>a, EmitRunning
  <2>5. CASE Move(l, next)
    BY <2>2, <2>5, Unposed, QuietFollows DEF Move
  <2> QED
    BY <2>1, <2>4, <2>5
<1>3. CASE StreamEnd(l)
  <2> DEFINE next == [loop[l] EXCEPT !.i = 1, !.pc = IF loop[l].batch = <<>> THEN "finish" ELSE "intents"]
  <2>1. Move(l, next) /\ next.pc \in {"finish", "intents"}
    BY <1>3, <1>f DEF StreamEnd
  <2> HIDE DEF next
  <2> QED
    BY <2>1, Unposed, QuietFollows DEF Move
<1>4. CASE StreamFail(l)
  <2> DEFINE next == [loop[l] EXCEPT !.pc = "discard", !.attempt = @ + 1]
  <2>1. (Move(l, Failed(l)) \/ Move(l, next)) /\ next.pc = "discard"
    BY <1>4, <1>f DEF StreamFail
  <2> HIDE DEF next
  <2> QED
    BY <2>1, Unposed, FailedPoised, QuietFollows DEF Move
<1>5. ASSUME NEW c \in CallIds, StreamCall(l, c) PROVE Follows(l)
  <2> DEFINE event == [InStep(l, "model.delta") EXCEPT !.call = c]
             next == [loop[l] EXCEPT !.batch = Append(@, c)]
  <2>1. DOMAIN event = DOMAIN NoEvent /\ event.type = "model.delta" /\ event.call = c
    BY DEF InStep, NoEvent
  <2>2. Emit(l, event, next) /\ loop[l].pc = "stream"
    BY <1>5 DEF StreamCall
  <2>3. next.pc = "stream"
    BY <1>f, <2>2
  <2> HIDE DEF event, next
  <2> QED
    BY <2>1, <2>2, <2>3, <1>a, EmitRunning
<1> QED
  BY <1>1, <1>2, <1>3, <1>4, <1>5 DEF ModelPhase

(* The answer to a pending approval.                                       *)
LEMMA EmitAnswer ==
  ASSUME NEW l, Alone(l), Coherent', Living(l), NEW event, DOMAIN event = DOMAIN NoEvent, NEW next,
         Emit(l, event, next), event.type = "permission.resolved",
         next.pc \notin {"begin", "compact", "checkpoint"}
  PROVE  Follows(l)
<1> DEFINE e == NextEvent(l, event)
<1>1. e.type = "permission.resolved" /\ e = NextEvent(l, event)
  BY DEF NextEvent, NoEvent
<1> HIDE DEF e
<1>2. durable \in AState /\ Len(durable.asks) <= 1
  BY DEF Alone, Coherent, TypeOK, OneAsk, OneApprovalAtATime
<1>3. Valid(durable, e) => durable.asks # <<>>
  BY <1>1, <1>2, AnswerClears
<1>4. durable.asks # <<>> => durable.turn # None
  BY DEF Living, Lively, Mode
<1>5. Valid(durable, e) /\ e.seq = durable.lastSeq + 1 => Permitted(e)
  BY <1>1, <1>3, <1>4 DEF Permitted
<1> QED
  BY <1>1, <1>5, EmitFollows, Unposed

LEMMA RequestFollows ==
  ASSUME NEW l, Alone(l), Coherent', Living(l), RequestPermission(l)
  PROVE  Follows(l)
<1> DEFINE event == ForRequest(l, "permission.requested")
           next == Goto(l, "ask")
           e == NextEvent(l, event)
<1>1. /\ DOMAIN event = DOMAIN NoEvent /\ e = NextEvent(l, event)
      /\ e.type = "permission.requested" /\ e.req = loop[l].call
  BY DEF ForRequest, ForCall, InStep, NoEvent, NextEvent
<1>2. loop[l].pc = "permission" /\ Emit(l, event, next)
  BY DEF RequestPermission
<1>3. next.pc = "ask"
  BY Places DEF Alone
<1> HIDE DEF event, next, e
<1>4. durable.turn # None /\ durable.asks = <<>> /\ loop[l].step = durable.step.id
  BY <1>2, InTurn DEF InActiveStep, Alone, OneAsk, Place, MayWait
<1>5. /\ PendingCall(durable, loop[l].call)
      /\ Chosen(log, loop[l].step) \subseteq Intended(log, loop[l].step)
  BY <1>2 DEF Alone, Effective, Working, Executing, AfterBatch
<1>6. loop[l].call \in CallIds
  BY <1>5 DEF PendingCall, Living, Lively, Named
<1>7. e.seq = durable.lastSeq + 1 => Permitted(e)
  BY <1>1, <1>4, <1>5, <1>6 DEF Permitted
<1> QED
  BY <1>1, <1>2, <1>3, <1>7, EmitFollows, Unposed

LEMMA ToolFollows ==
  ASSUME NEW l, Alone(l), Coherent', Living(l), ToolPhase(l)
  PROVE  Follows(l)
<1>f. /\ DOMAIN loop[l] = {"pc", "turn", "step", "batch", "i", "call", "attempt", "via", "failed",
                           "aborted", "outcome", "action", "asks", "calls", "missing"}
      /\ \A failed : NextCall(l, failed).pc \in {"recoverAsks", "reload", "permission", "finish"}
      /\ \A pc : Goto(l, pc).pc = pc
  BY Places DEF Alone
<1>a. loop[l].pc \in {"intents", "permission", "deny", "record", "feed"} =>
        durable.turn # None /\ loop[l].pc \notin MayWait
  BY InTurn DEF InActiveStep, MayWait
<1>r. ASSUME NEW outcome, NEW next, Emit(l, ToolResult(l, outcome), next),
             loop[l].pc \in {"permission", "deny", "record", "feed"},
             next.pc \notin {"begin", "compact", "checkpoint"}
      PROVE  Follows(l)
  <2> DEFINE event == ToolResult(l, outcome)
  <2>1. DOMAIN event = DOMAIN NoEvent /\ event.type = "tool.result"
    BY DEF ToolResult, ForCall, InStep, NoEvent
  <2> HIDE DEF event
  <2>2. Emit(l, event, next)
    BY <1>r DEF event
  <2> QED
    BY <2>1, <2>2, <1>r, <1>a, EmitRunning
<1>1. CASE RecordIntent(l)
  <2> DEFINE i == loop[l].i
             event == [InStep(l, "tool.call") EXCEPT !.call = loop[l].batch[i]]
             more == [loop[l] EXCEPT !.i = i + 1]
             done == [loop[l] EXCEPT !.pc = "permission", !.i = 1, !.call = loop[l].batch[1]]
  <2>1. DOMAIN event = DOMAIN NoEvent /\ event.type = "tool.call" /\ event.call = loop[l].batch[i]
    BY DEF InStep, NoEvent
  <2>2. loop[l].pc = "intents" /\ i \in DOMAIN loop[l].batch /\ (Emit(l, event, more) \/ Emit(l, event, done))
    BY <1>1 DEF RecordIntent
  <2>3. more.pc = loop[l].pc /\ done.pc = "permission"
    BY <1>f
  <2>4. loop[l].batch[i] \in CallIds
    <3>1. loop[l].batch \in Seq(CallIds)
      BY LoopType DEF Alone, Coherent, LoopStates
    <3> QED
      BY <3>1, <2>2, SeqElement
  <2> HIDE DEF event, more, done
  <2> QED
    BY <2>1, <2>2, <2>3, <2>4, <1>a, EmitRunning
<1>2. CASE RejectUnregistered(l)
  BY <1>2, <1>r, <1>f DEF RejectUnregistered
<1>3. CASE RequestPermission(l)
  BY <1>3, RequestFollows
<1>4. ASSUME NEW d \in {"allow", "deny"}, ResolvePermission(l, d) PROVE Follows(l)
  <2> DEFINE event == [ForRequest(l, "permission.resolved") EXCEPT !.decision = d]
             next == [loop[l] EXCEPT !.pc = IF d = "allow" THEN "run" ELSE "deny", !.attempt = 1]
  <2>1. DOMAIN event = DOMAIN NoEvent /\ event.type = "permission.resolved"
    BY DEF ForRequest, ForCall, InStep, NoEvent
  <2>2. Emit(l, event, next)
    BY <1>4 DEF ResolvePermission
  <2>3. next.pc \in {"run", "deny"}
    BY <1>f
  <2> HIDE DEF event, next
  <2> QED
    BY <2>1, <2>2, <2>3, EmitAnswer
<1>5. CASE RecordDenial(l)
  BY <1>5, <1>r, <1>f DEF RecordDenial
<1>6. CASE RunTool(l)
  <2>1. /\ loop[l].pc = "run" /\ UNCHANGED <<log, durable>>
        /\ \E next : loop' = [loop EXCEPT ![l] = next] /\ (next = Failed(l) \/ next.pc \in {"record", "feed", "run"})
    <3> DEFINE record(o) == [loop[l] EXCEPT !.pc = "record", !.outcome = o]
               feed(a) == [loop[l] EXCEPT !.pc = "feed", !.action = a]
               again == [loop[l] EXCEPT !.attempt = @ + 1]
    <3>1. loop[l].pc = "run" /\ UNCHANGED <<log, durable>>
      BY <1>6 DEF RunTool
    <3>2. /\ \A o : record(o).pc = "record"
          /\ \A a : feed(a).pc = "feed"
          /\ again.pc = "run"
      BY <1>f, <3>1
    <3>3. \/ \E o : loop' = [loop EXCEPT ![l] = record(o)]
          \/ \E a : loop' = [loop EXCEPT ![l] = feed(a)]
          \/ loop' = [loop EXCEPT ![l] = again]
          \/ loop' = [loop EXCEPT ![l] = Failed(l)]
      BY <1>6 DEF RunTool
    <3> HIDE DEF record, feed, again
    <3> QED
      BY <3>1, <3>2, <3>3
  <2> QED
    BY <2>1, Unposed, FailedPoised, QuietFollows
<1>7. CASE RecordResult(l)
  BY <1>7, <1>r, <1>f DEF RecordResult
<1>8. CASE RecordFailure(l)
  <2>1. Failed(l).pc \in {"idle", "closing"}
    BY Places DEF Alone
  <2> QED
    BY <1>8, <2>1, <1>r, <1>f DEF RecordFailure
<1> QED
  BY <1>1, <1>2, <1>3, <1>4, <1>5, <1>6, <1>7, <1>8 DEF ToolPhase

LEMMA FinishFollows ==
  ASSUME NEW l, Alone(l), Coherent', Living(l), FinishStep(l) \/ Maintain(l)
  PROVE  Follows(l)
<1>f. \A pc : Goto(l, pc).pc = pc
  BY Places DEF Alone
<1>t. durable \in AState
  BY DEF Alone, Coherent, TypeOK
(* A replica goes on in the turn whose event it has appended.              *)
<1>e. ASSUME NEW event, DOMAIN event = DOMAIN NoEvent, NEW pc, Emit(l, event, Goto(l, pc)),
             loop[l].pc \notin MayWait, durable.turn # None,
             event.type \in {"step.finished", "compaction.applied", "checkpoint.created"}, pc # "begin"
      PROVE  Follows(l)
  <2> DEFINE e == NextEvent(l, event)
             next == Goto(l, pc)
  <2>1. e.type = event.type /\ e = NextEvent(l, event) /\ next.pc = pc
    BY <1>e, <1>f DEF NextEvent, NoEvent
  <2>2. durable.asks = <<>>
    BY <1>e DEF Alone, OneAsk, Place
  <2>3. Emit(l, event, next)
    BY <1>e
  <2> HIDE DEF e, next
  <2>4. e.seq = durable.lastSeq + 1 => Permitted(e)
    BY <1>e, <2>1, <2>2 DEF Permitted
  <2>5. Apply(durable, e).turn = durable.turn
    BY <1>e, <1>t, <2>1, ApplyStatus
  <2>6. Poised(next, Apply(durable, e))
    BY <1>e, <2>1, <2>5 DEF Poised
  <2> QED
    BY <1>e, <2>1, <2>3, <2>4, <2>6, EmitFollows
<1>1. CASE FinishStep(l)
  <2> DEFINE event == [InStep(l, "step.finished") EXCEPT !.turn = loop[l].step[1],
                         !.outcome = IF loop[l].failed THEN "failed" ELSE "succeeded"]
  <2>1. DOMAIN event = DOMAIN NoEvent /\ event.type = "step.finished"
    BY DEF InStep, NoEvent
  <2>2. loop[l].pc = "finish" /\ \E pc \in {"drive", "compact"} : Emit(l, event, Goto(l, pc))
    BY <1>1 DEF FinishStep
  <2>3. durable.turn # None /\ loop[l].pc \notin MayWait
    BY <2>2, InTurn DEF InActiveStep, MayWait
  <2> HIDE DEF event
  <2> QED
    BY <2>1, <2>2, <2>3, <1>e
<1>2. CASE Maintain(l)
  <2> DEFINE pc == IF loop[l].pc = "compact" THEN "checkpoint" ELSE "drive"
             event(type) == [NoEvent EXCEPT !.type = type]
  <2>1. \A type : DOMAIN event(type) = DOMAIN NoEvent /\ event(type).type = type
    BY DEF NoEvent
  <2>2. /\ loop[l].pc \in {"compact", "checkpoint"}
        /\ \/ Move(l, Goto(l, pc))
           \/ \E type \in {"compaction.applied", "checkpoint.created"} : Emit(l, event(type), Goto(l, pc))
    BY <1>2 DEF Maintain, MaintenanceTypes
  <2>3. durable.turn # None /\ loop[l].pc \notin MayWait /\ pc # "begin"
    BY <2>2 DEF Living, Poised, MayWait
  <2> HIDE DEF event, pc
  <2>4. CASE Move(l, Goto(l, pc))
    <3>1. Poised(Goto(l, pc), durable)
      BY <2>3, <1>f DEF Poised
    <3> QED
      BY <2>4, <3>1, QuietFollows DEF Move
  <2> QED
    BY <2>1, <2>2, <2>3, <2>4, <1>e
<1> QED
  BY <1>1, <1>2

(* An intent that recovery still records is one no approval waits behind:  *)
(* a request is only made once the batch is whole.                         *)
LEMMA ReconcileFollows ==
  ASSUME NEW l, Alone(l), Coherent', Living(l), ReconcileIntent(l)
  PROVE  Follows(l)
<1>f. DOMAIN loop[l] = {"pc", "turn", "step", "batch", "i", "call", "attempt", "via", "failed",
                        "aborted", "outcome", "action", "asks", "calls", "missing"}
  BY Places DEF Alone
<1> DEFINE event(i) == [InStep(l, "tool.call") EXCEPT !.call = log[i].call]
           next(i) == [loop[l] EXCEPT !.missing = @ \ {i}]
<1>1. /\ loop[l].pc = "reconcile"
      /\ Move(l, Failed(l)) \/ \E i \in loop[l].missing : Emit(l, event(i), next(i))
  BY DEF ReconcileIntent
<1>2. \A i : /\ DOMAIN event(i) = DOMAIN NoEvent /\ event(i).type = "tool.call"
             /\ event(i).call = log[i].call /\ next(i).pc = "reconcile"
  BY <1>1, <1>f DEF InStep, NoEvent
<1> HIDE DEF event, next
<1>3. CASE Move(l, Failed(l))
  BY <1>3, FailedPoised, QuietFollows DEF Move
<1>4. ASSUME NEW i \in loop[l].missing, Emit(l, event(i), next(i)) PROVE Follows(l)
  <2> DEFINE e == NextEvent(l, event(i))
  <2>1. e.type = "tool.call" /\ e.call = log[i].call /\ e = NextEvent(l, event(i))
    BY <1>2 DEF NextEvent, NoEvent
  <2> HIDE DEF e
  <2>2. durable.turn # None /\ loop[l].step = durable.step.id
    BY <1>1, InTurn DEF InActiveStep
  <2>3. ASSUME view[l] = durable, Valid(durable, e), e.seq = durable.lastSeq + 1 PROVE Permitted(e)
    <3>1. i \in Kept(log, durable.step.id)
      BY <1>1, <2>2, <2>3 DEF Alone, Recorded, InBatch
    <3>2. log[i].call \in Chosen(log, durable.step.id) /\ i \in DOMAIN log /\ log[i].type = "model.delta"
      BY <3>1 DEF Chosen, CallsOf, Kept, Of
    <3>3. e.call \in CallIds
      BY <2>1, <3>2 DEF Living, Lively, Named
    <3>4. durable.asks = <<>>
      <4> SUFFICES ASSUME durable.asks # <<>> PROVE FALSE
        OBVIOUS
      <4>1. log[i].call \in Intended(log, durable.step.id)
        BY <3>2 DEF Living, Lively, Complete
      <4>2. PICK j \in DOMAIN log : log[j].type = "tool.call" /\ log[j].call = e.call
        BY <2>1, <4>1 DEF Intended, CallsOf, Of
      <4>3. e.call \in durable.seenCalls
        BY <4>2 DEF Alone, Concluded, Trail, Accounted
      <4>4. e.call \notin durable.seenCalls
        BY <2>1, <2>3 DEF Valid, ValidToolCall
      <4> QED
        BY <4>3, <4>4
    <3> QED
      BY <2>1, <2>2, <2>3, <3>3, <3>4 DEF Permitted
  <2>4. Poised(next(i), Apply(durable, e))
    BY <1>2, Unposed
  <2> QED
    BY <1>2, <1>4, <2>1, <2>3, <2>4, EmitFollows
<1> QED
  BY <1>1, <1>3, <1>4

LEMMA RecoveryFollows ==
  ASSUME NEW l, Alone(l), Coherent', Living(l), RecoveryPhase(l)
  PROVE  Follows(l)
<1>f. /\ DOMAIN loop[l] = {"pc", "turn", "step", "batch", "i", "call", "attempt", "via", "failed",
                           "aborted", "outcome", "action", "asks", "calls", "missing"}
      /\ \A pc : Goto(l, pc).pc = pc
  BY Places DEF Alone
(* A move to a place that asks nothing.                                    *)
<1>q. ASSUME NEW next, loop' = [loop EXCEPT ![l] = next], UNCHANGED <<log, durable>>,
             next.pc \notin {"begin", "compact", "checkpoint"}
      PROVE  Follows(l)
  BY <1>q, Unposed, QuietFollows
<1>1. CASE Recover(l)
  <2> DEFINE step == durable.step.id
             here == [loop[l] EXCEPT !.step = step]
             reconcile == [here EXCEPT !.pc = "reconcile", !.missing = MissingIntents(step)]
             restart(pc) == [here EXCEPT !.pc = pc]
  <2>1. /\ UNCHANGED <<log, durable>>
        /\ \/ loop' = [loop EXCEPT ![l] = Goto(l, "drive")]
           \/ loop' = [loop EXCEPT ![l] = reconcile]
           \/ \E pc \in {"discard", "model"} : loop' = [loop EXCEPT ![l] = restart(pc)]
    BY <1>1 DEF Recover
  <2>2. reconcile.pc = "reconcile" /\ \A pc : restart(pc).pc = pc
    BY <1>f
  <2> HIDE DEF reconcile, restart
  <2> QED
    BY <2>1, <2>2, <1>f, <1>q
<1>2. CASE ReconcileIntent(l)
  BY <1>2, ReconcileFollows
<1>3. CASE RecoverAsks(l)
  <2> DEFINE next == [loop[l] EXCEPT !.pc = "recoverAsks", !.via = "asks", !.asks = durable.asks]
  <2>1. next.pc = "recoverAsks" /\ loop' = [loop EXCEPT ![l] = next] /\ UNCHANGED <<log, durable>>
    BY <1>3, <1>f DEF RecoverAsks
  <2> HIDE DEF next
  <2> QED
    BY <2>1, <1>q
<1>4. ASSUME NEW d \in {"allow", "deny"}, RecoverAsk(l, d) PROVE Follows(l)
  <2> DEFINE ask == Head(loop[l].asks)
             event == [InStep(l, "permission.resolved") EXCEPT
                         !.call = ask.call, !.req = ask.req, !.decision = d]
             skip == [loop[l] EXCEPT !.asks = Tail(@)]
             here == [loop[l] EXCEPT !.asks = Tail(@), !.call = ask.call, !.attempt = 1]
             next == [here EXCEPT !.pc = IF d = "allow" THEN "run" ELSE "deny"]
  <2>1. loop[l].pc = "recoverAsks" /\ (Move(l, skip) \/ Emit(l, event, next))
    BY <1>4 DEF RecoverAsk
  <2>2. /\ DOMAIN event = DOMAIN NoEvent /\ event.type = "permission.resolved"
        /\ skip.pc = "recoverAsks" /\ next.pc \in {"run", "deny"}
    BY <2>1, <1>f DEF InStep, NoEvent
  <2> HIDE DEF event, skip, next
  <2>3. CASE Move(l, skip)
    BY <2>2, <2>3, <1>q DEF Move
  <2>4. CASE Emit(l, event, next)
    BY <2>2, <2>4, EmitAnswer
  <2> QED
    BY <2>1, <2>3, <2>4
<1>5. CASE RecoverCalls(l)
  <2> DEFINE next == [loop[l] EXCEPT !.pc = "recoverCalls", !.via = "calls", !.calls = durable.calls]
  <2>1. next.pc = "recoverCalls" /\ loop' = [loop EXCEPT ![l] = next] /\ UNCHANGED <<log, durable>>
    BY <1>5, <1>f DEF RecoverCalls
  <2> HIDE DEF next
  <2> QED
    BY <2>1, <1>q
<1>6. CASE ReloadAfterCall(l)
  BY <1>6, <1>f, <1>q DEF ReloadAfterCall
<1>7. CASE RecoverCall(l)
  <2> DEFINE c == Head(loop[l].calls).call
             here == [loop[l] EXCEPT !.calls = Tail(@), !.call = c, !.step = view[l].step.id,
                                     !.action = "feed-back"]
             at(pc) == [here EXCEPT !.pc = pc]
             again == [here EXCEPT !.pc = "run", !.attempt = 2]
  <2>1. \/ Move(l, Failed(l)) \/ Move(l, again)
        \/ \E pc \in {"permission", "deny", "feed"} : Move(l, at(pc))
    BY <1>7 DEF RecoverCall
  <2>2. again.pc = "run" /\ \A pc : at(pc).pc = pc
    BY <1>f
  <2> HIDE DEF again, at
  <2>3. CASE Move(l, Failed(l))
    BY <2>3, FailedPoised, QuietFollows DEF Move
  <2>4. CASE Move(l, again)
    BY <2>2, <2>4, <1>q DEF Move
  <2>5. ASSUME NEW pc \in {"permission", "deny", "feed"}, Move(l, at(pc)) PROVE Follows(l)
    BY <2>2, <2>5, <1>q DEF Move
  <2> QED
    BY <2>1, <2>3, <2>4, <2>5
<1>8. CASE RecoverFinish(l)
  <2> DEFINE step == durable.step.id
             next == [loop[l] EXCEPT !.pc = "finish", !.step = step,
                        !.failed = \/ ResultsOf(step) \cap {"denied", "error"} # {}
                                   \/ At("tool.call", step) = {}]
  <2>1. /\ UNCHANGED <<log, durable>>
        /\ loop' = [loop EXCEPT ![l] = Goto(l, "drive")] \/ loop' = [loop EXCEPT ![l] = next]
    BY <1>8 DEF RecoverFinish
  <2>2. next.pc = "finish" /\ Goto(l, "drive").pc = "drive"
    BY <1>f
  <2> HIDE DEF next
  <2> QED
    BY <2>1, <2>2, <1>q
<1> QED
  BY <1>1, <1>2, <1>3, <1>4, <1>5, <1>6, <1>7, <1>8 DEF RecoveryPhase

LEMMA CloseFollows ==
  ASSUME NEW l, Alone(l), Coherent', Living(l), ClosePhase(l)
  PROVE  Follows(l)
<1>f. /\ DOMAIN loop[l] = {"pc", "turn", "step", "batch", "i", "call", "attempt", "via", "failed",
                           "aborted", "outcome", "action", "asks", "calls", "missing"}
      /\ \A pc : Goto(l, pc).pc = pc
      /\ IdleLoop.pc = "idle"
  BY Places DEF Alone
<1>p. PendingInStep
  BY DEF Alone, OneAsk
<1>1. CASE CloseReload(l)
  <2> DEFINE asks  == [loop[l] EXCEPT !.pc = "closeAsks", !.asks = durable.asks]
             calls == [loop[l] EXCEPT !.pc = "closeCalls", !.calls = durable.calls]
  <2>1. asks.pc = "closeAsks" /\ calls.pc = "closeCalls"
    BY <1>f
  <2>2. /\ UNCHANGED <<log, durable>>
        /\ \/ loop' = [loop EXCEPT ![l] = asks] \/ loop' = [loop EXCEPT ![l] = calls]
           \/ \E pc \in {"closeStep", "closeTurn"} : loop' = [loop EXCEPT ![l] = Goto(l, pc)]
    BY <1>1 DEF CloseReload
  <2> HIDE DEF asks, calls
  <2>3. ASSUME NEW next, next.pc \notin {"begin", "compact", "checkpoint"}, loop' = [loop EXCEPT ![l] = next]
        PROVE  Follows(l)
    BY <2>2, <2>3, Unposed, QuietFollows
  <2> QED
    BY <2>1, <2>2, <2>3, <1>f
<1>2. CASE CloseAsk(l)
  <2> DEFINE ask == Head(loop[l].asks)
             event == [NoEvent EXCEPT !.type = "permission.resolved", !.req = ask.req, !.step = ask.step,
                                      !.call = ask.call, !.decision = "deny"]
             next == [loop[l] EXCEPT !.asks = Tail(@)]
  <2>1. DOMAIN event = DOMAIN NoEvent /\ event.type = "permission.resolved"
    BY DEF NoEvent
  <2>2. loop[l].pc = "closeAsks" /\ Emit(l, event, next)
    BY <1>2 DEF CloseAsk
  <2>3. next.pc = "closeAsks"
    BY <2>2, <1>f
  <2> HIDE DEF event, next
  <2> QED
    BY <2>1, <2>2, <2>3, EmitAnswer
<1>3. CASE CloseCall(l)
  <2> DEFINE call == Head(loop[l].calls)
             event == [NoEvent EXCEPT !.type = "tool.result", !.call = call.call, !.step = call.step,
                                      !.outcome = "error"]
             next == [loop[l] EXCEPT !.calls = Tail(@)]
             e == NextEvent(l, event)
  <2>1. DOMAIN event = DOMAIN NoEvent /\ event.type = "tool.result" /\ e.type = "tool.result"
    BY DEF NoEvent, NextEvent
  <2>2. loop[l].pc = "closeCalls" /\ Emit(l, event, next)
    BY <1>3 DEF CloseCall
  <2>3. next.pc = "closeCalls"
    BY <2>2, <1>f
  <2> HIDE DEF event, next
  <2>4. Valid(durable, e) => durable.turn # None
    <3>1. Valid(durable, e) => durable.calls # <<>>
      <4>1. Valid(durable, e) => \E k \in DOMAIN durable.calls : TRUE
        BY <2>1 DEF Valid, ValidToolResult
      <4> QED
        BY <4>1
    <3> QED
      BY <3>1, <1>p DEF PendingInStep
  <2> QED
    BY <2>1, <2>2, <2>3, <2>4, EmitRunning DEF MayWait
<1>4. CASE CloseStep(l)
  <2> DEFINE event == [NoEvent EXCEPT !.type = "step.finished", !.turn = view[l].step.turn,
                                      !.step = view[l].step.id, !.outcome = loop[l].outcome]
             e == NextEvent(l, event)
  <2>1. DOMAIN event = DOMAIN NoEvent /\ event.type = "step.finished" /\ e.type = "step.finished"
    BY DEF NoEvent, NextEvent
  <2>2. loop[l].pc = "closeStep" /\ Emit(l, event, loop[l])
    BY <1>4 DEF CloseStep
  <2> HIDE DEF event
  <2>3. Valid(durable, e) => durable.turn # None
    BY <2>1 DEF Valid, ValidStepFinished, Alone, Concluded, Trail, Settled
  <2> QED
    BY <2>1, <2>2, <2>3, EmitRunning DEF MayWait
<1>5. CASE CloseTurn(l)
  <2> DEFINE event == [NoEvent EXCEPT !.type = "turn.finished", !.turn = view[l].turn,
                                      !.outcome = loop[l].outcome]
             e == NextEvent(l, event)
  <2>1. DOMAIN event = DOMAIN NoEvent /\ event.type = "turn.finished" /\ e.type = "turn.finished"
    BY DEF NoEvent, NextEvent
  <2>2. loop[l].pc = "closeTurn" /\ (Move(l, IdleLoop) \/ Emit(l, event, IdleLoop))
    BY <1>5 DEF CloseTurn
  <2> HIDE DEF event
  <2>3. CASE Move(l, IdleLoop)
    BY <2>3, FailedPoised, QuietFollows DEF Move
  <2>4. Valid(durable, e) => durable.turn # None
    BY <2>1 DEF Valid, ValidTurnFinished
  <2>5. CASE Emit(l, event, IdleLoop)
    BY <2>1, <2>2, <2>4, <2>5, <1>f, EmitRunning DEF MayWait
  <2> QED
    BY <2>2, <2>3, <2>5
<1> QED
  BY <1>1, <1>2, <1>3, <1>4, <1>5 DEF ClosePhase

LEMMA EnvironmentFollows ==
  ASSUME NEW l, Alone(l), Living(l), PortFails(l) \/ Crash(l)
  PROVE  Follows(l)
BY FailedPoised, QuietFollows DEF PortFails, Crash

-----------------------------------------------------------------------------
(* The refinement.                                                         *)

LEMMA InitLiving ==
  ASSUME NEW l \in Loops, Init
  PROVE  Living(l) /\ Lifecycle!Init
<1>1. /\ log = <<>> /\ durable = EmptyState /\ loop[l] = IdleLoop
  BY DEF Init
<1>2. Mode(durable)
  BY <1>1 DEF EmptyState, Mode, Lifecycle!Startable
<1>3. Dated(durable)
  <2>1. Latest(durable, None) /\ durable.turn = None /\ durable.seenTurns = {}
    BY <1>1 DEF EmptyState, Latest
  <2> QED
    BY <2>1 DEF Dated
<1>4. Named(log, durable) /\ Complete(log, durable)
  BY <1>1 DEF EmptyState, Named, Complete
<1>5. Poised(loop[l], durable)
  BY <1>1, FailedPoised
<1>6. Lifecycle!Init
  BY <1>1 DEF EmptyState, Lifecycle!Init
<1> QED
  BY <1>2, <1>3, <1>4, <1>5, <1>6 DEF Living, Lively

LEMMA NextFollows ==
  ASSUME NEW l, Alone(l), Coherent', Living(l), [Next]_vars
  PROVE  Follows(l)
<1>1. CASE UNCHANGED vars
  <2>1. loop' = loop /\ log' = log /\ durable' = durable
    BY <1>1 DEF vars
  <2>2. Lively(log', durable') /\ Poised(loop'[l], durable')
    BY <2>1 DEF Living
  <2>3. UNCHANGED Lifecycle!lifecycle
    BY <2>1 DEF Lifecycle!lifecycle
  <2> QED
    BY <2>2, <2>3 DEF Follows, Living
<1>2. CASE Next
  <2>1. \/ RunTurn(l) \/ ResumeTurn(l) \/ Proceed(l)
        \/ Abort(l) \/ PortFails(l) \/ Crash(l)
    BY <1>2 DEF Next, Alone
  <2> QED
    BY <2>1, DriveFollows, ModelFollows, ToolFollows, FinishFollows, RecoveryFollows, CloseFollows,
       EnvironmentFollows DEF Proceed
<1> QED
  BY <1>1, <1>2

(* Every behaviour of a session one replica runs is one the lifecycle      *)
(* allows, for any calls, batches, turns, budgets, crashes, failed appends *)
(* and lost acknowledgements.                                              *)
THEOREM LogFollowsLifecycle ==
  ASSUME NEW l, Loops = {l}, NoneIsNoStep
  PROVE  Spec => ImplementsLifecycle
<1>1. Init => Alone(l) /\ Living(l) /\ Lifecycle!Init
  BY InitAlone, InitLiving
<1>2. Alone(l) /\ Living(l) /\ [Next]_vars => Alone(l)' /\ Living(l)' /\ [Lifecycle!Next]_(Lifecycle!lifecycle)
  <2> SUFFICES ASSUME Alone(l), Living(l), [Next]_vars
               PROVE  Alone(l)' /\ Living(l)' /\ [Lifecycle!Next]_(Lifecycle!lifecycle)
    OBVIOUS
  <2>1. Alone(l)'
    BY NextAlone
  <2>2. Coherent'
    BY <2>1 DEF Alone
  <2> QED
    BY <2>1, <2>2, NextFollows DEF Follows
<1> QED
  BY <1>1, <1>2, PTL DEF Spec, ImplementsLifecycle, Lifecycle!Spec
=============================================================================
