------------------------------- MODULE Tracing -------------------------------
(***************************************************************************)
(* AgentTraceLifecycle (packages/kernel/src/loop/trace.ts) over the        *)
(* OtlpTracePort (providers/standard/src/trace/otlp.ts): the events a loop *)
(* appended open and end spans, ended spans are queued, and forceFlush and *)
(* shutdown export the queue while the loop goes on.  Attributes, times,   *)
(* metrics (a second queue, flushed after the spans in the same way) and   *)
(* the JSON of the payload are left out.                                   *)
(***************************************************************************)
EXTENDS Integers, Sequences, FiniteSets, SequencesExt

CONSTANTS
  MaxSteps, MaxCalls,     \* bounds: steps of the one turn, tool calls of a step
  MaxLost, MaxCrashes,    \* bounds: lost acknowledgements, restarts
  MaxFails                \* bound: exports that fail

VARIABLES
  turn, step, stage, calls,   \* what the log says: the turn ("new", "open", "closed"), the step, where it is, its pending calls
  turns, steps, models, tools,  \* the spans the four maps of the lifecycle hold
  started,                    \* [span, parent] of the spans startSpan gave out
  ended,                      \* the spans ended, in order
  spans,                      \* #spans, what waits for export
  flushing,                   \* the part of #flush that is awaited: "spans", "metrics", "none"
  batch,                      \* what it took from the queue
  received,                   \* what the collector got, in order
  closed,                     \* #closed
  shutdown,                   \* a call of shutdown: what was ended by then, and whether it joined a flush
  lost, crashes, fails

session == <<turn, step, stage, calls>>
lifecycle == <<turns, steps, models, tools>>
exporter == <<flushing, batch, received, closed, shutdown, fails>>
vars == <<session, lifecycle, started, ended, spans, exporter, lost, crashes>>

TurnSpan == <<"turn", 0>>
StepSpan(s) == <<"step", s>>
ChatSpan(s) == <<"chat", s>>
ToolSpan(c) == <<"tool", c>>
NoParent == <<"none", 0>>
NoCall == [called |-> FALSE, due |-> {}, joined |-> FALSE]

Init ==
  /\ turn = "new" /\ step = 0 /\ stage = "none" /\ calls = {}
  /\ turns = {} /\ steps = {} /\ models = {} /\ tools = {} /\ started = {} /\ ended = <<>>
  /\ spans = <<>> /\ flushing = "none" /\ batch = <<>> /\ received = <<>>
  /\ closed = FALSE /\ shutdown = NoCall /\ lost = 0 /\ crashes = 0 /\ fails = 0

-----------------------------------------------------------------------------
(* What a handler does with the port.  A port that is shut down throws from *)
(* startSpan and recordMetric, and the rest of the handler is skipped; an  *)
(* end is taken all the same, once.                                        *)
Quiet == UNCHANGED <<started, ended, spans>>

Start(span, parent) ==
  IF closed THEN Quiet
  ELSE started' = started \cup {[span |-> span, parent |-> parent]} /\ UNCHANGED <<ended, spans>>

End(finished) == ended' = ended \o finished /\ spans' = spans \o finished

Held(span, holder) == IF span \in holder \ ToSet(ended) THEN <<span>> ELSE <<>>

OnTurnStarted ==
  /\ Start(TurnSpan, NoParent)
  /\ turns' = IF closed THEN turns ELSE turns \cup {TurnSpan}
  /\ UNCHANGED <<steps, models, tools>>

OnStepStarted(s) ==
  /\ Start(StepSpan(s), IF TurnSpan \in turns THEN TurnSpan ELSE NoParent)
  /\ steps' = IF closed THEN steps ELSE steps \cup {StepSpan(s)}
  /\ UNCHANGED <<turns, models, tools>>

Parent(s) == IF StepSpan(s) \in steps THEN StepSpan(s) ELSE NoParent

OnModelRequest(s) ==
  /\ Start(ChatSpan(s), Parent(s))
  /\ models' = IF closed THEN models ELSE models \cup {ChatSpan(s)}
  /\ UNCHANGED <<turns, steps, tools>>

(* #finishModel comes first: the model has answered.                       *)
OnToolCall(s, c) ==
  /\ End(Held(ChatSpan(s), models))
  /\ models' = IF closed THEN models ELSE models \ {ChatSpan(s)}
  /\ started' = IF closed THEN started ELSE started \cup {[span |-> ToolSpan(c), parent |-> Parent(s)]}
  /\ tools' = IF closed THEN tools ELSE tools \cup {ToolSpan(c)}
  /\ UNCHANGED <<turns, steps>>

OnToolResult(c) ==
  /\ End(Held(ToolSpan(c), tools))
  /\ tools' = IF closed THEN tools ELSE tools \ {ToolSpan(c)}
  /\ UNCHANGED <<turns, steps, models, started>>

(* Mutant: the model's span is left to the tool calls.                     *)
OnStepFinishedModelAside(s) ==
  /\ End(IF closed THEN <<>> ELSE Held(StepSpan(s), steps))
  /\ steps' = IF closed THEN steps ELSE steps \ {StepSpan(s)}
  /\ UNCHANGED <<turns, models, tools, started>>

(* #finishModel and #recordUsage, which throw when the port is closed, then *)
(* the step's span.                                                        *)
OnStepFinished(s) ==
  /\ End(Held(ChatSpan(s), models) \o (IF closed THEN <<>> ELSE Held(StepSpan(s), steps)))
  /\ models' = IF closed THEN models ELSE models \ {ChatSpan(s)}
  /\ steps' = IF closed THEN steps ELSE steps \ {StepSpan(s)}
  /\ UNCHANGED <<turns, tools, started>>

OnTurnFinished ==
  /\ End(Held(TurnSpan, turns))
  /\ turns' = IF closed THEN turns ELSE turns \ {TurnSpan}
  /\ UNCHANGED <<steps, models, tools, started>>

(* observe is called once the event is persisted; an append whose          *)
(* acknowledgement is lost is not observed.                                *)
Unobserved == lost < MaxLost /\ lost' = lost + 1 /\ Quiet /\ UNCHANGED lifecycle
Observed(handled) == (handled /\ UNCHANGED lost) \/ Unobserved

-----------------------------------------------------------------------------
(* The events of a session, in the order any run, recovery or closing of a *)
(* turn appends them.                                                      *)
Events == UNCHANGED <<exporter, crashes>>

TurnStarted ==
  /\ turn = "new" /\ turn' = "open" /\ Observed(OnTurnStarted)
  /\ UNCHANGED <<step, stage, calls>> /\ Events

StepStarted ==
  /\ turn = "open" /\ stage = "none" /\ step < MaxSteps
  /\ step' = step + 1 /\ stage' = "begun" /\ Observed(OnStepStarted(step + 1))
  /\ UNCHANGED <<turn, calls>> /\ Events

ModelRequested ==
  /\ stage = "begun" /\ stage' = "asked" /\ Observed(OnModelRequest(step))
  /\ UNCHANGED <<turn, step, calls>> /\ Events

CallId(n) == <<step, n>>   \* call ids are unique in a session

ToolCalled ==
  /\ stage = "asked" /\ Cardinality(calls) < MaxCalls
  /\ LET c == CallId(Cardinality(calls) + 1) IN calls' = calls \cup {c} /\ Observed(OnToolCall(step, c))
  /\ UNCHANGED <<turn, step, stage>> /\ Events

ToolAnswered(c) ==
  /\ c \in calls /\ stage' = "answered" /\ calls' = calls \ {c} /\ Observed(OnToolResult(c))
  /\ UNCHANGED <<turn, step>> /\ Events

StepFinished ==
  /\ stage # "none" /\ calls = {} /\ stage' = "none" /\ Observed(OnStepFinished(step))
  /\ UNCHANGED <<turn, step, calls>> /\ Events

TurnFinished ==
  /\ turn = "open" /\ stage = "none" /\ turn' = "closed" /\ Observed(OnTurnFinished)
  /\ UNCHANGED <<step, stage, calls>> /\ Events

(* The process dies; another one goes on with the turn, and with new maps. *)
Crash ==
  /\ crashes < MaxCrashes /\ crashes' = crashes + 1
  /\ turns' = {} /\ steps' = {} /\ models' = {} /\ tools' = {} /\ started' = {} /\ ended' = <<>>
  /\ spans' = <<>> /\ flushing' = "none" /\ batch' = <<>> /\ received' = <<>>
  /\ closed' = FALSE /\ shutdown' = NoCall
  /\ UNCHANGED <<session, lost, fails>>

-----------------------------------------------------------------------------
Exporting == UNCHANGED <<session, lifecycle, started, ended, lost, crashes>>

(* #flush takes all the spans, then, when they are exported, the metrics.  *)
TakeSpans == flushing' = "spans" /\ batch' = spans /\ spans' = <<>>

(* forceFlush, of an open port; while a flush is going on it is the same.  *)
ForceFlush ==
  /\ ~closed /\ flushing = "none" /\ TakeSpans
  /\ UNCHANGED <<received, closed, shutdown, fails>> /\ Exporting

(* shutdown: a flush, or the one that is going on, and then the port is    *)
(* closed.  Another call meanwhile waits for the same flush and, like one  *)
(* of a closed port, changes nothing.                                      *)
Shutdown ==
  /\ ~closed /\ ~shutdown.called
  /\ shutdown' = [called |-> TRUE, due |-> ToSet(ended), joined |-> flushing # "none"]
  /\ IF flushing = "none" THEN TakeSpans ELSE UNCHANGED <<flushing, batch, spans>>
  /\ UNCHANGED <<received, closed, fails>> /\ Exporting

SpansExported ==
  /\ flushing = "spans" /\ received' = received \o batch
  /\ flushing' = "metrics" /\ batch' = <<>>
  /\ UNCHANGED <<spans, closed, shutdown, fails>> /\ Exporting

(* What was not exported goes back to the head of the queue, and who waits *)
(* for the flush, shutdown too, is told; the collector may have it.        *)
Failing == flushing # "none" /\ fails < MaxFails /\ fails' = fails + 1

(* Mutant: the batch goes behind what came later.                          *)
ExportFailsBehind ==
  /\ Failing /\ spans' = spans \o batch /\ received' \in {received, received \o batch}
  /\ flushing' = "none" /\ batch' = <<>> /\ shutdown' = NoCall
  /\ UNCHANGED closed /\ Exporting

ExportFails ==
  /\ Failing /\ spans' = batch \o spans /\ received' \in {received, received \o batch}
  /\ flushing' = "none" /\ batch' = <<>> /\ shutdown' = NoCall
  /\ UNCHANGED closed /\ Exporting

MetricsExported ==
  /\ flushing = "metrics" /\ flushing' = "none"
  /\ closed' = shutdown.called
  /\ UNCHANGED <<spans, batch, received, shutdown, fails>> /\ Exporting

Next ==
  \/ TurnStarted \/ StepStarted \/ ModelRequested \/ ToolCalled \/ StepFinished \/ TurnFinished \/ Crash
  \/ \E c \in calls : ToolAnswered(c)
  \/ ForceFlush \/ Shutdown \/ SpansExported \/ ExportFails \/ MetricsExported
  \/ turn = "closed" /\ UNCHANGED vars

Spec == Init /\ [][Next]_vars

-----------------------------------------------------------------------------
Before(a, b) == \E i, j \in DOMAIN ended : i < j /\ ended[i] = a /\ ended[j] = b

(* Every span is ended before the span it is part of, and none is open     *)
(* after the turn, however the turn was interrupted and closed, as long as *)
(* all events were observed and the port was open.                         *)
SpansNest == lost = 0 /\ ~closed =>
  /\ \A s \in started : s.parent \in ToSet(ended) => Before(s.span, s.parent)
  /\ turn = "closed" => {s.span : s \in started} = ToSet(ended)

(* Spans that ended wait, are under way or have arrived; they arrive in    *)
(* the order they ended in, and twice only if an export that failed had    *)
(* arrived.  A shutdown has exported what had ended when it was called,    *)
(* unless it joined a flush that was going on.                             *)
EndedAreKept ==
  /\ ToSet(ended) = ToSet(received) \cup ToSet(batch) \cup ToSet(spans)
  /\ fails = 0 => ended = received \o batch \o spans
  /\ \A i, j \in DOMAIN (batch \o spans) : i < j => Before((batch \o spans)[i], (batch \o spans)[j])
  /\ closed /\ ~shutdown.joined => shutdown.due \subseteq ToSet(received)
=============================================================================
