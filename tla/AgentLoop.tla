------------------------------ MODULE AgentLoop ------------------------------
(***************************************************************************)
(* The event-sourced agent loop of packages/kernel/src/loop: runTurn and   *)
(* resumeTurn with everything they call (step execution, the tool batch,   *)
(* approval, retry, recovery of an interrupted step, closing after a       *)
(* failure), run by one or more replicas over one shared event log.        *)
(*                                                                         *)
(* Between two awaits a replica runs alone, so an action is the code from  *)
(* one await that touches the log or the outside world to the next.  A     *)
(* replica knows the session only through view, its `#state', which it     *)
(* refreshes by `#reloadState' and advances by `#emit'.                    *)
(*                                                                         *)
(* Abstracted: text deltas and the strict-prefix retry mode, prompts, tool *)
(* arguments, usage and cost, and middleware that rewrites payloads.       *)
(***************************************************************************)
EXTENDS SessionState, FiniteSetsExt

CONSTANTS
  Loops,             \* AgentLoop instances sharing the event log
  CallIds,           \* the call identifiers a model may choose
  Registered,        \* the calls whose tool is in the registry
  MaxBatch,          \* bound: tool calls in one model response
  MaxSteps,          \* the stop strategy's maxSteps
  ModelAttempts,     \* retry budget for operation "model"
  ToolAttempts,      \* retry budget for operation "tool"
  ToolExhausted,     \* what the tool budget ends in: "feed-back" or "fail-turn"
  RecoveryAttempts,  \* retry budget for operation "recovery"
  Maintenance,       \* the maintenance events the strategies may decide to emit
  MaxTurns,          \* bound: turns ever started
  MaxLog,            \* bound: the log length at which no resumption starts any more
  MaxFaults          \* bound: crashes, port failures and append failures

ASSUME LoopAssumption ==
  /\ MaxSteps \in Nat \ {0} /\ ToolAttempts \in Nat \ {0}
  /\ ModelAttempts \in Nat \ {0} /\ RecoveryAttempts \in Nat \ {0}
  /\ MaxBatch \in Nat /\ MaxTurns \in Nat /\ MaxLog \in Nat /\ MaxFaults \in Nat
  /\ Registered \subseteq CallIds
  /\ ToolExhausted \in {"feed-back", "fail-turn"}
  /\ Maintenance \subseteq {"compaction.applied", "checkpoint.created"}
  /\ None \notin CallIds \cup Int \cup Decisions

VARIABLES
  log,        \* the durable event log
  durable,    \* what replaying the log returns, the answer to a reload
  view,       \* view[l]: the state replica l holds in memory
  loop,       \* loop[l]: where replica l is in runTurn or resumeTurn
  runs,       \* runs[c]: how often tool.execute was entered for call c
  ranBefore,  \* history: the calls run before the current operation began
  fedBack,    \* history: the calls this operation decided to feed back
  faults      \* faults injected so far

vars == <<log, durable, view, loop, runs, ranBefore, fedBack, faults>>

-----------------------------------------------------------------------------
(* What the loop reads from the log, as sets of positions in it.           *)

At(type, step) == {i \in DOMAIN log : log[i].type = type /\ log[i].step = step}

(* The deltas of a step that no discard event covers.                      *)
ActiveDeltas(step) ==
  {i \in At("model.delta", step) :
     \A d \in At("model.attempt.discarded", step) :
        log[i].seq < log[d].from \/ log[d].to < log[i].seq}

CallsAt(positions) == {log[i].call : i \in positions}

ResultsOf(step) == {log[i].outcome : i \in At("tool.result", step)}

FinishedSteps(turn) ==
  {i \in DOMAIN log : log[i].type = "step.finished" /\ log[i].turn = turn}

(* #readTurnProgress: how the last finished step went.  "failed" is a      *)
(* result the tool returned, "error" one that carries an error.            *)
LastOutcome(finished) ==
  IF finished.outcome = "succeeded" THEN "completed"
  ELSE IF "denied" \in ResultsOf(finished.step) THEN "permission-denied"
  ELSE IF ResultsOf(finished.step) \cap {"failed", "error"} # {} THEN "tool-error"
  ELSE "model-error"

(* Mutant: the stop strategy forgets that tool results want an answer.     *)
StopReasonForgetsTools(turn) ==
  LET finished == FinishedSteps(turn)
  IN  IF finished = {} THEN None ELSE LastOutcome(log[Max(finished)])

(* MaxStepsStopStrategy over that progress: why to stop, None to go on.    *)
StopReason(turn) ==
  LET finished == FinishedSteps(turn)
      last     == log[Max(finished)]
  IN  IF finished = {} THEN None
      ELSE IF LastOutcome(last) # "completed" THEN LastOutcome(last)
      ELSE IF Cardinality(finished) >= MaxSteps THEN "max-steps"
      ELSE IF At("tool.call", last.step) = {} THEN "completed"
      ELSE None

FailureStopReasons == {"model-error", "tool-error", "permission-denied"}

ASSUME AbsentAssumption == None \notin Outcomes \cup FailureStopReasons

(* Mutant: the strategy's reason is persisted as it is.                    *)
UnmappedReason(reason) == reason

PersistedReason(reason) == IF reason \in FailureStopReasons THEN "failed" ELSE reason

-----------------------------------------------------------------------------
(* Where a replica is.  batch is the model's response and i the place in   *)
(* it, call the call in hand, via the walk that runs tools ("batch" live,  *)
(* "asks" or "calls" while recovering), action what follows a recorded     *)
(* failure; asks, calls and missing are the snapshots that recovery and    *)
(* closing walk.                                                           *)
IdleLoop ==
  [pc |-> "idle", turn |-> None, step |-> None, batch |-> <<>>, i |-> 1,
   call |-> None, attempt |-> 1, via |-> "batch", failed |-> FALSE,
   aborted |-> FALSE, outcome |-> None, action |-> "feed-back", asks |-> <<>>, calls |-> <<>>, missing |-> {}]

Pcs == {"idle", "begin", "drive", "model", "discard", "stream", "intents", "permission",
        "ask", "deny", "run", "record", "feed", "finish", "compact", "checkpoint",
        "recover", "reconcile", "recoverAsks", "reload", "recoverCalls",
        "closing", "closeAsks", "closeCalls", "closeStep", "closeTurn"}

Closing == {"closing", "closeAsks", "closeCalls", "closeStep", "closeTurn"}

(* The catch block of runTurn and resumeTurn: closeAfterFailure starts     *)
(* with the abort flag it read; a failure inside it is swallowed and the   *)
(* original error leaves the operation.                                    *)
Failed(l) ==
  IF loop[l].pc \in Closing
  THEN IdleLoop
  ELSE [IdleLoop EXCEPT !.pc = "closing",
                        !.outcome = IF loop[l].aborted THEN "aborted" ELSE "failed"]

Goto(l, pc) == [loop[l] EXCEPT !.pc = pc]

Move(l, next) ==
  /\ loop' = [loop EXCEPT ![l] = next]
  /\ UNCHANGED <<log, durable, view, runs, ranBefore, fedBack, faults>>

(* Mutant: a refresh that moves the head and keeps the rest of the state.  *)
ReloadHead(l) == view' = [view EXCEPT ![l].lastSeq = durable.lastSeq]

(* #reloadState: replay the whole log.                                     *)
Reload(l) == view' = [view EXCEPT ![l] = durable]

(* Mutant: a store that appends without comparing.                         *)
AppendAnything(l, e) == TRUE

(* EventLog.append's precondition: the caller's expectedLastSeq is the     *)
(* head, and the event's seq is beyond it.                                 *)
AppendAccepted(l, e) == view[l].lastSeq = durable.lastSeq /\ e.seq > durable.lastSeq

Persist(e) == log' = Append(log, e) /\ durable' = Apply(durable, e)

NextEvent(l, e) == [e EXCEPT !.seq = view[l].lastSeq + 1]

(* #emit: number the event after the view's head, validate it against the  *)
(* view, append it under compare-and-swap, then advance the view.  Besides *)
(* rejection, an append may fail and write nothing, event middleware may   *)
(* throw after the append, and an adapter may lose the acknowledgement of  *)
(* an append that did commit: then the view is left behind.                *)
Emit(l, event, next) ==
  LET e  == NextEvent(l, event)
      ok == Valid(view[l], e) /\ AppendAccepted(l, e)
  IN
  /\ UNCHANGED <<runs, ranBefore, fedBack>>
  /\ \/ /\ ok /\ Persist(e)
        /\ view' = [view EXCEPT ![l] = Apply(@, e)]
        /\ \/ loop' = [loop EXCEPT ![l] = next] /\ UNCHANGED faults
           \/ /\ faults < MaxFaults /\ faults' = faults + 1
              /\ loop' = [loop EXCEPT ![l] = Failed(l)]
     \/ /\ ok /\ Persist(e) /\ UNCHANGED view
        /\ faults < MaxFaults /\ faults' = faults + 1
        /\ loop' = [loop EXCEPT ![l] = Failed(l)]
     \/ /\ loop' = [loop EXCEPT ![l] = Failed(l)]
        /\ UNCHANGED <<log, durable, view>>
        /\ IF ok THEN faults < MaxFaults /\ faults' = faults + 1 ELSE UNCHANGED faults

InStep(l, type) == [NoEvent EXCEPT !.type = type, !.step = loop[l].step]
ForCall(l, type) == [InStep(l, type) EXCEPT !.call = loop[l].call]
ForRequest(l, type) == [ForCall(l, type) EXCEPT !.req = loop[l].call]

-----------------------------------------------------------------------------
(* runTurn, resumeTurn, #driveTurn.                                        *)

NewOperation == ranBefore' = {c \in CallIds : runs[c] > 0} /\ fedBack' = {}

(* runTurn after #prepare; a turn left open rejects the call.              *)
RunTurn(l) ==
  /\ loop[l].pc = "idle" /\ Cardinality(durable.seenTurns) < MaxTurns
  /\ durable.turn = None
  /\ Reload(l) /\ NewOperation
  /\ loop' = [loop EXCEPT ![l] = [IdleLoop EXCEPT !.pc = "begin", !.turn = durable.lastSeq + 1]]
  /\ UNCHANGED <<log, durable, runs, faults>>

BeginTurn(l) ==
  /\ loop[l].pc = "begin"
  /\ Emit(l, [NoEvent EXCEPT !.type = "turn.started", !.turn = loop[l].turn], Goto(l, "drive"))

ResumeTurn(l) ==
  /\ loop[l].pc = "idle" /\ Len(log) < MaxLog
  /\ durable.turn # None
  /\ Reload(l) /\ NewOperation
  /\ loop' = [loop EXCEPT ![l] = [IdleLoop EXCEPT !.pc = "recover", !.turn = durable.turn]]
  /\ UNCHANGED <<log, durable, runs, faults>>

Abort(l) ==
  /\ loop[l].pc \notin Closing \cup {"idle"} /\ ~loop[l].aborted
  /\ Move(l, [loop[l] EXCEPT !.aborted = TRUE])

DriveAborted(l) == loop[l].pc = "drive" /\ loop[l].aborted /\ Move(l, Failed(l))

FinishTurn(l) ==
  /\ loop[l].pc = "drive" /\ ~loop[l].aborted
  /\ StopReason(loop[l].turn) # None
  /\ Emit(l, [NoEvent EXCEPT !.type = "turn.finished", !.turn = loop[l].turn,
                             !.outcome = PersistedReason(StopReason(loop[l].turn))], IdleLoop)

(* runStep: the step's index follows the last one the view knows.          *)
StartStep(l) ==
  LET index == (IF view[l].turn = None THEN 0 ELSE view[l].lastStep) + 1
      step  == <<loop[l].turn, index>>
  IN
  /\ loop[l].pc = "drive" /\ ~loop[l].aborted
  /\ StopReason(loop[l].turn) = None
  /\ Emit(l, [NoEvent EXCEPT !.type = "step.started", !.turn = loop[l].turn,
                             !.step = step, !.index = index],
          [loop[l] EXCEPT !.pc = "model", !.step = step, !.batch = <<>>, !.attempt = 1,
                          !.via = "batch", !.failed = FALSE])

-----------------------------------------------------------------------------
(* callModel.                                                              *)

RequestModel(l) ==
  /\ loop[l].pc = "model"
  /\ Emit(l, InStep(l, "model.request"), Goto(l, "stream"))

(* ModelDeltaJournal.discard: one event covers every active delta.         *)
DiscardDeltas(l) ==
  LET active == ActiveDeltas(loop[l].step)
      fresh  == [loop[l] EXCEPT !.pc = "stream", !.batch = <<>>]
  IN
  /\ loop[l].pc = "discard"
  /\ \/ active = {} /\ Move(l, fresh)
     \/ \E first, last \in active :
          /\ \A i \in active : first <= i /\ i <= last
          /\ Emit(l, [InStep(l, "model.attempt.discarded") EXCEPT
                        !.from = log[first].seq, !.to = log[last].seq], fresh)

StreamCall(l, c) ==
  /\ loop[l].pc = "stream" /\ Len(loop[l].batch) < MaxBatch
  /\ Emit(l, [InStep(l, "model.delta") EXCEPT !.call = c],
          [loop[l] EXCEPT !.batch = Append(@, c)])

StreamEnd(l) ==
  /\ loop[l].pc = "stream"
  /\ Move(l, [loop[l] EXCEPT !.i = 1, !.pc = IF loop[l].batch = <<>> THEN "finish" ELSE "intents"])

(* The port fails before the stream's end: a retryable failure is retried  *)
(* within the budget after discarding what was recorded, unless aborted;   *)
(* any other is thrown.                                                    *)
StreamFail(l) ==
  /\ loop[l].pc = "stream"
  /\ \/ Move(l, Failed(l))
     \/ /\ ~loop[l].aborted /\ loop[l].attempt < ModelAttempts
        /\ Move(l, [loop[l] EXCEPT !.pc = "discard", !.attempt = @ + 1])

-----------------------------------------------------------------------------
(* The tool batch: every intent is recorded before the first tool runs.    *)

(* Mutant: each call runs as soon as its own intent is recorded.           *)
RecordIntentAndGo(l) ==
  /\ loop[l].pc = "intents"
  /\ Emit(l, [InStep(l, "tool.call") EXCEPT !.call = loop[l].batch[1]],
          [loop[l] EXCEPT !.pc = "permission", !.call = loop[l].batch[1]])

RecordIntent(l) ==
  /\ loop[l].pc = "intents" /\ loop[l].i \in DOMAIN loop[l].batch
  /\ LET i == loop[l].i
         more == i < Len(loop[l].batch)
     IN Emit(l, [InStep(l, "tool.call") EXCEPT !.call = loop[l].batch[i]],
             IF more THEN [loop[l] EXCEPT !.i = i + 1]
             ELSE [loop[l] EXCEPT !.pc = "permission", !.i = 1, !.call = loop[l].batch[1]])

(* Back from one call to the loop that asked for it.                       *)
NextCall(l, failed) ==
  LET i == loop[l].i
  IN  CASE loop[l].via = "asks"  -> [loop[l] EXCEPT !.pc = "recoverAsks"]
        [] loop[l].via = "calls" -> [loop[l] EXCEPT !.pc = "reload"]
        [] OTHER ->
             IF i < Len(loop[l].batch)
             THEN [loop[l] EXCEPT !.pc = "permission", !.i = i + 1, !.call = loop[l].batch[i + 1],
                                  !.failed = @ \/ failed]
             ELSE [loop[l] EXCEPT !.pc = "finish", !.failed = @ \/ failed]

ToolResult(l, outcome) == [ForCall(l, "tool.result") EXCEPT !.outcome = outcome]

(* executeRecordedToolCall for an unregistered tool.                       *)
RejectUnregistered(l) ==
  /\ loop[l].pc = "permission" /\ loop[l].call \notin Registered
  /\ Emit(l, ToolResult(l, "error"), NextCall(l, TRUE))

RequestPermission(l) ==
  /\ loop[l].pc = "permission" /\ loop[l].call \in Registered
  /\ Emit(l, ForRequest(l, "permission.requested"), Goto(l, "ask"))

(* The decision acted on is the persisted one.                             *)
ResolvePermission(l, decision) ==
  /\ loop[l].pc = "ask"
  /\ Emit(l, [ForRequest(l, "permission.resolved") EXCEPT !.decision = decision],
          [loop[l] EXCEPT !.pc = IF decision = "allow" THEN "run" ELSE "deny", !.attempt = 1])

(* Mutant: a denial does not mark the step as failed.                      *)
RecordDenialQuietly(l) ==
  loop[l].pc = "deny" /\ Emit(l, ToolResult(l, "denied"), NextCall(l, FALSE))

RecordDenial(l) ==
  loop[l].pc = "deny" /\ Emit(l, ToolResult(l, "denied"), NextCall(l, TRUE))

(* tool.execute, the side effect, with the tool middleware around it.  It  *)
(* returns a result, throws, or breaks the tool contract.  A throw is retried within the *)
(* budget; an abort or an exhausted budget leads to a failure result.      *)
RunTool(l) ==
  LET c == loop[l].call
      retried == loop[l].attempt < ToolAttempts
  IN
  /\ loop[l].pc = "run"
  /\ runs' = [runs EXCEPT ![c] = @ + 1]
  /\ \/ /\ \E outcome \in {"succeeded", "failed"} :
             loop' = [loop EXCEPT ![l] = [loop[l] EXCEPT !.pc = "record", !.outcome = outcome]]
        /\ UNCHANGED fedBack
     \/ /\ ~loop[l].aborted /\ retried
        /\ loop' = [loop EXCEPT ![l].attempt = @ + 1] /\ UNCHANGED fedBack
     \/ /\ loop[l].aborted \/ ~retried
        /\ LET action == IF loop[l].aborted THEN "fail-turn" ELSE ToolExhausted
           IN  /\ loop' = [loop EXCEPT ![l] = [loop[l] EXCEPT !.pc = "feed", !.action = action]]
               /\ fedBack' = IF action = "feed-back" THEN fedBack \cup {c} ELSE fedBack
     \/ loop' = [loop EXCEPT ![l] = Failed(l)] /\ UNCHANGED fedBack
  /\ UNCHANGED <<log, durable, view, ranBefore, faults>>

(* Mutant: a failure the tool returned is retried after it was recorded.   *)
RecordResultAndRetry(l) ==
  /\ loop[l].pc = "record"
  /\ Emit(l, ToolResult(l, loop[l].outcome),
          IF loop[l].outcome = "failed" THEN Goto(l, "run") ELSE NextCall(l, FALSE))

RecordResult(l) ==
  loop[l].pc = "record" /\ Emit(l, ToolResult(l, loop[l].outcome), NextCall(l, FALSE))

(* emitToolFailure, then the retry action: feed back and go on, or throw.  *)
RecordFailure(l) ==
  /\ loop[l].pc = "feed"
  /\ Emit(l, ToolResult(l, "error"),
          IF loop[l].action = "feed-back" THEN NextCall(l, FALSE) ELSE Failed(l))

(* The end of a step, live and recovered.  A recovered step without tool   *)
(* calls is followed by no maintenance.                                    *)
FinishStep(l) ==
  /\ loop[l].pc = "finish"
  /\ Emit(l, [InStep(l, "step.finished") EXCEPT !.turn = loop[l].step[1],
                !.outcome = IF loop[l].failed THEN "failed" ELSE "succeeded"],
          Goto(l, IF loop[l].via = "calls" /\ At("tool.call", loop[l].step) = {}
                  THEN "drive" ELSE "compact"))

MaintenanceTypes == [compact |-> "compaction.applied", checkpoint |-> "checkpoint.created"]

Maintain(l) ==
  /\ loop[l].pc \in {"compact", "checkpoint"}
  /\ LET next == Goto(l, IF loop[l].pc = "compact" THEN "checkpoint" ELSE "drive")
         type == MaintenanceTypes[loop[l].pc]
     IN \/ Move(l, next)
        \/ type \in Maintenance /\ Emit(l, [NoEvent EXCEPT !.type = type], next)

-----------------------------------------------------------------------------
(* recoverActiveStep.                                                      *)

(* The intents a crash left unrecorded: the active tool deltas that have   *)
(* no tool.call, and those that repeat the call id of an earlier one.      *)
Repeats(i, deltas) == \E k \in deltas : k < i /\ log[k].call = log[i].call

MissingIntents(step) ==
  LET deltas == ActiveDeltas(step)
  IN  {i \in deltas : log[i].call \notin CallsAt(At("tool.call", step)) \/ Repeats(i, deltas)}

(* Mutant: recovery restarts the model whatever the step recorded.         *)
RecoverFromModel(l) ==
  /\ loop[l].pc = "recover"
  /\ Reload(l)
  /\ loop' = [loop EXCEPT ![l] =
       IF durable.turn = None \/ durable.step = None THEN Goto(l, "drive")
       ELSE [loop[l] EXCEPT !.step = durable.step.id, !.pc = "discard"]]
  /\ UNCHANGED <<log, durable, runs, ranBefore, fedBack, faults>>

(* No active step: nothing to recover.  No intent recorded: the model      *)
(* phase is restarted from the recorded request, if there is one.  Else    *)
(* the batch is reconciled.                                                *)
Recover(l) ==
  LET step == durable.step.id
      here == [loop[l] EXCEPT !.step = step]
  IN
  /\ loop[l].pc = "recover"
  /\ Reload(l)
  /\ loop' = [loop EXCEPT ![l] =
       IF durable.turn = None \/ durable.step = None THEN Goto(l, "drive")
       ELSE IF At("tool.call", step) # {}
       THEN [here EXCEPT !.pc = "reconcile", !.missing = MissingIntents(step)]
       ELSE [here EXCEPT !.pc = IF At("model.request", step) # {} THEN "discard" ELSE "model"]]
  /\ UNCHANGED <<log, durable, runs, ranBefore, fedBack, faults>>

(* reconcilePersistedToolBatch, in delta order; a repeated id throws.      *)
ReconcileIntent(l) ==
  /\ loop[l].pc = "reconcile"
  /\ \E i \in loop[l].missing \cap DOMAIN log :
       /\ \A k \in loop[l].missing : i <= k
       /\ IF Repeats(i, ActiveDeltas(loop[l].step))
          THEN Move(l, Failed(l))
          ELSE Emit(l, [InStep(l, "tool.call") EXCEPT !.call = log[i].call],
                    [loop[l] EXCEPT !.missing = @ \ {i}])

(* Reload, then walk a snapshot of the pending permissions.                *)
RecoverAsks(l) ==
  /\ loop[l].pc = "reconcile" /\ loop[l].missing = {}
  /\ Reload(l)
  /\ loop' = [loop EXCEPT ![l] = [loop[l] EXCEPT !.pc = "recoverAsks", !.via = "asks",
                                                 !.asks = durable.asks]]
  /\ UNCHANGED <<log, durable, runs, ranBefore, fedBack, faults>>

(* Mutant: a permission found pending counts as granted.                   *)
RecoverAskGranted(l, decision) ==
  /\ loop[l].pc = "recoverAsks" /\ loop[l].asks # <<>> /\ decision = "allow"
  /\ Move(l, [loop[l] EXCEPT !.asks = Tail(@), !.call = Head(loop[l].asks).call, !.pc = "run"])

(* A permission whose call is no longer pending is skipped; one for an     *)
(* unregistered tool is denied; the policy is asked again about the rest.  *)
RecoverAsk(l, decision) ==
  LET ask  == Head(loop[l].asks)
      here == [loop[l] EXCEPT !.asks = Tail(@), !.call = ask.call, !.attempt = 1]
  IN
  /\ loop[l].pc = "recoverAsks" /\ loop[l].asks # <<>>
  /\ IF ~PendingCall(view[l], ask.call)
     THEN Move(l, [loop[l] EXCEPT !.asks = Tail(@)])
     ELSE /\ ask.call \in Registered \/ decision = "deny"
          /\ Emit(l, [InStep(l, "permission.resolved") EXCEPT
                        !.call = ask.call, !.req = ask.req, !.decision = decision],
                  [here EXCEPT !.pc = IF decision = "allow" THEN "run" ELSE "deny"])

(* Reload, then walk a snapshot of the pending calls.                      *)
RecoverCalls(l) ==
  /\ loop[l].pc = "recoverAsks" /\ loop[l].asks = <<>>
  /\ Reload(l)
  /\ loop' = [loop EXCEPT ![l] = [loop[l] EXCEPT !.pc = "recoverCalls", !.via = "calls",
                                                 !.calls = durable.calls]]
  /\ UNCHANGED <<log, durable, runs, ranBefore, fedBack, faults>>

(* After each recovered call the state is reloaded.                        *)
ReloadAfterCall(l) ==
  /\ loop[l].pc = "reload"
  /\ Reload(l)
  /\ loop' = [loop EXCEPT ![l] = Goto(l, "recoverCalls")]
  /\ UNCHANGED <<log, durable, runs, ranBefore, fedBack, faults>>

(* Mutant: recovery runs an allowed call again without asking the budget.  *)
RecoverCallAgain(l) ==
  LET c == Head(loop[l].calls).call
  IN
  /\ loop[l].pc = "recoverCalls" /\ loop[l].calls # <<>>
  /\ Answer(view[l], c) = "allow"
  /\ Move(l, [loop[l] EXCEPT !.calls = Tail(@), !.call = c, !.step = view[l].step.id,
                             !.pc = "run", !.attempt = 2])

(* recoverPendingToolCall: unregistered, never answered, denied, or        *)
(* allowed with its outcome unknown, which the retry strategy decides.     *)
RecoverCall(l) ==
  LET c      == Head(loop[l].calls).call
      here   == [loop[l] EXCEPT !.calls = Tail(@), !.call = c, !.step = view[l].step.id,
                                !.action = "feed-back"]
      answer == IF c \in Registered THEN Answer(view[l], c) ELSE "unregistered"
  IN
  /\ loop[l].pc = "recoverCalls" /\ loop[l].calls # <<>>
  /\ \/ /\ view[l].turn = None \/ view[l].step = None
        /\ Move(l, Failed(l))
     \/ /\ view[l].turn # None /\ view[l].step # None
        /\ \/ answer = "unregistered" /\ Move(l, [here EXCEPT !.pc = "feed"])
           \/ answer = None /\ Move(l, [here EXCEPT !.pc = "permission"])
           \/ answer = "deny" /\ Move(l, [here EXCEPT !.pc = "deny"])
           \/ /\ answer = "allow"
              /\ IF RecoveryAttempts > 1
                 THEN Move(l, [here EXCEPT !.pc = "run", !.attempt = 2])
                 ELSE Move(l, [here EXCEPT !.pc = "feed"])

(* All calls have results: the step's outcome is read off the log.         *)
RecoverFinish(l) ==
  LET step == durable.step.id
  IN
  /\ loop[l].pc = "recoverCalls" /\ loop[l].calls = <<>>
  /\ Reload(l)
  /\ loop' = [loop EXCEPT ![l] =
       IF durable.step = None THEN Goto(l, "drive")
       ELSE [loop[l] EXCEPT !.pc = "finish", !.step = step,
               !.failed = \/ ResultsOf(step) \cap {"denied", "error"} # {}
                          \/ At("tool.call", step) = {}]]
  /\ UNCHANGED <<log, durable, runs, ranBefore, fedBack, faults>>

-----------------------------------------------------------------------------
(* closeAfterFailure: four passes, each over a fresh reload.               *)

(* Mutant: closing resolves the calls before the permissions.              *)
CloseCallsFirst(l) ==
  /\ loop[l].pc = "closing" /\ Reload(l)
  /\ loop' = [loop EXCEPT ![l] = [loop[l] EXCEPT !.pc = "closeCalls", !.calls = durable.calls]]
  /\ UNCHANGED <<log, durable, runs, ranBefore, fedBack, faults>>

(* Mutant: every pass of closing starts over from the first.               *)
CloseFromTheStart(l) ==
  /\ loop[l].pc \in {"closing", "closeAsks"}
  /\ loop[l].asks = <<>>
  /\ Reload(l)
  /\ loop' = [loop EXCEPT ![l] = IF loop[l].pc = "closing"
                                 THEN [loop[l] EXCEPT !.pc = "closeAsks", !.asks = durable.asks]
                                 ELSE Goto(l, "closing")]
  /\ UNCHANGED <<log, durable, runs, ranBefore, fedBack, faults>>

CloseReload(l) ==
  /\ \/ loop[l].pc = "closing"
     \/ loop[l].pc = "closeAsks" /\ loop[l].asks = <<>>
     \/ loop[l].pc = "closeCalls" /\ loop[l].calls = <<>>
     \/ loop[l].pc = "closeStep" /\ view[l].step = None
  /\ Reload(l)
  /\ loop' = [loop EXCEPT ![l] =
       CASE loop[l].pc = "closing"    -> [loop[l] EXCEPT !.pc = "closeAsks", !.asks = durable.asks]
         [] loop[l].pc = "closeAsks"  -> [loop[l] EXCEPT !.pc = "closeCalls", !.calls = durable.calls]
         [] loop[l].pc = "closeCalls" -> Goto(l, "closeStep")
         [] OTHER                     -> Goto(l, "closeTurn")]
  /\ UNCHANGED <<log, durable, runs, ranBefore, fedBack, faults>>

CloseAsk(l) ==
  LET ask == Head(loop[l].asks)
  IN
  /\ loop[l].pc = "closeAsks" /\ loop[l].asks # <<>>
  /\ Emit(l, [NoEvent EXCEPT !.type = "permission.resolved", !.req = ask.req, !.step = ask.step,
                             !.call = ask.call, !.decision = "deny"],
          [loop[l] EXCEPT !.asks = Tail(@)])

CloseCall(l) ==
  LET call == Head(loop[l].calls)
  IN
  /\ loop[l].pc = "closeCalls" /\ loop[l].calls # <<>>
  /\ Emit(l, [NoEvent EXCEPT !.type = "tool.result", !.call = call.call, !.step = call.step,
                             !.outcome = "error"],
          [loop[l] EXCEPT !.calls = Tail(@)])

CloseStep(l) ==
  /\ loop[l].pc = "closeStep" /\ view[l].step # None
  /\ Emit(l, [NoEvent EXCEPT !.type = "step.finished", !.turn = view[l].step.turn,
                             !.step = view[l].step.id, !.outcome = loop[l].outcome], loop[l])

(* Mutant: closing leaves the turn itself open.                            *)
CloseNoTurn(l) == loop[l].pc = "closeTurn" /\ Move(l, IdleLoop)

CloseTurn(l) ==
  /\ loop[l].pc = "closeTurn"
  /\ \/ view[l].turn = None /\ Move(l, IdleLoop)
     \/ /\ view[l].turn # None
        /\ Emit(l, [NoEvent EXCEPT !.type = "turn.finished", !.turn = view[l].turn,
                                   !.outcome = loop[l].outcome], IdleLoop)

ClosePhase(l) ==
  CloseReload(l) \/ CloseAsk(l) \/ CloseCall(l) \/ CloseStep(l) \/ CloseTurn(l)

-----------------------------------------------------------------------------
(* The environment.                                                        *)

(* Where an aborted signal makes awaited code throw: context assembly,     *)
(* delays, argument description, policies, memory, maintenance strategies. *)
Interruptible(l) ==
  \/ loop[l].pc \in {"model", "discard", "permission", "ask", "finish", "compact", "checkpoint"}
  \/ loop[l].pc = "run" /\ loop[l].attempt > 1
  \/ loop[l].pc = "recoverAsks" /\ loop[l].asks # <<>>
  \/ loop[l].pc = "recoverCalls" /\ loop[l].calls # <<>>

(* Awaited code throws: because of the abort, or a port or a read of the   *)
(* log fails.  What a tool's first attempt throws is RunTool's.            *)
PortFails(l) ==
  /\ \/ Interruptible(l) /\ loop[l].aborted /\ UNCHANGED faults
     \/ /\ loop[l].pc # "idle" /\ (loop[l].pc = "run" => loop[l].attempt > 1)
        /\ faults < MaxFaults /\ faults' = faults + 1
  /\ loop' = [loop EXCEPT ![l] = Failed(l)]
  /\ UNCHANGED <<log, durable, view, runs, ranBefore, fedBack>>

(* The process dies; a new AgentLoop starts with an empty state.           *)
Crash(l) ==
  /\ loop[l].pc # "idle"
  /\ faults < MaxFaults /\ faults' = faults + 1
  /\ loop' = [loop EXCEPT ![l] = IdleLoop]
  /\ view' = [view EXCEPT ![l] = EmptyState]
  /\ UNCHANGED <<log, durable, runs, ranBefore, fedBack>>

-----------------------------------------------------------------------------
Init ==
  /\ log = <<>> /\ durable = EmptyState
  /\ view = [l \in Loops |-> EmptyState]
  /\ loop = [l \in Loops |-> IdleLoop]
  /\ runs = [c \in CallIds |-> 0]
  /\ ranBefore = {} /\ fedBack = {} /\ faults = 0

ModelPhase(l) ==
  \/ RequestModel(l) \/ DiscardDeltas(l) \/ StreamEnd(l) \/ StreamFail(l)
  \/ \E c \in CallIds : StreamCall(l, c)

ToolPhase(l) ==
  \/ RecordIntent(l) \/ RejectUnregistered(l) \/ RequestPermission(l)
  \/ \E d \in {"allow", "deny"} : ResolvePermission(l, d)
  \/ RecordDenial(l) \/ RunTool(l) \/ RecordResult(l) \/ RecordFailure(l)

RecoveryPhase(l) ==
  \/ Recover(l) \/ ReconcileIntent(l) \/ RecoverAsks(l)
  \/ \E d \in {"allow", "deny"} : RecoverAsk(l, d)
  \/ RecoverCalls(l) \/ ReloadAfterCall(l) \/ RecoverCall(l) \/ RecoverFinish(l)

(* What a running operation does by itself.                                *)
Proceed(l) ==
  \/ BeginTurn(l) \/ DriveAborted(l) \/ FinishTurn(l) \/ StartStep(l)
  \/ ModelPhase(l) \/ ToolPhase(l) \/ FinishStep(l) \/ Maintain(l)
  \/ RecoveryPhase(l) \/ ClosePhase(l)

Next == \E l \in Loops :
  \/ RunTurn(l) \/ ResumeTurn(l) \/ Proceed(l)
  \/ Abort(l) \/ PortFails(l) \/ Crash(l)

Spec == Init /\ [][Next]_vars

(* Node's event loop keeps running an operation whose awaits settle, and   *)
(* the host answers a rejected or interrupted operation with resumeTurn.   *)
FairSpec == Spec /\ \A l \in Loops : WF_vars(Proceed(l)) /\ WF_vars(ResumeTurn(l))

-----------------------------------------------------------------------------
(* Properties.                                                             *)

Turns == Int
Steps == Optional(Turns) \X Int
AnEvent == Events(Turns, Steps, CallIds)
AState == SessionStates(Turns, Steps, CallIds)

LoopStates ==
  [pc: Pcs, turn: Optional(Turns), step: Optional(Steps), batch: Seq(CallIds), i: Nat,
   call: Optional(CallIds), attempt: Nat, via: {"batch", "asks", "calls"}, failed: BOOLEAN,
   aborted: BOOLEAN, outcome: Optional(Outcomes), action: {"feed-back", "fail-turn"},
   asks: Seq(PendingAsks(Steps, CallIds)), calls: Seq(PendingCalls(Steps, CallIds)),
   missing: SUBSET Nat]

(* The types of the variables.                                             *)
TypeOK ==
  /\ log \in Seq(AnEvent)
  /\ durable \in AState
  /\ view \in [Loops -> AState]
  /\ loop \in [Loops -> LoopStates]
  /\ runs \in [CallIds -> Nat]
  /\ ranBefore \subseteq CallIds
  /\ fedBack \subseteq Optional(CallIds)
  /\ faults \in Nat

Positions(type, c) == {i \in DOMAIN log : log[i].type = type /\ log[i].call = c}

Ran(c) == runs'[c] > runs[c]

(* Whatever crashes, append failures, lost acknowledgements and rival      *)
(* replicas did to it, the log replays from the start without the reducer  *)
(* rejecting an event, and the replay is the state a reload returns.  (The *)
(* writer validates only against its own memory: agent-loop.ts `#emit'.)   *)
LogReplays == Replay(log) = durable

(* A replica whose head is the log's head holds exactly the state of the   *)
(* log; so a compare-and-swap on the head alone protects every decision    *)
(* the replica took from its memory.                                       *)
CasCoherent ==
  \A l \in Loops :
    /\ view[l].lastSeq <= durable.lastSeq
    /\ view[l].lastSeq = durable.lastSeq => view[l] = durable

(* ADR 0003: no tool of a step runs before the whole batch of intents the  *)
(* model chose in that step is in the log, also when a crash cut the batch *)
(* short and recovery completed it.  (Of a session one replica runs.  A    *)
(* recovery that reloads into the step a rival has begun in the meantime   *)
(* runs its first call before the rest, as in the run rival_recovery.)     *)
IntentsBeforeEffects ==
  [][\A c \in CallIds : Ran(c) =>
       \A k \in Positions("tool.call", c) :
         CallsAt(ActiveDeltas(log[k].step)) \subseteq CallsAt(At("tool.call", log[k].step))]_vars

(* No intent comes from a model attempt that was discarded: recovery may   *)
(* restart the model only while the step has no recorded intent, whatever  *)
(* lost acknowledgement or crash hid from it.                              *)
IntentsAreActive ==
  \A i \in DOMAIN log :
    log[i].type = "tool.call" => log[i].call \in CallsAt(ActiveDeltas(log[i].step))

(* A tool runs only after the log holds an "allow" for that very call, on  *)
(* the live path, after a recovered approval and on a recovery retry.      *)
AllowedBeforeRun ==
  \A c \in CallIds : runs[c] > 0 =>
    \E i \in DOMAIN log : log[i].type = "permission.resolved" /\ log[i].call = c
                           /\ log[i].decision = "allow"

(* With one replica, a call whose result is recorded never runs again.     *)
NoRunAfterResult ==
  [][\A c \in CallIds : Ran(c) => Positions("tool.result", c) = {}]_vars

(* ADR 0003: with the default recovery budget, a call that ran in an       *)
(* operation that did not live to record the result is not run again by a  *)
(* later one.                                                              *)
UnknownNotRerun == [][\A c \in ranBefore : ~Ran(c)]_vars

(* A session run by one replica waits for at most one approval, also when  *)
(* closing or recovery takes over from a crash, a failure or a lost        *)
(* acknowledgement.  (A rival that closes the turn can leave a request     *)
(* pending when the next one is made, as in the run rival_close.)          *)
OneApprovalAtATime == Len(durable.asks) <= 1

(* The lifecycle the log drives: a terminal session keeps its last turn.   *)
Lifecycle == INSTANCE SessionLifecycle WITH
  status <- durable.status, head <- durable.lastSeq,
  turn <- IF durable.turn # None THEN durable.turn
          ELSE IF durable.seenTurns = {} THEN None ELSE Max(durable.seenTurns),
  req <- IF durable.asks = <<>> THEN None ELSE durable.asks[1].req

(* Only transitionSessionLifecycle's transitions happen to a session, each *)
(* on an event its type allows: while an approval is awaited nothing but   *)
(* its answer is appended, and outside a turn nothing but a new turn, also *)
(* when recovery, a closing replica or a rival takes over in between.      *)
ImplementsLifecycle == Lifecycle!Spec

(* A denied tool ends its turn as failed or aborted, whether the step was  *)
(* finished live (from a flag in memory) or by recovery (from the log).    *)
DeniedTurnFails ==
  \A i, j \in DOMAIN log :
    /\ log[i].type = "tool.result" /\ log[i].outcome = "denied"
    /\ log[j].type = "turn.finished" /\ log[j].turn = log[i].step[1]
    => log[j].outcome \in {"failed", "aborted"}

(* A turn reported completed ends in a step that succeeded, called no tool *)
(* and left nothing pending in the turn.                                   *)
CompletedMeansAnswered ==
  \A j \in DOMAIN log :
    log[j].type = "turn.finished" /\ log[j].outcome = "completed" =>
      LET last == log[Max({i \in FinishedSteps(log[j].turn) : i < j})]
      IN  last.outcome = "succeeded" /\ At("tool.call", last.step) = {}

(* Every runTurn and resumeTurn call returns or rejects.                   *)
OperationsReturn == \A l \in Loops : loop[l].pc # "idle" ~> loop[l].pc = "idle"

(* No crash, failure or conflict leaves a turn that resuming cannot close. *)
NeverWedged == (durable.turn # None) ~> (durable.turn = None)

(* ADR 0004, decision 5: a step whose failed calls were all fed back       *)
(* finishes as succeeded.                                                  *)
FeedBackSucceeds ==
  [][\A l \in Loops :
       loop[l].pc = "finish" /\ Len(log') > Len(log) /\ log'[Len(log')].outcome = "failed" =>
         \E i \in At("tool.result", loop[l].step) :
            log[i].outcome = "denied" \/ (log[i].outcome = "error" /\ log[i].call \notin fedBack)]_vars
=============================================================================
