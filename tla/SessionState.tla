---------------------------- MODULE SessionState ----------------------------
(***************************************************************************)
(* The replayable session state of packages/kernel/src/loop/session-state. *)
(* The event log is the only durable truth; everything the agent loop      *)
(* knows about a session is the fold of `applyEventToSessionState' over    *)
(* the log.  Both halves of that reducer are operators here: Valid(s, e)   *)
(* says that the reducer accepts event e in state s (it throws otherwise), *)
(* Apply(s, e) is the state it returns.                                    *)
(*                                                                         *)
(* Abstracted: tenant and session identity (one stream), payloads, times.  *)
(***************************************************************************)
EXTENDS Integers, SequencesExt

CONSTANT None      \* an absent optional field

AssociatedTypes ==
  {"model.request", "model.delta", "model.attempt.discarded", "tool.call",
   "tool.result", "permission.requested", "permission.resolved"}

EventTypes ==
  AssociatedTypes \cup {"turn.started", "turn.finished", "step.started",
                        "step.finished", "compaction.applied", "checkpoint.created"}

(* Every event carries all the correlation fields; an absent one is None.  *)
(* outcome is a result or a stop reason, decision a permission's answer,   *)
(* from and to the range of deltas a discard covers.                       *)
NoEvent == [type |-> None, seq |-> 0, turn |-> None, step |-> None, index |-> 0,
            call |-> None, req |-> None, decision |-> None, outcome |-> None,
            from |-> 0, to |-> 0]

Optional(S) == S \cup {None}

Decisions == {"allow", "deny"}

(* Results of a tool, of a step, and the reasons a turn stops for.         *)
Outcomes ==
  {"succeeded", "failed", "error", "denied", "aborted", "completed", "max-steps"}

Events(turns, steps, calls) ==
  [type: Optional(EventTypes), seq: Int, turn: Optional(turns), step: Optional(steps),
   index: Int, call: Optional(calls), req: Optional(calls), decision: Optional(Decisions),
   outcome: Optional(Outcomes), from: Int, to: Int]

Statuses == {"idle", "running", "waiting_approval", "done", "failed", "aborted"}

PendingCalls(steps, calls) == [call: Optional(calls), step: Optional(steps)]

PendingAsks(steps, calls) ==
  [req: Optional(calls), step: Optional(steps), call: Optional(calls)]

(* SessionReplayState.                                                     *)
SessionStates(turns, steps, calls) ==
  [status: Statuses, lastSeq: Int, turn: Optional(turns), lastStep: Int,
   usesSteps: BOOLEAN, step: Optional([turn: Optional(turns), id: Optional(steps)]),
   calls: Seq(PendingCalls(steps, calls)), asks: Seq(PendingAsks(steps, calls)),
   answers: Seq([req: Optional(calls), call: Optional(calls), decision: Optional(Decisions)]),
   seenTurns: SUBSET Optional(turns), seenSteps: SUBSET Optional(steps),
   seenCalls: SUBSET Optional(calls), doneCalls: SUBSET Optional(calls),
   seenReqs: SUBSET Optional(calls), doneReqs: SUBSET Optional(calls)]

EmptyState ==
  [status |-> "idle", lastSeq |-> -1, turn |-> None, lastStep |-> 0,
   usesSteps |-> FALSE, step |-> None, calls |-> <<>>, asks |-> <<>>,
   answers |-> <<>>, seenTurns |-> {}, seenSteps |-> {}, seenCalls |-> {},
   doneCalls |-> {}, seenReqs |-> {}, doneReqs |-> {}]

PendingCall(s, c) == \E i \in DOMAIN s.calls : s.calls[i].call = c
PendingAsk(s, r)  == \E i \in DOMAIN s.asks : s.asks[i].req = r

TerminalStatus(reason) ==
  CASE reason = "aborted"             -> "aborted"
    [] reason \in {"failed", "error"} -> "failed"
    [] OTHER                          -> "done"

Terminal == {"done", "failed", "aborted"}

-----------------------------------------------------------------------------
(* What the reducer accepts.                                               *)

(* Once a step is active every correlated event names it; a turn that has  *)
(* used steps accepts no correlated event between them; streams from       *)
(* before steps existed carry no step at all.                              *)
ActiveStepAssociation(s, e) ==
  IF s.step # None
  THEN e.step = s.step.id
  ELSE ~(s.turn # None /\ s.usesSteps /\ e.step # None)

StepHasNoPendingWork(s, step) ==
  /\ \A i \in DOMAIN s.calls : s.calls[i].step # step
  /\ \A i \in DOMAIN s.asks : s.asks[i].step # step

Correlates(expected, actual) ==
  expected = None \/ actual = None \/ expected = actual

ValidTurnStarted(s, e) == s.turn = None /\ e.turn \notin s.seenTurns

ValidStepStarted(s, e) ==
  /\ s.turn # None /\ s.turn = e.turn
  /\ s.step = None
  /\ e.step \notin s.seenSteps
  /\ e.index > s.lastStep

ValidStepFinished(s, e) ==
  /\ s.step # None /\ s.step.turn = e.turn /\ s.step.id = e.step
  /\ StepHasNoPendingWork(s, e.step)

ValidToolCall(s, e) == e.call \notin s.seenCalls

ValidToolResult(s, e) ==
  \E i \in DOMAIN s.calls : s.calls[i].call = e.call /\ Correlates(s.calls[i].step, e.step)

ValidPermissionRequested(s, e) ==
  /\ e.req \notin s.seenReqs
  /\ e.call = None \/ PendingCall(s, e.call)

ValidPermissionResolved(s, e) ==
  \E i \in DOMAIN s.asks :
     /\ s.asks[i].req = e.req
     /\ Correlates(s.asks[i].step, e.step)
     /\ Correlates(s.asks[i].call, e.call)

ValidTurnFinished(s, e) ==
  /\ s.turn # None /\ s.turn = e.turn
  /\ s.step = None
  /\ s.asks = <<>> /\ s.calls = <<>>

Valid(s, e) ==
  /\ e.seq > s.lastSeq
  /\ e.type \in AssociatedTypes => ActiveStepAssociation(s, e)
  /\ CASE e.type = "turn.started"            -> ValidTurnStarted(s, e)
       [] e.type = "step.started"            -> ValidStepStarted(s, e)
       [] e.type = "step.finished"           -> ValidStepFinished(s, e)
       [] e.type = "model.attempt.discarded" -> e.to < e.seq
       [] e.type = "tool.call"               -> ValidToolCall(s, e)
       [] e.type = "tool.result"             -> ValidToolResult(s, e)
       [] e.type = "permission.requested"    -> ValidPermissionRequested(s, e)
       [] e.type = "permission.resolved"     -> ValidPermissionResolved(s, e)
       [] e.type = "turn.finished"           -> ValidTurnFinished(s, e)
       [] OTHER                              -> TRUE

-----------------------------------------------------------------------------
(* What the reducer returns for an event it accepts.                       *)

ApplyTurnStarted(s, e) ==
  [s EXCEPT !.seenTurns = @ \cup {e.turn}, !.turn = e.turn, !.lastStep = 0,
            !.usesSteps = FALSE, !.step = None, !.status = "running"]

ApplyStepStarted(s, e) ==
  [s EXCEPT !.seenSteps = @ \cup {e.step}, !.lastStep = e.index, !.usesSteps = TRUE,
            !.step = [turn |-> e.turn, id |-> e.step], !.status = "running"]

ApplyStepFinished(s, e) == [s EXCEPT !.step = None, !.status = "running"]

ApplyToolCall(s, e) ==
  [s EXCEPT !.seenCalls = @ \cup {e.call},
            !.calls = Append(@, [call |-> e.call, step |-> e.step])]

(* findIndex followed by splice.                                           *)
First(S) == CHOOSE i \in S : \A j \in S : i <= j

ApplyToolResult(s, e) ==
  LET i == First({k \in DOMAIN s.calls : s.calls[k].call = e.call})
  IN  [s EXCEPT !.calls = RemoveAt(@, i), !.doneCalls = @ \cup {e.call}]

ApplyPermissionRequested(s, e) ==
  [s EXCEPT !.seenReqs = @ \cup {e.req}, !.status = "waiting_approval",
            !.asks = Append(@, [req |-> e.req, step |-> e.step, call |-> e.call])]

ApplyPermissionResolved(s, e) ==
  LET i    == First({k \in DOMAIN s.asks : s.asks[k].req = e.req})
      left == RemoveAt(s.asks, i)
  IN  [s EXCEPT !.asks = left,
                !.doneReqs = @ \cup {e.req},
                !.answers = Append(@, [req |-> e.req, call |-> e.call, decision |-> e.decision]),
                !.status = IF left # <<>> THEN "waiting_approval"
                           ELSE IF s.turn = None THEN "idle" ELSE "running"]

ApplyTurnFinished(s, e) ==
  [s EXCEPT !.turn = None, !.status = TerminalStatus(e.outcome)]

ApplyBody(s, e) ==
  CASE e.type = "turn.started"         -> ApplyTurnStarted(s, e)
    [] e.type = "step.started"         -> ApplyStepStarted(s, e)
    [] e.type = "step.finished"        -> ApplyStepFinished(s, e)
    [] e.type = "tool.call"            -> ApplyToolCall(s, e)
    [] e.type = "tool.result"          -> ApplyToolResult(s, e)
    [] e.type = "permission.requested" -> ApplyPermissionRequested(s, e)
    [] e.type = "permission.resolved"  -> ApplyPermissionResolved(s, e)
    [] e.type = "turn.finished"        -> ApplyTurnFinished(s, e)
    [] OTHER                           -> s

Apply(s, e) == [ApplyBody(s, e) EXCEPT !.lastSeq = e.seq]

(* projectSessionState: replaying a whole log; an event the reducer        *)
(* rejects makes the replay throw, here the value None.                    *)
ReplayStep(s, e) == IF s = None THEN None ELSE IF Valid(s, e) THEN Apply(s, e) ELSE None

Replay(log) == FoldLeft(ReplayStep, EmptyState, log)

(* The decisions recorded about a call, oldest first by index.             *)
AnswersAbout(s, c) == {i \in DOMAIN s.answers : s.answers[i].call = c}

(* The latest of them, None if the call was never answered.                *)
Answer(s, c) ==
  IF AnswersAbout(s, c) = {} THEN None
  ELSE s.answers[CHOOSE i \in AnswersAbout(s, c) : \A j \in AnswersAbout(s, c) : j <= i].decision
=============================================================================
