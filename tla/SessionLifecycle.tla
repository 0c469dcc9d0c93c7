-------------------------- MODULE SessionLifecycle --------------------------
(***************************************************************************)
(* The session lifecycle: what packages/kernel/src/loop/session-state.ts   *)
(* promises to the readers of a session's log.  SessionLifecycleEventFor   *)
(* gives, at the type level, the events each status may be followed by,    *)
(* and transitionSessionLifecycle the status they lead to.  head counts    *)
(* the events, so that an event which changes nothing else is a step too.  *)
(***************************************************************************)
EXTENDS Integers

CONSTANT None

VARIABLES status, turn, req, head

lifecycle == <<status, turn, req, head>>

Startable == {"idle", "done", "failed", "aborted"}

Init == status = "idle" /\ turn = None /\ req = None /\ head = -1

Observe == head' = head + 1

(* Idle and terminal sessions are followed only by a new turn.             *)
TurnStarted ==
  /\ status \in Startable /\ Observe
  /\ status' = "running" /\ turn' \notin {None, turn} /\ UNCHANGED req

PermissionRequested ==
  /\ status = "running" /\ Observe
  /\ status' = "waiting_approval" /\ req' # None /\ UNCHANGED turn

(* A waiting session is followed only by the answer to its one request.    *)
PermissionResolved ==
  /\ status = "waiting_approval" /\ Observe
  /\ status' = "running" /\ req' = None /\ UNCHANGED turn

TurnFinished ==
  /\ status = "running" /\ Observe
  /\ status' \in Startable \ {"idle"} /\ UNCHANGED <<turn, req>>

(* Every other event needs a running session and leaves it running.        *)
RunningEvent ==
  /\ status = "running" /\ Observe
  /\ UNCHANGED <<status, turn, req>>

Next ==
  TurnStarted \/ PermissionRequested \/ PermissionResolved \/ TurnFinished \/ RunningEvent

Spec == Init /\ [][Next]_lifecycle
=============================================================================
