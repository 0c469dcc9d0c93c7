------------------------------ MODULE Steering ------------------------------
(***************************************************************************)
(* The steering queue of an AgentLoop (packages/kernel/src/loop/           *)
(* agent-loop.ts): the host pushes inputs at any time, a step takes the    *)
(* queue into its step.started, and a dry run previews a context.  The     *)
(* queue is memory: it dies with the process.  Kept from the rest of the   *)
(* loop is only whether a step is active, in the log and in memory.        *)
(***************************************************************************)
EXTENDS Integers, Sequences, FiniteSetsExt, SequencesExt

CONSTANTS
  MaxInputs,   \* bound: inputs steered in a behaviour
  MaxSteps,    \* bound: steps started
  MaxLost,     \* bound: acknowledgements lost
  MaxFails     \* bound: appends rejected

VARIABLES
  steering,   \* #steering: the queued inputs, numbered in the order they were steered
  steered,    \* how many were steered
  previewed,  \* the inputs steered while a dry run was going on
  started,    \* the injectedInputs of every step.started in the log, in order
  active,     \* the log has a step that is not finished
  memory,     \* #state has that step as activeStep
  batch,      \* the copy of the queue the step being started injects
  kept,       \* the length of the queue when the dry run began
  pc,         \* "idle", or what the running operation does next
  lost, fails, crashed

vars == <<steering, steered, previewed, started, active, memory, batch, kept, pc, lost, fails, crashed>>
faults == <<lost, fails, crashed>>

Injected == FlattenSeq(started)
Times(i) == Cardinality({k \in DOMAIN Injected : Injected[k] = i})

Init ==
  /\ steering = <<>> /\ steered = 0 /\ previewed = {} /\ started = <<>> /\ active = FALSE
  /\ memory = FALSE /\ batch = <<>> /\ kept = 0 /\ pc = "idle"
  /\ lost = 0 /\ fails = 0 /\ crashed = FALSE

(* The host is another task of the same process: it steers between any two *)
(* steps of the operation.                                                 *)
Steer ==
  /\ steered < MaxInputs
  /\ steered' = steered + 1 /\ steering' = Append(steering, steered + 1)
  /\ previewed' = IF pc = "preview" THEN previewed \cup {steered + 1} ELSE previewed
  /\ UNCHANGED <<started, active, memory, batch, kept, pc, faults>>

StartStep ==
  /\ pc = "idle" /\ ~active /\ Len(started) < MaxSteps
  /\ batch' = steering /\ pc' = "append"
  /\ UNCHANGED <<steering, steered, previewed, started, active, memory, kept, faults>>

AppendStarted ==
  /\ pc = "append"
  /\ started' = Append(started, batch) /\ active' = TRUE /\ memory' = TRUE /\ pc' = "consume"
  /\ UNCHANGED <<steering, steered, previewed, batch, kept, faults>>

AppendRejected ==
  /\ pc = "append" /\ fails < MaxFails
  /\ fails' = fails + 1 /\ pc' = "rejected"
  /\ UNCHANGED <<steering, steered, previewed, started, active, memory, batch, kept, lost, crashed>>

AppendUnacknowledged ==
  /\ pc = "append" /\ lost < MaxLost
  /\ started' = Append(started, batch) /\ active' = TRUE /\ lost' = lost + 1 /\ pc' = "rejected"
  /\ UNCHANGED <<steering, steered, previewed, memory, batch, kept, fails, crashed>>

(* Mutant: the whole queue cleared.                                        *)
ConsumeAll ==
  /\ pc \in {"consume", "rejected"}
  /\ pc' = IF pc = "consume" THEN "body" ELSE "close"
  /\ steering' = IF memory THEN <<>> ELSE steering
  /\ UNCHANGED <<steered, previewed, started, active, memory, batch, kept, faults>>

(* Mutant: the queue never cut.                                            *)
ConsumeNothing ==
  /\ pc \in {"consume", "rejected"}
  /\ pc' = IF pc = "consume" THEN "body" ELSE "close"
  /\ UNCHANGED <<steering, steered, previewed, started, active, memory, batch, kept, faults>>

(* The finally of runStep: it runs whether or not emit threw.              *)
Consume ==
  /\ pc \in {"consume", "rejected"}
  /\ pc' = IF pc = "consume" THEN "body" ELSE "close"
  /\ steering' = IF memory THEN SubSeq(steering, Len(batch) + 1, Len(steering)) ELSE steering
  /\ UNCHANGED <<steered, previewed, started, active, memory, batch, kept, faults>>

(* The body finishes its step, or the turn is closed after a reload.       *)
FinishStep ==
  /\ pc \in {"body", "close"}
  /\ active' = FALSE /\ memory' = FALSE /\ batch' = <<>> /\ pc' = "idle"
  /\ UNCHANGED <<steering, steered, previewed, started, kept, faults>>

DryRun ==
  /\ pc = "idle" /\ kept' = Len(steering) /\ pc' = "preview"
  /\ UNCHANGED <<steering, steered, previewed, started, active, memory, batch, faults>>

DryRunEnds ==
  /\ pc = "preview" /\ pc' = "idle" /\ kept' = 0
  /\ steering' = SubSeq(steering, 1, kept)
  /\ UNCHANGED <<steered, previewed, started, active, memory, batch, faults>>

(* The process dies and another one resumes: it reloads, and its queue is  *)
(* empty.  The step it finds in the log is recovered, not started again.   *)
Crash ==
  /\ ~crashed /\ crashed' = TRUE
  /\ steering' = <<>> /\ batch' = <<>> /\ kept' = 0
  /\ memory' = active /\ pc' = IF active THEN "body" ELSE "idle"
  /\ UNCHANGED <<steered, previewed, started, active, lost, fails>>

Next ==
  \/ Steer \/ StartStep \/ AppendStarted \/ AppendRejected \/ AppendUnacknowledged
  \/ Consume \/ FinishStep \/ DryRun \/ DryRunEnds \/ Crash

Spec == Init /\ [][Next]_vars

-----------------------------------------------------------------------------
(* Until the process dies every input is waiting or in the log, whichever  *)
(* append was rejected or unacknowledged; only what was steered during a   *)
(* preview may be gone.                                                    *)
InputsAreKept == crashed \/
  \A i \in 1..steered \ previewed : Times(i) > 0 \/ \E k \in DOMAIN steering : steering[k] = i

(* Inputs are injected in the order they were steered, and a second time   *)
(* only after an acknowledgement of the step that injected them was lost.  *)
InjectedOnce ==
  /\ \A i \in 1..steered : Times(i) <= 1 + lost
  /\ \A k, m \in DOMAIN Injected :
       k < m /\ Injected[k] > Injected[m] => \E j \in 1..k : Injected[j] = Injected[m]

(* ADR 0005 of the repository: the kernel does not consume steering in a   *)
(* dry run.                                                                *)
DryRunKeepsSteering == crashed \/
  \A i \in 1..steered : Times(i) > 0 \/ \E k \in DOMAIN steering : steering[k] = i
=============================================================================
