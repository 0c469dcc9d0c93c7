-------------------------- MODULE Components_proofs --------------------------
(***************************************************************************)
(* Proofs about the components of Components, for any of their bounds and  *)
(* any sets of texts, contents, callers and requests.                      *)
(***************************************************************************)
EXTENDS Components, TLAPS

(* A component takes its own steps, or none.                               *)
LEMMA OwnSteps ==
  ASSUME [Next]_vars
  PROVE  /\ part' = part
         /\ part = "steering" => [Steer!Next]_steeringVars
         /\ part = "edit" => [Edit!Next]_editVars
         /\ part = "trace" => [Trace!Next]_traceVars
         /\ part = "prompts" => [Prompt!Next]_promptsVars
         /\ part = "record" => [Record!Next]_recordVars
         /\ part = "cost" => [Cost!Next]_costVars
         /\ part = "process" => [Process!Next]_processVars
<1>1. CASE UNCHANGED vars
  BY <1>1 DEF vars
<1>2. CASE Next
  BY <1>2 DEF Next
<1> QED
  BY <1>1, <1>2

-----------------------------------------------------------------------------
(* What Parts_proofs proves of the components that are proved about alone. *)
Proved == INSTANCE Parts_proofs WITH
  started <- steeringStarted, active <- steeringActive,
  batch <- steeringBatch, kept <- steeringKept, pc <- steeringPc,
  lost <- steeringLost, fails <- steeringFails,
  MaxInputs <- Bound.steering.inputs, MaxSteps <- Bound.steering.steps,
  MaxLost <- Bound.steering.lost, MaxFails <- Bound.steering.fails

LEMMA SameQueue ==
  /\ Steer!Init <=> Proved!Init
  /\ [Steer!Next]_steeringVars <=> [Proved!Next]_Proved!vars
  /\ Steer!InputsAreKept <=> Proved!InputsAreKept
  /\ Steer!InjectedOnce <=> Proved!InjectedOnce
<1>1. Steer!Init <=> Proved!Init
  BY DEF Steer!Init, Proved!Init
<1>2. UNCHANGED steeringVars <=> UNCHANGED Proved!vars
  BY DEF steeringVars, Proved!vars
<1>3. Steer!Next <=> Proved!Next
  BY DEF Steer!Next, Proved!Next, Steer!Steer, Proved!Steer, Steer!StartStep, Proved!StartStep,
     Steer!AppendStarted, Proved!AppendStarted, Steer!AppendRejected, Proved!AppendRejected,
     Steer!AppendUnacknowledged, Proved!AppendUnacknowledged, Steer!Consume, Proved!Consume,
     Steer!FinishStep, Proved!FinishStep, Steer!DryRun, Proved!DryRun, Steer!DryRunEnds,
     Proved!DryRunEnds, Steer!Crash, Proved!Crash, Steer!faults, Proved!faults
<1>4. Steer!InputsAreKept <=> Proved!InputsAreKept
  BY DEF Steer!InputsAreKept, Proved!InputsAreKept, Steer!Times, Proved!Times, Steer!Injected,
     Proved!Injected, Steer!Cardinality, Proved!Cardinality, Steer!FlattenSeq, Proved!FlattenSeq
<1>5. Steer!InjectedOnce <=> Proved!InjectedOnce
  BY DEF Steer!InjectedOnce, Proved!InjectedOnce, Steer!Times, Proved!Times, Steer!Injected,
     Proved!Injected, Steer!Cardinality, Proved!Cardinality, Steer!FlattenSeq, Proved!FlattenSeq
<1> QED
  BY <1>1, <1>2, <1>3, <1>4, <1>5

LEMMA SteeringHolds == Spec => [](part = "steering" => Proved!SteerInv)
<1>1. Init => (part = "steering" => Proved!SteerInv)
  BY SameQueue, Proved!SteerStarts DEF Init
<1>2. (part = "steering" => Proved!SteerInv) /\ [Next]_vars => (part = "steering" => Proved!SteerInv)'
  BY OwnSteps, SameQueue, Proved!SteerStep
<1> QED
  BY <1>1, <1>2, PTL DEF Spec

(* Until the process dies an input steered into a loop waits or is in the  *)
(* log, whichever appends are rejected or not acknowledged.                *)
THEOREM SteeredInputsAreKept == Spec => []InputsAreKept
<1>1. (part = "steering" => Proved!SteerInv) => InputsAreKept
  BY SameQueue, Proved!SteerKeeps DEF InputsAreKept
<1> QED
  BY <1>1, SteeringHolds, PTL

(* Inputs reach the log in the order they were steered, and no input more  *)
(* often than acknowledgements were lost, and once.                        *)
THEOREM SteeredInputsInOrder == Spec => []InjectedOnce
<1>1. (part = "steering" => Proved!SteerInv) => InjectedOnce
  BY SameQueue, Proved!SteerKeeps DEF InjectedOnce
<1> QED
  BY <1>1, SteeringHolds, PTL

-----------------------------------------------------------------------------
(* Files edited by the coding tools.                                       *)

(* What an edit expects, and what it rewrites, has been returned.          *)
EditInv ==
  /\ DOMAIN editCall = Callers
  /\ snapshot # None => snapshot \in seen
  /\ \A c \in Callers : editCall[c] # None =>
       /\ editCall[c].pc \in {"open", "write", "written"} =>
            editCall[c] = [pc |-> editCall[c].pc, edit |-> editCall[c].edit, base |-> editCall[c].base,
                           next |-> editCall[c].next]
       /\ editCall[c].pc \in {"edit", "compare"} => editCall[c].expected \in seen
       /\ editCall[c].pc \in {"open", "write", "written"} => editCall[c].base \in seen

LEMMA EditStep ==
  ASSUME EditInv, [Edit!Next]_editVars
  PROVE  EditInv'
<1>1. CASE UNCHANGED editVars
  BY <1>1 DEF editVars, EditInv
<1>2. ASSUME NEW content, Edit!OthersWrite(content) PROVE EditInv'
  BY <1>2 DEF Edit!OthersWrite, EditInv
<1>3. ASSUME NEW c \in Callers, Edit!Read(c) PROVE EditInv'
  BY <1>3 DEF Edit!Read, Edit!Starts, Edit!Calling, EditInv
<1>4. ASSUME NEW c \in Callers, Edit!ReadReturns(c) PROVE EditInv'
  BY <1>4 DEF Edit!ReadReturns, Edit!At, Edit!Ends, Edit!Calling, EditInv
<1>5. ASSUME NEW c \in Callers, Edit!ReadCurrent(c) PROVE EditInv'
  BY <1>5 DEF Edit!ReadCurrent, Edit!At, Edit!Calling, EditInv
<1>6. ASSUME NEW c \in Callers, Edit!Rewrite(c) PROVE EditInv'
  BY <1>6 DEF Edit!Rewrite, Edit!At, Edit!Calling, Edit!Unchanged, EditInv
<1>7. ASSUME NEW c \in Callers, Edit!OpenToWrite(c) \/ Edit!Write(c) PROVE EditInv'
  <2>1. PICK pc \in {"write", "written"} : editCall' = [editCall EXCEPT ![c].pc = pc]
    BY <1>7 DEF Edit!OpenToWrite, Edit!Write
  <2>2. editCall[c] # None /\ editCall[c].pc \in {"open", "write", "written"}
    BY <1>7 DEF Edit!OpenToWrite, Edit!Write, Edit!At
  <2>3. editCall'[c] = [pc |-> pc, edit |-> editCall[c].edit, base |-> editCall[c].base,
                        next |-> editCall[c].next]
    BY <2>1, <2>2 DEF EditInv
  <2>4. \A d \in Callers \ {c} : editCall'[d] = editCall[d]
    BY <2>1 DEF EditInv
  <2>5. DOMAIN editCall' = Callers /\ UNCHANGED <<snapshot, seen>>
    BY <1>7, <2>1 DEF EditInv, Edit!OpenToWrite, Edit!Write
  <2>6. editCall[c].base \in seen
    BY <2>2 DEF EditInv
  <2> QED
    BY <2>2, <2>3, <2>4, <2>5, <2>6 DEF EditInv
<1>8. ASSUME NEW c \in Callers, Edit!EditReturns(c) PROVE EditInv'
  BY <1>8 DEF Edit!EditReturns, Edit!At, Edit!Ends, Edit!Calling, EditInv
<1>9. ASSUME NEW c \in Callers, NEW edit \in Edits, Edit!Edit(c, edit) PROVE EditInv'
  BY <1>9 DEF Edit!Edit, Edit!Starts, Edit!Calling, EditInv
<1>10. ASSUME NEW c \in Callers, Edit!WriteFails(c) PROVE EditInv'
  BY <1>10 DEF Edit!WriteFails, Edit!Ends, Edit!Calling, EditInv
<1> QED
  BY <1>1, <1>2, <1>3, <1>4, <1>5, <1>6, <1>7, <1>8, <1>9, <1>10 DEF Edit!Next

(* Whatever other programs write between two steps of an edit: what it     *)
(* rewrites is a content the workspace has returned to a caller.           *)
THEOREM EditsRewriteWhatWasRead == Spec => []RewritesWhatWasRead
<1>1. Init => (part = "edit" => EditInv)
  BY DEF Init, Edit!Init, EditInv
<1>2. (part = "edit" => EditInv) /\ [Next]_vars => (part = "edit" => EditInv)'
  BY OwnSteps, EditStep
<1>3. (part = "edit" => EditInv) => RewritesWhatWasRead
  BY DEF EditInv, RewritesWhatWasRead, Edit!RewritesWhatWasRead, Edit!Writing
<1> QED
  BY <1>1, <1>2, <1>3, PTL DEF Spec

-----------------------------------------------------------------------------
(* The spans of a turn and their export.                                   *)
LEMMA SameSpans ==
  /\ Trace!Init <=> Proved!Trace!Init
  /\ [Trace!Next]_traceVars <=> [Proved!Trace!Next]_Proved!traceVars
  /\ Trace!SpansNest <=> Proved!Trace!SpansNest
  /\ Trace!EndedAreKept <=> Proved!Trace!EndedAreKept
<1>1. Trace!Init <=> Proved!Trace!Init
  BY DEF Trace!Init, Proved!Trace!Init, Trace!NoCall, Proved!Trace!NoCall
<1>2. UNCHANGED traceVars <=> UNCHANGED Proved!traceVars
  BY DEF traceVars, Proved!traceVars
<1>3. Trace!Next <=> Proved!Trace!Next
  BY DEF Trace!Next, Proved!Trace!Next, Trace!TurnStarted, Proved!Trace!TurnStarted,
     Trace!StepStarted, Proved!Trace!StepStarted, Trace!ModelRequested,
     Proved!Trace!ModelRequested, Trace!ToolCalled, Proved!Trace!ToolCalled,
     Trace!ToolAnswered, Proved!Trace!ToolAnswered, Trace!StepFinished,
     Proved!Trace!StepFinished, Trace!TurnFinished, Proved!Trace!TurnFinished, Trace!Crash,
     Proved!Trace!Crash, Trace!ForceFlush, Proved!Trace!ForceFlush, Trace!Shutdown,
     Proved!Trace!Shutdown, Trace!SpansExported, Proved!Trace!SpansExported,
     Trace!ExportFails, Proved!Trace!ExportFails, Trace!Failing, Proved!Trace!Failing,
     Trace!MetricsExported, Proved!Trace!MetricsExported, Trace!Exporting,
     Proved!Trace!Exporting, Trace!TakeSpans, Proved!Trace!TakeSpans, Trace!Events,
     Proved!Trace!Events, Trace!Observed, Proved!Trace!Observed, Trace!Unobserved,
     Proved!Trace!Unobserved, Trace!OnTurnStarted, Proved!Trace!OnTurnStarted,
     Trace!OnStepStarted, Proved!Trace!OnStepStarted, Trace!OnModelRequest,
     Proved!Trace!OnModelRequest, Trace!OnToolCall, Proved!Trace!OnToolCall,
     Trace!OnToolResult, Proved!Trace!OnToolResult, Trace!OnStepFinished,
     Proved!Trace!OnStepFinished, Trace!OnTurnFinished, Proved!Trace!OnTurnFinished,
     Trace!Start, Proved!Trace!Start, Trace!End, Proved!Trace!End, Trace!Held,
     Proved!Trace!Held, Trace!Quiet, Proved!Trace!Quiet, Trace!Parent, Proved!Trace!Parent,
     Trace!CallId, Proved!Trace!CallId, Trace!TurnSpan, Proved!Trace!TurnSpan,
     Trace!StepSpan, Proved!Trace!StepSpan, Trace!ChatSpan, Proved!Trace!ChatSpan,
     Trace!ToolSpan, Proved!Trace!ToolSpan, Trace!NoParent, Proved!Trace!NoParent,
     Trace!NoCall, Proved!Trace!NoCall, Trace!session, Proved!Trace!session,
     Trace!lifecycle, Proved!Trace!lifecycle, Trace!exporter, Proved!Trace!exporter,
     Trace!vars, Proved!Trace!vars, Trace!ToSet, Proved!Trace!ToSet, Trace!Cardinality,
     Proved!Trace!Cardinality
<1>4. Trace!SpansNest <=> Proved!Trace!SpansNest
  BY DEF Trace!SpansNest, Proved!Trace!SpansNest, Trace!Before, Proved!Trace!Before,
     Trace!ToSet, Proved!Trace!ToSet
<1>5. Trace!EndedAreKept <=> Proved!Trace!EndedAreKept
  BY DEF Trace!EndedAreKept, Proved!Trace!EndedAreKept, Trace!Before, Proved!Trace!Before,
     Trace!ToSet, Proved!Trace!ToSet
<1> QED
  BY <1>1, <1>2, <1>3, <1>4, <1>5

LEMMA TraceHolds == Spec => [](part = "trace" => Proved!NestInv)
<1>1. Init => (part = "trace" => Proved!NestInv)
  BY SameSpans, Proved!NestStarts DEF Init
<1>2. (part = "trace" => Proved!NestInv) /\ [Next]_vars => (part = "trace" => Proved!NestInv)'
  BY OwnSteps, SameSpans, Proved!NestStep
<1> QED
  BY <1>1, <1>2, PTL DEF Spec

(* Whatever fails, is flushed or shut down meanwhile, spans that ended     *)
(* wait, are under way or have arrived, in the order they ended in, and a  *)
(* shutdown that flushes exports what had ended when it was called.        *)
THEOREM EndedSpansAreKept == Spec => []EndedAreKept
<1>1. Proved!NestInv => Proved!ExportInv
  BY DEF Proved!NestInv
<1>2. (part = "trace" => Proved!NestInv) => EndedAreKept
  BY <1>1, SameSpans, Proved!ExportKeeps DEF EndedAreKept
<1> QED
  BY <1>2, TraceHolds, PTL

(* However a turn is interrupted, recovered and closed, a span ends after  *)
(* all that are part of it, and when the turn is over every span that was  *)
(* started has ended, as long as every event was observed and the port was *)
(* open.                                                                   *)
THEOREM SpansNestInTurn == Spec => []SpansNest
<1>1. (part = "trace" => Proved!NestInv) => SpansNest
  BY SameSpans, Proved!NestHolds DEF SpansNest
<1> QED
  BY <1>1, TraceHolds, PTL

-----------------------------------------------------------------------------
(* The prompts of an agent.                                                *)
LEMMA SamePrompts ==
  /\ Prompt!Init <=> Proved!Prompt!Init
  /\ [Prompt!Next]_promptsVars <=> [Proved!Prompt!Next]_Proved!promptsVars
  /\ Prompt!PartsExplainContent <=> Proved!Prompt!PartsExplainContent
<1>1. Prompt!Init <=> Proved!Prompt!Init
  BY DEF Prompt!Init, Proved!Prompt!Init, Prompt!BuildState, Proved!Prompt!BuildState,
     Prompt!ResolvePrompt, Proved!Prompt!ResolvePrompt, Prompt!Turn, Proved!Prompt!Turn,
     Prompt!Contribute, Proved!Prompt!Contribute, Prompt!Extended, Proved!Prompt!Extended,
     Prompt!Defines, Proved!Prompt!Defines, Prompt!Kinds, Proved!Prompt!Kinds,
     Prompt!Written, Proved!Prompt!Written, Prompt!Definitions, Proved!Prompt!Definitions,
     Prompt!Prompts, Proved!Prompt!Prompts
<1>2. UNCHANGED promptsVars <=> UNCHANGED Proved!promptsVars
  BY DEF promptsVars, Proved!promptsVars
<1>3. Prompt!Next <=> Proved!Prompt!Next
  BY DEF Prompt!Next, Proved!Prompt!Next, Prompt!ReplaceSource, Proved!Prompt!ReplaceSource,
     Prompt!SetRuntimePrompt, Proved!Prompt!SetRuntimePrompt, Prompt!DeleteRuntime,
     Proved!Prompt!DeleteRuntime, Prompt!With, Proved!Prompt!With, Prompt!Without,
     Proved!Prompt!Without, Prompt!Deleted, Proved!Prompt!Deleted, Prompt!Runtime,
     Proved!Prompt!Runtime, Prompt!BuildState, Proved!Prompt!BuildState,
     Prompt!ResolvePrompt, Proved!Prompt!ResolvePrompt, Prompt!Turn, Proved!Prompt!Turn,
     Prompt!Contribute, Proved!Prompt!Contribute, Prompt!Extended, Proved!Prompt!Extended,
     Prompt!Defines, Proved!Prompt!Defines, Prompt!Kinds, Proved!Prompt!Kinds,
     Prompt!Written, Proved!Prompt!Written, Prompt!Definitions, Proved!Prompt!Definitions,
     Prompt!Prompts, Proved!Prompt!Prompts
<1>4. Prompt!PartsExplainContent <=> Proved!Prompt!PartsExplainContent
  BY DEF Prompt!PartsExplainContent, Proved!Prompt!PartsExplainContent, Prompt!Defines,
     Proved!Prompt!Defines, Prompt!Kinds, Proved!Prompt!Kinds, Prompt!ToSet,
     Proved!Prompt!ToSet, Prompt!FlattenSeq, Proved!Prompt!FlattenSeq
<1> QED
  BY <1>1, <1>2, <1>3, <1>4

LEMMA PromptsHold == Spec => [](part = "prompts" => Proved!PromptInv)
<1>1. Init => (part = "prompts" => Proved!PromptInv)
  BY SamePrompts, Proved!PromptStarts DEF Init
<1>2. (part = "prompts" => Proved!PromptInv) /\ [Next]_vars => (part = "prompts" => Proved!PromptInv)'
  BY OwnSteps, SamePrompts, Proved!PromptStep
<1> QED
  BY <1>1, <1>2, PTL DEF Spec

(* Whatever sources are set, replaced and deleted: the parts of a prompt   *)
(* are the sources that its content is made of, in order, and no source    *)
(* that defines it is missing unless it was replaced.                      *)
THEOREM PromptsAreExplained == Spec => []PartsExplainContent
<1>1. (part = "prompts" => Proved!PromptInv) => PartsExplainContent
  BY SamePrompts, Proved!PromptHolds DEF PartsExplainContent
<1> QED
  BY <1>1, PromptsHold, PTL

-----------------------------------------------------------------------------
(* The recording of a model, and its replay.                               *)
LEMMA SameRecording ==
  /\ Record!Init <=> Proved!Record!Init
  /\ [Record!Next]_recordVars <=> [Proved!Record!Next]_Proved!recordVars
  /\ Record!ReplayIsFaithful <=> Proved!Record!ReplayIsFaithful
<1>1. Record!Init <=> Proved!Record!Init
  BY DEF Record!Init, Proved!Record!Init
<1>2. UNCHANGED recordVars <=> UNCHANGED Proved!recordVars
  BY DEF recordVars, Proved!recordVars
<1>3. Record!Next <=> Proved!Record!Next
  BY DEF Record!Next, Proved!Record!Next, Record!Begin, Proved!Record!Begin, Record!BeginThrows,
     Proved!Record!BeginThrows, Record!Recording, Proved!Record!Recording, Record!Begun,
     Proved!Record!Begun, Record!Snapshot, Proved!Record!Snapshot,
     Record!AssertModelRecording, Proved!Record!AssertModelRecording, Record!FramesValid,
     Proved!Record!FramesValid, Record!TokenOutcomeValid, Proved!Record!TokenOutcomeValid,
     Record!BySeq, Proved!Record!BySeq, Record!Order, Proved!Record!Order, Record!Answers,
     Proved!Record!Answers, Record!ConsumerNext, Proved!Record!ConsumerNext,
     Record!ConsumerReturns, Proved!Record!ConsumerReturns, Record!Abort,
     Proved!Record!Abort, Record!Aborted, Proved!Record!Aborted, Record!Cancelled,
     Proved!Record!Cancelled, Record!Ends, Proved!Record!Ends, Record!Terminal,
     Proved!Record!Terminal, Record!Claim, Proved!Record!Claim, Record!NextFrame,
     Proved!Record!NextFrame, Record!SameAbort, Proved!Record!SameAbort, Record!SameLeave,
     Proved!Record!SameLeave, Record!SameNext, Proved!Record!SameNext, Record!Replaying,
     Proved!Record!Replaying, Record!Idle, Proved!Record!Idle, Record!Current,
     Proved!Record!Current, Record!Now, Proved!Record!Now, Record!Frames,
     Proved!Record!Frames, Record!Replayed, Proved!Record!Replayed, Record!ReplayEnds,
     Proved!Record!ReplayEnds, Record!LeftInTime, Proved!Record!LeftInTime, Record!StopsAt,
     Proved!Record!StopsAt, Record!Last, Proved!Record!Last, Record!Over, Proved!Record!Over,
     Record!Stuck, Proved!Record!Stuck, Record!record, Proved!Record!record, Record!replay,
     Proved!Record!replay, Record!vars, Proved!Record!vars
<1>4. Record!ReplayIsFaithful <=> Proved!Record!ReplayIsFaithful
  BY DEF Record!ReplayIsFaithful, Proved!Record!ReplayIsFaithful, Record!IsPrefix,
     Proved!Record!IsPrefix
<1> QED
  BY <1>1, <1>2, <1>3, <1>4

LEMMA RecordingHolds == Spec => [](part = "record" => Proved!RecordInv)
<1>1. Init => (part = "record" => Proved!RecordInv)
  BY SameRecording, Proved!RecordStarts DEF Init
<1>2. (part = "record" => Proved!RecordInv) /\ [Next]_vars => (part = "record" => Proved!RecordInv)'
  BY OwnSteps, SameRecording, Proved!RecordStep
<1> QED
  BY <1>1, <1>2, PTL DEF Spec

(* However the calls of a model overlapped, failed, were aborted or left:  *)
(* a snapshot that is taken is valid, and a consumer that makes the calls  *)
(* again sees the same chunks and the same ends, but for an abort that     *)
(* came while it waited.                                                   *)
THEOREM ReplaysAreFaithful == Spec => []ReplayIsFaithful
<1>1. (part = "record" => Proved!RecordInv) => ReplayIsFaithful
  BY SameRecording, Proved!RecordHolds DEF ReplayIsFaithful
<1> QED
  BY <1>1, RecordingHolds, PTL

-----------------------------------------------------------------------------
(* The cost of a turn.                                                     *)
LEMMA SameCost ==
  /\ Cost!Init <=> Proved!Cost!Init
  /\ [Cost!Next]_costVars <=> [Proved!Cost!Next]_Proved!costVars
  /\ Cost!TurnUsageIsSum <=> Proved!Cost!TurnUsageIsSum
<1>1. Cost!Init <=> Proved!Cost!Init
  BY DEF Cost!Init, Proved!Cost!Init, Cost!Turns, Proved!Cost!Turns, Cost!EmptyUsage,
     Proved!Cost!EmptyUsage
<1>2. UNCHANGED costVars <=> UNCHANGED Proved!costVars
  BY DEF costVars, Proved!costVars
<1>3. Cost!Next <=> Proved!Cost!Next
  BY DEF Cost!Next, Proved!Cost!Next, Cost!Step, Proved!Cost!Step, Cost!Crash,
     Proved!Cost!Crash, Cost!Prepare, Proved!Cost!Prepare, Cost!Seed, Proved!Cost!Seed,
     Cost!SeededAlready, Proved!Cost!SeededAlready, Cost!BeginTurn, Proved!Cost!BeginTurn,
     Cost!FinishStep, Proved!Cost!FinishStep, Cost!FinishTurn, Proved!Cost!FinishTurn,
     Cost!Close, Proved!Cost!Close, Cost!To, Proved!Cost!To, Cost!faults, Proved!Cost!faults,
     Cost!Turns, Proved!Cost!Turns, Cost!Known, Proved!Cost!Known, Cost!Turn, Proved!Cost!Turn,
     Cost!Open, Proved!Cost!Open, Cost!TurnsIn, Proved!Cost!TurnsIn, Cost!IsClosed,
     Proved!Cost!IsClosed, Cost!StepsOf, Proved!Cost!StepsOf, Cost!SumOf, Proved!Cost!SumOf,
     Cost!Capped, Proved!Cost!Capped, Cost!AddUsage, Proved!Cost!AddUsage, Cost!EmptyUsage,
     Proved!Cost!EmptyUsage, Cost!Mixes, Proved!Cost!Mixes, Cost!Started, Proved!Cost!Started,
     Cost!Finished, Proved!Cost!Finished, Cost!Accepted, Proved!Cost!Accepted,
     Cost!Unacknowledged, Proved!Cost!Unacknowledged, Cost!Rejected, Proved!Cost!Rejected,
     Cost!Cardinality, Proved!Cost!Cardinality
<1>4. Cost!TurnUsageIsSum <=> Proved!Cost!TurnUsageIsSum
  BY DEF Cost!TurnUsageIsSum, Proved!Cost!TurnUsageIsSum, Cost!Reported, Proved!Cost!Reported,
     Cost!Steps, Proved!Cost!Steps, Cost!StepsOf, Proved!Cost!StepsOf, Cost!OneReplica,
     Proved!Cost!OneReplica, Cost!OneCurrency, Proved!Cost!OneCurrency, Cost!Cardinality,
     Proved!Cost!Cardinality
<1> QED
  BY <1>1, <1>2, <1>3, <1>4

LEMMA CostsHold == Spec => [](part = "cost" => Proved!CostInv)
<1>0. Proved!CostBound
  BY BoundsAssumption DEF Proved!CostBound
<1>1. Init => (part = "cost" => Proved!CostInv)
  BY <1>0, SameCost, Proved!CostStarts DEF Init
<1>2. (part = "cost" => Proved!CostInv) /\ [Next]_vars => (part = "cost" => Proved!CostInv)'
  BY <1>0, OwnSteps, SameCost, Proved!CostStep
<1> QED
  BY <1>1, <1>2, PTL DEF Spec

(* Whatever replicas, crashes, lost acknowledgements and resumed turns do  *)
(* to the sum, a turn never reports more steps than the log has of it; one *)
(* replica that lost no acknowledgement and was billed in one currency     *)
(* reports exactly those, interrupted or not.                              *)
THEOREM TurnsReportTheirSteps == Spec => []TurnUsageIsSum
<1>1. (part = "cost" => Proved!CostInv) => TurnUsageIsSum
  BY SameCost, Proved!CostHolds DEF TurnUsageIsSum
<1> QED
  BY <1>1, CostsHold, PTL

-----------------------------------------------------------------------------
(* The output of a command.                                                *)
LEMMA SameProcess ==
  /\ Process!Init <=> Proved!Process!Init
  /\ [Process!Next]_processVars <=> [Proved!Process!Next]_Proved!processVars
  /\ Process!OutputIsAllOrCut <=> Proved!Process!OutputIsAllOrCut
<1>1. Process!Init <=> Proved!Process!Init
  BY DEF Process!Init, Proved!Process!Init, Process!Streams, Proved!Process!Streams
<1>2. UNCHANGED processVars <=> UNCHANGED Proved!processVars
  BY DEF processVars, Proved!processVars
<1>3. Process!Next <=> Proved!Process!Next
  BY DEF Process!Next, Proved!Process!Next, Process!Execute, Proved!Process!Execute,
     Process!Spawn, Proved!Process!Spawn, Process!Abort, Proved!Process!Abort, Process!Exit,
     Proved!Process!Exit, Process!Close, Proved!Process!Close, Process!SpawnFails,
     Proved!Process!SpawnFails, Process!Output, Proved!Process!Output, Process!Remaining,
     Proved!Process!Remaining, Process!Settles, Proved!Process!Settles, Process!output,
     Proved!Process!output, Process!Streams, Proved!Process!Streams
<1>4. Process!OutputIsAllOrCut <=> Proved!Process!OutputIsAllOrCut
  BY DEF Process!OutputIsAllOrCut, Proved!Process!OutputIsAllOrCut, Process!Printed,
     Proved!Process!Printed, Process!Total, Proved!Process!Total, Process!Streams,
     Proved!Process!Streams
<1> QED
  BY <1>1, <1>2, <1>3, <1>4

LEMMA OutputsHold == Spec => [](part = "process" => Proved!ProcessInv)
<1>0. Proved!ProcessBound
  BY BoundsAssumption DEF Proved!ProcessBound
<1>1. Init => (part = "process" => Proved!ProcessInv)
  BY <1>0, SameProcess, Proved!ProcessStarts DEF Init
<1>2. (part = "process" => Proved!ProcessInv) /\ [Next]_vars => (part = "process" => Proved!ProcessInv)'
  BY <1>0, OwnSteps, SameProcess, Proved!ProcessStep
<1> QED
  BY <1>1, <1>2, PTL DEF Spec

(* However the chunks of the two streams interleave with an abort and the  *)
(* child's end: a command's output is all of it, or cut at the limit to    *)
(* the byte and reported as cut.                                           *)
THEOREM OutputsAreAllOrCut == Spec => []OutputIsAllOrCut
<1>0. Proved!ProcessBound
  BY BoundsAssumption DEF Proved!ProcessBound
<1>1. (part = "process" => Proved!ProcessInv) => OutputIsAllOrCut
  BY <1>0, SameProcess, Proved!ProcessHolds DEF OutputIsAllOrCut
<1> QED
  BY <1>1, OutputsHold, PTL
=============================================================================
