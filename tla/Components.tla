------------------------------ MODULE Components ------------------------------
(***************************************************************************)
(* The components of an agent that keep a state of their own and share     *)
(* none of it, side by side: `part` says which of them a behaviour is      *)
(* about, and the variables of the others are None.                        *)
(***************************************************************************)
EXTENDS Integers, Sequences

CONSTANTS
  None,
  Parts,   \* which components, of the ones below
  Bound,   \* Bound.<part>: the bounds of its module, by name
  Loops, Currencies,   \* see CostAccounting
  Calls, PromptPrefix, Setups, Modes,   \* see ModelJournal
  Sessions,   \* see MessageHistory
  Assembled,   \* see ContextAssembly
  Requests, Chunks,   \* see Recording
  Callers, Contents, Edits, Blank,   \* see WorkspaceEdit
  Ids, Texts,   \* see PromptRegistry
  Keys, Header(_), Headers,   \* see ConfigLayers
  Bodies, ToolUses, Failures, CR, LF,   \* see ModelStream
  Commands, ExitCodes   \* see ProcessRun

(* The numbers of turns and steps the model goes up to, the limit of an    *)
(* output and the size of a chunk are numbers, and None is not.            *)
ASSUME BoundsAssumption ==
  /\ Bound.cost.turns \in Nat /\ Bound.cost.steps \in Nat
  /\ Bound.process.output \in Nat /\ Bound.process.chunk \in Nat
  /\ None \notin Nat

VARIABLE part

VARIABLES steering, steered, previewed, steeringStarted, steeringActive,
  memory, steeringBatch, steeringKept, steeringPc, steeringLost,
  steeringFails, crashed   \* the steering queue of an AgentLoop
VARIABLES acting, costLog, costPc, head, costUsage, seeded, costLost,
  costFails, costCrashes   \* the cost of a turn
VARIABLES setup, journalLog, journalRequest, config, atoms, seqs, cursor,
  journalBuffer, answer, journalPos, added, attempt, journalCrashes, journalPc   \* a model step and its journal of deltas
VARIABLES session, historyLog, entries, historyPhase, historyAgain,
  historySteps   \* the projection and compaction of messages
VARIABLES turn, step, traceStage, traceCalls, turns, traceSteps, models,
  tools, traceStarted, ended, spans, flushing, traceBatch, received, closed,
  shutdown, traceLost, traceCrashes, traceFails   \* the spans of a turn and their export
VARIABLES contextRequest, contextStage, messages, segments, stages, rewrites,
  measured   \* the assembly of a model request
VARIABLES recordPhase, recordCalls, frames, operations, recordActive, broken,
  recording, recordNext, recordAgain, recordAt   \* the recording model and its replay
VARIABLES editFile, snapshot, editCall, seen, editCalls, others   \* files edited by the coding tools
VARIABLES revision, sources, promptsPrompts   \* the prompt registry
VARIABLES layersInputs, built   \* the configuration of an agent
VARIABLES lines, ends, toolUse, streamPos, streamBuffer, streamData, decoder,
  signals, streamPc, streamOutcome   \* the stream of a model endpoint
VARIABLES processCommand, processPc, exitCode, aborted, killed, arrived,
  processKept, counted, truncated, processOutcome   \* a command of the coding tools

Steer == INSTANCE Steering WITH
  started <- steeringStarted, active <- steeringActive,
  batch <- steeringBatch, kept <- steeringKept, pc <- steeringPc,
  lost <- steeringLost, fails <- steeringFails,
  MaxInputs <- Bound.steering.inputs, MaxSteps <- Bound.steering.steps,
  MaxLost <- Bound.steering.lost, MaxFails <- Bound.steering.fails
Cost == INSTANCE CostAccounting WITH
  log <- costLog, pc <- costPc, usage <- costUsage, lost <- costLost,
  fails <- costFails, crashes <- costCrashes, MaxTurns <- Bound.cost.turns,
  MaxSteps <- Bound.cost.steps, MaxLost <- Bound.cost.lost,
  MaxFails <- Bound.cost.fails, MaxCrashes <- Bound.cost.crashes
Journal == INSTANCE ModelJournal WITH
  log <- journalLog, request <- journalRequest, buffer <- journalBuffer,
  pos <- journalPos, crashes <- journalCrashes, pc <- journalPc,
  MaxAttempts <- Bound.journal.attempts, MaxChunk <- Bound.journal.chunk,
  MaxCrashes <- Bound.journal.crashes
History == INSTANCE MessageHistory WITH
  log <- historyLog, phase <- historyPhase, again <- historyAgain,
  steps <- historySteps, MaxSteps <- Bound.history.steps
Trace == INSTANCE Tracing WITH
  stage <- traceStage, calls <- traceCalls, steps <- traceSteps,
  started <- traceStarted, batch <- traceBatch, lost <- traceLost,
  crashes <- traceCrashes, fails <- traceFails, MaxSteps <- Bound.trace.steps,
  MaxCalls <- Bound.trace.calls, MaxLost <- Bound.trace.lost,
  MaxCrashes <- Bound.trace.crashes, MaxFails <- Bound.trace.fails
Context == INSTANCE ContextAssembly WITH
  request <- contextRequest, stage <- contextStage, Requests <- Assembled,
  MaxMessages <- Bound.context.messages, MaxRewrites <- Bound.context.rewrites
Record == INSTANCE Recording WITH
  phase <- recordPhase, calls <- recordCalls, active <- recordActive,
  next <- recordNext, again <- recordAgain, at <- recordAt,
  MaxCalls <- Bound.record.calls, MaxChunks <- Bound.record.chunks,
  MaxBroken <- Bound.record.broken
Edit == INSTANCE WorkspaceEdit WITH
  file <- editFile, call <- editCall, calls <- editCalls,
  MaxCalls <- Bound.edit.calls, MaxOthers <- Bound.edit.others
Prompt == INSTANCE PromptRegistry WITH
  prompts <- promptsPrompts, MaxRevision <- Bound.prompts.revision
Layered == INSTANCE ConfigLayers WITH
  inputs <- layersInputs, MaxInputs <- Bound.layers.inputs
Stream == INSTANCE ModelStream WITH
  pos <- streamPos, buffer <- streamBuffer, data <- streamData,
  pc <- streamPc, outcome <- streamOutcome
Process == INSTANCE ProcessRun WITH
  command <- processCommand, pc <- processPc, kept <- processKept,
  outcome <- processOutcome, MaxOutput <- Bound.process.output,
  MaxChunk <- Bound.process.chunk, MaxArrived <- Bound.process.arrived

steeringVars == <<steering, steered, previewed, steeringStarted,
  steeringActive, memory, steeringBatch, steeringKept, steeringPc,
  steeringLost, steeringFails, crashed>>
costVars == <<acting, costLog, costPc, head, costUsage, seeded, costLost,
  costFails, costCrashes>>
journalVars == <<setup, journalLog, journalRequest, config, atoms, seqs,
  cursor, journalBuffer, answer, journalPos, added, attempt, journalCrashes,
  journalPc>>
historyVars == <<session, historyLog, entries, historyPhase, historyAgain,
  historySteps>>
traceVars == <<turn, step, traceStage, traceCalls, turns, traceSteps, models,
  tools, traceStarted, ended, spans, flushing, traceBatch, received, closed,
  shutdown, traceLost, traceCrashes, traceFails>>
contextVars == <<contextRequest, contextStage, messages, segments, stages,
  rewrites, measured>>
recordVars == <<recordPhase, recordCalls, frames, operations, recordActive,
  broken, recording, recordNext, recordAgain, recordAt>>
editVars == <<editFile, snapshot, editCall, seen, editCalls, others>>
promptsVars == <<revision, sources, promptsPrompts>>
layersVars == <<layersInputs, built>>
streamVars == <<lines, ends, toolUse, streamPos, streamBuffer, streamData,
  decoder, signals, streamPc, streamOutcome>>
processVars == <<processCommand, processPc, exitCode, aborted, killed,
  arrived, processKept, counted, truncated, processOutcome>>

NoSteer ==
  /\ steering = None /\ steered = None /\ previewed = None
  /\ steeringStarted = None /\ steeringActive = None /\ memory = None
  /\ steeringBatch = None /\ steeringKept = None /\ steeringPc = None
  /\ steeringLost = None /\ steeringFails = None /\ crashed = None
NoCost ==
  /\ acting = None /\ costLog = None /\ costPc = None /\ head = None
  /\ costUsage = None /\ seeded = None /\ costLost = None
  /\ costFails = None /\ costCrashes = None
NoJournal ==
  /\ setup = None /\ journalLog = None /\ journalRequest = None
  /\ config = None /\ atoms = None /\ seqs = None /\ cursor = None
  /\ journalBuffer = None /\ answer = None /\ journalPos = None
  /\ added = None /\ attempt = None /\ journalCrashes = None
  /\ journalPc = None
NoHistory ==
  /\ session = None /\ historyLog = None /\ entries = None
  /\ historyPhase = None /\ historyAgain = None /\ historySteps = None
NoTrace ==
  /\ turn = None /\ step = None /\ traceStage = None /\ traceCalls = None
  /\ turns = None /\ traceSteps = None /\ models = None /\ tools = None
  /\ traceStarted = None /\ ended = None /\ spans = None /\ flushing = None
  /\ traceBatch = None /\ received = None /\ closed = None
  /\ shutdown = None /\ traceLost = None /\ traceCrashes = None
  /\ traceFails = None
NoContext ==
  /\ contextRequest = None /\ contextStage = None /\ messages = None
  /\ segments = None /\ stages = None /\ rewrites = None /\ measured = None
NoRecord ==
  /\ recordPhase = None /\ recordCalls = None /\ frames = None
  /\ operations = None /\ recordActive = None /\ broken = None
  /\ recording = None /\ recordNext = None /\ recordAgain = None
  /\ recordAt = None
NoEdit ==
  /\ editFile = None /\ snapshot = None /\ editCall = None /\ seen = None
  /\ editCalls = None /\ others = None
NoPrompt ==
  /\ revision = None /\ sources = None /\ promptsPrompts = None
NoLayered ==
  /\ layersInputs = None /\ built = None
NoStream ==
  /\ lines = None /\ ends = None /\ toolUse = None /\ streamPos = None
  /\ streamBuffer = None /\ streamData = None /\ decoder = None
  /\ signals = None /\ streamPc = None /\ streamOutcome = None
NoProcess ==
  /\ processCommand = None /\ processPc = None /\ exitCode = None
  /\ aborted = None /\ killed = None /\ arrived = None /\ processKept = None
  /\ counted = None /\ truncated = None /\ processOutcome = None

Init ==
  /\ part \in Parts
  /\ IF part = "steering" THEN Steer!Init ELSE NoSteer
  /\ IF part = "cost" THEN Cost!Init ELSE NoCost
  /\ IF part = "journal" THEN Journal!Init ELSE NoJournal
  /\ IF part = "history" THEN History!Init ELSE NoHistory
  /\ IF part = "trace" THEN Trace!Init ELSE NoTrace
  /\ IF part = "context" THEN Context!Init ELSE NoContext
  /\ IF part = "record" THEN Record!Init ELSE NoRecord
  /\ IF part = "edit" THEN Edit!Init ELSE NoEdit
  /\ IF part = "prompts" THEN Prompt!Init ELSE NoPrompt
  /\ IF part = "layers" THEN Layered!Init ELSE NoLayered
  /\ IF part = "stream" THEN Stream!Init ELSE NoStream
  /\ IF part = "process" THEN Process!Init ELSE NoProcess

(* A component that is not the one the behaviour is about.                 *)
Others ==
  /\ IF part = "steering" THEN TRUE ELSE UNCHANGED steeringVars
  /\ IF part = "cost" THEN TRUE ELSE UNCHANGED costVars
  /\ IF part = "journal" THEN TRUE ELSE UNCHANGED journalVars
  /\ IF part = "history" THEN TRUE ELSE UNCHANGED historyVars
  /\ IF part = "trace" THEN TRUE ELSE UNCHANGED traceVars
  /\ IF part = "context" THEN TRUE ELSE UNCHANGED contextVars
  /\ IF part = "record" THEN TRUE ELSE UNCHANGED recordVars
  /\ IF part = "edit" THEN TRUE ELSE UNCHANGED editVars
  /\ IF part = "prompts" THEN TRUE ELSE UNCHANGED promptsVars
  /\ IF part = "layers" THEN TRUE ELSE UNCHANGED layersVars
  /\ IF part = "stream" THEN TRUE ELSE UNCHANGED streamVars
  /\ IF part = "process" THEN TRUE ELSE UNCHANGED processVars

Next ==
  /\ UNCHANGED part
  /\ \/ part = "steering" /\ Steer!Next /\ Others
     \/ part = "cost" /\ Cost!Next /\ Others
     \/ part = "journal" /\ Journal!Next /\ Others
     \/ part = "history" /\ History!Next /\ Others
     \/ part = "trace" /\ Trace!Next /\ Others
     \/ part = "context" /\ Context!Next /\ Others
     \/ part = "record" /\ Record!Next /\ Others
     \/ part = "edit" /\ Edit!Next /\ Others
     \/ part = "prompts" /\ Prompt!Next /\ Others
     \/ part = "layers" /\ Layered!Next /\ Others
     \/ part = "stream" /\ Stream!Next /\ Others
     \/ part = "process" /\ Process!Next /\ Others

vars == <<part, steeringVars, costVars, journalVars, historyVars, traceVars,
  contextVars, recordVars, editVars, promptsVars, layersVars, streamVars,
  processVars>>

Spec == Init /\ [][Next]_vars

-----------------------------------------------------------------------------
(* Until the process dies, an input steered into a loop waits or is in the *)
(* log, whichever append failed or was not acknowledged (agent-loop.ts,    *)
(* steer and consumeSteering).                                             *)
InputsAreKept == part = "steering" => Steer!InputsAreKept

(* Inputs reach the model in order, and no input twice unless an           *)
(* acknowledgement was lost (step.ts, runStep).                            *)
InjectedOnce == part = "steering" => Steer!InjectedOnce

(* A turn of one replica reports the usage of all its steps, interrupted   *)
(* or not, and no turn reports a step twice (middleware.ts,                *)
(* createCostAccountingMiddleware; agent-loop.ts, #prepare).               *)
TurnUsageIsSum == part = "cost" => Cost!TurnUsageIsSum

(* A finished step left its last attempt in the log, once (step.ts,        *)
(* callModel).                                                             *)
LogIsOutput == part = "journal" => Journal!LogIsOutput

(* A native answer that is repeated is never taken for another one,        *)
(* wherever its chunks are cut (step.ts, acceptText).                      *)
NativeAnswersAccepted == part = "journal" => Journal!NativeAnswersAccepted

(* Every event with content stands once in the history, after any          *)
(* compactions and discards (projection.ts, applyCompaction).              *)
ContentOnce == part = "history" => History!ContentOnce

(* Without a compaction, tool messages stand behind their calls            *)
(* (context.ts, assembleHistory).                                          *)
AnswersFollowCalls == part = "history" => History!AnswersFollowCalls

(* Spans end before the spans they are part of, also when a turn is closed *)
(* by a failure (trace.ts).                                                *)
SpansNest == part = "trace" => Trace!SpansNest

(* What ended is exported in order, kept while an export fails, and        *)
(* exported before a shutdown is over (otlp.ts, #flush and shutdown).      *)
EndedAreKept == part = "trace" => Trace!EndedAreKept

(* After every stage the segments explain every word of every message      *)
(* (context.ts, reconcileMessageSegments).                                 *)
EveryWordExplained == part = "context" => Context!EveryWordExplained

(* A rewrite takes as few messages as it can for its own (context.ts,      *)
(* longestCommonSubsequence).                                              *)
KeepsSources == [][part = "context" => Context!SourcesAreKept]_vars

(* What is counted for a stage is what that stage had, with the calls of   *)
(* the same messages, and for the last stage all its text (context.ts,     *)
(* measureContextAssembly).                                                *)
CountsWhatItHad == part = "context" => Context!CountsWhatItHad

(* However calls overlapped the recording is whole, and its replay shows a *)
(* consumer that does the same the same (recording.ts, snapshot and        *)
(* ReplayModel).                                                           *)
ReplayIsFaithful == part = "record" => Record!ReplayIsFaithful

(* An edit rewrites only what the workspace has returned before            *)
(* (workspace.ts, edit).                                                   *)
RewritesWhatWasRead == part = "edit" => Edit!RewritesWhatWasRead

(* A patch that applied can be taken back by its inverse (files.ts,        *)
(* applyUnifiedPatch).                                                     *)
PatchesUndo == part = "edit" => Edit!PatchesUndo

(* The parts a prompt lists explain its content (registry.ts,              *)
(* resolvePrompt).                                                         *)
PartsExplainContent == part = "prompts" => Prompt!PartsExplainContent

(* Of the layers the highest decides each header and the one credential,   *)
(* however they are spelled and given (agent.ts, resolveModelConfig and    *)
(* mergeHeaders).                                                          *)
HighestLayerWins == part = "layers" => Layered!HighestLayerWins

(* How the body of an answer is cut, and its lines end, makes no           *)
(* difference (sse.ts).                                                    *)
CutsDoNotMatter == part = "stream" => Stream!CutsDoNotMatter

(* Tool calls that arrive in mixed pieces are yielded whole                *)
(* (openai-compatible.ts, acceptToolFragments).                            *)
CallsAreWhole == part = "stream" => Stream!CallsAreWhole

(* The output of a command is whole, or cut at the limit and reported as   *)
(* cut (sandbox.ts, spawnProcess).                                         *)
OutputIsAllOrCut == part = "process" => Process!OutputIsAllOrCut
=============================================================================
