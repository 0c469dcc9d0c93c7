# A TLA+ model of openagentcore

openagentcore is an event-sourced agent kernel in TypeScript. A session is an
append-only stream of events; an `AgentLoop` drives turns, steps, model calls,
approvals and tools by appending to it, and rebuilds everything it knows by
replaying it. Around the loop stand event logs (in memory, SQLite, MySQL,
Redis), projections of the log, context assembly, model adapters, traces,
prompts, configuration, and the coding tools. This directory models the parts
whose correctness depends on order, crashes, retries, rivals, limits or long
sequences of legal calls, checks them with TLC and proves part of that with
TLAPS.

Run everything from this directory:

    tlc -workers 2 -config AgentLoopBatch.cfg MCAgentLoop
    tlc -workers 2 -config EventLogs.cfg MCEventLogs
    tlc -workers 2 -config Components.cfg MCComponents
    tlapm AgentLoop_proofs.tla

and `tlapm` likewise on the other modules that end in `_proofs`.

## 1. Inventory

| Component (source) | State it keeps | Operations | Talks to | What is hard | Modules |
|---|---|---|---|---|---|
| Session state (`kernel/src/loop/session-state.ts`) | none; a fold over the log: status, active turn and step, pending calls and permissions, ids seen | `applyEventToSessionState`, `projectSessionState`, `transitionSessionLifecycle` | agent loop, facade, CLI | the validity of every event in every state | `SessionState`, `SessionLifecycle` |
| Agent loop (`loop/agent-loop.ts`) | `#state`, `#steering`, `#running`, cost seed | `runTurn`, `resumeTurn`, `steer`, `dryRunContext` | log, model, tools, strategies, middleware, trace | stale memory, rivals, abort | `AgentLoop`, `Steering` |
| Step execution (`loop/step.ts`) | the delta journal, the batch | model stream with retry, intents, approval, tool execution | `#emit` | failure between any two appends | `AgentLoop`, `ModelJournal` |
| Recovery (`loop/recovery.ts`) | none | `recoverActiveStep`, `closeAfterFailure` | the log | a log cut at any place, by anyone | `AgentLoop` |
| Event log in memory (`events/event-log.ts`) | events, subscribers | `append` (compare-and-swap), `read`, `subscribe` | all | subscribers that append, join and leave while they are told | `InMemoryEventLog` |
| Durable stores (`providers/standard/src/store`) | rows or keys | `append`, `read`, `close` | a database | statements of others in between, lost answers, crashes | `SqliteEventLog`, `MySqlEventLog`, `RedisEventLog` |
| Snapshot store (`events/snapshot-store.ts`) | versioned snapshots | `save`, `load` | examples only | nothing awaited in between | |
| Projection (`events/projection.ts`) | none; a fold: entries, compaction ranges | `applyEventToEntries`, `materializeMessageHistory` | context, compaction | ranges that meet earlier ranges | `MessageProjection`, `MessageHistory` |
| Context assembly (`loop/context.ts`) | none | stages, segments, measure | model | which segment explains which message after a rewrite | `ContextAssembly` |
| Strategies (`strategy/*.ts`) | counters | stop, retry, compaction, permission, checkpoint | agent loop | edges of budgets and windows | `AgentLoop`, `MessageHistory` |
| Middleware and cost (`loop/middleware.ts`) | totals per turn | cost accounting | `#emit` | totals across crashes and resumes | `CostAccounting` |
| Trace and exporter (`loop/trace.ts`, `trace/otlp.ts`) | open spans; export queue | observe; `forceFlush`, `shutdown` | collector | spans left open, overlapping flushes | `Tracing` |
| Model adapters (`model/*.ts`) | line parser and decoder of a stream | `stream` | an endpoint | answers cut anywhere | `ModelStream` |
| Recording model (`model/recording.ts`) | operations, active calls; a cursor | record, `snapshot`, replay | a model | overlapping calls, cancellation | `Recording` |
| Facade (`providers/standard/src/agent.ts`) | configuration layers | `configure`, `build` | agent loop | layers that spell one thing differently | `ConfigLayers` |
| Coding tools: files (`packages/coding/src/files.ts`, `workspace.ts`) | snapshots of what was read | read, edit, patch | disk | edits racing other writers | `WorkspaceEdit` |
| Coding tools: processes (`process.ts`, `ports/sandbox.ts`) | buffers of a child | `exec` | a child process | limits, abort, end in any order | `ProcessRun` |
| Prompt registry (`prompts/registry.ts`) | sources and their resolution | `replaceSource`, `replace`, `append`, `deleteRuntime` | context | the resolution after any order of changes | `PromptRegistry` |
| Tool registry, CLI, conformance kit, examples | maps, or none | | | nothing of their own | |

`PROJECT.json` lists each of them with its status, and under `hazards` the
places where this code can go wrong in a way a test would hardly reach.

What makes each one correct, in short: the *session state* accepts exactly the
streams the lifecycle allows, and a replay never fails on a log the loop wrote;
the *loop* records intents before effects, runs nothing that was not allowed
and nothing twice without the budget saying so, reports the outcome the log
supports, and never leaves a turn that cannot be closed; a *store* never lets a
stale writer append; a *projection* keeps the content of every event exactly once;
*context* can explain every word it sends; *cost* counts each step once; an
*exporter* loses nothing that ended; a *recording* replays as it was recorded;
an *edit* rewrites only what the caller had seen.

## 2. How the project is built

Order of work: the loop and the session it drives; the event logs that the loop
trusts, against one contract; then the components with a state of their own, one
module each.

    SessionState -- AgentLoop -- AgentLoop_proofs -- Effects_proofs
          |             |
    SessionLifecycle <--/
                     (refined)

    StoreSupport -- SqliteEventLog -- SqliteEventLog_proofs --\
               \--- MySqlEventLog -- MySqlEventLog_proofs ----\
               \--- RedisEventLog -- RedisEventLog_proofs ----- EventLogs_proofs
               \--- InMemoryEventLog                          /
               \--- EventLogContract <-- EventLogs ----------/
                                  (the four stores, refined)

    MessageProjection -- MessageHistory
    Components = Steering, CostAccounting, ModelJournal, MessageHistory, Tracing,
                 ContextAssembly, Recording, WorkspaceEdit, PromptRegistry,
                 ConfigLayers, ModelStream, ProcessRun
    CostAccounting, Steering, Tracing, PromptRegistry, Recording, ProcessRun
                 -- Parts_proofs -- Components_proofs -- Components

An `MC` module holds the sets and symmetries of the runs over the module it
extends. Modules that are proved about declare no RECURSIVE operator; parameters
are CONSTANTS with a named assumption; invariants are conjunctions of named
parts. `AgentLoop` has its own log, a sequence with compare-and-swap that may
fail or lose an acknowledgement: that is what `EventLogContract` promises of
each real store, with appends given up by their callers as its faults.

## 3. Modules

### SessionState

The reducer as two operators: `Valid(s, e)` says that
`applyEventToSessionState` accepts `e` in `s`, `Apply(s, e)` is what it
returns. Each branch of the `switch` has one operator for its checks
(`ValidToolResult`) and one for its assignments (`ApplyToolResult`). `Replay`
is `projectSessionState`; a reducer that throws yields `None`. `Answer` is the
lookup of the last decision about a call that recovery makes. One stream is
modelled, so tenant and session identity are left out; so are payloads.

### SessionLifecycle

The abstract specification: `transitionSessionLifecycle` and the types above it
(`SessionLifecycleEventFor`), which say after which status which event may
come. The code never runs that function outside tests: it is a promise about
the log, so `AgentLoop` is shown to implement it (`ImplementsLifecycle`), with
`status`, the turn, the awaited request and the head read off the log's state.

### AgentLoop

Variables and code:

| Variable | Code |
|---|---|
| `log`, `durable` | the event log; `durable` is what replaying it returns (`LogReplays` checks that it is) |
| `view[l]` | `#state` of replica `l` |
| `loop[l]` | the call stack of `runTurn` or `resumeTurn`: `pc` the place, the rest the locals that survive an await |
| `runs`, `ranBefore`, `fedBack` | history: entries of `tool.execute`, those before this operation, and what this operation decided to feed back |
| `faults` | how many crashes, port failures and append failures were injected |

Between two awaits a replica runs alone, so an action is the code from one
await that touches the log or the outside to the next. `Emit` is `#emit`:
number after the view's head, validate against the view, append under
compare-and-swap, advance the view. It may also fail without writing, commit
and lose the acknowledgement, or commit, advance and then throw in event
middleware. Any throw is `Failed(l)`: the catch block that starts
`closeAfterFailure`, itself five actions over fresh reloads; a throw in there is
swallowed and ends the operation.

| Actions | Code |
|---|---|
| `RunTurn`, `BeginTurn`, `ResumeTurn`, `DriveAborted`, `FinishTurn`, `StartStep` | `runTurn`, `resumeTurn`, `#driveTurn`, `runStep` |
| `RequestModel`, `DiscardDeltas`, `StreamCall`, `StreamEnd`, `StreamFail` | `callModel`, `ModelDeltaJournal` in its default `discard` mode |
| `RecordIntent`, `RejectUnregistered`, `RequestPermission`, `ResolvePermission`, `RecordDenial`, `RunTool`, `RecordResult`, `RecordFailure` | `runStepBody`, `executeRecordedToolCall`, `requestPermission`, `executePersistedToolCall` |
| `FinishStep`, `Maintain` | the end of a step, compaction and checkpoint decisions |
| `Recover` ... `RecoverFinish` | `recoverActiveStep` and what it calls |
| `CloseReload` ... `CloseTurn` | `closeAfterFailure` |
| `Abort`, `PortFails`, `Crash` | the host's signal; an awaited call that throws; the process dying |

Abstractions. A call's `tool` and arguments are its identity, and whether it is
registered; `reqId` is `callId:permission` in the code, so here it is the call.
A turn's id is made of the head at its start, a step's of its turn and index,
as in the code. Text deltas, prompted tool calls, usage, cost, prompts and
arguments are left out here, as is middleware that rewrites a payload or an
outcome; text, prompted calls and the `strict-prefix` mode are in `ModelJournal`,
cost in `CostAccounting`, injected input in `Steering`. The strategies are the
built-in ones with their budgets as constants; the permission policy and the
maintenance strategies may decide anything. Two reads of the log that recovery makes one
after the other are one step: a rival's append in between makes the next append
of this replica fail either way.

### EventLogContract, StoreSupport, and the four event logs

`EventLogContract` is the abstract specification of an `EventLog`: an append is
a call, one step `Decide` in which it compares the head and takes effect or is
refused, and an answer; a read is one snapshot of everything from a cursor; a
subscriber is told only of what was written; an append whose caller was told of
an error or died may take effect once, later, or never (`orphans`).
`StoreSupport` has what the stores share: rows, appends, and the assertions of
`store/support.ts`.

| Module | Code | What falls in between |
|---|---|---|
| `SqliteEventLog` | `BEGIN IMMEDIATE`, `SELECT`, `INSERT`, upsert of the head, `COMMIT`; a read is two SELECTs | statements of other processes on the file, a busy lock, a failing statement, a crash with the transaction open |
| `MySqlEventLog` | `INSERT IGNORE` of the stream row, `SELECT ... FOR UPDATE`, `INSERT`, `UPDATE`, `COMMIT`, each awaited, with InnoDB's shared and exclusive row locks | other transactions, a deadlock victim, a lost connection, a COMMIT the server performs after its client was told it failed |
| `RedisEventLog` | `APPEND_SCRIPT` as one step of the server; a read is two commands | lost connections, a script that is run late or whose reply is lost |
| `InMemoryEventLog` | `append` with its loop over the `Map` of subscribers as a stack of frames | subscribers that append, subscribe and unsubscribe while the loop runs, and the Map's rule for entries deleted or added meanwhile |

`EventLogs` is the sum of the four, chosen by `store`, with one refinement
mapping for the databases (`Database`) and one for the log in memory
(`Process`). What a database server, SQLite's file lock and Node's `Map` do is
modelled from how this code uses them.

### The components with a state of their own

| Module | Code | Actions and abstractions |
|---|---|---|
| `Steering` | `steer`, `consumeSteering`, `dryRunContext` | the queue against a running step, appends that are refused or unacknowledged, a preview, a crash. Kept from the loop: whether a step is active, in the log and in memory |
| `CostAccounting` | `createCostAccountingMiddleware` with `#prepare`, which seeds it | replicas with a memory of the log's prefix each; a usage counts steps and has one currency; a seed over mixed currencies throws |
| `ModelJournal` | `callModel`, `ModelDeltaJournal` | an answer as code points and calls, cut in chunks anywhere; retries in both modes, recovery from the log under another configuration, middleware that short-circuits or adds chunks |
| `MessageProjection` | `applyEventToEntries`, `applyCompaction`, `materializeMessageHistory`, `SlidingWindowCompactionStrategy`, the merge of calls into messages | operators only; an entry keeps the numbers of the events it came from, not their text |
| `MessageHistory` | `#maybeCompact` over that projection | turns and whole steps append; after a step the strategy (any range, or the window) decides |
| `Tracing` | `AgentTraceLifecycle`, `OtlpTracePort` | the events of one turn, observed or not (an append whose acknowledgement is lost is not), restarts, and the queue under `forceFlush`, `shutdown` and failing exports |
| `ContextAssembly` | `assembleContext`, `finalizeContextAssembly`, `reconcileMessageSegments`, `measureContextAssembly` | words stand for texts; each stage may hand on any short list of messages (`MaxMessages`); the measure is the requests that `countTokens` is asked for, not their numbers |
| `Recording` | `RecordingModelPort`, `ReplayModelPort` | overlapping calls, consumers that leave, aborts before and while a frame is awaited; then the same consumer over the replay, one call at a time |
| `WorkspaceEdit` | `RepositoryWorkspace`, the edit tools and `applyUnifiedPatch` | one file as its lines; the read, the truncation and the write of an edit are three steps, other programs write between them; a write may fail halfway |
| `PromptRegistry` | `PromptRegistry` | three sources over sets of ids; content as the sequence of texts it joins |
| `ConfigLayers` | `resolveModelConfig`, `mergeHeaders` and what merges the layers | keys and headers; a header may be spelled in two ways |
| `ModelStream` | `parseServerSentEvents`, the decoder of `openai-compatible.ts` | a line is one character, its end one or two; tool calls, with id and function name, arrive in pieces; a payload may hold a choice and the usage |
| `ProcessRun` | `LocalProcessSandbox.exec`, `coding.run-command` | chunks of two streams against one limit, abort, error, exit and close in any order |

`Components` puts these twelve side by side: `part` says which one a behaviour
is about, the variables of the others stay `None`. They share no state in the
code either, so this is a sum and not a composition; it lets one run, with the
bounds of `MCComponents`, ask one question of each.

### Proof modules

| Module | What it proves |
|---|---|
| `AgentLoop_proofs` | the loop with any number of replicas: types and the compare-and-swap, replay, approvals |
| `Effects_proofs` | extends it, for its invariants rest on those: the batch, how steps and turns end, what runs, and the refinement of `SessionLifecycle` |
| `SqliteEventLog_proofs`, `MySqlEventLog_proofs`, `RedisEventLog_proofs` | each store alone: its head, and that it implements `EventLogContract` |
| `EventLogs_proofs` | carries these three over to `EventLogs`, and proves the log in memory there |
| `Parts_proofs` | the components that are proved about alone: cost, steering, traces, prompts, recordings, the output of a command |
| `Components_proofs` | carries these over to `Components`, and proves the edits there |

To carry over means: the module that composes instantiates the proof module, a
lemma `Same...` says that the two copies of `Init`, `Next` and the property are
the same, and a step of the sum is a step of the part the behaviour is about
(`OwnSteps`). Section 5 has the theorems.

## 4. Runs

| Run | Instance | What it shows |
|---|---|---|
| `batch` | one replica, a batch of two calls, two faults, tool budget 2, default recovery budget 1 | `IntentsBeforeEffects`: no tool runs before the whole batch of intents is in the log. `IntentsAreActive`: no intent comes from a discarded attempt. `AllowedBeforeRun`: what ran was allowed, in the log. `NoRunAfterResult`; `UnknownNotRerun`: what ran in an operation that died is not run again. `OneApprovalAtATime` |
| `turns` | one replica, two turns of up to two steps, one registered and one unregistered tool, `fail-turn`, recovery budget 2, compaction and checkpoints, one fault | `TypeOK`; `ImplementsLifecycle`; `DeniedTurnFails`, `CompletedMeansAnswered`: the reason a turn is closed with agrees with its steps, finished live or by recovery |
| `replica_faults` | two replicas, one call, model budget 2, one crash, failed append or lost acknowledgement | `LogReplays`: the log replays without an error, to the state a reload returns. `CasCoherent`: a replica at the head holds the log's state. `IntentsAreActive` when rivals recover and close the turn under each other |
| `liveness` | one replica, a batch of two calls, one fault, `FairSpec` | `OperationsReturn`, `NeverWedged` |
| `event_logs` | two processes on a database, or a host and two subscribers in one process; two events | `StoresKeepContract`, `MemoryKeepsContract`: each store implements the contract. `HeadIsLast`: the stored head is the last event. `HeardOnce`: a subscriber hears every event after it joined once |
| `components` | the twelve components, bounds in `MCComponents` | the twenty properties of the table below |
| `feed_back` | one call, one fault | finding 1, a violation |
| `rival_close` | two replicas, one call, no fault | finding 2, a violation |
| `steering_dry_run` | one input, one step, no fault | finding 3, a violation |
| `journal_boundaries` | one prompted call, `strict-prefix`, two attempts | finding 4, a violation |
| `rival_recovery` | two replicas, two calls, two steps, no fault | finding 6, a violation |
| `sliding_window` | chat of one message and one answer a turn, `maxEntries` 3, six steps | finding 5, a violation |

What `components` checks:

| Part | Property | In short |
|---|---|---|
| steering | `InputsAreKept`, `InjectedOnce` | an input waits or is in the log until the process dies, apart from what a preview drops; in order, and twice only after a lost acknowledgement |
| cost | `TurnUsageIsSum` | a turn reports the usage of its steps, none twice |
| journal | `LogIsOutput`, `NativeAnswersAccepted` | a finished step left its last attempt in the log, once; a repeated native answer is accepted however it is cut |
| history | `ContentOnce`, `AnswersFollowCalls` | any compactions and discards keep each event's content once; answers stand behind their calls |
| trace | `SpansNest`, `EndedAreKept` | a span ends before its parent, also after failures and restarts; what ended is exported in order, or waits |
| context | `EveryWordExplained`, `KeepsSources`, `CountsWhatItHad` | segments explain all words after every stage; a rewrite takes as few messages for its own as it can; what is counted for a stage is what that stage had |
| record | `ReplayIsFaithful` | the recording is whole, its replay shows the same |
| edit | `RewritesWhatWasRead`, `PatchesUndo` | an edit rewrites only contents the workspace returned; a patch is undone by its inverse |
| prompts | `PartsExplainContent` | the parts a prompt lists explain its content |
| layers | `HighestLayerWins` | the highest layer decides each header and the credential |
| stream | `CutsDoNotMatter`, `CallsAreWhole` | where a body is cut makes no difference; calls come whole |
| process | `OutputIsAllOrCut` | output is whole, or cut at the limit and said to be |

Where a property has an exception, it is what the code does and the comment at
the property says so: an input steered during a preview may be dropped
(finding 3), a shutdown that joins a flush does not export what ended after that
flush took its batch, and an abort that comes while the replay waits for a frame
may come too late.

Deadlock is checked in `event_logs`. The configurations of `AgentLoop` and
`Components` set `CHECK_DEADLOCK FALSE`: once the turns of the bound are over, or
a stream, a recording or a command is, the system really stops.

Bounds. In the loop, `MaxFaults` 1 or 2 is enough to hit each await of a run
once, and twice where recovery itself is hit (`batch`). Two calls are the least
batch that has a "between"; two steps the least that go on after a tool result;
two turns reach a terminal session that starts again. `MaxLog` only stops new
resumptions, never a running one: in `rival_recovery` (6) the second replica enters
before the first step is over, but proceeds at any later point, so it meets
the next step too; in `replica_faults` (8) resumption may also start
while an approval is pending. Elsewhere `MaxLog` is never reached. In
`event_logs`, `MaxSeq` 1 gives two events and so an append on an empty stream, one
on a stream with a head, and stale and repeated numbers for both; two processes
are the least that lock each other out, deadlock and use up a number the other
wanted; a third would add waiting, not an order of writes. `MaxHandles` 2 lets
a subscriber be passed to `subscribe` twice and closed once.
`Contiguous` is TRUE, as the three durable stores declare; the log in memory, which only
checks that numbers increase, is instantiated with FALSE. In `components`, each
part has one fault of each kind and the least lengths at which the case in
question happens: three inputs over four steps (an injected batch, one
waiting, one steered during a preview), three steps of history (a summary that
meets a summary), two attempts and one restart of a model step, two calls of a
recording that overlap, three calls of the coding tools and one foreign write,
output beyond the limit. Identical calls, replicas and processes are
symmetric in the safety runs; the liveness run uses no symmetry.

Fairness. `WF(Proceed(l))`: Node's event loop continues an operation whose
awaited promise settles, and ports settle or are aborted. `WF(ResumeTurn(l))`:
the host answers an operation that was rejected or died with `resumeTurn`, as
the README of the repository and ADR 0003 ask. No environment action is fair.
Liveness is stated for one replica: two replicas may reject each other's
appends for ever, and ADR 0003 leaves the arbitration between them open. The
other modules state safety only: a database, a collector or a child process need
not answer.

Findings.

1. `docs/adr/0004-tool-failure-feedback.md:24` promises that a step whose
   failure was fed back finishes as `succeeded`. A step finished by recovery
   finishes as `failed` (`recovery.ts:140-169`), even when the same operation
   ran the tool and fed its failure back: a process dies with an approval
   pending, `resumeTurn` gets it allowed, the tool throws, the budget ends in
   `feed-back`. The turn then stops as `tool-error`, so the model never sees the
   failure. The ADR leaves open only a crash between the result and
   `step.finished`, which the counterexample does not use.
2. `docs/design.md:204` says illegal transitions of the lifecycle are rejected.
   The reducer does not look at the status, and with two replicas the log can
   hold a `tool.result` while an approval is awaited (`recovery.ts:188-211`: the
   rival's request arrives between two passes of closing).
3. `docs/adr/0005-versioned-prompts-and-context-assembly.md:18` says a dry run
   does not consume steering. `dryRunContext` ends by cutting the queue back to
   its length at the start (`agent-loop.ts:265`), which drops what other callers
   steered while the preview was awaited.
4. `docs/adr/0006-model-stream-retry-prefix.md:18` lets a provider change chunk
   boundaries when it retries. With prompted tool use, whether text in front of a
   prompted call is flushed apart from it depends on those boundaries
   (`step.ts:421-437`), so the same answer in other chunks is taken for one that
   diverges.
5. The sliding window names a range from the first to the last entry it drops.
   Once two compactions were applied, that range holds the older summary's
   number but not the newer one, and `applyCompaction` refuses the gap
   (`projection.ts:394`): the turn fails, and so does every later one, for the
   strategy decides the same again. The test at `agent-loop.test.ts:205` says the
   window may be applied repeatedly; in a chat with `maxEntries` 3 the third
   compaction is refused.
6. `docs/adr/0003-incomplete-tool-call-recovery.md:12` says that all intents of
   a step are written before any side effect of a tool. A replica that recovers a
   step reconciles that step's batch, but walks the calls that are pending in a
   state it reloads afterwards (`recovery.ts:129-133`). If a rival has finished the
   step and started the next, that state holds the first intent of the rival's
   unfinished batch, and recovery runs it. With one replica the ADR is right:
   `BatchBeforeEffects` below.

Each property of a passing run has a mutant in `PROJECT.json`: a definition
changed as a plausible bug would change it, with which TLC finds the property
violated. The operators commented "Mutant" are those bodies; no specification
uses them.

## 5. Theorems

Assumptions: `LoopAssumption` (budgets are positive, bounds are natural numbers,
`None` is no call, no number and no decision) and `AbsentAssumption` (nor an outcome
or a stop reason); for the stores `StoreAssumption` and `NoneAssumption` (`None` is
no row, append or read), `OrphanAssumption` (`Orphan`, who holds the lock for a
client that is gone, is no client) and `LocalAssumption` (the host is one of those
who append in memory, `None` is not); for the components `BoundsAssumption` (the
bounds of cost and output are natural numbers, and `None` is not, for it also stands for
no turn). A theorem that needs more states it. TLC evaluates these assumptions on
the instances of the runs. The sets of replicas, calls and processes may be
infinite.

### The loop

- `TypeCorrect == Spec => []TypeOK`
- `HeadsDecideStates == Spec => []CasCoherent`: however many replicas, crashes,
  failed appends and lost acknowledgements, a replica whose `lastSeq` equals the
  log's head holds exactly the log's state. This is why `#emit` may validate
  against its memory and let the store compare one number: if the append is
  accepted, the validation was made against the true state.

Both these come from one inductive invariant,
`Coherent == TypeOK /\ CasCoherent /\ StreamHead`. `TypeOK` alone is not
inductive: `durable` advances by `Apply(durable, e)` with an event validated
against `view[l]`, and `Apply` is total only on events valid in the state it is
applied to (removing a pending call needs one). `CasCoherent` closes the gap:
when the append is accepted, the two states are the same. `StreamHead` says that
a head of -1 means an empty stream: a replica restarted after a crash holds the
empty state, and only an empty stream has its head. The proof has one lemma per
group of actions; all of them reduce to `EmitCoherent`, one lemma about `Emit`,
which rests on `ApplyType`: for a state and a valid event
of the right types, `Apply` returns a state.

- `LogAlwaysReplays`: `Spec => []LogReplays` if `None` is no session state
  (`NoneIsNoState`: a replay that throws returns `None`). The log replays without
  the reducer rejecting an event, to the very state a reload returns.

The invariant is `Coherent /\ LogReplays`. By `NextGrows` every step appends one
event that is valid in the log's state, or none; `ReplayAppend` says that replaying
one event more is `ReplayStep` on the replay so far. `Replay` is a fold, whose
library definition chooses a function on the sets of positions: `FoldsExist`
shows that there is one such function for every number of events and only one, by
`SetInduction` over the set of those numbers.

- `OnlyAllowedToolsRun == Spec => []AllowedBeforeRun`: a tool
  that ran has an `allow` for that very call in the log.

The history of runs says nothing about why a replica runs a tool, so the
invariant is strengthened to `Approved`: a replica at `run` holds a call the log
allows, and every `allow` among the answers a state remembers (the log's state
and each replica's view, which recovery consults) is in the log. The second part
is what makes a recovered run sound: `RecoverCall` acts on `Answer(view[l], c)`,
which may be older than the log but never more generous. The proof is by
`QuietApproved` (steps that append nothing) and `EmitApproved` (steps that
append), and needs `Coherent` for the types.

- `OneReplicaOneApproval`: if `Loops = {l}`, then
  `Spec => []OneApprovalAtATime`. With one replica a session never waits for two
  approvals, for any calls, batches, turns, budgets, crashes, failed appends and
  lost acknowledgements. With rivals it is false: the replica of finding 2 leaves
  a request pending when the next is made.

The extra hypothesis `NoneIsNoStep` says that `None` is not a step. The invariant
`OneAsk` adds to the property: `PendingInStep`, what is pending belongs to the
active step, which has an intent, and an approval is asked for a call without a
result; `Place`, approvals are pending only where a replica waits for one, has
been interrupted or walks them (`MayWait`), the snapshot it walks is what is
pending, and the step it works on is the active one; `Informed`, outside `idle`
and `closing` the view of the single replica is the log's state. The last part is
where one replica is used: recovery walks a snapshot, and only without rivals
does the snapshot stay what is pending. `ApplyFields` and `Pending` say what an
event does to the pending lists, `EmitOne` reduces every append to them, and there
is one lemma per group of actions.

- `NoIntentIsDiscarded == Spec => []IntentsAreActive` (`Effects_proofs`): no
  intent in the log belongs to an attempt of the model that was discarded, for any
  replicas.

The property looks at the end of the log's story: an intent is written after the
discard, or a discard would have to reach back over it. `Recorded` tells the
story from the start. `Numbered`: numbers grow up to the head, and a discard only
covers numbers the log had reached. `Begun`: work is recorded for a step that
was started, and an intent for a call the log still holds as chosen.
`InBatch`, the part that makes it inductive, says for each program counter what
a replica's `batch`, `i` and `missing` have to do with the log: it holds for
replicas whose view has the log's head only, and nothing is asked of the
others, whose next append is refused.

- `DenialFailsTurn == Spec => []DeniedTurnFails` and
  `CompletedIsAnswered == Spec => []CompletedMeansAnswered` (`Effects_proofs`), for
  any replicas if `NoneIsNoStep`: a turn with a denied tool ends as failed or aborted, and a
  completed turn ends in a step that succeeded and called no tool.

`StopReason` and the outcome of a recovered step are computed from the log, so
the invariant `Trail` says what log and state have in common: `Settled` (what is
pending belongs to the active step and has no result), `Accounted` (a step of the
log without its `step.finished` is the active one, a result is one of an intended
call), `Ended` (a step with a denied call does not succeed, and one that does not
succeed is the last of its turn) and `Reported` (the properties). `Sound` is what
each appended event must be for `Trail` to stay so; that a live replica's `denied`
flag and step outcome agree with the log is `Flagged`, and what a replica holds on
its way to `turn.finished` is `Held`.

For a session that one replica runs (`Loops = {l}` and `NoneIsNoStep`), also in
`Effects_proofs`:

- `BatchBeforeEffects`: `Spec => IntentsBeforeEffects`. No tool runs before the
  whole batch of its step is in the log, wherever a crash falls between two
  intents: `recoverActiveStep` completes the batch first. With rivals it is false
  (finding 6).
- `ResultsAreFinal`: `Spec => NoRunAfterResult`. A call with a result never runs
  again, for any budgets.
- `UnknownStaysUnknown`: `Spec => UnknownNotRerun`. With the default recovery
  budget of one, a call that ran in an operation that died is not run again.

They are properties of the step `RunTool`, so the invariant must hold just before
it. `Effective` adds to the earlier ones `Working`: what a replica still has to
execute, of its batch or of the snapshot recovery walks, is what is pending, each
call once, and past the intents the whole batch is in the log. For the budget of
one it adds `Answered`: what ran had its approval answered, which happens once. With
that budget recovery runs only calls whose approval is answered under it, so it
cannot meet one that ran.

- `LogFollowsLifecycle`, for one replica:
  `Spec => ImplementsLifecycle`. Every append is a transition
  `transitionSessionLifecycle` allows, and every other step a stutter. The code
  runs that function in its tests only; the theorem says that it would never throw
  on a log one replica wrote. With rivals it does (finding 2).

`Living` adds `Mode` (the status says whether a turn runs and an approval is
pending), `Dated` (turns are named after numbers the log has reached, the active
one is the last), `Named`, `Complete` (an approval is awaited only after the whole
batch) and `Poised`. An event is `Permitted` if it has the next number, answers a
pending approval if there is one, and starts a turn if there is none; `Transition`
shows that such an event is a step of `SessionLifecycle`, and one lemma per group of
actions that what the loop appends is permitted.

### The event logs

Of each database alone, in its own module:

- `HeadMatchesRows` (SQLite, MySQL) and `HeadMatchesEvents` (Redis):
  `Spec => []HeadIsLast`. The head a store keeps beside the events is the number of
  the last committed one, and the events are exactly those up to it, each number
  once.
- `KeepsContract`: the store implements `EventLogContract`. `Decide` is mapped to
  the `COMMIT` (or the run of the script) of an append that succeeds and, for one
  that is refused, to the check of its input or to the read of the head; a read's
  snapshot is mapped to its first SELECT or command.

Of the log a session is opened with, in `EventLogs_proofs`:

- `HeadsMatch: Spec => []HeadIsLast` and
  `DatabasesKeepContract: Spec => StoresKeepContract`, whichever of the three
  databases it is, under the one refinement mapping of `EventLogs`.
- `MemoryIsLog == Spec => MemoryKeepsContract`: the log in memory keeps the same
  contract, also when a subscriber appends while another event is delivered.
- `SubscribersHearOnce == Spec => []HeardOnce`: a subscriber that stays in the map
  hears each event after it joined once, for any number of subscribers that append,
  subscribe and unsubscribe while they are told, nested to any depth.

All about a database suppose `Contiguous`, which `sqlite.ts`, `mysql.ts` and
`redis.ts` declare, but for `HeadMatchesEvents`, whose script refuses gaps itself. The
log in memory is instantiated without. The theorems about `MySqlEventLog` alone also
suppose `OrphanIsNobody`, which is `OrphanAssumption` in `EventLogs`.

The invariants. SQLite and MySQL: `TypeOK`, `HeadIsLast`, and for each process
`Transaction` (who writes owns the lock, so what it read is still so when it
commits; the tables it sees are the committed ones and what it wrote itself) and
`Progress` (what its program counter says of its call and its read). In MySQL a COMMIT
may be performed after its client was told that it failed; until then the lock is
its own, and `OrphanFits` says of it what `Transaction` says of a client. In Redis
nothing is held between two commands: `LateIsValid` says of a script that may run
late only that its input was checked, for the script itself compares and writes. One
lemma per action proves that the invariant is kept and one that the step is a
step of the contract or a stutter; the second half of a read returns the snapshot
at the first because rows up to a head never change.

In memory, `MemoryInv` has besides types `Undecided` (the append being decided has no
answer yet), `Ordered` (the numbers increase, and a loop delivers only what is in the
log, each loop another number), `OnePlace` (a subscriber has at most one live place in
the Map) and `Delivered`, the heart of it: whoever is in the Map has heard each event
after it joined once, except those whose loop has not come to its place yet
(`Waits`). A deleted entry keeps its place, and a new one is behind all others, as
in Node's `Map`; so a loop neither skips nor repeats a place, and one that a
subscriber starts within it passes the places on its own.

### The components

These are theorems of `Components`, for any bounds that satisfy `BoundsAssumption`
and any sets of texts, chunks, requests, callers and contents.

- `SteeredInputsAreKept == Spec => []InputsAreKept` and
  `SteeredInputsInOrder == Spec => []InjectedOnce`.

The invariant `SteerInv` has, besides types, `Starting` (what is injected is the
head of the queue until it is consumed; memory has the step just when its event
was acknowledged, so the `finally` of `runStep` cuts the queue just then; what a
preview will cut was steered during it), `NoneLost`, `Ordered` (the queue is in
order, and behind whatever the log has that came later each waiting input stands
already) and `Counted` (what still waits is in the log once for each acknowledgement
lost, at most). `Injects`, the append of `step.started`, is the step that needs all
of it. The inputs of the log are `FlattenSeq` of those of its steps;
`FlattenAppend` unrolls that recursive function at its end, by induction over a
set of numbers.

- `EditsRewriteWhatWasRead == Spec => []RewritesWhatWasRead`, with `EditInv`: the
  snapshot, and what a running edit expects or is based on, has been returned to a
  caller.
- `TurnsReportTheirSteps == Spec => []TurnUsageIsSum`: with any number of replicas,
  crashes, lost acknowledgements and resumed turns, a turn never reports more steps
  than the log has of it; if one replica lost no acknowledgement and was billed in
  one currency, it reports exactly those.

`CostInv` has `LogShaped` (in every prefix of the log turns are numbered as they
start, and only the last can be open; prefixes, for a replica remembers one),
`NoneTwice` and `AllExact`. `NoneTwice` says why no step is added twice: a replica has
read the start of the turn it seeded and drives that one (`Remembers`), and its sum
for a turn is empty, not used any more, at most what the log has, or was left behind
by a seed that threw over mixed currencies (`SeedThrew`): that replica cannot
drive the turn, for the steps that made the seed throw stay in the log.
`Exact` says, for the one replica, that the sum it holds of the open turn is the
number of its steps.

- `EndedSpansAreKept == Spec => []EndedAreKept` and
  `SpansNestInTurn == Spec => []SpansNest`.

`ExportInv`: what ended is what arrived, what is under way and what waits, in this
order as long as no export failed, and a shutdown that joined no flush has
its spans in a batch or delivered. `NestInv` adds `TurnInv` (the log of the turn) and,
while no event was lost and the port is open, `SpanInv`: the lifecycle holds exactly the
spans that were started and have not ended, of the current step only, so a
span cannot end after its parent; each span was started once, for
something the log had reached.

- `PromptsAreExplained == Spec => []PartsExplainContent`. `PromptInv` says that the
  resolved prompts are `BuildState` of the sources after every operation; that what
  `BuildState` returns explains itself is proved source by source (`Explained`), as its
  loop takes them.
- `ReplaysAreFaithful == Spec => []ReplayIsFaithful`. `CallsInv` is about the
  recording: the frames of a call are what its consumer saw and how it ended
  (`Told`, `Consistent`), each ended call has one operation (`Pushed`), and the count
  of active calls is right (`Counts`), so a snapshot that is taken has all numbers
  from 1 on, and once each. `Sorted` shows that then the sort by number puts the
  operation of call s in place s.
  `RecordInv` adds `Replays`: each call made again has ended as the recorded one did,
  or is the last and has seen a prefix.
- `OutputsAreAllOrCut == Spec => []OutputIsAllOrCut`. `ProcessInv`: until the output is
  cut, what is counted is what was printed and each stream has all that it brought
  (`Whole`); afterwards the two buffers hold the limit together and more was printed
  (`Cut`); and of every prefix of the chunks that fits each stream has its bytes
  (`Fitting`). The sums over the chunks are a recursive function; `SumsExist` shows that there
  is one for each number of chunks and only one, `PrintedGrows` unrolls it.

### What is only model-checked

- Liveness (`OperationsReturn`, `NeverWedged`): fairness and ENABLED are out of
  TLAPS's reach. So are the violations of section 4, which are found on an instance.
- `LogIsOutput`, `NativeAnswersAccepted`, `CutsDoNotMatter`, `CallsAreWhole`: they
  compare what a fold over an answer or a body computes with the answer itself, for
  every way to cut it: induction over data.
- `ContentOnce`, `AnswersFollowCalls`, `EveryWordExplained`, `KeepsSources`,
  `CountsWhatItHad`: the projection and the segments are built with `SelectSeq`,
  whose definition the provers cannot open.
- `PatchesUndo`: a fold over hunks whose positions depend on the hunks before.
- `HighestLayerWins`: folds over the layers and, in each layer, over its inputs,
  compared with the last input that sets a thing.

## 6. Not modelled

- *Snapshot store*: `save`, `load` and `loadLatest` over one Map without an await
  in between; the loop loads no snapshot, only an example does.
- *Tool registry*: a map with a check for duplicates, filled before a session
  starts. `AgentLoop` has whether a tool is registered.
- *CLI and conformance kit, examples, runtime, ui*: they drive the other
  components or are empty.
- Of components modelled in part: the `TurnResult` and middleware that rewrites
  events; usage records of a step; key-value ports of the stores and the
  conversion of rows; checkpoint intervals, permission policies and the strategy
  registry; metadata and the tool list in the context report; metrics of the
  exporter; a model request's JSON, `countTokens` and redaction; the file format
  and recorded times of recordings; validation of each configuration field;
  capability negotiation and Docker's command lines; listing and search of files;
  git and verifier, which format command lines and parse output.

What the numbers of the context report are worth is not stated: a token count is
the model's, and `docs/adr/0005-versioned-prompts-and-context-assembly.md:26` says
that those of the segments need not add up to the request's (which also has tools;
a segment is counted without). `CountsWhatItHad` is about what is counted.
The native calls that joined a message are segments with one id, which has two
effects the model shows and no document speaks of: the calls of such a message are
counted with each of its segments, and the number of a stage, which looks segments
up by id, holds the last of them for all, without the text of the message.

Two hazards are covered in part. Of a turn whose steps another replica may have
run, `TurnUsageIsSum` bounds the sum from above; it is exact for one replica. Of an
edit, `RewritesWhatWasRead` says that what is rewritten was returned to a caller;
what other programs write after the edit read the file can still be lost, and a
write that fails halfway leaves a part of the new content: the code has neither a
lock nor a rename (`workspace.ts:57`).

Two hazards in `PROJECT.json` have no property. Steps of different currencies
make the cost seed throw in `#prepare`, outside the catch that closes a turn
(`agent-loop.ts:485`): each resume of that turn fails the same way, and
`TurnUsageIsSum` is stated for one currency. A child that ignores SIGTERM keeps an
aborted command running (`sandbox.ts:286`): the code has no second signal, so
nothing would make the call return, and `ProcessRun` assumes no fairness of the
child.
