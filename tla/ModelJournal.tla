----------------------------- MODULE ModelJournal -----------------------------
(***************************************************************************)
(* One model step of packages/kernel/src/loop/step.ts: callModel and its   *)
(* ModelDeltaJournal.  A provider streams its answer in chunks and may     *)
(* fail; the journal writes each atom of the answer (a code point, or a    *)
(* tool call) to the log once; a retry discards what was written or, in    *)
(* strict-prefix mode, must repeat it; a crash leaves only the log.        *)
(***************************************************************************)
EXTENDS Integers, Sequences, FiniteSetsExt, SequencesExt

CONSTANTS
  Calls,         \* the tool calls; prompted, one stands for the JSON text of the call
  PromptPrefix,  \* PROMPTED_TOOL_CALL_PREFIX, as code points
  Setups,        \* toolUse is prompted or not; the answers, sequences of code points and calls,
                 \* a provider may give; the chunks model middleware may add to context.chunks
  Modes,         \* the values modelStreamRetryMode is configured with over the restarts
  MaxAttempts,   \* the retry budget of one process
  MaxChunk,      \* bound: code points of a chunk
  MaxCrashes     \* bound: restarts

VARIABLES
  setup,    \* one of Setups
  log,      \* model.delta and model.attempt.discarded of the step; the position is the seq
  request,  \* retryMode in the persisted model.request, "none" before it
  config,   \* modelStreamRetryMode of the running process
  atoms, seqs, cursor,  \* #atoms, #activeDeltaSeqs, #cursor
  buffer,   \* promptedTextBuffer; <<>> for undefined
  answer,   \* what the provider answers in this attempt
  pos,      \* how much of it was streamed
  added,    \* the code points and calls middleware added and the step recorded
  attempt, crashes,
  pc        \* "begin", "stream", "failed", "tail", "end", or how the step ended

vars == <<setup, log, request, config, atoms, seqs, cursor, buffer, answer, pos, added, attempt, crashes, pc>>
journal == <<atoms, seqs, cursor>>
process == <<setup, request, config, crashes>>

(* How a step ends: done, or closed because the output diverged from the   *)
(* prefix, a prompted call was no JSON, the budget was used up, or an      *)
(* append failed.                                                          *)
Ended == {"done", "diverged", "malformed", "exhausted", "unwritten"}

RetryMode == IF request = "none" THEN config ELSE request

-----------------------------------------------------------------------------
(* ModelDeltaAtom: a code point or a tool call, of a text or a tool delta. *)
TextAtom(point) == [kind |-> "text", value |-> point]
ToolAtom(toolCall) == [kind |-> "tool", value |-> toolCall]
Text(atom) == IF atom.kind = "tool" /\ setup.prompted THEN PromptPrefix \o <<atom.value>> ELSE <<atom.value>>
TextAtoms(text) == [i \in DOMAIN text |-> TextAtom(text[i])]
NativeAtoms(text) == IF Len(text) = 1 /\ text[1] \in Calls THEN <<ToolAtom(text[1])>> ELSE TextAtoms(text)

ActiveDeltas(events) == {i \in DOMAIN events : events[i].type = "model.delta" /\
  \A j \in i + 1 .. Len(events) : events[j].type = "model.attempt.discarded" =>
    i < events[j].from \/ events[j].to < i}

AtomsOf(events) == FoldLeft(LAMBDA found, i : found \o events[i].atoms, <<>>,
                            SetToSortSeq(ActiveDeltas(events), <))

Delta(written) == [type |-> "model.delta", atoms |-> written]
Discarded(from, to) == [type |-> "model.attempt.discarded", from |-> from, to |-> to]

Init ==
  /\ setup \in Setups /\ log = <<>> /\ request = "none" /\ config \in Modes
  /\ atoms = <<>> /\ seqs = <<>> /\ cursor = 0 /\ buffer = <<>>
  /\ answer = <<>> /\ pos = 0 /\ added = <<>> /\ attempt = 1 /\ crashes = 0 /\ pc = "begin"

-----------------------------------------------------------------------------
(* Mutant: a chunk that goes beyond the prefix counts as diverging.        *)
AcceptWhole(accepted, next) ==
  LET known == Min({Len(accepted), Len(atoms) - cursor})
  IN  IF (known > 0 /\ known < Len(accepted)) \/ \E i \in 1..known : atoms[cursor + i] # accepted[i]
      THEN pc' = "diverged" /\ UNCHANGED <<log, journal>>
      ELSE /\ cursor' = cursor + Len(accepted)
           /\ IF known > 0 THEN pc' = next /\ UNCHANGED <<log, atoms, seqs>>
              ELSE /\ log' = Append(log, Delta(accepted)) /\ seqs' = Append(seqs, Len(log) + 1)
                   /\ atoms' = atoms \o accepted /\ pc' = next

(* acceptText and acceptTool: what was accepted before must be repeated,   *)
(* the rest is pushed and written.  A failed append ends the step, whether *)
(* or not the delta reached the log.                                       *)
Accept(accepted, next) ==
  LET known == Min({Len(accepted), Len(atoms) - cursor})
      suffix == SubSeq(accepted, known + 1, Len(accepted))
  IN  IF \E i \in 1..known : atoms[cursor + i] # accepted[i]
      THEN pc' = "diverged" /\ UNCHANGED <<log, journal>>
      ELSE /\ atoms' = atoms \o suffix /\ cursor' = cursor + Len(accepted)
           /\ IF suffix = <<>> THEN pc' = next /\ UNCHANGED <<log, seqs>>
              ELSE \/ log' = Append(log, Delta(suffix)) /\ seqs' = Append(seqs, Len(log) + 1)
                      /\ pc' = next
                   \/ log' \in {log, Append(log, Delta(suffix))} /\ pc' = "unwritten" /\ UNCHANGED seqs

(* flushPromptedText: a call is a text that begins with the prefix and goes *)
(* on with nothing but its JSON.                                           *)
Flush(next) ==
  CASE buffer = <<>> -> pc' = next /\ UNCHANGED <<log, journal>>
    [] buffer # <<>> /\ ~IsPrefix(PromptPrefix, buffer) -> Accept(TextAtoms(buffer), next)
    [] buffer # <<>> /\ IsPrefix(PromptPrefix, buffer) ->
         IF Len(buffer) = Len(PromptPrefix) + 1 /\ Last(buffer) \in Calls
         THEN Accept(<<ToolAtom(Last(buffer))>>, next)
         ELSE pc' = "malformed" /\ UNCHANGED <<log, journal>>

(* recordChunk: text that may be, or is, the beginning of a prompted call  *)
(* waits in the buffer until it is decided.                                *)
Undecided(text) == IsPrefix(text, PromptPrefix) \/ IsPrefix(PromptPrefix, text)

RecordChunk(chunk, next) ==
  LET combined == buffer \o chunk
  IN  CASE setup.prompted /\ Undecided(combined) ->
             buffer' = combined /\ pc' = next /\ UNCHANGED <<log, journal>>
        [] setup.prompted /\ ~Undecided(combined) -> buffer' = <<>> /\ Accept(TextAtoms(combined), next)
        [] ~setup.prompted -> UNCHANGED buffer /\ Accept(NativeAtoms(chunk), next)

(* A chunk of a native answer is text or one call.                         *)
Chunk(text) == setup.prompted \/ Len(text) = 1 \/ \A i \in DOMAIN text : text[i] \notin Calls

-----------------------------------------------------------------------------

(* The terminal of the model middleware: the request is written once, and  *)
(* a recovered step discards what an earlier process wrote.                *)
Discard(next) ==
  /\ IF seqs = <<>> THEN pc' = next /\ UNCHANGED log
     ELSE \/ log' = Append(log, Discarded(seqs[1], Last(seqs))) /\ pc' = next
          \/ pc' = "unwritten" /\ log' \in {log, Append(log, Discarded(seqs[1], Last(seqs)))}
  /\ atoms' = <<>> /\ seqs' = <<>> /\ cursor' = 0

StartAttempt(text) == answer' = text /\ pos' = 0 /\ buffer' = <<>>

Begin(text) ==
  /\ pc = "begin"
  /\ StartAttempt(text) /\ request' = RetryMode
  /\ IF request = "discard" THEN Discard("stream") ELSE pc' = "stream" /\ UNCHANGED <<log, journal>>
  /\ UNCHANGED <<setup, config, added, attempt, crashes>>

(* Middleware that does not call next(): the request is written after it.  *)
ShortCircuit ==
  /\ pc = "begin" /\ setup.tails # {} /\ pc' = "tail" /\ request' = RetryMode
  /\ UNCHANGED <<setup, log, config, journal, buffer, answer, pos, added, attempt, crashes>>

Stream(n) ==
  /\ pc = "stream" /\ pos + n <= Len(answer)
  /\ LET text == SubSeq(answer, pos + 1, pos + n)
     IN  Chunk(text) /\ RecordChunk(text, "stream")
  /\ pos' = pos + n
  /\ UNCHANGED <<process, answer, added, attempt>>

(* A finish chunk flushes before its reason is looked at; a stream that    *)
(* breaks off does not.                                                    *)
StreamFails ==
  /\ pc = "stream"
  /\ \/ pc' = "failed" /\ UNCHANGED <<log, journal, buffer>>
     \/ pos = Len(answer) /\ Flush("failed") /\ buffer' = <<>>
  /\ UNCHANGED <<process, answer, pos, added, attempt>>

StreamEnds ==
  /\ pc = "stream" /\ pos = Len(answer)
  /\ Flush("complete") /\ buffer' = <<>>
  /\ UNCHANGED <<process, answer, pos, added, attempt>>

(* Mutant: nobody asks whether the whole prefix was repeated.              *)
AssertNothing ==
  /\ pc \in {"complete", "end"}
  /\ pc' = IF pc = "complete" THEN "tail" ELSE "done"
  /\ UNCHANGED <<log, process, journal, buffer, answer, pos, added, attempt>>

AssertComplete ==
  /\ pc \in {"complete", "end"}
  /\ pc' = IF cursor # Len(atoms) THEN "diverged" ELSE IF pc = "complete" THEN "tail" ELSE "done"
  /\ UNCHANGED <<log, process, journal, buffer, answer, pos, added, attempt>>

Retry(text) ==
  /\ pc = "failed" /\ attempt < MaxAttempts /\ attempt' = attempt + 1
  /\ StartAttempt(text)
  /\ IF RetryMode = "discard" THEN Discard("stream")
     ELSE cursor' = 0 /\ pc' = "stream" /\ UNCHANGED <<log, atoms, seqs>>
  /\ UNCHANGED <<process, added>>

GiveUp ==
  /\ pc = "failed" /\ attempt = MaxAttempts /\ pc' = "exhausted"
  /\ UNCHANGED <<log, process, journal, buffer, answer, pos, added, attempt>>

(* What middleware pushed to context.chunks after the stream.              *)
RecordTail(text) ==
  /\ pc = "tail" /\ added = <<>> /\ Chunk(text)
  /\ RecordChunk(text, "tail") /\ added' = text
  /\ UNCHANGED <<process, answer, pos, attempt>>

FlushTail ==
  /\ pc = "tail"
  /\ Flush("end") /\ buffer' = <<>>
  /\ UNCHANGED <<process, answer, pos, added, attempt>>

(* The process dies before the step is finished; the next one may be       *)
(* configured otherwise, and builds its journal from the log.              *)
Crash ==
  /\ pc \notin Ended /\ crashes < MaxCrashes /\ crashes' = crashes + 1
  /\ config' \in Modes /\ atoms' = AtomsOf(log) /\ seqs' = SetToSortSeq(ActiveDeltas(log), <)
  /\ cursor' = 0 /\ buffer' = <<>> /\ answer' = <<>> /\ pos' = 0 /\ added' = <<>> /\ attempt' = 1
  /\ pc' = "begin"
  /\ UNCHANGED <<setup, log, request>>

Next ==
  \/ \E text \in setup.provider : Begin(text) \/ Retry(text)
  \/ \E n \in 1..MaxChunk : Stream(n)
  \/ \E text \in setup.tails : RecordTail(text)
  \/ ShortCircuit \/ StreamFails \/ StreamEnds \/ AssertComplete \/ GiveUp \/ FlushTail \/ Crash
  \/ pc \in Ended /\ UNCHANGED vars

Spec == Init /\ [][Next]_vars

-----------------------------------------------------------------------------
Raw(sequence) == FlattenSeq([i \in DOMAIN sequence |-> Text(sequence[i])])

(* A step that is done left in the log what its last attempt streamed and  *)
(* middleware added, all of it and once, whatever failed, was discarded,   *)
(* repeated or interrupted before.                                         *)
LogIsOutput == pc = "done" => Raw(AtomsOf(log)) = answer \o added

(* ADR 0006: a provider that repeats its answer, in whatever chunks, is    *)
(* never taken for one that diverges.                                      *)
RepeatedAnswersAccepted == Cardinality(setup.provider) = 1 /\ setup.tails = {} => pc # "diverged"

(* It is so unless tool calls are prompted: their text is decoded chunk by *)
(* chunk.                                                                  *)
NativeAnswersAccepted == ~setup.prompted => RepeatedAnswersAccepted
=============================================================================
