--------------------------- MODULE ContextAssembly ---------------------------
(***************************************************************************)
(* The context of a model call (packages/kernel/src/loop/context.ts): the  *)
(* history becomes messages, memory, the system slots, the context and the *)
(* model middleware rewrite them one after another, and each message keeps *)
(* the segments that say where its words come from, until the segments are *)
(* measured.  Words stand for texts; a tool definition is one word, too.   *)
(* Metadata, the names and call ids of messages and the wording of the     *)
(* report are left out.                                                    *)
(***************************************************************************)
EXTENDS Integers, Sequences, FiniteSets, SequencesExt

CONSTANTS
  Requests,     \* what is assembled: [history, toolUse, prompts, input]
  MaxMessages,  \* bound: messages a middleware returns
  MaxRewrites   \* bound: stages that change the messages

VARIABLES
  request,      \* the one of Requests, as it was read from the log
  stage,        \* the stage that ran last
  messages, segments,   \* what goes to the next stage
  stages,       \* the snapshot of every stage: [stage, applied, messages, ids]
  rewrites,
  measured      \* what measureContextAssembly returned

vars == <<request, stage, messages, segments, stages, rewrites, measured>>

Nothing == "none"
NotMeasured == [ok |-> FALSE, request |-> <<>>, segments |-> <<>>, stages |-> <<>>]

-----------------------------------------------------------------------------
(* The history.  An item is [kind, role, step, words, seq, failed], the    *)
(* words of a call or a result being its name.                             *)
HistoryToModelMessage(item, toolUse) ==
  LET Says(role) == [role |-> role, content |-> item.words, calls |-> <<>>]
  IN  CASE item.kind = "message" -> Says(item.role)
        [] item.kind = "summary" -> Says("system")
        [] item.kind = "tool-call" /\ toolUse = "native" ->
             [role |-> "assistant", content |-> <<>>, calls |-> item.words]
        [] item.kind = "tool-call" /\ toolUse # "native" -> Says("assistant")
        [] item.kind = "tool-result" -> Says(IF toolUse = "native" THEN "tool" ELSE "user")

HistorySegment(item, at, toolUse) ==
  [id |-> <<"history", at>>, source |-> <<item.kind, item.seq>>,
   role |-> HistoryToModelMessage(item, toolUse).role,
   content |-> HistoryToModelMessage(item, toolUse).content, at |-> at]

(* A native call joins the assistant message of its step.                  *)
Joins(so_far, item, toolUse) ==
  /\ toolUse = "native" /\ item.kind = "tool-call" /\ so_far.messages # <<>>
  /\ Last(so_far.messages).role = "assistant" /\ item.step # 0 /\ Last(so_far.steps) = item.step

StepOf(item) == IF item.kind = "tool-call" \/ item.role = "assistant" THEN item.step ELSE 0

AddItem(so_far, item, toolUse) ==
  LET message == HistoryToModelMessage(item, toolUse)
      last == Len(so_far.messages)
  IN  IF Joins(so_far, item, toolUse)
      THEN [so_far EXCEPT !.messages[last].calls = @ \o message.calls,
                          !.segments = Append(@, HistorySegment(item, last, toolUse))]
      ELSE [messages |-> Append(so_far.messages, message), steps |-> Append(so_far.steps, StepOf(item)),
            segments |-> Append(so_far.segments, HistorySegment(item, last + 1, toolUse))]

AssembleHistory(history, toolUse) ==
  FoldLeft(LAMBDA so_far, item : AddItem(so_far, item, toolUse),
           [messages |-> <<>>, steps |-> <<>>, segments |-> <<>>], history)

-----------------------------------------------------------------------------
(* The system slots.  A prompt is the sequence of its parts, a part the    *)
(* sequence of its words.                                                  *)
SystemSlotIds == <<"identity", "capabilities", "tool-protocol", "project-context", "skills", "user-custom">>

PromptsForSlot(slot, toolUse, failed) ==
  <<slot>> \o (IF slot = "tool-protocol" /\ toolUse = "prompted" THEN <<"tool.protocol.prompted">> ELSE <<>>)
           \o (IF slot = "tool-protocol" /\ failed THEN <<"error.retry-hint">> ELSE <<>>)

PromptSegments(prompt, parts) ==
  LET All == [i \in DOMAIN parts |->
        [id |-> <<prompt, i>>, source |-> <<"prompt", i>>, role |-> "system", content |-> parts[i], at |-> 1]]
  IN  SelectSeq(All, LAMBDA segment : segment.content # <<>>)

Definitions ==
  [id |-> <<"definitions", 0>>, source |-> <<"tool", 0>>, role |-> "system", content |-> <<"definitions">>, at |-> 1]

SystemSegments(prompts, toolUse, failed) ==
  LET ids == FlattenSeq([i \in DOMAIN SystemSlotIds |-> PromptsForSlot(SystemSlotIds[i], toolUse, failed)])
  IN  FlattenSeq([i \in DOMAIN ids |-> PromptSegments(ids[i], prompts[ids[i]])])
        \o IF toolUse = "prompted" THEN <<Definitions>> ELSE <<>>

SystemContent(prompts, toolUse, failed) ==
  LET ids == FlattenSeq([i \in DOMAIN SystemSlotIds |-> PromptsForSlot(SystemSlotIds[i], toolUse, failed)])
  IN  FlattenSeq([i \in DOMAIN ids |-> FlattenSeq(prompts[ids[i]])])
        \o IF toolUse = "prompted" THEN <<"definitions">> ELSE <<>>

-----------------------------------------------------------------------------
(* What is kept of the segments when a stage returns other messages.       *)
LengthFrom(left, right) ==
  LET length[i \in 1..(Len(left) + 1), j \in 1..(Len(right) + 1)] ==
        IF i > Len(left) \/ j > Len(right) THEN 0
        ELSE IF left[i] = right[j] THEN 1 + length[i + 1, j + 1]
        ELSE LET down == length[i + 1, j]
                 across == length[i, j + 1]
             IN  IF down >= across THEN down ELSE across
  IN  length

(* Mutant: the walk takes the shorter side.                                *)
LongestCommonSubsequenceAcross(left, right) ==
  LET length == LengthFrom(left, right)
      walk[i \in 1..(Len(left) + 1), j \in 1..(Len(right) + 1)] ==
        IF i > Len(left) \/ j > Len(right) THEN <<>>
        ELSE IF left[i] = right[j] THEN <<<<i, j>>>> \o walk[i + 1, j + 1]
        ELSE IF length[i + 1, j] <= length[i, j + 1] THEN walk[i + 1, j] ELSE walk[i, j + 1]
  IN  walk[1, 1]

LongestCommonSubsequence(left, right) ==
  LET length == LengthFrom(left, right)
      walk[i \in 1..(Len(left) + 1), j \in 1..(Len(right) + 1)] ==
        IF i > Len(left) \/ j > Len(right) THEN <<>>
        ELSE IF left[i] = right[j] THEN <<<<i, j>>>> \o walk[i + 1, j + 1]
        ELSE IF length[i + 1, j] >= length[i, j + 1] THEN walk[i + 1, j] ELSE walk[i, j + 1]
  IN  walk[1, 1]

(* Mutant: the id of a new segment does not name the stage.                *)
NewSegmentUnnamed(name, j, message) ==
  [id |-> <<"middleware", j>>, source |-> <<name, 0>>, role |-> message.role, content |-> message.content, at |-> j]

NewSegment(name, j, message) ==
  [id |-> <<name, j>>, source |-> <<name, 0>>, role |-> message.role, content |-> message.content, at |-> j]

(* Mutant: a segment that is kept stays where it was.                      *)
ReconcileInPlace(before, kept, after, name) ==
  LET matches == ToSet(LongestCommonSubsequence(before, after))
      Of(j) == IF \E m \in matches : m[2] = j
               THEN SelectSeq(kept, LAMBDA s : <<s.at, j>> \in matches)
               ELSE <<NewSegment(name, j, after[j])>>
  IN  FlattenSeq([j \in DOMAIN after |-> Of(j)])

Reconcile(before, kept, after, name) ==
  LET matches == ToSet(LongestCommonSubsequence(before, after))
      Moved(s, j) == [s EXCEPT !.at = j]
      Kept(j) == LET its == SelectSeq(kept, LAMBDA s : <<s.at, j>> \in matches)
                 IN  [i \in DOMAIN its |-> Moved(its[i], j)]
      Of(j) == IF \E m \in matches : m[2] = j THEN Kept(j)
               ELSE <<NewSegment(name, j, after[j])>>
  IN  FlattenSeq([j \in DOMAIN after |-> Of(j)])

Snapshot(name, applied, its_messages, its) ==
  [stage |-> name, applied |-> applied, messages |-> its_messages, ids |-> [i \in DOMAIN its |-> its[i].id]]

-----------------------------------------------------------------------------
Init ==
  /\ request \in Requests
  /\ stage = "read" /\ messages = <<>> /\ segments = <<>> /\ stages = <<>>
  /\ rewrites = 0 /\ measured = NotMeasured

History ==
  /\ stage = "read" /\ stage' = "history"
  /\ LET assembled == AssembleHistory(request.history, request.toolUse)
         at == Len(assembled.messages) + 1
         input == [role |-> "user", content |-> request.input, calls |-> <<>>]
         its == [id |-> <<"history:dry-run-input", at>>, source |-> <<"dry-run-input", 0>>, role |-> "user",
                 content |-> request.input, at |-> at]
     IN  IF request.input = <<>>
         THEN messages' = assembled.messages /\ segments' = assembled.segments
         ELSE messages' = Append(assembled.messages, input) /\ segments' = Append(assembled.segments, its)
  /\ stages' = <<Snapshot("history", messages' # <<>>, messages', segments')>>
  /\ UNCHANGED <<request, rewrites, measured>>

(* What a middleware makes of the messages: it drops, adds, repeats,       *)
(* replaces or swaps one, or hands them on.                                *)
Said(name) == [role |-> "user", content |-> <<name>>, calls |-> <<>>]
Swap(s, i) == [s EXCEPT ![i] = s[i + 1], ![i + 1] = s[i]]
Rewritings(name) ==
  IF rewrites = MaxRewrites THEN {messages}
  ELSE {edited \in
          {messages}
          \cup {RemoveAt(messages, i) : i \in DOMAIN messages}
          \cup {InsertAt(messages, i, Said(name)) : i \in 1..(Len(messages) + 1)}
          \cup {InsertAt(messages, i, messages[1]) : i \in IF messages = <<>> THEN {} ELSE 1..(Len(messages) + 1)}
          \cup {ReplaceAt(messages, i, [messages[i] EXCEPT !.role = "user"]) : i \in DOMAIN messages}
          \cup {Swap(messages, i) : i \in 1..(Len(messages) - 1)} : Len(edited) <= MaxMessages}

(* jsonToModelMessages: an answer with calls that are not an assistant's   *)
(* is no list of messages.                                                 *)
Parses(answer) == \A i \in DOMAIN answer : answer[i].calls # <<>> => answer[i].role = "assistant"

Rewrite(name, answer) ==
  /\ stage' = name /\ messages' = answer
  /\ segments' = IF answer = messages THEN segments ELSE Reconcile(messages, segments, answer, name)
  /\ stages' = Append(stages, Snapshot(name, answer # messages, answer, segments'))
  /\ rewrites' = IF answer = messages THEN rewrites ELSE rewrites + 1
  /\ UNCHANGED <<request, measured>>

(* Memory's answer counts if it parses.                                    *)
Memory ==
  /\ stage = "history"
  /\ \E answer \in Rewritings("memory") : Rewrite("memory", IF Parses(answer) THEN answer ELSE messages)

(* Skills and compaction only leave their snapshots.                       *)
Slots ==
  /\ stage = "memory" /\ stage' = "slots"
  /\ LET failed == \E i \in DOMAIN request.history : request.history[i].failed
         content == SystemContent(request.prompts, request.toolUse, failed)
         compacted == \E i \in DOMAIN request.history : request.history[i].kind = "summary"
     IN  /\ IF content = <<>> THEN UNCHANGED <<messages, segments>>
            ELSE /\ messages' = <<[role |-> "system", content |-> content, calls |-> <<>>]>> \o messages
                 /\ segments' = SystemSegments(request.prompts, request.toolUse, failed)
                                  \o [i \in DOMAIN segments |-> [segments[i] EXCEPT !.at = @ + 1]]
         /\ stages' = stages \o <<Snapshot("skills", FALSE, messages, segments),
                                  Snapshot("compaction", compacted, messages, segments),
                                  Snapshot("slots", content # <<>>, messages', segments')>>
  /\ UNCHANGED <<request, rewrites, measured>>

ContextMiddleware ==
  stage = "slots" /\ \E answer \in Rewritings("context-middleware") : Rewrite("context-middleware", answer)

FinalizeContextAssembly ==
  stage = "context-middleware" /\ \E answer \in Rewritings("model-middleware") : Rewrite("model-middleware", answer)

-----------------------------------------------------------------------------
(* measureContextAssembly.  How many tokens a request has only the model   *)
(* knows: what is modelled is which requests its countTokens is asked for, *)
(* and which of them a number in the report is the sum of.                 *)

(* The request itself, with its tools (contextDraftToModelRequest).        *)
WholeRequest ==
  [messages |-> messages, tools |-> IF request.toolUse = "none" THEN <<>> ELSE <<"definitions">>,
   toolUse |-> request.toolUse]

First(at) == segments[CHOOSE i \in DOMAIN segments : segments[i].at = at /\ \A j \in 1..(i - 1) : segments[j].at # at]

(* A segment is counted as a message of its own, without tools; the calls  *)
(* of its message go with the first segment, and with those of the same id. *)
Counted(i) ==
  LET s == segments[i]
      message == [role |-> s.role, content |-> s.content,
                  calls |-> IF First(s.at).id = s.id THEN messages[s.at].calls ELSE <<>>]
  IN  [messages |-> <<message>>, tools |-> <<>>, toolUse |-> "none"]

(* A stage looks its segments up by id: of several the last counts, one    *)
(* that is gone counts nothing.                                            *)
CountedFor(id) ==
  LET its == {i \in DOMAIN segments : segments[i].id = id}
  IN  IF its = {} THEN <<>> ELSE <<Counted(CHOOSE i \in its : \A j \in its : j <= i)>>

Measure ==
  /\ stage = "model-middleware" /\ stage' = "measured"
  /\ measured' =
       IF (\A i \in DOMAIN segments : segments[i].at \in DOMAIN messages) /\ Parses(messages)
       THEN [ok |-> TRUE, request |-> WholeRequest, segments |-> [i \in DOMAIN segments |-> Counted(i)],
             stages |-> [n \in DOMAIN stages |-> FlattenSeq([i \in DOMAIN stages[n].ids |-> CountedFor(stages[n].ids[i])])]]
       ELSE NotMeasured
  /\ UNCHANGED <<request, messages, segments, stages, rewrites>>

Next ==
  \/ History \/ Memory \/ Slots \/ ContextMiddleware \/ FinalizeContextAssembly \/ Measure
  \/ stage = "measured" /\ UNCHANGED vars

Spec == Init /\ [][Next]_vars

-----------------------------------------------------------------------------
Explaining(i) == SelectSeq(segments, LAMBDA s : s.at = i)
JoinedContent(its) == FlattenSeq([i \in DOMAIN its |-> its[i].content])

(* After every stage each message has segments, and they account for its   *)
(* words in their order; no segment points past the messages.              *)
EveryWordExplained ==
  /\ \A i \in DOMAIN messages :
       Explaining(i) # <<>> /\ JoinedContent(Explaining(i)) = messages[i].content
  /\ \A s \in ToSet(segments) : s.at \in DOMAIN messages

Chosen(s, which) == FoldLeft(LAMBDA so_far, i : IF i \in which THEN Append(so_far, s[i]) ELSE so_far, <<>>, [i \in DOMAIN s |-> i])
IsWithin(s, t) == \E which \in SUBSET DOMAIN t : Chosen(t, which) = s
Longest(s, t) ==
  CHOOSE n \in 0..Len(s) :
    /\ \E which \in SUBSET DOMAIN s : Cardinality(which) = n /\ IsWithin(Chosen(s, which), t)
    /\ \A which \in SUBSET DOMAIN s : Cardinality(which) > n => ~IsWithin(Chosen(s, which), t)

(* A rewriting stage takes as few messages as possible for its own: what   *)
(* it only moved around others keeps its source.                           *)
SourcesAreKept ==
  stage' \in {"memory", "context-middleware", "model-middleware"} =>
    Cardinality({s \in ToSet(segments') : s.source[1] = stage'}) = Len(messages') - Longest(messages, messages')

(* What is counted for a stage is what the stage had: pieces of messages   *)
(* it handed on, each with all the calls of its message and no other's     *)
(* calls, never what a later stage put in their place.  For the last stage *)
(* nothing is missing of a message without calls.  (Every call that joined *)
(* a message is a segment of its own with the same id: the calls of such a *)
(* message are counted once for each, and its text is not counted for a    *)
(* stage, where the last segment of an id stands for all of them.)         *)
CountsWhatItHad ==
  measured.ok =>
    /\ \A n \in DOMAIN stages : \A counted \in ToSet(measured.stages[n]) :
         \E of \in ToSet(stages[n].messages) :
           LET piece == counted.messages[1]
           IN  piece.role = of.role /\ piece.calls = of.calls /\ piece.content \in SubSeqs(of.content)
    /\ \A i \in DOMAIN messages : messages[i].calls = <<>> =>
         LET its == SelectSeq([j \in DOMAIN segments |-> j], LAMBDA j : segments[j].at = i)
             counted == Last(measured.stages)
         IN  messages[i].content = FlattenSeq([k \in DOMAIN its |-> counted[its[k]].messages[1].content])
=============================================================================
