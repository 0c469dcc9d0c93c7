-------------------------- MODULE MessageProjection --------------------------
(***************************************************************************)
(* packages/kernel/src/events/projection.ts and what loop/context.ts makes *)
(* of it: the message history is a fold over the events of the log, in     *)
(* which a compaction puts one summary in the place of a stretch of        *)
(* entries.  What an entry says is left out; where it came from is kept.   *)
(***************************************************************************)
EXTENDS Integers, Sequences, FiniteSetsExt, SequencesExt

NoIndex == -1   \* inputIndex of a message that was not injected
Rejected == <<[kind |-> "rejected"]>>   \* ProjectionInvariantError

Message(role, seq, step, index) == [kind |-> role, seq |-> seq, step |-> step, call |-> 0, index |-> index]
ToolEntry(kind, seq, step, call) == [kind |-> kind, seq |-> seq, step |-> step, call |-> call, index |-> NoIndex]
IsSummary(entry) == entry.kind = "summary"

InRange(range, seq) == range.from <= seq /\ seq <= range.to
ContainsRange(container, range) == container.from <= range.from /\ range.to <= container.to
RangesOverlap(left, right) == left.from <= right.to /\ right.from <= left.to
IsPast(range, seq) == 0 <= range.from /\ range.from <= range.to /\ range.to < seq

RangesOf(entry) == IF IsSummary(entry) THEN entry.ranges ELSE <<[from |-> entry.seq, to |-> entry.seq]>>
Position(entry) == Last(RangesOf(entry)).to

-----------------------------------------------------------------------------
Sorted(seqs) == [i \in 1..Cardinality(seqs) |-> CHOOSE seq \in seqs : Cardinality({s \in seqs : s < seq}) = i - 1]

(* normalizeRanges: the longest stretches of what the ranges cover.        *)
NormalizeRanges(ranges) ==
  LET covered == UNION {r.from .. r.to : r \in ranges}
      starts == {seq \in covered : seq - 1 \notin covered}
      ends == {seq \in covered : seq + 1 \notin covered}
  IN  [i \in 1..Cardinality(starts) |->
         [from |-> Sorted(starts)[i], to |-> Sorted(ends)[i]]]

(* A summary is folded into the new one with all it covers, or not at all. *)
Folded(summary, dropped) ==
  InRange(dropped, summary.seq) \/ \A i \in DOMAIN summary.ranges : ContainsRange(dropped, summary.ranges[i])

Splits(summary, dropped) ==
  /\ ~Folded(summary, dropped)
  /\ \E i \in DOMAIN summary.ranges : RangesOverlap(dropped, summary.ranges[i])

DroppedBy(entries, dropped) ==
  {i \in DOMAIN entries : IF IsSummary(entries[i]) THEN Folded(entries[i], dropped)
                          ELSE InRange(dropped, entries[i].seq)}

Contiguous(indexes) == indexes # {} /\ Max(indexes) - Min(indexes) + 1 = Cardinality(indexes)

SummaryOf(removed, seq, dropped) ==
  LET summaries == {entry \in removed : IsSummary(entry)}
  IN  [kind |-> "summary", seq |-> seq, dropped |-> dropped,
       ranges |-> NormalizeRanges(UNION {ToSet(RangesOf(entry)) : entry \in removed}),
       compactions |-> Sorted(UNION {{entry.seq} \cup ToSet(entry.compactions) : entry \in summaries})]

InPlace(entries, entry) ==
  LET later == {i \in DOMAIN entries : Position(entries[i]) > Position(entry)}
  IN  InsertAt(entries, IF later = {} THEN Len(entries) + 1 ELSE Min(later), entry)

Compact(entries, seq, dropped) ==
  LET gone == DroppedBy(entries, dropped)
      retained == FoldLeft(LAMBDA kept, i : IF i \in gone THEN kept ELSE Append(kept, entries[i]),
                           <<>>, [i \in DOMAIN entries |-> i])
  IN  IF \/ ~IsPast(dropped, seq)
         \/ \E i \in DOMAIN entries : IsSummary(entries[i]) /\ Splits(entries[i], dropped)
         \/ ~Contiguous(gone)
      THEN Rejected
      ELSE InPlace(retained, SummaryOf({entries[i] : i \in gone}, seq, dropped))

(* Mutant: the end of the range is taken as exclusive.                     *)
DiscardButLast(entries, seq, step, discarded) ==
  IF ~IsPast(discarded, seq) THEN Rejected
  ELSE SelectSeq(entries, LAMBDA entry :
         ~(entry.kind = "assistant" /\ entry.step = step /\ InRange(discarded, entry.seq) /\ entry.seq < discarded.to))

Discard(entries, seq, step, discarded) ==
  IF ~IsPast(discarded, seq) THEN Rejected
  ELSE SelectSeq(entries, LAMBDA entry :
         ~(entry.kind = "assistant" /\ entry.step = step /\ InRange(discarded, entry.seq)))

(* applyEventToEntries                                                     *)
ApplyToEntries(entries, event) ==
  CASE event.type = "turn.started" -> Append(entries, Message("user", event.seq, 0, NoIndex))
    [] event.type = "step.started" ->
         entries \o [i \in 1..event.inputs |-> Message("user", event.seq, 0, i - 1)]
    [] event.type = "model.delta" -> Append(entries, Message("assistant", event.seq, event.step, NoIndex))
    [] event.type = "model.attempt.discarded" -> Discard(entries, event.seq, event.step, event.range)
    [] event.type = "tool.call" -> Append(entries, ToolEntry("tool-call", event.seq, event.step, event.call))
    [] event.type = "tool.result" -> Append(entries, ToolEntry("tool-result", event.seq, 0, event.call))
    [] event.type = "compaction.applied" -> Compact(entries, event.seq, event.range)
    [] event.type = "other" -> entries

-----------------------------------------------------------------------------
ValidSummary(summary) ==
  /\ IsPast(summary.dropped, summary.seq) /\ summary.ranges # <<>>
  /\ \A i \in DOMAIN summary.ranges :
       /\ IsPast(summary.ranges[i], summary.seq)
       /\ i > 1 => summary.ranges[i - 1].to + 1 < summary.ranges[i].from
  /\ \A i \in DOMAIN summary.compactions :
       /\ summary.compactions[i] < summary.seq
       /\ i > 1 => summary.compactions[i - 1] < summary.compactions[i]
       /\ \A j \in DOMAIN summary.ranges : ~InRange(summary.ranges[j], summary.compactions[i])

Injected(entry) == entry.kind = "user" /\ entry.index # NoIndex
SameSource(left, right) ==
  left.seq = right.seq /\ (Injected(left) /\ Injected(right) => left.index = right.index)

Span(summary) == [from |-> summary.ranges[1].from, to |-> Last(summary.ranges).to]

(* validateMessageProjectionEntries                                        *)
ValidEntries(entries) ==
  /\ \A i \in DOMAIN entries : IsSummary(entries[i]) => ValidSummary(entries[i])
  /\ \A i, j \in DOMAIN entries : i < j =>
       ~SameSource(entries[i], entries[j]) /\ Position(entries[i]) <= Position(entries[j])
  /\ \A i, j \in DOMAIN entries : i # j /\ IsSummary(entries[i]) =>
       \A k \in DOMAIN RangesOf(entries[j]) : ~RangesOverlap(Span(entries[i]), RangesOf(entries[j])[k])

(* applyEventToMessageProjection                                           *)
ApplyEvent(entries, event) ==
  LET applied == ApplyToEntries(entries, event)
  IN  IF applied = Rejected \/ ~ValidEntries(applied) THEN Rejected ELSE applied

(* projectMessageHistory                                                   *)
Project(events) == FoldLeft(ApplyToEntries, <<>>, events)

-----------------------------------------------------------------------------
(* compactionEntries and SlidingWindowCompactionStrategy.apply: all but the *)
(* last maxEntries sequence numbers that are not summarised.               *)
CompactionEntries(entries) ==
  Sorted({entries[i].seq : i \in {j \in DOMAIN entries : ~IsSummary(entries[j])}})

WindowApplies(entries, maxEntries) == Len(CompactionEntries(entries)) > maxEntries
WindowDrops(entries, maxEntries) ==
  LET seqs == CompactionEntries(entries)
  IN  [from |-> seqs[1], to |-> seqs[Len(seqs) - maxEntries]]

-----------------------------------------------------------------------------
(* materializeMessageHistory: the deltas of a step are one item again.     *)
HistoryItem(entry) ==
  IF IsSummary(entry) THEN [kind |-> "summary", step |-> 0, call |-> 0, seqs |-> <<entry.seq>>]
  ELSE [kind |-> entry.kind, step |-> entry.step, call |-> entry.call, seqs |-> <<entry.seq>>]

Materialize(entries) == FoldLeft(
  LAMBDA history, entry :
    IF entry.kind = "assistant" /\ history # <<>> /\ Last(history).kind = "assistant" /\ Last(history).step = entry.step
    THEN [history EXCEPT ![Len(history)].seqs = Append(@, entry.seq)]
    ELSE Append(history, HistoryItem(entry)),
  <<>>, entries)

(* assembleHistory: used natively, the tool calls of a step join the       *)
(* message before them that is of the same step.                           *)
RoleOf(item, native) ==
  CASE item.kind \in {"user", "assistant"} -> item.kind
    [] item.kind = "tool-call" -> "assistant"
    [] item.kind = "tool-result" -> IF native THEN "tool" ELSE "user"
    [] item.kind = "summary" -> "system"

ModelMessage(item, native) ==
  [role |-> RoleOf(item, native),
   step |-> IF item.kind = "tool-result" THEN 0 ELSE item.step,
   calls |-> IF native /\ item.kind = "tool-call" THEN <<item.call>> ELSE <<>>,
   answers |-> IF native /\ item.kind = "tool-result" THEN item.call ELSE 0]

(* Mutant: tool calls stay messages of their own.                          *)
JoinsNever(item, messages, native) == FALSE

Joins(item, messages, native) ==
  /\ native /\ item.kind = "tool-call" /\ messages # <<>>
  /\ Last(messages).role = "assistant" /\ Last(messages).step = item.step

AssembleHistory(history, native) == FoldLeft(
  LAMBDA messages, item :
    IF Joins(item, messages, native)
    THEN [messages EXCEPT ![Len(messages)].calls = Append(@, item.call)]
    ELSE Append(messages, ModelMessage(item, native)),
  <<>>, history)
=============================================================================
