----------------------------- MODULE ModelStream -----------------------------
(***************************************************************************)
(* The answer of an OpenAI-compatible endpoint: a body of server-sent      *)
(* events that arrives in pieces, cut anywhere, becomes a stream of model  *)
(* chunks.  A line of the body is one character here; its end is CR, LF or *)
(* both, two characters between which the body may be cut.                 *)
(***************************************************************************)
EXTENDS Integers, Sequences, SequencesExt, FiniteSetsExt

CONSTANTS
  Bodies,      \* sequences of lines the endpoint may send
  ToolUses,    \* what may be negotiated, of {"native", "prompted", "none"}
  Failures,    \* kinds of error of a response that is not ok
  CR, LF, None

Ends == {<<CR>>, <<LF>>, <<CR, LF>>}

(* Lines: data with a payload, a comment or unknown field, an empty line.  *)
BlankLine == [field |-> "blank"]

VARIABLES
  lines,      \* the lines of the body, and how their ends are written
  ends,
  toolUse,    \* of the request
  pos,        \* how much of the body has been read
  buffer,     \* characters not yet taken
  data,       \* dataLines of the event under way
  decoder,    \* pending calls, finish reason, [DONE], and what it yielded
  signals,    \* of the request: {"aborted", "timeout"}
  pc,         \* "fetch", "read", "parse", "eof", "end"
  outcome     \* None, "finished", or the kind of error it rejects with

vars == <<lines, ends, toolUse, pos, buffer, data, decoder, signals, pc, outcome>>

-----------------------------------------------------------------------------
(* ends[2] after the lines at odd positions, ends[1] after the others.     *)
(* (A CR before an LF would be one end, not two.)                          *)
Body == FlattenSeq([i \in DOMAIN lines |->
  (IF lines[i] = BlankLine THEN <<>> ELSE <<lines[i]>>) \o ends[1 + (i % 2)]])

(* Mutant: a CR ends a line before what follows it has arrived.            *)
EndsAtOnce(text, i, atEof) == TRUE

(* takeLine: a CR at the end of what arrived may be half of a CR LF.       *)
EndsTheLine(text, i, atEof) == i < Len(text) \/ atEof \/ text[i] = LF

LineEnd(text) ==
  LET found == {i \in DOMAIN text : text[i] \in {CR, LF}} IN IF found = {} THEN 0 ELSE Min(found)

HasLine(text, atEof) ==
  LET i == LineEnd(text) IN IF i = 0 THEN atEof /\ text # <<>> ELSE EndsTheLine(text, i, atEof)

Line(text) ==
  LET i == LineEnd(text) IN IF i = 1 THEN BlankLine ELSE text[1]

AfterLine(text) ==
  LET i == LineEnd(text)
  IN  IF i = 0 THEN <<>>
      ELSE SubSeq(text, IF text[i] = CR /\ i < Len(text) /\ text[i + 1] = LF THEN i + 2 ELSE i + 1, Len(text))

-----------------------------------------------------------------------------
(* acceptToolFragments: the pieces of a call are found by their index.     *)
Started == [id |-> None, name |-> None, args |-> <<>>]

(* Mutant: a piece that repeats the id starts the call again.              *)
StartsAgain(call, fragment) ==
  IF fragment.id = None THEN [call EXCEPT !.args = Append(@, fragment.arg)]
  ELSE [id |-> fragment.id, name |-> fragment.name, args |-> <<fragment.arg>>]

Known(given, known) == IF given = None THEN known ELSE given

Extend(call, fragment) ==
  [id |-> Known(fragment.id, call.id), name |-> Known(fragment.name, call.name), args |-> Append(call.args, fragment.arg)]

(* The id and the function's name of a call may be repeated, not changed.  *)
Changes(call, fragment) ==
  \/ fragment.id # None /\ call.id \notin {None, fragment.id}
  \/ fragment.name # None /\ call.name \notin {None, fragment.name}

Yielded(d, chunks) == [d EXCEPT !.out = @ \o chunks]

Broken(d) == [d EXCEPT !.error = "protocol"]

AcceptFragment(d, fragment) ==
  LET i == fragment.index
      call == IF i \in DOMAIN d.calls THEN d.calls[i] ELSE Started
  IN  CASE d.error # None -> d
        [] d.error = None /\ Changes(call, fragment) -> Broken(d)
        [] OTHER -> [d EXCEPT !.calls = [j \in DOMAIN @ \cup {i} |-> IF j = i THEN Extend(call, fragment) ELSE @[j]]]

(* completeToolCalls: in the order of their indexes.                       *)
CompleteToolCalls(d) ==
  LET order == SetToSortSeq(DOMAIN d.calls, <)
      ids == {d.calls[i].id : i \in DOMAIN d.calls}
      names == {d.calls[i].name : i \in DOMAIN d.calls}
  IN  IF d.calls = <<>> \/ None \in ids \cup names \/ \E i, j \in DOMAIN d.calls : i # j /\ d.calls[i].id = d.calls[j].id
      THEN Broken(d)
      ELSE [Yielded(d, [k \in DOMAIN order |-> [kind |-> "tool-call", call |-> d.calls[order[k]]]])
              EXCEPT !.calls = <<>>]

Finish(d, reason) ==
  LET f == [d EXCEPT !.finish = reason]
  IN  CASE reason = None -> d
        [] reason = "tool-calls" -> CompleteToolCalls(f)
        [] reason = "content-filter" -> [f EXCEPT !.calls = <<>>]
        [] OTHER -> IF d.calls = <<>> THEN f ELSE Broken(f)

(* A choice: its text, its fragments, its finish reason, in this order;    *)
(* the usage of the payload, if any, comes after it.                       *)
TakeChoice(d, payload, use) ==
  IF d.finish # None THEN Broken(d)
  ELSE LET t == Yielded(d, [i \in DOMAIN payload.text |-> [kind |-> "text", text |-> payload.text[i]]])
           f == CASE payload.fragments = <<>> -> t
                  [] payload.fragments # <<>> /\ use # "native" -> Broken(t)
                  [] OTHER -> FoldLeft(AcceptFragment, t, payload.fragments)
       IN  IF f.error # None THEN f ELSE Finish(f, payload.finish)

(* An event of several data lines is not JSON here.                        *)
Decode(d, event, use) ==
  CASE d.error # None \/ d.done -> d
    [] Len(event) # 1 -> Broken(d)
    [] event[1].kind = "done" -> [d EXCEPT !.done = TRUE]
    [] event[1].kind = "error" -> [d EXCEPT !.error = "service"]
    [] event[1].kind = "usage" -> Yielded(d, <<[kind |-> "usage"]>>)
    [] event[1].kind = "choice" ->
         LET t == TakeChoice(d, event[1], use)
         IN  IF t.error = None /\ event[1].usage THEN Yielded(t, <<[kind |-> "usage"]>>) ELSE t

(* After [DONE], or after the body: is the answer whole?                   *)
Closed(d) ==
  IF d.error # None THEN d
  ELSE IF ~d.done \/ d.finish = None \/ d.calls # <<>> THEN Broken(d)
  ELSE Yielded(d, <<[kind |-> "finish", reason |-> d.finish]>>)

-----------------------------------------------------------------------------
Fresh == [calls |-> <<>>, finish |-> None, done |-> FALSE, error |-> None, out |-> <<>>]

Init ==
  /\ lines \in Bodies
  /\ ends \in {e \in Ends \X Ends : {e[1], e[2]} # {<<CR>>, <<LF>>}}
  /\ toolUse \in ToolUses
  /\ pos = 0 /\ buffer = <<>> /\ data = <<>>
  /\ decoder = Fresh
  /\ signals = {}
  /\ pc = "fetch"
  /\ outcome = None

request == <<lines, ends, toolUse>>

(* mapOperationError: the caller's abort comes first, then the time limit. *)
Rejection(kind) ==
  IF "aborted" \in signals THEN "aborted" ELSE IF "timeout" \in signals THEN "timeout" ELSE kind

Rejects(kind) == pc' = "end" /\ outcome' = Rejection(kind)

Signal(s) ==
  /\ pc # "end"
  /\ signals' = signals \cup {s}
  /\ UNCHANGED <<request, pos, buffer, data, decoder, pc, outcome>>

(* The response: an event stream, or an error of the endpoint or network.  *)
Respond ==
  /\ pc = "fetch"
  /\ UNCHANGED <<request, pos, buffer, data, decoder, signals>>
  /\ \/ signals = {} /\ pc' = "read" /\ UNCHANGED outcome
     \/ \E kind \in Failures : Rejects(kind)

(* The next piece of the body, of any size.                                *)
Read ==
  /\ pc = "read"
  /\ signals = {}
  /\ \/ \E n \in (pos + 1)..Len(Body) :
          /\ buffer' = buffer \o SubSeq(Body, pos + 1, n)
          /\ pos' = n
          /\ pc' = "parse"
     \/ pos = Len(Body) /\ pc' = "eof" /\ UNCHANGED <<buffer, pos>>
  /\ UNCHANGED <<request, data, decoder, signals, outcome>>

(* The connection fails, or a signal ends the read that was waiting.       *)
ReadFails ==
  /\ pc = "read"
  /\ Rejects("network")
  /\ UNCHANGED <<request, pos, buffer, data, decoder, signals>>

(* acceptLine, and what stream does with the event an empty line ends.     *)
TakeLine ==
  /\ pc \in {"parse", "eof"}
  /\ HasLine(buffer, pc = "eof")
  /\ buffer' = AfterLine(buffer)
  /\ LET line == Line(buffer)
         event == IF line = BlankLine THEN data ELSE <<>>
         d == IF event = <<>> THEN decoder ELSE Decode(decoder, event, toolUse)
     IN  /\ data' = CASE line.field = "data" -> Append(data, line.payload)
                      [] line.field = "blank" -> <<>>
                      [] OTHER -> data
         /\ decoder' = IF d.done THEN Closed(d) ELSE d
         /\ IF decoder'.error # None THEN Rejects(decoder'.error)
            ELSE IF d.done THEN pc' = "end" /\ outcome' = "finished"
            ELSE UNCHANGED <<pc, outcome>>
  /\ UNCHANGED <<request, pos, signals>>

NeedsMore ==
  /\ pc = "parse"
  /\ ~HasLine(buffer, FALSE)
  /\ pc' = "read"
  /\ UNCHANGED <<request, pos, buffer, data, decoder, signals, outcome>>

BodyEnds ==
  /\ pc = "eof"
  /\ ~HasLine(buffer, TRUE)
  /\ decoder' = Closed(decoder)
  /\ Rejects(decoder'.error)
  /\ UNCHANGED <<request, pos, buffer, data, signals>>

Next ==
  \/ Respond \/ Read \/ ReadFails \/ TakeLine \/ NeedsMore \/ BodyEnds
  \/ \E s \in {"aborted", "timeout"} : Signal(s)

Spec == Init /\ [][Next]_vars

-----------------------------------------------------------------------------
(* The events of the body as its lines say, whatever was cut where.        *)
EventsOf ==
  FoldLeft(LAMBDA e, line :
             CASE line = BlankLine /\ e.data # <<>> -> [data |-> <<>>, events |-> Append(e.events, e.data)]
               [] line.field = "data" -> [e EXCEPT !.data = Append(@, line.payload)]
               [] OTHER -> e,
           [data |-> <<>>, events |-> <<>>], lines).events

WholeAnswer == Closed(FoldLeft(LAMBDA d, event : Decode(d, event, toolUse), Fresh, EventsOf))

(* How the body is cut into pieces, and how its lines end, makes no        *)
(* difference: what is yielded is what the lines say, and unless the       *)
(* connection fails or a signal comes, all of it (sse.ts, takeLine).       *)
CutsDoNotMatter ==
  /\ IsPrefix(decoder.out, WholeAnswer.out)
  /\ outcome = "finished" => WholeAnswer.error = None /\ decoder.out = WholeAnswer.out
  /\ outcome = "protocol" /\ pos > 0 => WholeAnswer.error = "protocol"

Fragments == FlattenSeq([i \in DOMAIN EventsOf |->
  IF EventsOf[i][1].kind = "choice" THEN EventsOf[i][1].fragments ELSE <<>>])

(* A tool call is yielded whole: with an id and a name that its own pieces *)
(* gave and every piece of its arguments, in order, however the pieces of  *)
(* several calls are mixed; no two calls have one id, and an answer that   *)
(* finished for another reason has none.                                   *)
CallsAreWhole ==
  LET calls == SelectSeq(decoder.out, LAMBDA chunk : chunk.kind = "tool-call")
      PiecesOf(i) == SelectSeq(Fragments, LAMBDA f : f.index = i)
  IN  /\ \A j \in DOMAIN calls : \E i \in {Fragments[k].index : k \in DOMAIN Fragments} :
           /\ \E k \in DOMAIN PiecesOf(i) : PiecesOf(i)[k].id = calls[j].call.id
           /\ \E k \in DOMAIN PiecesOf(i) : PiecesOf(i)[k].name = calls[j].call.name
           /\ calls[j].call.args = [k \in DOMAIN PiecesOf(i) |-> PiecesOf(i)[k].arg]
      /\ \A j, k \in DOMAIN calls : j # k => calls[j].call.id # calls[k].call.id
      /\ calls # <<>> => decoder.finish = "tool-calls"
=============================================================================
