------------------------------ MODULE Recording ------------------------------
(***************************************************************************)
(* RecordingModelPort and ReplayModelPort                                  *)
(* (providers/standard/src/model/recording.ts): calls of a model that may  *)
(* overlap, fail, be aborted or be left by their consumer are recorded,    *)
(* and a consumer that does the same again, one call after another, gets   *)
(* the recording.  Requests and chunks are model values; times, redaction  *)
(* and the shape of JSON are left out.                                     *)
(***************************************************************************)
EXTENDS Integers, Sequences, FiniteSets, SequencesExt

CONSTANTS
  Requests, Chunks,     \* requests, what a stream may yield
  MaxCalls, MaxChunks,  \* bounds: calls, chunks of a stream
  MaxBroken             \* bound: calls that fail before they are recorded

VARIABLES
  phase,        \* "recording", "replaying", "refused" (the snapshot threw)
  calls,        \* what the callers did and saw, in the order of #nextSeq
  frames,       \* of every call, the frames so far
  operations,   \* #operations, in the order the calls ended: [seq, operation, request, frames]
  active,       \* #activeOperations
  broken,       \* calls that took a number and threw outside of the try block
  recording,    \* what snapshot returned
  next,         \* #nextOperation of the replay
  again,        \* what the same consumer sees in the replay
  at            \* nextFrameIndex of the stream that is replayed

record == <<calls, frames, operations, active, broken>>
replay == <<next, again, at>>
vars == <<phase, record, recording, replay>>

(* A call is [operation, request, seen, state, aborted, end]: the consumer *)
(* of a stream waits for a chunk or holds one; aborted says in which of    *)
(* the two states its signal was aborted.                                  *)
Begun(operation, request) ==
  [operation |-> operation, request |-> request, seen |-> <<>>, state |-> "waiting", aborted |-> "never", end |-> "none"]

Init ==
  /\ phase = "recording" /\ calls = <<>> /\ frames = <<>> /\ operations = <<>> /\ active = 0 /\ broken = 0
  /\ recording = <<>> /\ next = 0 /\ again = <<>> /\ at = 0

-----------------------------------------------------------------------------
Recording == phase = "recording" /\ UNCHANGED <<phase, recording, replay>>

Begin(operation, request) ==
  /\ Recording /\ Len(calls) + broken < MaxCalls
  /\ calls' = Append(calls, Begun(operation, request)) /\ frames' = Append(frames, <<>>)
  /\ active' = active + 1 /\ UNCHANGED <<operations, broken>>

(* The clock or the copy of the request throws: the number is taken, the   *)
(* call counts as active for ever.                                         *)
BeginThrows ==
  /\ Recording /\ Len(calls) + broken < MaxCalls /\ broken < MaxBroken
  /\ broken' = broken + 1 /\ active' = active + 1 /\ UNCHANGED <<calls, frames, operations>>

Terminal(kind) == [kind |-> kind, chunk |-> "none"]

(* The finally block: with the last frame the operation is pushed.         *)
Ends(s, end, kind) ==
  LET its == Append(frames[s], Terminal(kind))
  IN  /\ calls' = [calls EXCEPT ![s].state = "ended", ![s].end = end]
      /\ frames' = [frames EXCEPT ![s] = its]
      /\ operations' = Append(operations, [seq |-> s, operation |-> calls[s].operation, request |-> calls[s].request, frames |-> its])
      /\ active' = active - 1 /\ UNCHANGED broken

Aborted(s) == calls[s].aborted # "never"
Cancelled(s) == Ends(s, "aborted", "cancelled")

(* The delegate answers; after its answer the signal is looked at.         *)
Answers(s) ==
  /\ Recording /\ calls[s].state = "waiting"
  /\ \/ Aborted(s) /\ Cancelled(s)
     \/ ~Aborted(s) /\ Ends(s, "completed", "completed")
     \/ ~Aborted(s) /\ Ends(s, "error", "error")
     \/ /\ ~Aborted(s) /\ calls[s].operation = "stream" /\ Len(calls[s].seen) < MaxChunks
        /\ \E chunk \in Chunks :
             /\ frames' = [frames EXCEPT ![s] = Append(@, [kind |-> "chunk", chunk |-> chunk])]
             /\ calls' = [calls EXCEPT ![s].seen = Append(@, chunk), ![s].state = "holding"]
        /\ UNCHANGED <<operations, active, broken>>

(* The consumer asks for the next chunk, or leaves the stream.             *)
ConsumerNext(s) ==
  /\ Recording /\ calls[s].state = "holding"
  /\ IF Aborted(s) THEN Cancelled(s)
     ELSE calls' = [calls EXCEPT ![s].state = "waiting"] /\ UNCHANGED <<frames, operations, active, broken>>

ConsumerReturns(s) ==
  Recording /\ calls[s].state = "holding" /\ Ends(s, "stopped", "cancelled")

Abort(s) ==
  /\ Recording /\ calls[s].state # "ended" /\ ~Aborted(s)
  /\ calls' = [calls EXCEPT ![s].aborted = calls[s].state] /\ UNCHANGED <<frames, operations, active, broken>>

-----------------------------------------------------------------------------

(* validateFrames: one terminal frame, and it is the last.                 *)
FramesValid(its) == its # <<>> /\ \A i \in DOMAIN its : (its[i].kind = "chunk") = (i < Len(its))

TokenOutcomeValid(its) == Len(its) = 1 /\ its[1].kind # "chunk"

AssertModelRecording(its) ==
  \A i \in DOMAIN its :
    its[i].seq = i /\ IF its[i].operation = "stream" THEN FramesValid(its[i].frames) ELSE TokenOutcomeValid(its[i].frames)

(* Mutant: the operations stay in the order they ended in, and are         *)
(* numbered anew.                                                          *)
BySeqAsEnded(its) == [i \in DOMAIN its |-> [its[i] EXCEPT !.seq = i]]

(* The sort by seq; no two operations have the same.                       *)
Order(its) ==
  CHOOSE place \in [DOMAIN its -> DOMAIN its] : \A i, j \in DOMAIN its : i < j => its[place[i]].seq < its[place[j]].seq

BySeq(its) == [i \in DOMAIN its |-> its[Order(its)[i]]]

(* snapshot throws while a call is active, or if one left no operation.    *)
Snapshot ==
  /\ phase = "recording" /\ active = 0 /\ calls # <<>>
  /\ IF Len(operations) = Len(calls) + broken /\ AssertModelRecording(BySeq(operations))
     THEN phase' = "replaying" /\ recording' = BySeq(operations)
     ELSE phase' = "refused" /\ UNCHANGED recording
  /\ UNCHANGED <<record, replay>>

-----------------------------------------------------------------------------
Replaying == phase = "replaying" /\ UNCHANGED <<phase, record, recording>>
Current == Last(again)
Idle == IF again = <<>> THEN TRUE ELSE Current.state = "ended"

(* The consumer makes its next call.                                       *)
Claim ==
  /\ Replaying /\ Idle /\ Len(again) < Len(calls)
  /\ LET call == calls[Len(again) + 1]
         fits == next < Len(recording) /\ recording[next + 1].operation = call.operation
                                       /\ recording[next + 1].request = call.request
     IN  IF fits
         THEN next' = next + 1 /\ again' = Append(again, Begun(call.operation, call.request)) /\ at' = 0
         ELSE /\ again' = Append(again, [Begun(call.operation, call.request) EXCEPT !.state = "ended", !.end = "mismatch"])
              /\ UNCHANGED <<next, at>>

Now == calls[Len(again)]
Frames == recording[next].frames
Replayed(call) == again' = [again EXCEPT ![Len(again)] = call]
ReplayEnds(end) == Replayed([Current EXCEPT !.state = "ended", !.end = end])

(* assertRecordedConsumerCancellation, when a stream ends before its       *)
(* terminal frame: a signal that is aborted ends it all the same.          *)
LeftInTime == at + 1 = Len(Frames) /\ Frames[at + 1].kind = "cancelled"
StopsAt == IF LeftInTime THEN "stopped" ELSE IF Current.aborted # "never" THEN "aborted" ELSE "mismatch"

(* The next frame is due; #wait looks at the signal first.                 *)
NextFrame ==
  /\ Replaying /\ ~Idle /\ Current.state = "waiting"
  /\ IF Current.aborted # "never" THEN ReplayEnds("aborted") /\ UNCHANGED at
     ELSE LET frame == Frames[at + 1]
          IN  /\ at' = at + 1
              /\ IF frame.kind = "chunk"
                 THEN Replayed([Current EXCEPT !.seen = Append(@, frame.chunk), !.state = "holding"])
                 ELSE ReplayEnds(IF frame.kind = "cancelled" THEN "mismatch" ELSE frame.kind)
  /\ UNCHANGED next

(* The consumer does what it did: it aborts its signal, leaves, goes on.   *)
SameAbort ==
  /\ Replaying /\ ~Idle /\ Current.aborted = "never" /\ Now.aborted = Current.state
  /\ Len(Current.seen) = Len(Now.seen)
  /\ Replayed([Current EXCEPT !.aborted = Current.state]) /\ UNCHANGED <<next, at>>

SameLeave ==
  /\ Replaying /\ ~Idle /\ Current.state = "holding"
  /\ Len(Current.seen) = Len(Now.seen) /\ Now.end = "stopped" /\ Now.aborted = Current.aborted
  /\ ReplayEnds(StopsAt) /\ UNCHANGED <<next, at>>

SameNext ==
  /\ Replaying /\ ~Idle /\ Current.state = "holding"
  /\ Len(Current.seen) = Len(Now.seen) => Now.end # "stopped" /\ (Now.aborted = "holding" => Current.aborted = "holding")
  /\ IF Current.aborted # "never" THEN ReplayEnds("aborted") ELSE Replayed([Current EXCEPT !.state = "waiting"])
  /\ UNCHANGED <<next, at>>

Over == phase = "refused" \/ (phase = "replaying" /\ Idle /\ Len(again) = Len(calls))
Stuck == phase = "recording" /\ active = broken /\ (broken > 0 \/ calls = <<>>) /\ Len(calls) + broken = MaxCalls

Next ==
  \/ \E operation \in {"stream", "countTokens"}, request \in Requests : Begin(operation, request)
  \/ BeginThrows \/ Snapshot
  \/ \E s \in DOMAIN calls : Answers(s) \/ ConsumerNext(s) \/ ConsumerReturns(s) \/ Abort(s)
  \/ Claim \/ NextFrame \/ SameAbort \/ SameLeave \/ SameNext
  \/ (Over \/ Stuck) /\ UNCHANGED vars

Spec == Init /\ [][Next]_vars

-----------------------------------------------------------------------------

(* When no call is running, what was recorded is complete and valid, in    *)
(* whatever order overlapping calls began and ended; and a consumer that   *)
(* makes the calls again one by one, and aborts and leaves them where it   *)
(* did, sees the same chunks and the same end.  Only an abort while it     *)
(* waits for a frame can come too late: the recorded cancellation is then  *)
(* refused.                                                                *)
ReplayIsFaithful ==
  /\ phase # "refused"
  /\ \A i \in DOMAIN again :
       LET raced == calls[i].aborted = "waiting" /\ again[i].aborted = "never" /\ again[i].end = "mismatch"
       IN  /\ IsPrefix(again[i].seen, calls[i].seen)
           /\ again[i].state = "ended" =>
                again[i].seen = calls[i].seen /\ (again[i].end = calls[i].end \/ raced)
=============================================================================
