-------------------------- MODULE InMemoryEventLog --------------------------
(***************************************************************************)
(* packages/kernel/src/events/event-log.ts, class InMemoryEventLog, with   *)
(* its process-local subscribers (ProcessLocalSubscribers of the durable   *)
(* stores is the same).  append runs to its end without an await, but it   *)
(* calls the subscribers, who may append, subscribe and unsubscribe while  *)
(* it iterates over the Map that holds them; they may also throw, which    *)
(* changes nothing.                                                        *)
(***************************************************************************)
EXTENDS StoreSupport, Sequences

CONSTANTS
  Host,       \* the client that is no subscriber
  MaxHandles  \* bound: how often a subscriber is passed to subscribe()

Subscribers == Clients \ {Host}

VARIABLES
  events,    \* #events
  map,       \* #subscribers in insertion order; a deleted entry keeps its place, not live
  handles,   \* handles[s]: how many Unsubscribe closures for s were not called yet
  issued,    \* issued[s]: how often s was subscribed (for the bound)
  frames,    \* the stack of append loops: event, next position, and the subscriber running
  call,      \* call[c]: the append c is in
  deciding,  \* the client whose append has been entered and not yet checked
  reading,   \* the snapshot the host reads
  joined,    \* joined[s]: how many events the log had when s entered the map
  heard      \* heard[s]: the sequence numbers delivered to s, in order

vars == <<events, map, handles, issued, frames, call, deciding, reading, joined, heard>>
subs == <<map, handles, issued, joined>>

Stored == {events[i] : i \in DOMAIN events}
Top == frames[Len(frames)]
Pop(s) == SubSeq(s, 1, Len(s) - 1)

(* Whose code is executing: nobody's while append moves to the next subscriber. *)
Running == CASE deciding # None -> None
             [] deciding = None /\ frames = <<>> -> Host
             [] deciding = None /\ frames # <<>> -> Top.at

Subscribed(s) == \E i \in DOMAIN map : map[i].sub = s /\ map[i].live

Init ==
  /\ events = <<>> /\ map = <<>> /\ frames = <<>> /\ deciding = None /\ reading = None
  /\ handles = [s \in Subscribers |-> 0] /\ issued = [s \in Subscribers |-> 0]
  /\ joined = [s \in Subscribers |-> 0] /\ heard = [s \in Subscribers |-> <<>>]
  /\ call = [c \in Clients |-> None]

-----------------------------------------------------------------------------
AppendCall(c, r) ==
  /\ Running = c /\ call[c] = None /\ reading = None
  /\ call' = [call EXCEPT ![c] = Calling(r)] /\ deciding' = c
  /\ UNCHANGED <<events, subs, frames, reading, heard>>

Refusal(a) ==
  CASE ~ValidInput(a) -> "invariant"
    [] ValidInput(a) /\ Conflicts(a, HeadOf(Stored)) -> "conflict"
    [] ValidInput(a) /\ ~Conflicts(a, HeadOf(Stored)) ->
         IF events # <<>> /\ a.seq <= events[Len(events)].seq THEN "invariant" ELSE None

Decide ==
  /\ deciding # None /\ deciding' = None
  /\ LET c == deciding
         a == call[c]
     IN  IF Refusal(a) # None
         THEN call' = [call EXCEPT ![c].answer = Refusal(a)] /\ UNCHANGED <<events, frames>>
         ELSE /\ call' = [call EXCEPT ![c].answer = "ok"]
              /\ events' = Append(events, [seq |-> a.seq, by |-> c])
              /\ frames' = Append(frames, [by |-> c, seq |-> a.seq, next |-> 1, at |-> None])
  /\ UNCHANGED <<subs, reading, heard>>

(* The Map iterator moves to the next entry, which may have been added or  *)
(* deleted since the loop began.                                           *)
Deliver ==
  /\ deciding = None /\ frames # <<>> /\ Top.at = None /\ Top.next \in DOMAIN map
  /\ LET entry == map[Top.next]
         frame == [Top EXCEPT !.next = @ + 1, !.at = IF entry.live THEN entry.sub ELSE None]
     IN  /\ frames' = [frames EXCEPT ![Len(frames)] = frame]
         /\ heard' = IF entry.live THEN [heard EXCEPT ![entry.sub] = Append(@, Top.seq)] ELSE heard
  /\ UNCHANGED <<events, subs, call, deciding, reading>>

(* A subscriber returns or throws: the loop goes on either way.            *)
SubscriberEnds(s) ==
  /\ Running = s /\ call[s] = None
  /\ frames' = [frames EXCEPT ![Len(frames)].at = None]
  /\ UNCHANGED <<events, subs, call, deciding, reading, heard>>

LoopEnds ==
  /\ deciding = None /\ frames # <<>> /\ Top.at = None /\ Top.next > Len(map)
  /\ frames' = Pop(frames)
  /\ UNCHANGED <<events, subs, call, deciding, reading, heard>>

Return(c) ==
  /\ Running = c /\ call[c] # None
  /\ call' = [call EXCEPT ![c] = None]
  /\ UNCHANGED <<events, subs, frames, deciding, reading, heard>>

-----------------------------------------------------------------------------
(* Map.set keeps the place of a key that is there.                         *)
Subscribe(s) ==
  /\ Running # None /\ reading = None /\ issued[s] < MaxHandles
  /\ issued' = [issued EXCEPT ![s] = @ + 1] /\ handles' = [handles EXCEPT ![s] = @ + 1]
  /\ IF Subscribed(s) THEN UNCHANGED <<map, joined>>
     ELSE /\ map' = Append(map, [sub |-> s, live |-> TRUE])
          /\ joined' = [joined EXCEPT ![s] = Len(events)]
  /\ UNCHANGED <<events, frames, call, deciding, reading, heard>>

(* Mutant: an array in place of the Map: deleting moves the later entries. *)
Splice(s) ==
  /\ Running # None /\ reading = None /\ handles[s] > 0
  /\ handles' = [handles EXCEPT ![s] = @ - 1]
  /\ map' = SelectSeq(map, LAMBDA entry : entry.sub # s)
  /\ UNCHANGED <<events, issued, joined, frames, call, deciding, reading, heard>>

(* Any closure deletes the function, also one that was subscribed again.   *)
Unsubscribe(s) ==
  /\ Running # None /\ reading = None /\ handles[s] > 0
  /\ handles' = [handles EXCEPT ![s] = @ - 1]
  /\ map' = [i \in DOMAIN map |-> IF map[i].sub = s THEN [map[i] EXCEPT !.live = FALSE] ELSE map[i]]
  /\ UNCHANGED <<events, issued, joined, frames, call, deciding, reading, heard>>

(* Mutant: the cursor taken as exclusive.                                  *)
ReadAfter(from) ==
  /\ Running = Host /\ call[Host] = None /\ reading = None
  /\ reading' = [from |-> from, events |-> {e \in Stored : e.seq > from}]
  /\ UNCHANGED <<events, subs, frames, call, deciding, heard>>

(* read copies the events when it is called: a snapshot that is consumed   *)
(* later is the same one, so it is consumed at once.                       *)
Read(from) ==
  /\ Running = Host /\ call[Host] = None /\ reading = None
  /\ reading' = [from |-> from, events |-> {e \in Stored : e.seq >= from}]
  /\ UNCHANGED <<events, subs, frames, call, deciding, heard>>

Consumed ==
  /\ reading # None /\ reading' = None
  /\ UNCHANGED <<events, subs, frames, call, deciding, heard>>

Next ==
  \/ \E c \in Clients : Return(c) \/ \E r \in Requests : AppendCall(c, r)
  \/ \E s \in Subscribers : Subscribe(s) \/ Unsubscribe(s) \/ SubscriberEnds(s)
  \/ \E from \in 0..MaxSeq : Read(from)
  \/ Decide \/ Deliver \/ LoopEnds \/ Consumed

Spec == Init /\ [][Next]_vars

-----------------------------------------------------------------------------
(* A subscriber that stays in the map hears every later event exactly once, *)
(* whatever the other subscribers append, add or remove meanwhile.         *)
HeardOnce == (frames = <<>> /\ deciding = None) =>
  \A s \in Subscribers : Subscribed(s) =>
    \A i \in joined[s] + 1 .. Len(events) :
      Cardinality({k \in DOMAIN heard[s] : heard[s][k] = events[i].seq}) = 1
=============================================================================
