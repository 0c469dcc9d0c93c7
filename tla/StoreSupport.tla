---------------------------- MODULE StoreSupport ----------------------------
(***************************************************************************)
(* What the three durable stores and the log in memory have in common:     *)
(* the shape of an event row and of an append, the assertions of           *)
(* providers/standard/src/store/support.ts, and the capability that tells  *)
(* a contiguous log from one that only increases (ports/store.ts).         *)
(***************************************************************************)
EXTENDS Integers, FiniteSetsExt

CONSTANTS
  Clients,     \* processes that hold an EventLog of the one stream modelled
  MaxSeq,      \* bound: the greatest sequence number a client tries
  Contiguous,  \* capabilities.sequence: "contiguous", or else "strictly-increasing"
  None         \* no argument, no answer, nobody

ASSUME StoreAssumption ==
  /\ MaxSeq \in Nat /\ Contiguous \in BOOLEAN
  /\ None \notin Int \cup Clients \cup {"ok", "conflict", "invariant", "error"}

(* An event, as far as a log looks at it: its sequence number, and who wrote it. *)
Entries == [seq : 0..MaxSeq, by : Clients]

Answers == {"ok", "conflict", "invariant", "error"}

(* append(event, expectedLastSeq) and what it answered; -2 and -1 stand for   *)
(* the numbers the input assertions refuse.                                *)
Expected == {None} \cup (-2..MaxSeq)
Calls == [seq : -1..MaxSeq, expected : Expected, answer : {None} \cup Answers]
Requests == [seq : 0..MaxSeq, expected : {None} \cup (-1..MaxSeq)]
  \cup {[seq |-> -1, expected |-> None], [seq |-> 0, expected |-> -2]}
Reads == [from : 0..MaxSeq, head : -1..MaxSeq, events : SUBSET Entries]

ASSUME NoneAssumption == None \notin Entries \cup Calls \cup Reads

Calling(r) == [seq |-> r.seq, expected |-> r.expected, answer |-> None]

HeadOf(entries) == IF entries = {} THEN -1 ELSE Max({e.seq : e \in entries})

Between(entries, from, to) == {e \in entries : from <= e.seq /\ e.seq <= to}

ValidInput(call) == call.seq >= 0 /\ call.expected # -2

Conflicts(call, head) == call.expected \notin {None, head}

Follows(call, head) == IF Contiguous THEN call.seq = head + 1 ELSE call.seq > head
=============================================================================
