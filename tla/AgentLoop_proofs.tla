-------------------------- MODULE AgentLoop_proofs --------------------------
(***************************************************************************)
(* Proofs about the agent loop, for any number of replicas, calls, steps,  *)
(* turns, faults and any retry budgets.                                    *)
(***************************************************************************)
EXTENDS AgentLoop, SequenceTheorems, WellFoundedInduction, TLAPS

-----------------------------------------------------------------------------
(* Facts about the reducer of SessionState, for every set of identifiers.   *)

(* An element of a sequence's domain gives an element of its range.        *)
LEMMA SeqElement ==
  ASSUME NEW S, NEW seq \in Seq(S), NEW i \in DOMAIN seq
  PROVE  seq[i] \in S
  BY LenProperties, ElementOfSeq

(* Splicing one element out of a sequence leaves a sequence.               *)
LEMMA RemoveAtType ==
  ASSUME NEW S, NEW seq \in Seq(S), NEW i \in 1..Len(seq)
  PROVE  RemoveAt(seq, i) \in Seq(S)
<1>1. Len(seq) \in Nat
  BY LenProperties
<1>2. SubSeq(seq, 1, i-1) \in Seq(S)
  BY <1>1, ElementOfSeq, SubSeqProperties
<1>3. SubSeq(seq, i+1, Len(seq)) \in Seq(S)
  BY <1>1, ElementOfSeq, SubSeqProperties
<1> QED
  BY <1>2, <1>3, ConcatProperties DEF RemoveAt

(* The first of a non-empty set of positions is one of them.               *)
LEMMA FirstIn ==
  ASSUME NEW D \in SUBSET Nat, D # {}
  PROVE  First(D) \in D
<1> DEFINE R == {p \in Nat \X Nat : p[1] < p[2]}
<1>1. IsWellFoundedOn(R, Nat)
  BY NatLessThanWellFounded DEF OpToRel
<1> HIDE DEF R
<1>2. \E i \in D : \A j \in D : <<j, i>> \notin R
  BY <1>1, WFMin
<1>3. \A i, j \in Nat : <<j, i>> \notin R => i <= j
  <2> SUFFICES ASSUME NEW i \in Nat, NEW j \in Nat, j < i PROVE <<j, i>> \in R
    OBVIOUS
  <2> QED
    BY DEF R
<1>4. \E i \in D : \A j \in D : i <= j
  BY <1>2, <1>3
<1> QED
  BY <1>4 DEF First

(* Splicing the first element that satisfies a test, when there is one.    *)
LEMMA SpliceType ==
  ASSUME NEW S, NEW seq \in Seq(S), NEW D \in SUBSET (DOMAIN seq), D # {}
  PROVE  RemoveAt(seq, First(D)) \in Seq(S)
<1>1. DOMAIN seq = 1..Len(seq) /\ Len(seq) \in Nat
  BY LenProperties
<1>2. D \in SUBSET Nat
  BY <1>1
<1>3. First(D) \in 1..Len(seq)
  BY <1>1, <1>2, FirstIn
<1> QED
  BY <1>3, RemoveAtType

(* A non-empty bounded set of positions has a greatest one.                *)
LEMMA GreatestIn ==
  ASSUME NEW n \in Nat, NEW D \in SUBSET (1..n), D # {}
  PROVE  \E i \in D : \A j \in D : j <= i
<1> DEFINE R == {p \in Nat \X Nat : p[1] < p[2]}
           E == {n - i : i \in D}
<1>1. IsWellFoundedOn(R, Nat)
  BY NatLessThanWellFounded DEF OpToRel
<1>2. E \in SUBSET Nat /\ E # {}
  <2>1. ASSUME NEW i \in D PROVE n - i \in Nat
    <3>1. i \in 1..n
      OBVIOUS
    <3> QED
      BY <3>1
  <2> QED
    BY <2>1
<1>3. \A a, b \in Nat : <<a, b>> \notin R => b <= a
  OBVIOUS
<1> HIDE DEF R
<1>4. PICK a \in E : \A b \in E : <<b, a>> \notin R
  <2> HIDE DEF E
  <2> QED
    BY <1>1, <1>2, WFMin
<1>5. PICK i \in D : a = n - i
  OBVIOUS
<1>6. ASSUME NEW j \in D PROVE j <= i
  <2>1. a <= n - j
    BY <1>2, <1>3, <1>4
  <2> QED
    BY <1>5, <2>1
<1> QED
  BY <1>6

LEMMA AppendType ==
  ASSUME NEW S, NEW seq \in Seq(S), NEW x \in S
  PROVE  Append(seq, x) \in Seq(S)
  BY AppendProperties

(* The empty state is a session state.                                     *)
LEMMA EmptyStateType ==
  ASSUME NEW T, NEW S, NEW C
  PROVE  EmptyState \in SessionStates(T, S, C)
  BY EmptySeq DEF EmptyState, SessionStates, Optional, Statuses

-----------------------------------------------------------------------------
(* An event the reducer accepts leads to a session state.                  *)
LEMMA ApplyBodyType ==
  ASSUME NEW T, NEW S, NEW C, NEW s \in SessionStates(T, S, C),
         NEW e \in Events(T, S, C), Valid(s, e)
  PROVE  ApplyBody(s, e) \in SessionStates(T, S, C)
<1>1. CASE e.type = "turn.started"
  <2>1. None \in Optional([turn: Optional(T), id: Optional(S)])
    BY DEF Optional
  <2>2. /\ e.turn \in Optional(T)
        /\ s.seenTurns \cup {e.turn} \in SUBSET Optional(T)
        /\ 0 \in Int
    BY DEF SessionStates, Events
  <2>3. ApplyTurnStarted(s, e) \in SessionStates(T, S, C)
    BY <2>1, <2>2 DEF ApplyTurnStarted, SessionStates, Statuses
  <2> QED
    BY <1>1, <2>3 DEF ApplyBody
<1>2. CASE e.type = "step.started"
  BY <1>2 DEF ApplyBody, ApplyStepStarted, SessionStates, Events, Statuses, Optional
<1>3. CASE e.type = "step.finished"
  BY <1>3 DEF ApplyBody, ApplyStepFinished, SessionStates, Events, Statuses, Optional
<1>4. CASE e.type = "tool.call"
  <2>1. [call |-> e.call, step |-> e.step] \in PendingCalls(S, C)
    BY DEF Events, PendingCalls
  <2>2. Append(s.calls, [call |-> e.call, step |-> e.step]) \in Seq(PendingCalls(S, C))
    BY <2>1, AppendType DEF SessionStates
  <2> QED
    BY <1>4, <2>2 DEF ApplyBody, ApplyToolCall, SessionStates, Events
<1>5. CASE e.type = "tool.result"
  <2> DEFINE D == {k \in DOMAIN s.calls : s.calls[k].call = e.call}
  <2>1. D # {}
    BY <1>5 DEF Valid, ValidToolResult
  <2>2. RemoveAt(s.calls, First(D)) \in Seq(PendingCalls(S, C))
    BY <2>1, SpliceType DEF SessionStates
  <2> QED
    BY <1>5, <2>2 DEF ApplyBody, ApplyToolResult, SessionStates, Events
<1>6. CASE e.type = "permission.requested"
  <2> DEFINE a == [req |-> e.req, step |-> e.step, call |-> e.call]
  <2>1. a \in PendingAsks(S, C)
    BY DEF Events, PendingAsks
  <2>2. Append(s.asks, a) \in Seq(PendingAsks(S, C))
    BY <2>1, AppendType DEF SessionStates
  <2> QED
    BY <1>6, <2>2 DEF ApplyBody, ApplyPermissionRequested, SessionStates, Events, Statuses
<1>7. CASE e.type = "permission.resolved"
  <2> DEFINE D == {k \in DOMAIN s.asks : s.asks[k].req = e.req}
             A == [req: Optional(C), call: Optional(C), decision: Optional(Decisions)]
             a == [req |-> e.req, call |-> e.call, decision |-> e.decision]
  <2>1. D # {}
    BY <1>7 DEF Valid, ValidPermissionResolved
  <2>2. RemoveAt(s.asks, First(D)) \in Seq(PendingAsks(S, C))
    BY <2>1, SpliceType DEF SessionStates
  <2>3. a \in A
    BY DEF Events
  <2>4. Append(s.answers, a) \in Seq(A)
    BY <2>3, AppendType DEF SessionStates
  <2> QED
    BY <1>7, <2>2, <2>4 DEF ApplyBody, ApplyPermissionResolved, SessionStates, Events, Statuses
<1>8. CASE e.type = "turn.finished"
  BY <1>8 DEF ApplyBody, ApplyTurnFinished, TerminalStatus, SessionStates, Statuses, Optional
<1>9. CASE e.type \notin {"turn.started", "step.started", "step.finished", "tool.call", "tool.result",
                          "permission.requested", "permission.resolved", "turn.finished"}
  BY <1>9 DEF ApplyBody
<1> QED
  BY <1>1, <1>2, <1>3, <1>4, <1>5, <1>6, <1>7, <1>8, <1>9

LEMMA ApplyType ==
  ASSUME NEW T, NEW S, NEW C, NEW s \in SessionStates(T, S, C),
         NEW e \in Events(T, S, C), Valid(s, e)
  PROVE  /\ Apply(s, e) \in SessionStates(T, S, C)
         /\ Apply(s, e).lastSeq = e.seq
<1>1. ApplyBody(s, e) \in SessionStates(T, S, C)
  BY ApplyBodyType
<1> QED
  BY <1>1 DEF Apply, SessionStates, Events

-----------------------------------------------------------------------------
(* Induction over a set of numbers.                                        *)
LEMMA SetInduction ==
  ASSUME NEW P \in SUBSET Nat, 0 \in P, \A n \in P : n + 1 \in P
  PROVE  P = Nat
<1> SUFFICES ASSUME P # Nat PROVE FALSE
  OBVIOUS
<1> DEFINE R == {p \in Nat \X Nat : p[1] < p[2]}
           T == Nat \ P
<1>1. IsWellFoundedOn(R, Nat)
  BY NatLessThanWellFounded DEF OpToRel
<1>2. T # {} /\ T \subseteq Nat
  OBVIOUS
<1> HIDE DEF R, T
<1>3. PICK i \in T : \A j \in T : <<j, i>> \notin R
  BY <1>1, <1>2, WFMin
<1>4. i \in Nat /\ i # 0 /\ i - 1 \in Nat /\ i - 1 \notin P
  BY <1>3 DEF T
<1>5. <<i - 1, i>> \in R
  BY <1>4 DEF R
<1> QED
  BY <1>3, <1>4, <1>5 DEF T

(* Replay folds the log: the function of the fold, on the first n events.   *)
Folds(seq, n, g) ==
  g = [s \in SUBSET (1..n) |->
         IF s = {} THEN EmptyState ELSE ReplayStep(g[s \ {Max(s)}], seq[Max(s)])]

(* g on fewer events.                                                      *)
Upto(g, n) == [s \in SUBSET (1..n) |-> g[s]]

LEMMA MaxIn ==
  ASSUME NEW n \in Nat, NEW s \in SUBSET (1..n), s # {}
  PROVE  Max(s) \in s /\ \A y \in s : Max(s) >= y
<1>1. PICK x \in s : \A y \in s : y <= x
  BY GreatestIn
<1>2. \A y \in s : x >= y
  BY <1>1
<1> QED
  BY <1>2 DEF Max

LEMMA ReplayFold ==
  ASSUME NEW seq, NEW n, DOMAIN seq = 1..n
  PROVE  Replay(seq) = (CHOOSE g : Folds(seq, n, g))[1..n]
  BY DEF Replay, FoldLeft, MapThenFoldSet, Folds

LEMMA FoldsUpto ==
  ASSUME NEW seq, NEW other, NEW n \in Nat, NEW g, Folds(seq, n + 1, g),
         \A i \in 1..n : other[i] = seq[i]
  PROVE  Folds(other, n, Upto(g, n))
<1> SUFFICES ASSUME NEW s \in SUBSET (1..n)
             PROVE  g[s] = IF s = {} THEN EmptyState
                           ELSE ReplayStep(Upto(g, n)[s \ {Max(s)}], other[Max(s)])
  BY DEF Folds, Upto
<1>1. s \in SUBSET (1..(n + 1))
  OBVIOUS
<1>2. g[s] = IF s = {} THEN EmptyState ELSE ReplayStep(g[s \ {Max(s)}], seq[Max(s)])
  BY <1>1 DEF Folds
<1>3. s # {} => Max(s) \in s
  BY MaxIn
<1>4. Upto(g, n)[s \ {Max(s)}] = g[s \ {Max(s)}]
  BY DEF Upto
<1> QED
  BY <1>2, <1>3, <1>4

(* There is one such function for every number of events.                  *)
LEMMA FoldsExist ==
  ASSUME NEW seq, NEW n \in Nat
  PROVE  /\ \E g : Folds(seq, n, g)
         /\ \A g, h : Folds(seq, n, g) /\ Folds(seq, n, h) => g = h
<1> DEFINE P == {m \in Nat : /\ \E g : Folds(seq, m, g)
                           /\ \A g, h : Folds(seq, m, g) /\ Folds(seq, m, h) => g = h}
<1>1. 0 \in P
  <2>1. \A g : Folds(seq, 0, g) <=> g = [s \in {{}} |-> EmptyState]
    <3> SUFFICES ASSUME NEW g
                 PROVE  [s \in SUBSET (1..0) |->
                           IF s = {} THEN EmptyState ELSE ReplayStep(g[s \ {Max(s)}], seq[Max(s)])]
                        = [s \in {{}} |-> EmptyState]
      BY DEF Folds
    <3>1. SUBSET (1..0) = {{}}
      OBVIOUS
    <3> QED
      BY <3>1
  <2>2. Folds(seq, 0, [s \in {{}} |-> EmptyState])
    BY <2>1
  <2>3. ASSUME NEW g, NEW h, Folds(seq, 0, g), Folds(seq, 0, h) PROVE g = h
    <3>1. g = [s \in {{}} |-> EmptyState]
      BY <2>1, <2>3
    <3>2. h = [s \in {{}} |-> EmptyState]
      BY <2>1, <2>3
    <3> QED
      BY <3>1, <3>2
  <2> QED
    BY <2>2, <2>3
<1>2. ASSUME NEW m \in P PROVE m + 1 \in P
  <2>1. m \in Nat /\ \A g, h : Folds(seq, m, g) /\ Folds(seq, m, h) => g = h
    OBVIOUS
  <2>2. PICK g : Folds(seq, m, g)
    OBVIOUS
  <2> DEFINE Left(s) == IF s = {} THEN EmptyState ELSE ReplayStep(g[s \ {Max(s)}], seq[Max(s)])
             f == [s \in SUBSET (1..(m + 1)) |-> Left(s)]
  <2>3. ASSUME NEW s \in SUBSET (1..(m + 1)), s # {} PROVE s \ {Max(s)} \in SUBSET (1..m)
    <3>0. m \in Nat /\ m + 1 \in Nat
      BY <2>1
    <3>1. Max(s) \in s /\ \A y \in s : Max(s) >= y
      BY <3>0, <2>3, MaxIn
    <3> DEFINE top == Max(s)
    <3> HIDE DEF top
    <3>2. top \in 1..(m + 1) /\ \A y \in s : top >= y
      BY <3>1 DEF top
    <3> SUFFICES ASSUME NEW y \in s, y # top PROVE y \in 1..m
      BY DEF top
    <3>3. y \in 1..(m + 1) /\ y <= top
      BY <3>2
    <3> QED
      BY <3>0, <3>2, <3>3
  <2>4. \A s \in SUBSET (1..m) : f[s] = g[s]
    <3>1. SUBSET (1..m) \subseteq SUBSET (1..(m + 1))
      BY <2>1
    <3>2. \A s \in SUBSET (1..m) : Left(s) = g[s]
      BY <2>2 DEF Folds
    <3> QED
      BY <3>1, <3>2
  <2>5. Folds(seq, m + 1, f)
    <3> HIDE DEF f
    <3> SUFFICES ASSUME NEW s \in SUBSET (1..(m + 1)), s # {} PROVE g[s \ {Max(s)}] = f[s \ {Max(s)}]
      BY DEF Folds, f
    <3> QED
      BY <2>3, <2>4
  <2>6. ASSUME NEW h, Folds(seq, m + 1, h) PROVE h = f
    <3>1. Upto(h, m) = g
      BY <2>1, <2>2, <2>6, FoldsUpto
    <3>2. \A s \in SUBSET (1..(m + 1)) : s # {} => h[s \ {Max(s)}] = g[s \ {Max(s)}]
      BY <3>1, <2>3 DEF Upto
    <3>3. \A s \in SUBSET (1..(m + 1)) :
            (IF s = {} THEN EmptyState ELSE ReplayStep(h[s \ {Max(s)}], seq[Max(s)])) = Left(s)
      BY <3>2
    <3> QED
      BY <2>6, <3>3 DEF Folds
  <2> HIDE DEF f
  <2> QED
    BY <2>1, <2>5, <2>6
<1> HIDE DEF P
<1>3. P = Nat
  BY <1>1, <1>2, SetInduction DEF P
<1> QED
  BY <1>3 DEF P

(* Replaying no event, and one event more.                                  *)
LEMMA ReplayEmpty == Replay(<<>>) = EmptyState
<1>1. DOMAIN <<>> = 1..0
  OBVIOUS
<1>2. Replay(<<>>) = (CHOOSE g : Folds(<<>>, 0, g))[1..0]
  BY <1>1, ReplayFold
<1>3. PICK g : g = (CHOOSE h : Folds(<<>>, 0, h)) /\ Folds(<<>>, 0, g)
  BY FoldsExist
<1>4. 1..0 = {}
  OBVIOUS
<1>5. g[1..0] = EmptyState
  BY <1>3, <1>4 DEF Folds
<1> QED
  BY <1>2, <1>3, <1>5

LEMMA ReplayAppend ==
  ASSUME NEW S, NEW seq \in Seq(S), NEW e
  PROVE  Replay(Append(seq, e)) = ReplayStep(Replay(seq), e)
<1> DEFINE n == Len(seq)
           new == Append(seq, e)
<1>1. n \in Nat /\ DOMAIN seq = 1..n
  BY LenProperties
<1>2. /\ DOMAIN new = 1..(n + 1) /\ new[n + 1] = e
      /\ \A i \in 1..n : new[i] = seq[i]
  OBVIOUS
<1> HIDE DEF n, new
<1>3. PICK g : Folds(seq, n, g) /\ Replay(seq) = g[1..n]
  BY <1>1, FoldsExist, ReplayFold
<1>4. PICK h : Folds(new, n + 1, h) /\ Replay(new) = h[1..(n + 1)]
  BY <1>1, <1>2, FoldsExist, ReplayFold
<1>5. Upto(h, n) = g
  BY <1>1, <1>2, <1>3, <1>4, FoldsUpto, FoldsExist
<1>6. h[1..n] = g[1..n]
  BY <1>5 DEF Upto
<1>7. Max(1..(n + 1)) = n + 1
  <2>1. n + 1 \in 1..(n + 1) /\ n + 1 \in Nat
    BY <1>1
  <2>2. Max(1..(n + 1)) \in 1..(n + 1) /\ \A y \in 1..(n + 1) : Max(1..(n + 1)) >= y
    BY <2>1, MaxIn
  <2> QED
    BY <2>2, <1>1
<1>8. h[1..(n + 1)] = ReplayStep(h[(1..(n + 1)) \ {n + 1}], new[n + 1])
  <2>1. n + 1 \in 1..(n + 1)
    BY <1>1
  <2> QED
    BY <1>4, <1>7, <2>1 DEF Folds
<1>9. (1..(n + 1)) \ {n + 1} = 1..n
  BY <1>1
<1> QED
  BY <1>2, <1>3, <1>4, <1>6, <1>8, <1>9 DEF new

-----------------------------------------------------------------------------
(* A stream that has a head other than -1 is not empty, and the empty      *)
(* stream's state is the empty state, which a restarted replica holds.     *)
StreamHead ==
  /\ durable.lastSeq >= -1
  /\ durable.lastSeq = -1 => durable = EmptyState

(* The inductive invariant.  The types need CasCoherent: an event is       *)
(* validated against a replica's view and applied to the log's state, and  *)
(* only their equality makes the second step as safe as the first.         *)
Coherent == TypeOK /\ CasCoherent /\ StreamHead

-----------------------------------------------------------------------------
(* The values replicas and events take.                                    *)

LEMMA LoopType ==
  ASSUME TypeOK, NEW l \in Loops
  PROVE  /\ loop[l] \in LoopStates
         /\ view[l] \in AState
  BY DEF TypeOK

LEMMA IdleLoopType == IdleLoop \in LoopStates
<1>1. /\ <<>> \in Seq(CallIds)
      /\ <<>> \in Seq(PendingAsks(Steps, CallIds))
      /\ <<>> \in Seq(PendingCalls(Steps, CallIds))
  BY EmptySeq
<1>2. 1 \in Nat /\ {} \in SUBSET Nat
  OBVIOUS
<1> QED
  BY <1>1, <1>2 DEF IdleLoop, LoopStates, Pcs, Optional

(* Updating one field at a time.                                           *)
LEMMA Update ==
  ASSUME NEW r \in LoopStates
  PROVE  /\ \A x \in Pcs : [r EXCEPT !.pc = x] \in LoopStates
         /\ \A x \in Seq(CallIds) : [r EXCEPT !.batch = x] \in LoopStates
         /\ \A x \in Optional(Steps) : [r EXCEPT !.step = x] \in LoopStates
         /\ \A x \in Nat : [r EXCEPT !.i = x] \in LoopStates
         /\ \A x \in Nat : [r EXCEPT !.attempt = x] \in LoopStates
         /\ \A x \in Optional(CallIds) : [r EXCEPT !.call = x] \in LoopStates
         /\ \A x \in {"batch", "asks", "calls"} : [r EXCEPT !.via = x] \in LoopStates
         /\ \A x \in Optional(Outcomes) : [r EXCEPT !.outcome = x] \in LoopStates
         /\ \A x \in {"feed-back", "fail-turn"} : [r EXCEPT !.action = x] \in LoopStates
         /\ \A x \in Seq(PendingAsks(Steps, CallIds)) : [r EXCEPT !.asks = x] \in LoopStates
         /\ \A x \in Seq(PendingCalls(Steps, CallIds)) : [r EXCEPT !.calls = x] \in LoopStates
         /\ \A x \in SUBSET Nat : [r EXCEPT !.missing = x] \in LoopStates
  BY DEF LoopStates

LEMMA FailedType ==
  ASSUME TypeOK, NEW l \in Loops
  PROVE  Failed(l) \in LoopStates
<1>1. \A o \in {"aborted", "failed"} : [IdleLoop EXCEPT !.pc = "closing", !.outcome = o] \in LoopStates
  BY IdleLoopType DEF LoopStates, Pcs, Optional, Outcomes
<1> QED
  BY <1>1, IdleLoopType DEF Failed

LEMMA NoEventType == NoEvent \in AnEvent
  BY DEF NoEvent, AnEvent, Events, Optional, EventTypes

LEMMA NextEventType ==
  ASSUME TypeOK, NEW l \in Loops, NEW event \in AnEvent
  PROVE  NextEvent(l, event) \in AnEvent
<1>1. view[l].lastSeq + 1 \in Int
  BY LoopType DEF AState, SessionStates
<1> QED
  BY <1>1 DEF NextEvent, AnEvent, Events

-----------------------------------------------------------------------------
(* What the three ways of advancing keep.                                  *)

(* A step that leaves the log and the views alone.                         *)
LEMMA MoveCoherent ==
  ASSUME Coherent, NEW l \in Loops, NEW next \in LoopStates,
         loop' = [loop EXCEPT ![l] = next],
         UNCHANGED <<log, durable, view, runs, ranBefore, fedBack>>, faults' \in Nat
  PROVE  Coherent'
<1>1. loop' \in [Loops -> LoopStates]
  BY DEF Coherent, TypeOK
<1> QED
  BY <1>1 DEF Coherent, TypeOK, CasCoherent, StreamHead

(* A step that reloads the view.                                           *)
LEMMA ReloadCoherent ==
  ASSUME Coherent, NEW l \in Loops, NEW next \in LoopStates,
         loop' = [loop EXCEPT ![l] = next], Reload(l),
         UNCHANGED <<log, durable, runs, faults>>,
         ranBefore' \subseteq CallIds, fedBack' \subseteq Optional(CallIds)
  PROVE  Coherent'
<1>1. loop' \in [Loops -> LoopStates]
  BY DEF Coherent, TypeOK
<1>2. view' \in [Loops -> AState]
  BY DEF Coherent, TypeOK, Reload
<1>3. TypeOK'
  BY <1>1, <1>2 DEF Coherent, TypeOK
<1>4. CasCoherent'
  <2> SUFFICES ASSUME NEW m \in Loops
               PROVE  /\ view'[m].lastSeq <= durable.lastSeq
                      /\ view'[m].lastSeq = durable.lastSeq => view'[m] = durable
    BY DEF CasCoherent
  <2>1. CASE m = l
    BY <2>1 DEF Coherent, TypeOK, Reload, AState, SessionStates
  <2>2. CASE m # l
    BY <2>2 DEF Coherent, TypeOK, Reload, CasCoherent
  <2> QED
    BY <2>1, <2>2
<1> QED
  BY <1>3, <1>4 DEF Coherent, StreamHead

(* #emit, whatever becomes of the append.                                  *)
LEMMA EmitCoherent ==
  ASSUME Coherent, NEW l \in Loops, NEW event, NEW next \in LoopStates,
         Valid(view[l], NextEvent(l, event)) => NextEvent(l, event) \in AnEvent,
         Emit(l, event, next), MaxFaults \in Nat
  PROVE  Coherent'
<1> DEFINE e == NextEvent(l, event)
<1>1. faults' \in Nat
  BY DEF Emit, Coherent, TypeOK
<1>2. loop' \in [Loops -> LoopStates]
  BY FailedType DEF Emit, Coherent, TypeOK
<1>3. CASE UNCHANGED <<log, durable, view>>
  BY <1>1, <1>2, <1>3 DEF Emit, Coherent, TypeOK, CasCoherent, StreamHead
<1>4. CASE /\ Valid(view[l], e) /\ AppendAccepted(l, e) /\ Persist(e)
           /\ view' = view \/ view' = [view EXCEPT ![l] = Apply(@, e)]
  <2>1. e \in AnEvent
    BY <1>4
  <2>2. view[l] = durable
    BY <1>4 DEF AppendAccepted, Coherent, CasCoherent
  <2>3. durable' \in AState /\ durable'.lastSeq = e.seq
    BY <1>4, <2>1, <2>2, LoopType, ApplyType DEF Persist, AState, AnEvent, Coherent
  <2>4. e.seq > durable.lastSeq /\ e.seq \in Int /\ durable.lastSeq \in Int
    BY <1>4, <2>1 DEF AppendAccepted, AnEvent, Events, Coherent, TypeOK, AState, SessionStates
  <2>5. log' \in Seq(AnEvent)
    BY <1>4, <2>1, AppendType DEF Persist, Coherent, TypeOK
  <2>6. view' \in [Loops -> AState]
    BY <1>4, <2>2, <2>3 DEF Persist, Coherent, TypeOK
  <2>7. TypeOK'
    BY <1>1, <1>2, <2>3, <2>5, <2>6 DEF Emit, Coherent, TypeOK
  <2>8. ASSUME NEW m \in Loops
        PROVE  /\ view'[m].lastSeq <= durable'.lastSeq
               /\ view'[m].lastSeq = durable'.lastSeq => view'[m] = durable'
    <3>1. CASE view'[m] = view[m]
      <4>1. view[m].lastSeq <= durable.lastSeq /\ view[m].lastSeq \in Int
        BY LoopType DEF Coherent, CasCoherent, AState, SessionStates
      <4> QED
        BY <3>1, <4>1, <2>3, <2>4
    <3>2. CASE view'[m] = Apply(view[m], e) /\ m = l
      BY <3>2, <1>4, <2>2, <2>3, <2>4 DEF Persist
    <3> QED
      BY <3>1, <3>2, <1>4 DEF Coherent, TypeOK
  <2>9. StreamHead'
    BY <2>3, <2>4 DEF Coherent, StreamHead
  <2> QED
    BY <2>7, <2>8, <2>9 DEF Coherent, CasCoherent
<1> QED
  BY <1>3, <1>4 DEF Emit

-----------------------------------------------------------------------------
(* The actions of an operation, one lemma each for those that emit.        *)

LEMMA InStepType ==
  ASSUME TypeOK, NEW l \in Loops, NEW type \in EventTypes
  PROVE  /\ InStep(l, type) \in AnEvent
         /\ ForCall(l, type) \in AnEvent
         /\ ForRequest(l, type) \in AnEvent
<1>1. InStep(l, type) \in AnEvent
  BY LoopType, NoEventType DEF InStep, AnEvent, Events, Optional, LoopStates
<1>2. ForCall(l, type) \in AnEvent
  BY <1>1, LoopType DEF ForCall, AnEvent, Events, LoopStates
<1>3. ForRequest(l, type) \in AnEvent
  BY <1>2, LoopType DEF ForRequest, AnEvent, Events, LoopStates
<1> QED
  BY <1>1, <1>2, <1>3

LEMMA GotoType ==
  ASSUME TypeOK, NEW l \in Loops, NEW pc \in Pcs
  PROVE  Goto(l, pc) \in LoopStates
  BY LoopType DEF Goto, LoopStates

LEMMA NextCallType ==
  ASSUME TypeOK, NEW l \in Loops, NEW failed \in BOOLEAN
  PROVE  NextCall(l, failed) \in LoopStates
<1> DEFINE i == loop[l].i
           f == loop[l].failed \/ failed
<1>1. loop[l] \in LoopStates /\ i \in Nat /\ loop[l].batch \in Seq(CallIds) /\ f \in BOOLEAN
  BY LoopType DEF LoopStates
<1>2. CASE loop[l].via = "asks" \/ loop[l].via = "calls"
  BY <1>2, <1>1 DEF NextCall, LoopStates, Pcs
<1>3. CASE loop[l].via \notin {"asks", "calls"} /\ i < Len(loop[l].batch)
  <2>1. i + 1 \in Nat /\ i + 1 \in 1..Len(loop[l].batch)
    BY <1>1, <1>3, LenProperties
  <2>2. loop[l].batch[i + 1] \in Optional(CallIds)
    BY <1>1, <2>1, ElementOfSeq DEF Optional
  <2>3. [loop[l] EXCEPT !.pc = "permission", !.i = i + 1, !.call = loop[l].batch[i + 1],
                        !.failed = f] \in LoopStates
    <3> HIDE DEF f
    <3> QED
      BY <1>1, <2>1, <2>2 DEF LoopStates, Pcs
  <2> QED
    BY <1>3, <2>3 DEF NextCall
<1>4. CASE loop[l].via \notin {"asks", "calls"} /\ ~(i < Len(loop[l].batch))
  <2>1. [loop[l] EXCEPT !.pc = "finish", !.failed = f] \in LoopStates
    <3> HIDE DEF f
    <3> QED
      BY <1>1 DEF LoopStates, Pcs
  <2> QED
    BY <1>4, <2>1 DEF NextCall
<1> QED
  BY <1>2, <1>3, <1>4

(* A typed event and a typed next place are all an emission needs.         *)
LEMMA EmitTyped ==
  ASSUME Coherent, NEW l \in Loops, NEW event \in AnEvent, NEW next \in LoopStates,
         Emit(l, event, next)
  PROVE  Coherent'
<1>1. NextEvent(l, event) \in AnEvent
  BY NextEventType DEF Coherent
<1> QED
  BY <1>1, EmitCoherent, LoopAssumption

(* What the loop reads off the log and puts in an event is of its type.    *)
LEMMA StopReasonType ==
  ASSUME NEW turn
  PROVE  StopReason(turn) = None \/ PersistedReason(StopReason(turn)) \in Outcomes
  BY DEF StopReason, LastOutcome, PersistedReason, FailureStopReasons, Outcomes

LEMMA LogElement ==
  ASSUME TypeOK, NEW i \in DOMAIN log
  PROVE  log[i] \in AnEvent
  BY SeqElement DEF TypeOK

(* runTurn, resumeTurn, #driveTurn.                                        *)
LEMMA DriveCoherent ==
  ASSUME Coherent, NEW l \in Loops,
         \/ RunTurn(l) \/ BeginTurn(l) \/ ResumeTurn(l) \/ Abort(l)
         \/ DriveAborted(l) \/ FinishTurn(l) \/ StartStep(l)
  PROVE  Coherent'
<1> USE DEF Coherent
<1>t. /\ loop[l] \in LoopStates /\ view[l] \in AState /\ durable \in AState
      /\ IdleLoop \in LoopStates /\ Failed(l) \in LoopStates /\ NoEvent \in AnEvent
  BY LoopType, IdleLoopType, FailedType, NoEventType DEF TypeOK
<1>n. NewOperation => ranBefore' \subseteq CallIds /\ fedBack' \subseteq Optional(CallIds)
  BY DEF NewOperation
<1>1. CASE RunTurn(l)
  <2>1. durable.lastSeq + 1 \in Optional(Turns)
    BY <1>t DEF AState, SessionStates, Turns, Optional
  <2>2. [IdleLoop EXCEPT !.pc = "begin", !.turn = durable.lastSeq + 1] \in LoopStates
    BY <1>t, <2>1 DEF LoopStates, Pcs
  <2> QED
    BY <1>1, <1>n, <2>2, ReloadCoherent DEF RunTurn
<1>2. CASE BeginTurn(l)
  <2>1. [NoEvent EXCEPT !.type = "turn.started", !.turn = loop[l].turn] \in AnEvent
    BY <1>t DEF AnEvent, Events, LoopStates, Optional, EventTypes
  <2>2. Goto(l, "drive") \in LoopStates
    BY GotoType DEF Pcs
  <2> QED
    BY <1>2, <2>1, <2>2, EmitTyped DEF BeginTurn
<1>3. CASE ResumeTurn(l)
  <2>1. [IdleLoop EXCEPT !.pc = "recover", !.turn = durable.turn] \in LoopStates
    BY <1>t DEF LoopStates, Pcs, AState, SessionStates
  <2> QED
    BY <1>3, <1>n, <2>1, ReloadCoherent DEF ResumeTurn
<1>4. CASE Abort(l)
  <2>1. [loop[l] EXCEPT !.aborted = TRUE] \in LoopStates
    BY <1>t DEF LoopStates
  <2> QED
    BY <1>4, <2>1, MoveCoherent DEF Abort, Move, TypeOK
<1>5. CASE DriveAborted(l)
  BY <1>5, <1>t, MoveCoherent DEF DriveAborted, Move, TypeOK
<1>6. CASE FinishTurn(l)
  <2>1. PersistedReason(StopReason(loop[l].turn)) \in Outcomes
    BY <1>6, StopReasonType DEF FinishTurn
  <2>2. [NoEvent EXCEPT !.type = "turn.finished", !.turn = loop[l].turn,
                        !.outcome = PersistedReason(StopReason(loop[l].turn))] \in AnEvent
    BY <1>t, <2>1 DEF AnEvent, Events, LoopStates, Optional, EventTypes
  <2> QED
    BY <1>6, <1>t, <2>2, EmitTyped DEF FinishTurn
<1>7. CASE StartStep(l)
  <2> DEFINE index == (IF view[l].turn = None THEN 0 ELSE view[l].lastStep) + 1
             step  == <<loop[l].turn, index>>
  <2>1. index \in Int /\ step \in Optional(Steps)
    <3>1. view[l].lastStep \in Int /\ loop[l].turn \in Optional(Turns)
      BY <1>t DEF AState, SessionStates, LoopStates
    <3>2. index \in Int
      BY <3>1
    <3> QED
      BY <3>1, <3>2 DEF Steps, Optional
  <2>2. loop[l].turn \in Optional(Turns) /\ "step.started" \in Optional(EventTypes)
    BY <1>t DEF LoopStates, EventTypes, Optional
  <2>3. <<>> \in Seq(CallIds) /\ 1 \in Nat
    BY EmptySeq
  <2> HIDE DEF index, step
  <2>4. [NoEvent EXCEPT !.type = "step.started", !.turn = loop[l].turn,
                        !.step = step, !.index = index] \in AnEvent
    BY <1>t, <2>1, <2>2 DEF AnEvent, Events
  <2>5. [loop[l] EXCEPT !.pc = "model", !.step = step, !.batch = <<>>, !.attempt = 1,
                        !.via = "batch", !.failed = FALSE] \in LoopStates
    BY <1>t, <2>1, <2>3 DEF LoopStates, Pcs
  <2> QED
    BY <1>7, <2>4, <2>5, EmitTyped DEF StartStep, index, step
<1> QED
  BY <1>1, <1>2, <1>3, <1>4, <1>5, <1>6, <1>7

(* callModel.                                                              *)
LEMMA ModelCoherent ==
  ASSUME Coherent, NEW l \in Loops, ModelPhase(l)
  PROVE  Coherent'
<1> USE DEF Coherent
<1>t. /\ loop[l] \in LoopStates /\ Failed(l) \in LoopStates
      /\ \A pc \in Pcs : Goto(l, pc) \in LoopStates
      /\ faults \in Nat
  BY LoopType, FailedType, GotoType DEF TypeOK
<1>i. \A type \in EventTypes : InStep(l, type) \in AnEvent
  BY InStepType
<1>1. CASE RequestModel(l)
  BY <1>1, <1>t, <1>i, EmitTyped DEF RequestModel, Pcs, EventTypes, AssociatedTypes
<1>2. CASE DiscardDeltas(l)
  <2> DEFINE fresh == [loop[l] EXCEPT !.pc = "stream", !.batch = <<>>]
             discarded(first, last) == [InStep(l, "model.attempt.discarded") EXCEPT
                                          !.from = log[first].seq, !.to = log[last].seq]
  <2>0. <<>> \in Seq(CallIds)
    BY EmptySeq
  <2>1. fresh \in LoopStates
    BY <1>t, <2>0, Update DEF Pcs
  <2>2. ASSUME NEW first \in DOMAIN log, NEW last \in DOMAIN log
        PROVE  discarded(first, last) \in AnEvent
    <3>1. log[first].seq \in Int /\ log[last].seq \in Int
      BY LogElement DEF AnEvent, Events
    <3> QED
      BY <1>i, <3>1 DEF AnEvent, Events, EventTypes, AssociatedTypes
  <2>3. ActiveDeltas(loop[l].step) \subseteq DOMAIN log
    BY DEF ActiveDeltas, At
  <2> HIDE DEF fresh, discarded
  <2>4. CASE Move(l, fresh)
    BY <2>4, <2>1, <1>t, MoveCoherent DEF Move
  <2>5. CASE \E first, last \in ActiveDeltas(loop[l].step) : Emit(l, discarded(first, last), fresh)
    BY <2>5, <2>1, <2>2, <2>3, EmitTyped
  <2> QED
    BY <1>2, <2>4, <2>5 DEF DiscardDeltas, fresh, discarded
<1>3. CASE StreamEnd(l)
  <2>1. 1 \in Nat
    OBVIOUS
  <2>2. \A pc \in Pcs : [loop[l] EXCEPT !.i = 1, !.pc = pc] \in LoopStates
    BY <1>t, <2>1 DEF LoopStates
  <2>3. (IF loop[l].batch = <<>> THEN "finish" ELSE "intents") \in Pcs
    BY DEF Pcs
  <2> QED
    BY <1>3, <1>t, <2>2, <2>3, MoveCoherent DEF StreamEnd, Move
<1>4. CASE StreamFail(l)
  <2>1. loop[l].attempt + 1 \in Nat
    BY <1>t DEF LoopStates
  <2>2. \A n \in Nat : [loop[l] EXCEPT !.pc = "discard", !.attempt = n] \in LoopStates
    BY <1>t, Update DEF Pcs
  <2>3. CASE Move(l, Failed(l))
    BY <2>3, <1>t, MoveCoherent DEF Move
  <2>4. CASE Move(l, [loop[l] EXCEPT !.pc = "discard", !.attempt = @ + 1])
    BY <2>4, <2>1, <2>2, <1>t, MoveCoherent DEF Move
  <2> QED
    BY <1>4, <2>3, <2>4 DEF StreamFail
<1>5. ASSUME NEW c \in CallIds, StreamCall(l, c) PROVE Coherent'
  <2>1. c \in Optional(CallIds)
    BY DEF Optional
  <2>2. [InStep(l, "model.delta") EXCEPT !.call = c] \in AnEvent
    BY <1>i, <2>1 DEF AnEvent, Events, EventTypes, AssociatedTypes
  <2>3. Append(loop[l].batch, c) \in Seq(CallIds)
    BY <1>t, AppendType DEF LoopStates
  <2>4. [loop[l] EXCEPT !.batch = Append(@, c)] \in LoopStates
    BY <1>t, <2>3 DEF LoopStates
  <2> QED
    BY <1>5, <2>2, <2>4, EmitTyped DEF StreamCall
<1> QED
  BY <1>1, <1>2, <1>3, <1>4, <1>5 DEF ModelPhase

(* The tool batch, the end of a step and its maintenance.                  *)
LEMMA ToolCoherent ==
  ASSUME Coherent, NEW l \in Loops, ToolPhase(l) \/ FinishStep(l) \/ Maintain(l)
  PROVE  Coherent'
<1> USE DEF Coherent
<1>t. /\ loop[l] \in LoopStates /\ Failed(l) \in LoopStates
      /\ \A pc \in Pcs : Goto(l, pc) \in LoopStates
      /\ \A failed \in BOOLEAN : NextCall(l, failed) \in LoopStates
      /\ faults \in Nat
  BY LoopType, FailedType, GotoType, NextCallType DEF TypeOK
<1>i. \A type \in EventTypes : /\ InStep(l, type) \in AnEvent
                               /\ ForCall(l, type) \in AnEvent
                               /\ ForRequest(l, type) \in AnEvent
  BY InStepType
<1>r. \A outcome \in Optional(Outcomes) : ToolResult(l, outcome) \in AnEvent
  BY <1>i DEF ToolResult, AnEvent, Events, EventTypes, AssociatedTypes
<1>o. "error" \in Optional(Outcomes) /\ "denied" \in Optional(Outcomes)
  BY DEF Optional, Outcomes
<1>1. CASE RecordIntent(l)
  <2> DEFINE i == loop[l].i
             next == IF i < Len(loop[l].batch) THEN [loop[l] EXCEPT !.i = i + 1]
                     ELSE [loop[l] EXCEPT !.pc = "permission", !.i = 1, !.call = loop[l].batch[1]]
  <2>1. /\ loop[l].batch \in Seq(CallIds) /\ i \in DOMAIN loop[l].batch
        /\ i \in Nat /\ i + 1 \in Nat
    BY <1>1, <1>t DEF RecordIntent, LoopStates
  <2>2. 1 \in DOMAIN loop[l].batch
    BY <2>1, LenProperties
  <2>3. loop[l].batch[i] \in Optional(CallIds) /\ loop[l].batch[1] \in Optional(CallIds)
    BY <2>1, <2>2, SeqElement DEF Optional
  <2>4. next \in LoopStates
    <3>1. 1 \in Nat
      OBVIOUS
    <3>2. /\ \A n \in Nat : [loop[l] EXCEPT !.i = n] \in LoopStates
          /\ \A n \in Nat, c \in Optional(CallIds) :
               [loop[l] EXCEPT !.pc = "permission", !.i = n, !.call = c] \in LoopStates
      BY <1>t, Update DEF Pcs
    <3> QED
      BY <2>1, <2>3, <3>1, <3>2
  <2>5. [InStep(l, "tool.call") EXCEPT !.call = loop[l].batch[i]] \in AnEvent
    BY <1>i, <2>3 DEF AnEvent, Events, EventTypes, AssociatedTypes
  <2> HIDE DEF next
  <2> QED
    BY <1>1, <2>4, <2>5, EmitTyped DEF RecordIntent, next
<1>2. CASE RejectUnregistered(l)
  BY <1>2, <1>t, <1>r, <1>o, EmitTyped DEF RejectUnregistered
<1>3. CASE RequestPermission(l)
  BY <1>3, <1>t, <1>i, EmitTyped DEF RequestPermission, Pcs, EventTypes, AssociatedTypes
<1>4. ASSUME NEW d \in {"allow", "deny"}, ResolvePermission(l, d) PROVE Coherent'
  <2>1. [ForRequest(l, "permission.resolved") EXCEPT !.decision = d] \in AnEvent
    BY <1>i DEF AnEvent, Events, EventTypes, AssociatedTypes, Optional, Decisions
  <2>2. [loop[l] EXCEPT !.pc = IF d = "allow" THEN "run" ELSE "deny", !.attempt = 1] \in LoopStates
    <3>1. 1 \in Nat
      OBVIOUS
    <3>2. \A pc \in {"run", "deny"} : [loop[l] EXCEPT !.pc = pc, !.attempt = 1] \in LoopStates
      BY <1>t, <3>1, Update DEF Pcs
    <3> QED
      BY <3>2
  <2> QED
    BY <1>4, <2>1, <2>2, EmitTyped DEF ResolvePermission
<1>5. CASE RecordDenial(l)
  BY <1>5, <1>t, <1>r, <1>o, EmitTyped DEF RecordDenial
<1>6. CASE RunTool(l)
  <2>1. /\ loop' \in [Loops -> LoopStates]
        /\ runs' \in [CallIds -> Nat]
        /\ fedBack' \subseteq Optional(CallIds)
    <3>1. /\ \A o \in {"succeeded", "failed"} :
               [loop[l] EXCEPT !.pc = "record", !.outcome = o] \in LoopStates
          /\ \A a \in {"feed-back", "fail-turn"} :
               [loop[l] EXCEPT !.pc = "feed", !.action = a] \in LoopStates
      BY <1>t, Update DEF Pcs, Optional, Outcomes
    <3>2. loop[l].attempt + 1 \in Nat
      BY <1>t DEF LoopStates
    <3>3. \A n \in Nat : [loop[l] EXCEPT !.attempt = n] \in LoopStates
      BY <1>t DEF LoopStates
    <3>4. \E next \in LoopStates : loop' = [loop EXCEPT ![l] = next]
      <4>1. CASE loop' = [loop EXCEPT ![l].attempt = @ + 1]
        BY <4>1, <1>t, <3>2, <3>3
      <4>2. CASE \E a \in {"feed-back", "fail-turn"} :
                   loop' = [loop EXCEPT ![l] = [loop[l] EXCEPT !.pc = "feed", !.action = a]]
        BY <4>2, <3>1
      <4> QED
        BY <1>6, <1>t, <3>1, <4>1, <4>2, LoopAssumption DEF RunTool
    <3>5. loop[l].call \in Optional(CallIds)
      BY <1>t DEF LoopStates
    <3>6. runs' \in [CallIds -> Nat]
      <4>1. runs' = [runs EXCEPT ![loop[l].call] = @ + 1] /\ runs \in [CallIds -> Nat]
        BY <1>6 DEF RunTool, TypeOK
      <4>2. \A c \in CallIds : runs[c] + 1 \in Nat
        BY <4>1
      <4> QED
        BY <4>1, <4>2
    <3>7. fedBack' \in {fedBack, fedBack \cup {loop[l].call}}
      BY <1>6 DEF RunTool
    <3> QED
      BY <3>4, <3>5, <3>6, <3>7 DEF TypeOK
  <2> QED
    BY <1>6, <2>1 DEF RunTool, TypeOK, CasCoherent, StreamHead
<1>7. CASE RecordResult(l)
  <2>1. ToolResult(l, loop[l].outcome) \in AnEvent
    BY <1>r, <1>t DEF LoopStates
  <2> QED
    BY <1>7, <1>t, <2>1, EmitTyped DEF RecordResult
<1>8. CASE RecordFailure(l)
  BY <1>8, <1>t, <1>r, <1>o, EmitTyped DEF RecordFailure
<1>9. CASE FinishStep(l)
  <2> DEFINE event == [InStep(l, "step.finished") EXCEPT !.turn = loop[l].step[1],
                         !.outcome = IF loop[l].failed THEN "failed" ELSE "succeeded"]
             next  == Goto(l, IF loop[l].via = "calls" /\ At("tool.call", loop[l].step) = {}
                              THEN "drive" ELSE "compact")
  <2>1. next \in LoopStates
    BY <1>t DEF Pcs
  <2>2. ASSUME Valid(view[l], NextEvent(l, event)) PROVE NextEvent(l, event) \in AnEvent
    <3> DEFINE e == NextEvent(l, event)
    <3>1. /\ e.type = "step.finished"
          /\ e.turn = loop[l].step[1]
      BY DEF NextEvent, InStep, NoEvent
    <3>2. e.turn = view[l].step.turn /\ view[l].step # None
      BY <2>2, <3>1 DEF Valid, ValidStepFinished
    <3>3. e.turn \in Optional(Turns)
      BY <3>2, LoopType DEF AState, SessionStates, Optional
    <3>4. loop[l].step[1] \in Optional(Turns)
      BY <3>1, <3>3
    <3>5. \A o \in {"failed", "succeeded"} : o \in Optional(Outcomes)
      BY DEF Optional, Outcomes
    <3>6. event \in AnEvent
      BY <1>i, <3>4, <3>5 DEF AnEvent, Events, EventTypes
    <3> QED
      BY <3>6, NextEventType
  <2> HIDE DEF event, next
  <2> QED
    BY <1>9, <2>1, <2>2, EmitCoherent, LoopAssumption DEF FinishStep, event, next
<1>10. CASE Maintain(l)
  <2> DEFINE next == Goto(l, IF loop[l].pc = "compact" THEN "checkpoint" ELSE "drive")
             type == MaintenanceTypes[loop[l].pc]
  <2>1. next \in LoopStates
    BY <1>t DEF Pcs
  <2>2. ASSUME type \in Maintenance PROVE [NoEvent EXCEPT !.type = type] \in AnEvent
    BY <2>2, NoEventType, LoopAssumption DEF AnEvent, Events, EventTypes, Optional
  <2> HIDE DEF next, type
  <2>3. CASE Move(l, next)
    BY <2>3, <2>1, <1>t, MoveCoherent DEF Move
  <2>4. CASE type \in Maintenance /\ Emit(l, [NoEvent EXCEPT !.type = type], next)
    BY <2>4, <2>1, <2>2, EmitTyped
  <2> QED
    BY <1>10, <2>3, <2>4 DEF Maintain, next, type
<1> QED
  BY <1>1, <1>2, <1>3, <1>4, <1>5, <1>6, <1>7, <1>8, <1>9, <1>10 DEF ToolPhase

(* recoverActiveStep.                                                      *)
LEMMA RecoveryCoherent ==
  ASSUME Coherent, NEW l \in Loops, RecoveryPhase(l)
  PROVE  Coherent'
<1> USE DEF Coherent
<1>t. /\ loop[l] \in LoopStates /\ Failed(l) \in LoopStates
      /\ \A pc \in Pcs : Goto(l, pc) \in LoopStates
  BY LoopType, FailedType, GotoType
<1>f. faults \in Nat /\ ranBefore \subseteq CallIds /\ fedBack \subseteq Optional(CallIds)
  BY DEF TypeOK
<1>s. /\ durable \in AState /\ view[l] \in AState
      /\ durable.asks \in Seq(PendingAsks(Steps, CallIds))
      /\ durable.calls \in Seq(PendingCalls(Steps, CallIds))
      /\ durable.step # None => durable.step.id \in Optional(Steps)
      /\ view[l].step # None => view[l].step.id \in Optional(Steps)
  BY LoopType DEF TypeOK, AState, SessionStates, Optional
<1>i. \A type \in EventTypes : InStep(l, type) \in AnEvent
  BY InStepType
<1>1. CASE Recover(l)
  <2> DEFINE step == durable.step.id
  <2>1. MissingIntents(step) \in SUBSET Nat
    <3>1. DOMAIN log \subseteq Nat
      BY LenProperties DEF TypeOK
    <3> QED
      BY <3>1 DEF MissingIntents, ActiveDeltas, At
  <2>2. Goto(l, "drive") \in LoopStates
    BY <1>t DEF Pcs
  <2>3. ASSUME durable.step # None
        PROVE  /\ [loop[l] EXCEPT !.step = step] \in LoopStates
               /\ \A pc \in Pcs : [[loop[l] EXCEPT !.step = step] EXCEPT !.pc = pc] \in LoopStates
               /\ [[loop[l] EXCEPT !.step = step] EXCEPT !.pc = "reconcile", !.missing = MissingIntents(step)]
                    \in LoopStates
    <3>1. [loop[l] EXCEPT !.step = step] \in LoopStates
      BY <2>3, <1>t, <1>s, Update
    <3> QED
      BY <3>1, <2>1, Update DEF Pcs
  <2>4. {"reconcile", "discard", "model"} \subseteq Pcs
    BY DEF Pcs
  <2>5. \E next \in LoopStates : loop' = [loop EXCEPT ![l] = next]
    <3>1. CASE durable.turn = None \/ durable.step = None
      BY <3>1, <1>1, <2>2 DEF Recover
    <3>2. CASE ~(durable.turn = None \/ durable.step = None)
      <4> QED
        BY <3>2, <1>1, <2>3, <2>4 DEF Recover
    <3> QED
      BY <3>1, <3>2
  <2> QED
    BY <1>1, <1>f, <2>5, ReloadCoherent DEF Recover
<1>2. CASE ReconcileIntent(l)
  <2>1. PICK i \in loop[l].missing \cap DOMAIN log :
             \/ Move(l, Failed(l))
             \/ Emit(l, [InStep(l, "tool.call") EXCEPT !.call = log[i].call],
                      [loop[l] EXCEPT !.missing = @ \ {i}])
    BY <1>2 DEF ReconcileIntent
  <2>2. log[i].call \in Optional(CallIds)
    BY LogElement DEF AnEvent, Events
  <2>3. [InStep(l, "tool.call") EXCEPT !.call = log[i].call] \in AnEvent
    BY <1>i, <2>2 DEF AnEvent, Events, EventTypes, AssociatedTypes
  <2>4. loop[l].missing \ {i} \in SUBSET Nat
    BY <1>t DEF LoopStates
  <2>5. [loop[l] EXCEPT !.missing = @ \ {i}] \in LoopStates
    BY <1>t, <2>4, Update
  <2> QED
    BY <2>1, <2>3, <2>5, <1>t, <1>f, MoveCoherent, EmitTyped DEF Move
<1>3. CASE RecoverAsks(l)
  <2>1. [loop[l] EXCEPT !.pc = "recoverAsks", !.via = "asks", !.asks = durable.asks] \in LoopStates
    BY <1>t, <1>s, Update DEF Pcs
  <2> QED
    BY <1>3, <1>f, <2>1, ReloadCoherent DEF RecoverAsks
<1>4. ASSUME NEW d \in {"allow", "deny"}, RecoverAsk(l, d) PROVE Coherent'
  <2> DEFINE ask == Head(loop[l].asks)
  <2>1. ask \in PendingAsks(Steps, CallIds) /\ Tail(loop[l].asks) \in Seq(PendingAsks(Steps, CallIds))
    BY <1>4, <1>t, HeadTailProperties DEF RecoverAsk, LoopStates
  <2>2. ask.call \in Optional(CallIds) /\ ask.req \in Optional(CallIds)
    BY <2>1 DEF PendingAsks
  <2>3. [InStep(l, "permission.resolved") EXCEPT !.call = ask.call, !.req = ask.req, !.decision = d]
          \in AnEvent
    <3>1. d \in Optional(Decisions)
      BY DEF Optional, Decisions
    <3> QED
      BY <1>i, <2>2, <3>1 DEF AnEvent, Events, EventTypes, AssociatedTypes
  <2>4. 1 \in Nat
    OBVIOUS
  <2>5. [loop[l] EXCEPT !.asks = Tail(@), !.call = ask.call, !.attempt = 1] \in LoopStates
    BY <1>t, <2>1, <2>2, <2>4, Update
  <2>6. \A pc \in {"run", "deny"} :
          [[loop[l] EXCEPT !.asks = Tail(@), !.call = ask.call, !.attempt = 1] EXCEPT !.pc = pc] \in LoopStates
    BY <2>5, Update DEF Pcs
  <2>7. [loop[l] EXCEPT !.asks = Tail(@)] \in LoopStates
    BY <1>t, <2>1, Update
  <2>8. CASE ~PendingCall(view[l], ask.call)
    BY <1>4, <2>7, <2>8, <1>f, MoveCoherent DEF RecoverAsk, Move
  <2>9. CASE PendingCall(view[l], ask.call)
    BY <1>4, <2>3, <2>6, <2>9, EmitTyped DEF RecoverAsk
  <2> QED
    BY <2>8, <2>9
<1>5. CASE RecoverCalls(l)
  <2>1. [loop[l] EXCEPT !.pc = "recoverCalls", !.via = "calls", !.calls = durable.calls] \in LoopStates
    BY <1>t, <1>s, Update DEF Pcs
  <2> QED
    BY <1>5, <1>f, <2>1, ReloadCoherent DEF RecoverCalls
<1>6. CASE ReloadAfterCall(l)
  BY <1>6, <1>t, <1>f, ReloadCoherent DEF ReloadAfterCall, Pcs
<1>7. CASE RecoverCall(l)
  <2> DEFINE c == Head(loop[l].calls).call
             here == [loop[l] EXCEPT !.calls = Tail(@), !.call = c, !.step = view[l].step.id,
                                     !.action = "feed-back"]
  <2>1. /\ c \in Optional(CallIds)
        /\ Tail(loop[l].calls) \in Seq(PendingCalls(Steps, CallIds))
    <3>1. /\ Head(loop[l].calls) \in PendingCalls(Steps, CallIds)
          /\ Tail(loop[l].calls) \in Seq(PendingCalls(Steps, CallIds))
      BY <1>7, <1>t, HeadTailProperties DEF RecoverCall, LoopStates
    <3> QED
      BY <3>1 DEF PendingCalls
  <2>2. 2 \in Nat
    OBVIOUS
  <2>3. ASSUME view[l].step # None
        PROVE  /\ \A pc \in Pcs : [here EXCEPT !.pc = pc] \in LoopStates
               /\ [here EXCEPT !.pc = "run", !.attempt = 2] \in LoopStates
    <3>1. here \in LoopStates
      BY <2>1, <2>3, <1>t, <1>s, Update
    <3> HIDE DEF here
    <3> QED
      BY <3>1, <2>2, Update DEF Pcs
  <2> HIDE DEF here
  <2>4. {"feed", "permission", "deny"} \subseteq Pcs
    BY DEF Pcs
  <2>5. \/ Move(l, Failed(l))
        \/ /\ view[l].step # None
           /\ \/ \E pc \in {"feed", "permission", "deny"} : Move(l, [here EXCEPT !.pc = pc])
              \/ Move(l, [here EXCEPT !.pc = "run", !.attempt = 2])
    BY <1>7 DEF RecoverCall, here
  <2> QED
    BY <1>t, <1>f, <2>3, <2>4, <2>5, MoveCoherent DEF Move
<1>8. CASE RecoverFinish(l)
  <2> DEFINE failed == \/ ResultsOf(durable.step.id) \cap {"denied", "error"} # {}
                       \/ At("tool.call", durable.step.id) = {}
  <2>1. Goto(l, "drive") \in LoopStates /\ "finish" \in Pcs /\ failed \in BOOLEAN
    BY <1>t DEF Pcs
  <2> HIDE DEF failed
  <2>2. durable.step # None =>
          [loop[l] EXCEPT !.pc = "finish", !.step = durable.step.id, !.failed = failed] \in LoopStates
    BY <1>t, <1>s, <2>1 DEF LoopStates
  <2>3. \E next \in LoopStates : loop' = [loop EXCEPT ![l] = next]
    BY <1>8, <2>1, <2>2 DEF RecoverFinish, failed
  <2> QED
    BY <1>8, <1>f, <2>3, ReloadCoherent DEF RecoverFinish
<1> QED
  BY <1>1, <1>2, <1>3, <1>4, <1>5, <1>6, <1>7, <1>8 DEF RecoveryPhase

(* closeAfterFailure.                                                      *)
LEMMA CloseCoherent ==
  ASSUME Coherent, NEW l \in Loops, ClosePhase(l)
  PROVE  Coherent'
<1> USE DEF Coherent
<1>t. /\ loop[l] \in LoopStates /\ IdleLoop \in LoopStates /\ NoEvent \in AnEvent
      /\ \A pc \in Pcs : Goto(l, pc) \in LoopStates
  BY LoopType, IdleLoopType, NoEventType, GotoType
<1>f. faults \in Nat /\ ranBefore \subseteq CallIds /\ fedBack \subseteq Optional(CallIds)
  BY DEF TypeOK
<1>s. /\ durable.asks \in Seq(PendingAsks(Steps, CallIds))
      /\ durable.calls \in Seq(PendingCalls(Steps, CallIds))
      /\ view[l].turn \in Optional(Turns)
      /\ view[l].step # None => /\ view[l].step.turn \in Optional(Turns)
                                /\ view[l].step.id \in Optional(Steps)
  BY LoopType DEF TypeOK, AState, SessionStates, Optional
<1>o. /\ loop[l].outcome \in Optional(Outcomes) /\ "error" \in Optional(Outcomes)
      /\ "deny" \in Optional(Decisions)
  BY <1>t DEF LoopStates, Optional, Outcomes, Decisions
<1>e. {"permission.resolved", "tool.result", "step.finished", "turn.finished"}
        \subseteq Optional(EventTypes)
  BY DEF Optional, EventTypes, AssociatedTypes
<1>1. CASE CloseReload(l)
  <2>1. /\ [loop[l] EXCEPT !.pc = "closeAsks", !.asks = durable.asks] \in LoopStates
        /\ [loop[l] EXCEPT !.pc = "closeCalls", !.calls = durable.calls] \in LoopStates
        /\ Goto(l, "closeStep") \in LoopStates
        /\ Goto(l, "closeTurn") \in LoopStates
    BY <1>t, <1>s, Update DEF Pcs
  <2>2. \E next \in LoopStates : loop' = [loop EXCEPT ![l] = next]
    BY <1>1, <2>1 DEF CloseReload
  <2> QED
    BY <1>1, <1>f, <2>2, ReloadCoherent DEF CloseReload
<1>2. CASE CloseAsk(l)
  <2> DEFINE ask == Head(loop[l].asks)
  <2>1. /\ ask \in PendingAsks(Steps, CallIds)
        /\ Tail(loop[l].asks) \in Seq(PendingAsks(Steps, CallIds))
    BY <1>2, <1>t, HeadTailProperties DEF CloseAsk, LoopStates
  <2>2. /\ ask.call \in Optional(CallIds) /\ ask.req \in Optional(CallIds)
        /\ ask.step \in Optional(Steps)
    BY <2>1 DEF PendingAsks
  <2>3. [NoEvent EXCEPT !.type = "permission.resolved", !.req = ask.req, !.step = ask.step,
                        !.call = ask.call, !.decision = "deny"] \in AnEvent
    BY <1>t, <1>o, <1>e, <2>2 DEF AnEvent, Events
  <2>4. [loop[l] EXCEPT !.asks = Tail(@)] \in LoopStates
    BY <1>t, <2>1, Update
  <2> QED
    BY <1>2, <2>3, <2>4, EmitTyped DEF CloseAsk
<1>3. CASE CloseCall(l)
  <2> DEFINE call == Head(loop[l].calls)
  <2>1. /\ call \in PendingCalls(Steps, CallIds)
        /\ Tail(loop[l].calls) \in Seq(PendingCalls(Steps, CallIds))
    BY <1>3, <1>t, HeadTailProperties DEF CloseCall, LoopStates
  <2>2. call.call \in Optional(CallIds) /\ call.step \in Optional(Steps)
    BY <2>1 DEF PendingCalls
  <2>3. [NoEvent EXCEPT !.type = "tool.result", !.call = call.call, !.step = call.step,
                        !.outcome = "error"] \in AnEvent
    BY <1>t, <1>o, <1>e, <2>2 DEF AnEvent, Events
  <2>4. [loop[l] EXCEPT !.calls = Tail(@)] \in LoopStates
    BY <1>t, <2>1, Update
  <2> QED
    BY <1>3, <2>3, <2>4, EmitTyped DEF CloseCall
<1>4. CASE CloseStep(l)
  <2>1. [NoEvent EXCEPT !.type = "step.finished", !.turn = view[l].step.turn,
                        !.step = view[l].step.id, !.outcome = loop[l].outcome] \in AnEvent
    BY <1>4, <1>t, <1>o, <1>e, <1>s DEF CloseStep, AnEvent, Events
  <2> QED
    BY <1>4, <1>t, <2>1, EmitTyped DEF CloseStep
<1>5. CASE CloseTurn(l)
  <2>1. [NoEvent EXCEPT !.type = "turn.finished", !.turn = view[l].turn,
                        !.outcome = loop[l].outcome] \in AnEvent
    BY <1>t, <1>o, <1>e, <1>s DEF AnEvent, Events
  <2> QED
    BY <1>5, <1>t, <1>f, <2>1, MoveCoherent, EmitTyped DEF CloseTurn, Move
<1> QED
  BY <1>1, <1>2, <1>3, <1>4, <1>5 DEF ClosePhase

(* A crash leaves an empty view, coherent because an empty stream is the   *)
(* only one whose head it equals.                                          *)
LEMMA CrashCoherent ==
  ASSUME Coherent, NEW l \in Loops, Crash(l)
  PROVE  Coherent'
<1> USE DEF Coherent
<1>1. /\ view' = [view EXCEPT ![l] = EmptyState] /\ loop' = [loop EXCEPT ![l] = IdleLoop]
      /\ faults' = faults + 1 /\ UNCHANGED <<log, durable, runs, ranBefore, fedBack>>
  BY DEF Crash
<1>2. TypeOK'
  <2>1. EmptyState \in AState
    BY EmptyStateType DEF AState
  <2>2. faults' \in Nat
    BY <1>1 DEF TypeOK
  <2> QED
    BY <1>1, <2>1, <2>2, IdleLoopType DEF TypeOK
<1>3. EmptyState.lastSeq = -1
  BY DEF EmptyState
<1>4. ASSUME NEW m \in Loops
      PROVE  /\ view'[m].lastSeq <= durable.lastSeq
             /\ view'[m].lastSeq = durable.lastSeq => view'[m] = durable
  <2>1. CASE m = l
    BY <2>1, <1>1, <1>3 DEF TypeOK, StreamHead
  <2>2. CASE m # l
    BY <2>2, <1>1 DEF TypeOK, CasCoherent
  <2> QED
    BY <2>1, <2>2
<1> QED
  BY <1>1, <1>2, <1>4 DEF CasCoherent, StreamHead

LEMMA InitCoherent == Init => Coherent
<1> SUFFICES ASSUME Init PROVE Coherent
  OBVIOUS
<1>1. EmptyState \in AState
  BY EmptyStateType DEF AState
<1>2. TypeOK
  BY <1>1, IdleLoopType, EmptySeq DEF Init, TypeOK
<1>3. CasCoherent /\ StreamHead
  BY DEF Init, CasCoherent, StreamHead, EmptyState
<1> QED
  BY <1>2, <1>3 DEF Coherent

LEMMA NextCoherent == Coherent /\ [Next]_vars => Coherent'
<1> SUFFICES ASSUME Coherent, [Next]_vars PROVE Coherent'
  OBVIOUS
<1>1. CASE UNCHANGED vars
  BY <1>1 DEF vars, Coherent, TypeOK, CasCoherent, StreamHead
<1>2. ASSUME NEW l \in Loops, Proceed(l) PROVE Coherent'
  BY <1>2, DriveCoherent, ModelCoherent, ToolCoherent, RecoveryCoherent, CloseCoherent DEF Proceed
<1>3. ASSUME NEW l \in Loops, RunTurn(l) \/ ResumeTurn(l) \/ Abort(l) PROVE Coherent'
  BY <1>3, DriveCoherent
<1>4. ASSUME NEW l \in Loops, PortFails(l) PROVE Coherent'
  <2>1. faults' \in Nat
    BY <1>4 DEF PortFails, Coherent, TypeOK
  <2>2. Failed(l) \in LoopStates
    BY FailedType DEF Coherent
  <2> QED
    BY <1>4, <2>1, <2>2, MoveCoherent DEF PortFails
<1>5. ASSUME NEW l \in Loops, Crash(l) PROVE Coherent'
  BY <1>5, CrashCoherent
<1> QED
  BY <1>1, <1>2, <1>3, <1>4, <1>5 DEF Next

(* Whatever interleaving of replicas, crashes, lost acknowledgements and   *)
(* failures: the variables keep their types, so no event a replica appends *)
(* and no step it takes relies on a missing field, and the compare-and-    *)
(* swap of `#emit' on the head alone protects the whole state a replica    *)
(* holds: agreeing on the head is agreeing on everything.                  *)
THEOREM TypeCorrect == Spec => []TypeOK
<1>1. Coherent => TypeOK
  BY DEF Coherent
<1> QED
  BY <1>1, InitCoherent, NextCoherent, PTL DEF Spec

THEOREM HeadsDecideStates == Spec => []CasCoherent
<1>1. Coherent => CasCoherent
  BY DEF Coherent
<1> QED
  BY <1>1, InitCoherent, NextCoherent, PTL DEF Spec

-----------------------------------------------------------------------------
(* A step appends one event that is valid in the log's state, or none.     *)
Grows ==
  \/ UNCHANGED <<log, durable>>
  \/ \E e : Valid(durable, e) /\ Persist(e)

LEMMA EmitGrows ==
  ASSUME CasCoherent, NEW l \in Loops, NEW event, NEW next, Emit(l, event, next)
  PROVE  Grows
<1> DEFINE e == NextEvent(l, event)
<1>1. CASE Valid(view[l], e) /\ AppendAccepted(l, e) /\ Persist(e)
  <2>1. view[l] = durable
    BY <1>1 DEF AppendAccepted, CasCoherent
  <2> QED
    BY <1>1, <2>1 DEF Grows
<1>2. CASE UNCHANGED <<log, durable, view>>
  BY <1>2 DEF Grows
<1> QED
  BY <1>1, <1>2 DEF Emit

LEMMA MoveGrows ==
  ASSUME NEW l, NEW next, Move(l, next)
  PROVE  Grows
  BY DEF Move, Grows

LEMMA NextGrows ==
  ASSUME CasCoherent, [Next]_vars
  PROVE  Grows
<1>1. CASE UNCHANGED vars
  BY <1>1 DEF vars, Grows
<1>2. ASSUME NEW l \in Loops, RunTurn(l) \/ ResumeTurn(l) \/ Abort(l) \/ PortFails(l) \/ Crash(l)
      PROVE  Grows
  BY <1>2, MoveGrows DEF RunTurn, ResumeTurn, Abort, PortFails, Crash, Grows
<1>3. ASSUME NEW l \in Loops, BeginTurn(l) \/ DriveAborted(l) \/ FinishTurn(l) \/ StartStep(l)
      PROVE  Grows
  BY <1>3, MoveGrows, EmitGrows DEF BeginTurn, DriveAborted, FinishTurn, StartStep
<1>4. ASSUME NEW l \in Loops, ModelPhase(l) PROVE Grows
  BY <1>4, MoveGrows, EmitGrows DEF ModelPhase, RequestModel, DiscardDeltas, StreamEnd, StreamFail, StreamCall
<1>5. ASSUME NEW l \in Loops, ToolPhase(l) PROVE Grows
  <2>1. RunTool(l) => Grows
    BY DEF RunTool, Grows
  <2> QED
    BY <1>5, <2>1, EmitGrows DEF ToolPhase, RecordIntent, RejectUnregistered, RequestPermission,
       ResolvePermission, RecordDenial, RecordResult, RecordFailure
<1>6. ASSUME NEW l \in Loops, FinishStep(l) \/ Maintain(l) PROVE Grows
  BY <1>6, MoveGrows, EmitGrows DEF FinishStep, Maintain
<1>7. ASSUME NEW l \in Loops, RecoveryPhase(l) PROVE Grows
  <2>1. Recover(l) \/ RecoverAsks(l) \/ RecoverCalls(l) \/ ReloadAfterCall(l) \/ RecoverFinish(l) => Grows
    BY DEF Recover, RecoverAsks, RecoverCalls, ReloadAfterCall, RecoverFinish, Grows
  <2>2. ReconcileIntent(l) => Grows
    BY MoveGrows, EmitGrows DEF ReconcileIntent
  <2>3. ASSUME NEW d, RecoverAsk(l, d) PROVE Grows
    BY <2>3, MoveGrows, EmitGrows DEF RecoverAsk
  <2>4. RecoverCall(l) => Grows
    BY MoveGrows DEF RecoverCall
  <2> QED
    BY <1>7, <2>1, <2>2, <2>3, <2>4 DEF RecoveryPhase
<1>8. ASSUME NEW l \in Loops, ClosePhase(l) PROVE Grows
  <2>1. CloseReload(l) => Grows
    BY DEF CloseReload, Grows
  <2> QED
    BY <1>8, <2>1, MoveGrows, EmitGrows DEF ClosePhase, CloseAsk, CloseCall, CloseStep, CloseTurn
<1> QED
  BY <1>1, <1>2, <1>3, <1>4, <1>5, <1>6, <1>7, <1>8 DEF Next, Proceed

(* The absent value, which a replay that throws returns, is no state.      *)
NoneIsNoState == None \notin AState

(* Whatever replicas, failures and lost acknowledgements: the log replays  *)
(* without the reducer rejecting an event, to the state a reload returns.  *)
THEOREM LogAlwaysReplays ==
  ASSUME NoneIsNoState
  PROVE  Spec => []LogReplays
<1>1. Init => Coherent /\ LogReplays
  BY InitCoherent, ReplayEmpty DEF Init, LogReplays
<1>2. Coherent /\ LogReplays /\ [Next]_vars => Coherent' /\ LogReplays'
  <2> SUFFICES ASSUME Coherent, LogReplays, [Next]_vars PROVE LogReplays'
    BY NextCoherent
  <2>1. CASE UNCHANGED <<log, durable>>
    BY <2>1 DEF LogReplays
  <2>2. ASSUME NEW e, Valid(durable, e), Persist(e) PROVE LogReplays'
    <3>1. log \in Seq(AnEvent) /\ durable # None
      BY DEF Coherent, TypeOK, NoneIsNoState
    <3>2. Replay(Append(log, e)) = ReplayStep(durable, e)
      BY <3>1, ReplayAppend DEF LogReplays
    <3> QED
      BY <2>2, <3>1, <3>2 DEF Persist, ReplayStep, LogReplays
  <2> QED
    BY <2>1, <2>2, NextGrows DEF Coherent, Grows
<1> QED
  BY <1>1, <1>2, PTL DEF Spec

-----------------------------------------------------------------------------
(***************************************************************************)
(* Approvals: no tool runs without one in the log, for any number of       *)
(* replicas, calls and faults and any budgets; and one replica never waits *)
(* for two.                                                                *)
(***************************************************************************)

(* A log holds an "allow" for call c.                                      *)
Allows(entries, c) ==
  \E i \in DOMAIN entries : /\ entries[i].type = "permission.resolved" /\ entries[i].call = c
                            /\ entries[i].decision = "allow"

(* The answers a state remembers, which recovery acts on, are in the log.  *)
AnswersLogged(entries, s) ==
  \A k \in DOMAIN s.answers :
    s.answers[k].decision = "allow" => Allows(entries, s.answers[k].call)

(* The tool a replica is about to run was allowed.                         *)
RunAllowed(entries, r) == r.pc = "run" => Allows(entries, r.call)

(* The inductive invariant: a tool about to run was allowed, and whatever  *)
(* a replica remembers of an approval is backed by the log.                *)
Approved ==
  /\ AllowedBeforeRun
  /\ AnswersLogged(log, durable)
  /\ \A l \in Loops : AnswersLogged(log, view[l]) /\ RunAllowed(log, loop[l])

-----------------------------------------------------------------------------
(* Appending keeps what the log holds, and adds the event.                 *)
LEMMA Appended ==
  ASSUME NEW S, NEW entries \in Seq(S), NEW e, Append(entries, e) \in Seq(S)
  PROVE  /\ e \in S
         /\ \E i \in DOMAIN Append(entries, e) : Append(entries, e)[i] = e
         /\ \A i \in DOMAIN entries : /\ i \in DOMAIN Append(entries, e)
                                     /\ Append(entries, e)[i] = entries[i]
<1>1. /\ Len(entries) + 1 \in DOMAIN Append(entries, e)
      /\ Append(entries, e)[Len(entries) + 1] = e
  OBVIOUS
<1>2. Append(entries, e)[Len(entries) + 1] \in S
  BY <1>1, SeqElement
<1>3. ASSUME NEW i \in DOMAIN entries
      PROVE  i \in DOMAIN Append(entries, e) /\ Append(entries, e)[i] = entries[i]
  <2>1. i \in 1..Len(entries)
    BY LenProperties
  <2> QED
    BY <2>1
<1> QED
  BY <1>1, <1>2, <1>3

LEMMA AllowsKept ==
  ASSUME NEW S, NEW entries \in Seq(S), NEW e, Append(entries, e) \in Seq(S),
         NEW c, Allows(entries, c)
  PROVE  Allows(Append(entries, e), c)
  BY Appended DEF Allows

(* An accepted event adds at most the answer it carries.                   *)
LEMMA ApplyAnswers ==
  ASSUME NEW s \in AState, NEW e \in AnEvent, NEW k \in DOMAIN Apply(s, e).answers
  PROVE  \/ k \in DOMAIN s.answers /\ Apply(s, e).answers[k] = s.answers[k]
         \/ /\ e.type = "permission.resolved"
            /\ Apply(s, e).answers[k] = [req |-> e.req, call |-> e.call, decision |-> e.decision]
<1> DEFINE a == [req |-> e.req, call |-> e.call, decision |-> e.decision]
           A == [req: Optional(CallIds), call: Optional(CallIds), decision: Optional(Decisions)]
<1>1. s.answers \in Seq(A)
  BY DEF AState, SessionStates
<1>2. Apply(s, e).answers = ApplyBody(s, e).answers
  BY DEF Apply
<1>3. CASE e.type = "permission.resolved"
  <2>1. ApplyBody(s, e).answers = Append(s.answers, a)
    BY <1>3 DEF ApplyBody, ApplyPermissionResolved, AState, SessionStates
  <2>2. k \in 1..(Len(s.answers) + 1)
    BY <1>1, <1>2, <2>1
  <2>3. k \in 1..Len(s.answers) => k \in DOMAIN s.answers /\ Append(s.answers, a)[k] = s.answers[k]
    BY <1>1
  <2>4. k = Len(s.answers) + 1 => Append(s.answers, a)[k] = a
    BY <1>1
  <2>5. k \in 1..Len(s.answers) \/ k = Len(s.answers) + 1
    BY <1>1, <2>2, LenProperties
  <2> QED
    BY <1>2, <1>3, <2>1, <2>3, <2>4, <2>5
<1>4. CASE e.type # "permission.resolved"
  <2>1. ApplyBody(s, e).answers = s.answers
    BY <1>4 DEF ApplyBody, ApplyTurnStarted, ApplyStepStarted, ApplyStepFinished, ApplyToolCall,
                ApplyToolResult, ApplyPermissionRequested, ApplyTurnFinished, AState, SessionStates
  <2> QED
    BY <1>2, <2>1
<1> QED
  BY <1>3, <1>4

(* So a state that remembers only logged answers still does, with the      *)
(* event in the log.                                                       *)
LEMMA ApplyLogged ==
  ASSUME NEW entries \in Seq(AnEvent), NEW e, Append(entries, e) \in Seq(AnEvent),
         NEW s \in AState, AnswersLogged(entries, s)
  PROVE  AnswersLogged(Append(entries, e), Apply(s, e))
<1> SUFFICES ASSUME NEW k \in DOMAIN Apply(s, e).answers,
                    Apply(s, e).answers[k].decision = "allow"
             PROVE  Allows(Append(entries, e), Apply(s, e).answers[k].call)
  BY DEF AnswersLogged
<1>1. e \in AnEvent /\ \E i \in DOMAIN Append(entries, e) : Append(entries, e)[i] = e
  BY Appended
<1>2. CASE k \in DOMAIN s.answers /\ Apply(s, e).answers[k] = s.answers[k]
  BY <1>2, AllowsKept DEF AnswersLogged
<1>3. CASE /\ e.type = "permission.resolved"
           /\ Apply(s, e).answers[k] = [req |-> e.req, call |-> e.call, decision |-> e.decision]
  BY <1>1, <1>3 DEF Allows
<1> QED
  BY <1>1, <1>2, <1>3, ApplyAnswers

-----------------------------------------------------------------------------
(* What the ways of advancing keep.                                        *)

(* A step that appends nothing: the replica may refresh or lose its view,  *)
(* and goes on to run a tool only if that tool was allowed.                *)
LEMMA QuietApproved ==
  ASSUME Coherent, Approved, UNCHANGED <<log, durable, runs>>, NEW l \in Loops, NEW next,
         loop' = [loop EXCEPT ![l] = next],
         \/ view' = view
         \/ view' = [view EXCEPT ![l] = durable]
         \/ view' = [view EXCEPT ![l] = EmptyState],
         RunAllowed(log, next)
  PROVE  Approved'
<1>1. AnswersLogged(log, EmptyState)
  BY EmptySeq DEF EmptyState, AnswersLogged
<1>2. ASSUME NEW m \in Loops
      PROVE  AnswersLogged(log, view'[m]) /\ RunAllowed(log, loop'[m])
  BY <1>1 DEF Approved, Coherent, TypeOK
<1>3. AllowedBeforeRun'
  BY DEF Approved, AllowedBeforeRun
<1> QED
  BY <1>2, <1>3 DEF Approved

(* #emit: going on to run a tool takes an "allow" for it in the event.     *)
LEMMA EmitApproved ==
  ASSUME Coherent, Coherent', Approved, NEW l \in Loops, NEW event, NEW next,
         Emit(l, event, next),
         next.pc = "run" => \/ RunAllowed(log, next)
                            \/ /\ event.type = "permission.resolved"
                               /\ event.decision = "allow" /\ event.call = next.call
  PROVE  Approved'
<1> DEFINE e == NextEvent(l, event)
           entries == Append(log, e)
<1>f. Failed(l).pc # "run"
  BY DEF Failed, IdleLoop
<1>t. /\ log \in Seq(AnEvent) /\ log' \in Seq(AnEvent) /\ durable \in AState
      /\ view \in [Loops -> AState] /\ loop \in [Loops -> LoopStates]
  BY DEF Coherent, TypeOK
<1>1. CASE UNCHANGED <<log, durable, view>> /\ loop' = [loop EXCEPT ![l] = Failed(l)]
  BY <1>1, <1>f, QuietApproved DEF Emit, RunAllowed
<1>2. CASE /\ Persist(e)
           /\ view' = view \/ view' = [view EXCEPT ![l] = Apply(@, e)]
           /\ loop' = [loop EXCEPT ![l] = next] \/ loop' = [loop EXCEPT ![l] = Failed(l)]
  <2>1. log' = entries /\ durable' = Apply(durable, e) /\ UNCHANGED runs
    BY <1>2 DEF Persist, Emit
  <2> HIDE DEF e
  <2>2. entries \in Seq(AnEvent)
    BY <1>t, <2>1
  <2>3. \A c : Allows(log, c) => Allows(entries, c)
    BY <1>t, <2>2, AllowsKept
  <2>4. AnswersLogged(entries, Apply(durable, e))
    BY <1>t, <2>2, ApplyLogged DEF Approved
  <2>5. ASSUME NEW m \in Loops PROVE AnswersLogged(entries, view'[m])
    <3>1. AnswersLogged(log, view[m]) /\ view[m] \in AState
      BY <1>t DEF Approved
    <3>2. AnswersLogged(entries, view[m])
      BY <2>3, <3>1 DEF AnswersLogged
    <3>3. AnswersLogged(entries, Apply(view[m], e))
      BY <1>t, <2>2, <3>1, ApplyLogged
    <3>4. view'[m] \in {view[m], Apply(view[m], e)}
      BY <1>2, <1>t
    <3> QED
      BY <3>2, <3>3, <3>4
  <2>6. RunAllowed(entries, next)
    <3>1. CASE RunAllowed(log, next)
      BY <2>3, <3>1 DEF RunAllowed
    <3>2. CASE event.type = "permission.resolved" /\ event.decision = "allow" /\ event.call = next.call
      <4>1. e.type = "permission.resolved" /\ e.decision = "allow" /\ e.call = next.call
        BY <3>2 DEF e, NextEvent
      <4>2. \E i \in DOMAIN entries : entries[i] = e
        BY <1>t, <2>2, Appended
      <4> QED
        BY <4>1, <4>2 DEF RunAllowed, Allows
    <3> QED
      BY <3>1, <3>2 DEF RunAllowed
  <2>7. ASSUME NEW m \in Loops PROVE RunAllowed(entries, loop'[m])
    <3>1. RunAllowed(entries, loop[m]) /\ RunAllowed(entries, Failed(l))
      BY <1>f, <2>3 DEF Approved, RunAllowed
    <3>2. loop'[m] \in {loop[m], next, Failed(l)}
      BY <1>2, <1>t
    <3> QED
      BY <2>6, <3>1, <3>2
  <2>8. AllowedBeforeRun'
    <3>1. \A c \in CallIds : runs[c] > 0 => Allows(entries, c)
      BY <2>3 DEF Approved, AllowedBeforeRun, Allows
    <3> QED
      BY <2>1, <3>1 DEF AllowedBeforeRun, Allows
  <2> HIDE DEF entries
  <2> QED
    BY <2>1, <2>4, <2>5, <2>7, <2>8 DEF Approved
<1> QED
  BY <1>1, <1>2 DEF Emit
-----------------------------------------------------------------------------
(* The actions.  Only the four that lead to "run" rest on more than where  *)
(* they leave the replica.                                                 *)
LEMMA Fields ==
  ASSUME Coherent, NEW l \in Loops
  PROVE  /\ {"pc", "call", "attempt", "batch", "i", "step", "asks", "calls", "missing", "via",
             "failed", "aborted", "outcome", "action"} \subseteq DOMAIN loop[l]
         /\ \A failed : NextCall(l, failed).pc # "run"
         /\ \A pc : Goto(l, pc).pc = pc
         /\ Failed(l).pc # "run" /\ IdleLoop.pc = "idle"
<1>1. DOMAIN loop[l] = {"pc", "turn", "step", "batch", "i", "call", "attempt", "via", "failed",
                       "aborted", "outcome", "action", "asks", "calls", "missing"}
  BY DEF Coherent, TypeOK, LoopStates
<1>2. \A failed : NextCall(l, failed).pc # "run"
  BY <1>1 DEF NextCall
<1>3. \A pc : Goto(l, pc).pc = pc
  BY <1>1 DEF Goto
<1>4. Failed(l).pc # "run" /\ IdleLoop.pc = "idle"
  BY DEF Failed, IdleLoop
<1> QED
  BY <1>1, <1>2, <1>3, <1>4

(* runTurn, resumeTurn, #driveTurn and callModel.                          *)
LEMMA DriveApproved ==
  ASSUME Coherent, Coherent', Approved, NEW l \in Loops,
         \/ RunTurn(l) \/ BeginTurn(l) \/ ResumeTurn(l) \/ Abort(l)
         \/ DriveAborted(l) \/ FinishTurn(l) \/ StartStep(l) \/ ModelPhase(l)
  PROVE  Approved'
<1>f. /\ {"pc", "call", "attempt", "batch", "i", "step", "aborted"} \subseteq DOMAIN loop[l]
      /\ \A pc : Goto(l, pc).pc = pc
      /\ Failed(l).pc # "run" /\ IdleLoop.pc = "idle"
  BY Fields
<1>g. RunAllowed(log, loop[l])
  BY DEF Approved
<1>1. CASE RunTurn(l)
  <2>1. [IdleLoop EXCEPT !.pc = "begin", !.turn = durable.lastSeq + 1].pc = "begin"
    BY DEF IdleLoop
  <2> QED
    BY <1>1, <2>1, QuietApproved DEF RunTurn, Reload, RunAllowed
<1>2. CASE ResumeTurn(l)
  <2>1. [IdleLoop EXCEPT !.pc = "recover", !.turn = durable.turn].pc = "recover"
    BY DEF IdleLoop
  <2> QED
    BY <1>2, <2>1, QuietApproved DEF ResumeTurn, Reload, RunAllowed
<1>3. CASE Abort(l)
  <2>1. RunAllowed(log, [loop[l] EXCEPT !.aborted = TRUE])
    BY <1>g DEF RunAllowed
  <2> QED
    BY <1>3, <2>1, QuietApproved DEF Abort, Move
<1>4. CASE DriveAborted(l)
  BY <1>4, <1>f, QuietApproved DEF DriveAborted, Move, RunAllowed
<1>5. CASE BeginTurn(l)
  BY <1>5, <1>f, EmitApproved DEF BeginTurn
<1>6. CASE FinishTurn(l)
  BY <1>6, <1>f, EmitApproved DEF FinishTurn
<1>7. CASE StartStep(l)
  <2>1. \A step : [loop[l] EXCEPT !.pc = "model", !.step = step, !.batch = <<>>, !.attempt = 1,
                                  !.via = "batch", !.failed = FALSE].pc = "model"
    BY <1>f
  <2> QED
    BY <1>7, <2>1, EmitApproved DEF StartStep
<1>8. CASE RequestModel(l)
  BY <1>8, <1>f, EmitApproved DEF RequestModel
<1>9. CASE DiscardDeltas(l)
  <2> DEFINE fresh == [loop[l] EXCEPT !.pc = "stream", !.batch = <<>>]
  <2>1. fresh.pc = "stream"
    BY <1>f
  <2> HIDE DEF fresh
  <2>2. Move(l, fresh) \/ \E event : Emit(l, event, fresh)
    BY <1>9 DEF DiscardDeltas, fresh
  <2> QED
    BY <2>1, <2>2, QuietApproved, EmitApproved DEF Move, RunAllowed
<1>10. CASE StreamEnd(l)
  <2>1. \A pc : [loop[l] EXCEPT !.i = 1, !.pc = pc].pc = pc
    BY <1>f
  <2>2. (IF loop[l].batch = <<>> THEN "finish" ELSE "intents") # "run"
    OBVIOUS
  <2> QED
    BY <1>10, <2>1, <2>2, QuietApproved DEF StreamEnd, Move, RunAllowed
<1>11. CASE StreamFail(l)
  <2>1. [loop[l] EXCEPT !.pc = "discard", !.attempt = @ + 1].pc = "discard"
    BY <1>f
  <2> QED
    BY <1>11, <2>1, <1>f, QuietApproved DEF StreamFail, Move, RunAllowed
<1>12. ASSUME NEW c \in CallIds, StreamCall(l, c) PROVE Approved'
  <2>1. [loop[l] EXCEPT !.batch = Append(@, c)].pc # "run"
    BY <1>12, <1>f DEF StreamCall
  <2> QED
    BY <1>12, <2>1, EmitApproved DEF StreamCall
<1> QED
  BY <1>1, <1>2, <1>3, <1>4, <1>5, <1>6, <1>7, <1>8, <1>9, <1>10, <1>11, <1>12 DEF ModelPhase

(* tool.execute runs the call in hand, which was allowed.                  *)
LEMMA RunApproved ==
  ASSUME Coherent, Approved, NEW l \in Loops, RunTool(l)
  PROVE  Approved'
<1>1. Allows(log, loop[l].call) /\ UNCHANGED <<log, durable, view>>
  BY DEF RunTool, Approved, RunAllowed
<1>2. AllowedBeforeRun'
  <2>1. \A c \in CallIds : runs'[c] > 0 => runs[c] > 0 \/ c = loop[l].call
    BY DEF RunTool, Coherent, TypeOK
  <2> QED
    BY <1>1, <2>1 DEF Approved, AllowedBeforeRun, Allows
<1>3. ASSUME NEW m \in Loops PROVE RunAllowed(log, loop'[m])
  <2>1. \E next : loop' = [loop EXCEPT ![l] = next] /\ (next.pc = "run" => next.call = loop[l].call)
    <3>1. /\ \A o : [loop[l] EXCEPT !.pc = "record", !.outcome = o].pc = "record"
          /\ \A a : [loop[l] EXCEPT !.pc = "feed", !.action = a].pc = "feed"
          /\ [loop[l] EXCEPT !.attempt = @ + 1].call = loop[l].call
          /\ Failed(l).pc # "run"
      BY Fields
    <3>2. l \in DOMAIN loop
      BY DEF Coherent, TypeOK
    <3>3. \/ \E o : loop' = [loop EXCEPT ![l] = [loop[l] EXCEPT !.pc = "record", !.outcome = o]]
          \/ \E a : loop' = [loop EXCEPT ![l] = [loop[l] EXCEPT !.pc = "feed", !.action = a]]
          \/ loop' = [loop EXCEPT ![l].attempt = @ + 1]
          \/ loop' = [loop EXCEPT ![l] = Failed(l)]
      BY DEF RunTool
    <3>4. [loop EXCEPT ![l].attempt = @ + 1] = [loop EXCEPT ![l] = [loop[l] EXCEPT !.attempt = @ + 1]]
      BY <3>2
    <3>5. CASE loop' = [loop EXCEPT ![l] = [loop[l] EXCEPT !.attempt = @ + 1]]
      BY <3>1, <3>5
    <3>6. CASE loop' # [loop EXCEPT ![l] = [loop[l] EXCEPT !.attempt = @ + 1]]
      <4>1. \E next : loop' = [loop EXCEPT ![l] = next] /\ next.pc # "run"
        BY <3>1, <3>3, <3>4, <3>6
      <4> QED
        BY <4>1
    <3> QED
      BY <3>5, <3>6
  <2> QED
    BY <1>1, <2>1 DEF Approved, Coherent, TypeOK, RunAllowed
<1> QED
  BY <1>1, <1>2, <1>3 DEF Approved
(* The tool batch, the end of a step and its maintenance.                  *)
LEMMA ToolApproved ==
  ASSUME Coherent, Coherent', Approved, NEW l \in Loops,
         ToolPhase(l) \/ FinishStep(l) \/ Maintain(l)
  PROVE  Approved'
<1>f. /\ {"pc", "call", "attempt", "batch", "i"} \subseteq DOMAIN loop[l]
      /\ \A failed : NextCall(l, failed).pc # "run"
      /\ \A pc : Goto(l, pc).pc = pc
      /\ Failed(l).pc # "run"
  BY Fields
<1>1. CASE RecordIntent(l)
  <2> DEFINE i == loop[l].i
             next == IF i < Len(loop[l].batch) THEN [loop[l] EXCEPT !.i = i + 1]
                     ELSE [loop[l] EXCEPT !.pc = "permission", !.i = 1, !.call = loop[l].batch[1]]
  <2>1. next.pc # "run"
    BY <1>1, <1>f DEF RecordIntent
  <2>2. \E event : Emit(l, event, next)
    BY <1>1 DEF RecordIntent
  <2> HIDE DEF next
  <2> QED
    BY <2>1, <2>2, EmitApproved
<1>2. CASE RejectUnregistered(l)
  BY <1>2, <1>f, EmitApproved DEF RejectUnregistered
<1>3. CASE RequestPermission(l)
  BY <1>3, <1>f, EmitApproved DEF RequestPermission
<1>4. ASSUME NEW d \in {"allow", "deny"}, ResolvePermission(l, d) PROVE Approved'
  <2> DEFINE event == [ForRequest(l, "permission.resolved") EXCEPT !.decision = d]
             next == [loop[l] EXCEPT !.pc = IF d = "allow" THEN "run" ELSE "deny", !.attempt = 1]
  <2>1. event.type = "permission.resolved" /\ event.decision = d /\ event.call = loop[l].call
    BY DEF ForRequest, ForCall, InStep, NoEvent
  <2>2. (next.pc = "run" => d = "allow") /\ next.call = loop[l].call
    BY <1>f
  <2>3. Emit(l, event, next)
    BY <1>4 DEF ResolvePermission
  <2> HIDE DEF event, next
  <2> QED
    BY <2>1, <2>2, <2>3, EmitApproved
<1>5. CASE RecordDenial(l)
  BY <1>5, <1>f, EmitApproved DEF RecordDenial
<1>6. CASE RunTool(l)
  BY <1>6, RunApproved
<1>7. CASE RecordResult(l)
  BY <1>7, <1>f, EmitApproved DEF RecordResult
<1>8. CASE RecordFailure(l)
  BY <1>8, <1>f, EmitApproved DEF RecordFailure
<1>9. CASE FinishStep(l)
  <2>1. \E event, pc : pc # "run" /\ Emit(l, event, Goto(l, pc))
    BY <1>9 DEF FinishStep
  <2> QED
    BY <1>f, <2>1, EmitApproved
<1>10. CASE Maintain(l)
  <2>1. \E pc : pc # "run" /\ (Move(l, Goto(l, pc)) \/ \E event : Emit(l, event, Goto(l, pc)))
    <3>1. \A pc : pc = "compact" \/ pc = "checkpoint" => pc # "run"
      OBVIOUS
    <3>2. (IF loop[l].pc = "compact" THEN "checkpoint" ELSE "drive") # "run"
      OBVIOUS
    <3> QED
      BY <1>10, <3>2 DEF Maintain
  <2> QED
    BY <1>f, <2>1, QuietApproved, EmitApproved DEF Move, RunAllowed
<1> QED
  BY <1>1, <1>2, <1>3, <1>4, <1>5, <1>6, <1>7, <1>8, <1>9, <1>10 DEF ToolPhase

(* recoverActiveStep.  It runs a tool after asking again, or because of an *)
(* answer in the state it reloaded.                                        *)
LEMMA RecoveryApproved ==
  ASSUME Coherent, Coherent', Approved, NEW l \in Loops, RecoveryPhase(l)
  PROVE  Approved'
<1>f. /\ {"pc", "call", "attempt", "step", "asks", "calls", "missing", "via", "failed",
          "action"} \subseteq DOMAIN loop[l]
      /\ \A pc : Goto(l, pc).pc = pc
      /\ Failed(l).pc # "run"
  BY Fields
<1>1. CASE Recover(l)
  <2> DEFINE here == [loop[l] EXCEPT !.step = durable.step.id]
  <2>1. "pc" \in DOMAIN here /\ "missing" \in DOMAIN here
    BY <1>f
  <2>2. \E next : loop' = [loop EXCEPT ![l] = next] /\ next.pc # "run"
    <3> HIDE DEF here
    <3>1. /\ [here EXCEPT !.pc = "reconcile", !.missing = MissingIntents(durable.step.id)].pc = "reconcile"
          /\ \A pc : [here EXCEPT !.pc = pc].pc = pc
      BY <2>1
    <3>2. \/ loop' = [loop EXCEPT ![l] = Goto(l, "drive")]
          \/ loop' = [loop EXCEPT ![l] = [here EXCEPT !.pc = "reconcile",
                                                      !.missing = MissingIntents(durable.step.id)]]
          \/ loop' = [loop EXCEPT ![l] = [here EXCEPT !.pc = "discard"]]
          \/ loop' = [loop EXCEPT ![l] = [here EXCEPT !.pc = "model"]]
      BY <1>1 DEF Recover, here
    <3>3. \A pc \in {"drive", "reconcile", "discard", "model"} : pc # "run"
      OBVIOUS
    <3>4. CASE loop' = [loop EXCEPT ![l] = Goto(l, "drive")]
      BY <1>f, <3>4
    <3>5. CASE \E pc \in {"discard", "model"} : loop' = [loop EXCEPT ![l] = [here EXCEPT !.pc = pc]]
      BY <3>1, <3>3, <3>5
    <3> QED
      BY <3>1, <3>2, <3>4, <3>5
  <2> QED
    BY <1>1, <2>2, QuietApproved DEF Recover, Reload, RunAllowed
<1>2. CASE ReconcileIntent(l)
  <2>1. PICK i \in loop[l].missing :
             \/ Move(l, Failed(l))
             \/ \E event : Emit(l, event, [loop[l] EXCEPT !.missing = @ \ {i}])
    BY <1>2 DEF ReconcileIntent
  <2>2. [loop[l] EXCEPT !.missing = @ \ {i}].pc # "run"
    BY <1>2, <1>f DEF ReconcileIntent
  <2> QED
    BY <1>f, <2>1, <2>2, QuietApproved, EmitApproved DEF Move, RunAllowed
<1>3. CASE RecoverAsks(l)
  <2>1. [loop[l] EXCEPT !.pc = "recoverAsks", !.via = "asks", !.asks = durable.asks].pc = "recoverAsks"
    BY <1>f
  <2> QED
    BY <1>3, <2>1, QuietApproved DEF RecoverAsks, Reload, RunAllowed
<1>4. ASSUME NEW d \in {"allow", "deny"}, RecoverAsk(l, d) PROVE Approved'
  <2> DEFINE ask   == Head(loop[l].asks)
             here  == [loop[l] EXCEPT !.asks = Tail(@), !.call = ask.call, !.attempt = 1]
             next  == [here EXCEPT !.pc = IF d = "allow" THEN "run" ELSE "deny"]
             event == [InStep(l, "permission.resolved") EXCEPT
                         !.call = ask.call, !.req = ask.req, !.decision = d]
             skip  == [loop[l] EXCEPT !.asks = Tail(@)]
  <2>1. event.type = "permission.resolved" /\ event.decision = d /\ event.call = ask.call
    BY DEF InStep, NoEvent
  <2>2. (next.pc = "run" => d = "allow") /\ next.call = ask.call
    BY <1>f
  <2>3. skip.pc # "run"
    BY <1>4, <1>f DEF RecoverAsk
  <2>4. Move(l, skip) \/ Emit(l, event, next)
    BY <1>4 DEF RecoverAsk
  <2> HIDE DEF event, next, skip
  <2> QED
    BY <2>1, <2>2, <2>3, <2>4, QuietApproved, EmitApproved DEF Move, RunAllowed
<1>5. CASE RecoverCalls(l)
  <2>1. [loop[l] EXCEPT !.pc = "recoverCalls", !.via = "calls", !.calls = durable.calls].pc
          = "recoverCalls"
    BY <1>f
  <2> QED
    BY <1>5, <2>1, QuietApproved DEF RecoverCalls, Reload, RunAllowed
<1>6. CASE ReloadAfterCall(l)
  BY <1>6, <1>f, QuietApproved DEF ReloadAfterCall, Reload, RunAllowed
<1>7. CASE RecoverCall(l)
  <2> DEFINE c    == Head(loop[l].calls).call
             here == [loop[l] EXCEPT !.calls = Tail(@), !.call = c, !.step = view[l].step.id,
                                     !.action = "feed-back"]
             again == [here EXCEPT !.pc = "run", !.attempt = 2]
  <2>1. \A pc : [here EXCEPT !.pc = pc].pc = pc
    BY <1>f
  <2>2. again.call = c
    BY <1>f
  <2>3. Answer(view[l], c) = "allow" => Allows(log, c)
    <3>1. ASSUME Answer(view[l], c) = "allow"
          PROVE  \E k \in AnswersAbout(view[l], c) : view[l].answers[k].decision = "allow"
      <4> DEFINE A == AnswersAbout(view[l], c)
                 latest == CHOOSE i \in A : \A j \in A : j <= i
      <4>1. A # {} /\ view[l].answers[latest].decision = "allow"
        BY <3>1, LoopAssumption DEF Answer, Decisions
      <4>2. \E i \in A : \A j \in A : j <= i
        <5>1. view[l].answers \in Seq([req: Optional(CallIds), call: Optional(CallIds),
                                       decision: Optional(Decisions)])
          BY DEF Coherent, TypeOK, AState, SessionStates
        <5>2. A \subseteq 1..Len(view[l].answers) /\ Len(view[l].answers) \in Nat
          BY <5>1, LenProperties DEF AnswersAbout
        <5> QED
          BY <4>1, <5>2, GreatestIn
      <4>3. latest \in A
        BY <4>2
      <4> QED
        BY <4>1, <4>3
    <3> QED
      BY <3>1 DEF Approved, AnswersLogged, AnswersAbout
  <2> HIDE DEF here, again
  <2>4. \/ Move(l, Failed(l))
        \/ \E pc : pc # "run" /\ Move(l, [here EXCEPT !.pc = pc])
        \/ Answer(view[l], c) = "allow" /\ Move(l, again)
    BY <1>7 DEF RecoverCall, here, again
  <2> QED
    <3>1. PICK next : Move(l, next) /\ RunAllowed(log, next)
      BY <1>f, <2>1, <2>2, <2>3, <2>4 DEF RunAllowed
    <3> QED
      BY <3>1, QuietApproved DEF Move
<1>8. CASE RecoverFinish(l)
  <2>1. \A step, failed : [loop[l] EXCEPT !.pc = "finish", !.step = step, !.failed = failed].pc = "finish"
    BY <1>f
  <2>2. \E next : loop' = [loop EXCEPT ![l] = next] /\ next.pc # "run"
    BY <1>8, <1>f, <2>1 DEF RecoverFinish
  <2> QED
    BY <1>8, <2>2, QuietApproved DEF RecoverFinish, Reload, RunAllowed
<1> QED
  BY <1>1, <1>2, <1>3, <1>4, <1>5, <1>6, <1>7, <1>8 DEF RecoveryPhase
(* closeAfterFailure.                                                      *)
LEMMA CloseApproved ==
  ASSUME Coherent, Coherent', Approved, NEW l \in Loops, ClosePhase(l)
  PROVE  Approved'
<1>f. /\ {"pc", "call", "asks", "calls"} \subseteq DOMAIN loop[l]
      /\ \A pc : Goto(l, pc).pc = pc
      /\ IdleLoop.pc = "idle"
  BY Fields
<1>1. CASE CloseReload(l)
  <2>1. \E next : loop' = [loop EXCEPT ![l] = next] /\ next.pc # "run"
    <3>1. /\ [loop[l] EXCEPT !.pc = "closeAsks", !.asks = durable.asks].pc = "closeAsks"
          /\ [loop[l] EXCEPT !.pc = "closeCalls", !.calls = durable.calls].pc = "closeCalls"
      BY <1>f
    <3>2. Goto(l, "closeStep").pc # "run" /\ Goto(l, "closeTurn").pc # "run"
      BY <1>f
    <3>3. \/ loop' = [loop EXCEPT ![l] = [loop[l] EXCEPT !.pc = "closeAsks", !.asks = durable.asks]]
          \/ loop' = [loop EXCEPT ![l] = [loop[l] EXCEPT !.pc = "closeCalls", !.calls = durable.calls]]
          \/ loop' = [loop EXCEPT ![l] = Goto(l, "closeStep")]
          \/ loop' = [loop EXCEPT ![l] = Goto(l, "closeTurn")]
      BY <1>1 DEF CloseReload
    <3> QED
      BY <3>1, <3>2, <3>3
  <2> QED
    BY <1>1, <2>1, QuietApproved DEF CloseReload, Reload, RunAllowed
<1>2. CASE CloseAsk(l)
  <2>1. [loop[l] EXCEPT !.asks = Tail(@)].pc # "run"
    BY <1>2, <1>f DEF CloseAsk
  <2> QED
    BY <1>2, <2>1, EmitApproved DEF CloseAsk
<1>3. CASE CloseCall(l)
  <2>1. [loop[l] EXCEPT !.calls = Tail(@)].pc # "run"
    BY <1>3, <1>f DEF CloseCall
  <2> QED
    BY <1>3, <2>1, EmitApproved DEF CloseCall
<1>4. CASE CloseStep(l)
  <2>1. loop[l].pc # "run"
    BY <1>4 DEF CloseStep
  <2> QED
    BY <1>4, <2>1, EmitApproved DEF CloseStep
<1>5. CASE CloseTurn(l)
  BY <1>5, <1>f, QuietApproved, EmitApproved DEF CloseTurn, Move, RunAllowed
<1> QED
  BY <1>1, <1>2, <1>3, <1>4, <1>5 DEF ClosePhase

LEMMA InitApproved == Init => Approved
<1> SUFFICES ASSUME Init PROVE Approved
  OBVIOUS
<1>1. DOMAIN EmptyState.answers = {}
  BY EmptySeq DEF EmptyState
<1>2. \A l \in Loops : view[l] = EmptyState /\ loop[l].pc = "idle"
  BY DEF Init, IdleLoop
<1>3. AllowedBeforeRun
  BY DEF Init, AllowedBeforeRun
<1> QED
  BY <1>1, <1>2, <1>3 DEF Init, Approved, AnswersLogged, RunAllowed

LEMMA NextApproved == Coherent /\ Coherent' /\ Approved /\ [Next]_vars => Approved'
<1> SUFFICES ASSUME Coherent, Coherent', Approved, [Next]_vars PROVE Approved'
  OBVIOUS
<1>1. CASE UNCHANGED vars
  BY <1>1 DEF vars, Approved, AllowedBeforeRun, AnswersLogged, RunAllowed, Allows
<1>2. ASSUME NEW l \in Loops, Proceed(l) PROVE Approved'
  BY <1>2, DriveApproved, ToolApproved, RecoveryApproved, CloseApproved DEF Proceed
<1>3. ASSUME NEW l \in Loops, RunTurn(l) \/ ResumeTurn(l) \/ Abort(l) PROVE Approved'
  BY <1>3, DriveApproved
<1>4. ASSUME NEW l \in Loops, PortFails(l) PROVE Approved'
  BY <1>4, Fields, QuietApproved DEF PortFails, RunAllowed
<1>5. ASSUME NEW l \in Loops, Crash(l) PROVE Approved'
  BY <1>5, Fields, QuietApproved DEF Crash, RunAllowed
<1> QED
  BY <1>1, <1>2, <1>3, <1>4, <1>5 DEF Next

(* However replicas, crashes, lost acknowledgements and recoveries         *)
(* interleave, a tool has run only if the log holds an "allow" for that    *)
(* very call: what recovery remembers of an approval is never more than    *)
(* the log it was folded from.                                             *)
THEOREM OnlyAllowedToolsRun == Spec => []AllowedBeforeRun
<1>1. Init => Coherent /\ Approved
  BY InitCoherent, InitApproved
<1>2. Coherent /\ Approved /\ [Next]_vars => (Coherent /\ Approved)'
  BY NextCoherent, NextApproved
<1>3. Approved => AllowedBeforeRun
  BY DEF Approved
<1> QED
  BY <1>1, <1>2, <1>3, PTL DEF Spec

-----------------------------------------------------------------------------
(* A session one replica runs never waits for two approvals, whatever is   *)
(* aborted, fails, loses its acknowledgement or crashes, and wherever      *)
(* recovery takes over.  (Rivals break it: see AgentLoop.)                 *)

(* The absent value is no step.                                            *)
NoneIsNoStep == None \notin [turn: Optional(Turns), id: Optional(Steps)]

(* Where an approval may be pending, and where a replica walks its         *)
(* snapshot of the pending ones.                                           *)
MayWait == {"idle", "closing", "recover", "reconcile", "ask", "recoverAsks", "closeAsks"}
Walking == {"recoverAsks", "closeAsks"}

(* Where a replica works on the active step.                               *)
InActiveStep == {"model", "discard", "stream", "intents", "permission", "ask", "deny", "run",
                 "record", "feed", "finish", "reconcile", "recoverAsks", "recoverCalls", "reload"}

(* What is pending belongs to the active step, which has an intent, and an *)
(* approval is asked for a call without a result.                          *)
PendingInStep ==
  /\ durable.asks # <<>> \/ durable.calls # <<>> =>
       durable.turn # None /\ durable.step # None /\ At("tool.call", durable.step.id) # {}
  /\ \A k \in DOMAIN durable.asks :
       durable.asks[k].step = durable.step.id /\ PendingCall(durable, durable.asks[k].call)
  /\ \A k \in DOMAIN durable.calls : durable.calls[k].step = durable.step.id

(* A replica at r while the log's state is s.                              *)
Place(r, s) ==
  /\ r.pc \notin MayWait => s.asks = <<>>
  /\ r.asks = IF r.pc \in Walking THEN s.asks ELSE <<>>
  /\ r.pc \in InActiveStep => s.turn # None /\ s.step # None /\ r.step = s.step.id

(* A single replica knows the log wherever it acts on it.                  *)
Informed(l) == loop[l].pc \notin {"idle", "closing"} => view[l] = durable

OneAsk ==
  /\ OneApprovalAtATime /\ PendingInStep
  /\ \A l \in Loops : Place(loop[l], durable) /\ Informed(l)

-----------------------------------------------------------------------------
(* What an accepted event does to what is pending.                         *)

(* Splicing one element out leaves the others.                             *)
LEMMA Spliced ==
  ASSUME NEW S, NEW seq \in Seq(S), NEW D \in SUBSET (DOMAIN seq), D # {},
         NEW left, left = RemoveAt(seq, First(D))
  PROVE  /\ Len(left) = Len(seq) - 1 /\ Len(left) \in Nat /\ First(D) \in D
         /\ \A k \in DOMAIN left : \E j \in DOMAIN seq :
              left[k] = seq[j] /\ j = IF k < First(D) THEN k ELSE k + 1
<1> DEFINE i == First(D)
           before == SubSeq(seq, 1, i - 1)
           after == SubSeq(seq, i + 1, Len(seq))
<1>1. DOMAIN seq = 1..Len(seq) /\ Len(seq) \in Nat
  BY LenProperties
<1>2. i \in 1..Len(seq) /\ i \in D
  BY <1>1, FirstIn
<1> HIDE DEF i
<1>3. before \in Seq(S) /\ Len(before) = i - 1 /\ \A k \in 1..(i - 1) : before[k] = seq[k]
  BY <1>1, <1>2, ElementOfSeq, SubSeqProperties
<1>4. /\ after \in Seq(S) /\ Len(after) = Len(seq) - i
      /\ \A k \in 1..(Len(seq) - i) : after[k] = seq[i + k]
  <2>1. i + 1 \in Int /\ Len(seq) \in Int /\ \A k \in (i + 1)..Len(seq) : seq[k] \in S
    BY <1>1, <1>2, ElementOfSeq
  <2>2. /\ after \in Seq(S)
        /\ Len(after) = IF i + 1 <= Len(seq) THEN Len(seq) - (i + 1) + 1 ELSE 0
        /\ \A k \in 1..(Len(seq) - (i + 1) + 1) : after[k] = seq[(i + 1) + k - 1]
    BY <2>1, SubSeqProperties
  <2>3. Len(seq) - (i + 1) + 1 = Len(seq) - i /\ \A k \in Int : (i + 1) + k - 1 = i + k
    BY <1>1, <1>2
  <2> QED
    <3>1. /\ i + 1 <= Len(seq) => Len(seq) - (i + 1) + 1 = Len(seq) - i
          /\ ~(i + 1 <= Len(seq)) => Len(seq) - i = 0
      <4>1. \A n, m \in Int : m <= n => /\ m + 1 <= n => n - (m + 1) + 1 = n - m
                                        /\ ~(m + 1 <= n) => n - m = 0
        OBVIOUS
      <4>2. i \in Int /\ Len(seq) \in Int /\ i <= Len(seq)
        BY <1>1, <1>2
      <4> HIDE DEF before, after
      <4> QED
        BY <4>1, <4>2
    <3>2. \A k \in 1..(Len(seq) - i) : k \in Int
      OBVIOUS
    <3> QED
      BY <2>2, <2>3, <3>1, <3>2
<1> HIDE DEF before, after
<1>5. /\ Len(before \o after) = Len(seq) - 1
      /\ DOMAIN (before \o after) = 1..(Len(seq) - 1)
      /\ \A k \in 1..(Len(seq) - 1) :
           (before \o after)[k] = IF k <= i - 1 THEN before[k] ELSE after[k - (i - 1)]
  <2>1. /\ before \o after \in Seq(S) /\ Len(before \o after) = Len(before) + Len(after)
        /\ \A k \in 1..(Len(before) + Len(after)) :
             (before \o after)[k] = IF k <= Len(before) THEN before[k] ELSE after[k - Len(before)]
    BY <1>3, <1>4, ConcatProperties
  <2>2. Len(before) + Len(after) = Len(seq) - 1
    BY <1>1, <1>2, <1>3, <1>4
  <2>3. DOMAIN (before \o after) = 1..Len(before \o after)
    BY <2>1, LenProperties
  <2> QED
    BY <2>1, <2>2, <2>3, <1>3
<1>6. ASSUME NEW k \in 1..(Len(seq) - 1)
      PROVE  \E j \in DOMAIN seq : (before \o after)[k] = seq[j] /\ j = IF k < i THEN k ELSE k + 1
  <2>1. CASE k <= i - 1
    <3>1. k \in 1..(i - 1) /\ k \in 1..Len(seq) /\ k < i
      BY <2>1, <1>1, <1>2
    <3> QED
      BY <3>1, <2>1, <1>1, <1>3, <1>5
  <2>2. CASE ~(k <= i - 1)
    <3>1. /\ k - (i - 1) \in 1..(Len(seq) - i) /\ i + (k - (i - 1)) = k + 1 /\ k + 1 \in 1..Len(seq)
          /\ ~(k < i)
      BY <2>2, <1>1, <1>2
    <3>2. after[k - (i - 1)] = seq[k + 1]
      BY <3>1, <1>4
    <3> QED
      BY <3>1, <3>2, <2>2, <1>1, <1>5
  <2> QED
    BY <2>1, <2>2
<1>7. RemoveAt(seq, i) = before \o after
  BY DEF RemoveAt, before, after
<1>8. Len(seq) - 1 \in Nat
  BY <1>1, <1>2
<1> QED
  BY <1>2, <1>5, <1>6, <1>7, <1>8 DEF i

(* The fields that tell what is pending, after each event.                 *)
LEMMA ApplyFields ==
  ASSUME NEW s \in AState, NEW e
  PROVE  LET n == Apply(s, e)
         IN  /\ n.asks = CASE e.type = "permission.requested" ->
                                Append(s.asks, [req |-> e.req, step |-> e.step, call |-> e.call])
                           [] e.type = "permission.resolved" ->
                                RemoveAt(s.asks, First({k \in DOMAIN s.asks : s.asks[k].req = e.req}))
                           [] OTHER -> s.asks
             /\ n.calls = CASE e.type = "tool.call" -> Append(s.calls, [call |-> e.call, step |-> e.step])
                            [] e.type = "tool.result" ->
                                 RemoveAt(s.calls, First({k \in DOMAIN s.calls : s.calls[k].call = e.call}))
                            [] OTHER -> s.calls
             /\ n.turn = CASE e.type = "turn.started" -> e.turn
                           [] e.type = "turn.finished" -> None
                           [] OTHER -> s.turn
             /\ n.step = CASE e.type = "step.started" -> [turn |-> e.turn, id |-> e.step]
                           [] e.type \in {"step.finished", "turn.started"} -> None
                           [] OTHER -> s.step
<1> DEFINE n == Apply(s, e)
           b == ApplyBody(s, e)
<1>1. n.asks = b.asks /\ n.calls = b.calls /\ n.turn = b.turn /\ n.step = b.step
  BY DEF Apply
<1> QED
  BY <1>1 DEF ApplyBody, ApplyTurnStarted, ApplyStepStarted, ApplyStepFinished, ApplyToolCall, ApplyToolResult,
     ApplyPermissionRequested, ApplyPermissionResolved, ApplyTurnFinished, AState, SessionStates

(* One event: what stays pending still belongs to the active step, and a   *)
(* second request is only made while the first one is pending.             *)
LEMMA Pending ==
  ASSUME Coherent, OneApprovalAtATime, PendingInStep, NEW e,
         Valid(durable, e), Persist(e), durable' \in AState,
         e.type = "permission.requested" => e.call # None,
         e.type \in {"tool.call", "permission.requested"} =>
           durable.step # None /\ durable.turn # None,
         e.type \in {"tool.result", "permission.requested"} => durable.asks = <<>>
  PROVE  /\ OneApprovalAtATime' /\ PendingInStep'
         /\ e.type = "permission.resolved" => durable'.asks = <<>>
         /\ e.type # "permission.requested" /\ durable.asks = <<>> => durable'.asks = <<>>
         /\ e.type \notin {"turn.started", "turn.finished", "step.started", "step.finished"} =>
              durable'.turn = durable.turn /\ durable'.step = durable.step
         /\ e.type = "step.started" =>
              durable'.turn # None /\ durable'.step = [turn |-> e.turn, id |-> e.step]
<1> DEFINE s == durable
           n == durable'
           A == PendingAsks(Steps, CallIds)
           C == PendingCalls(Steps, CallIds)
<1>t. /\ s \in AState /\ s.asks \in Seq(A) /\ s.calls \in Seq(C) /\ log \in Seq(AnEvent)
      /\ n.asks \in Seq(A) /\ n.calls \in Seq(C)
  BY DEF Coherent, TypeOK, AState, SessionStates
<1>l. /\ Len(s.asks) \in Nat /\ DOMAIN s.asks = 1..Len(s.asks) /\ Len(s.asks) <= 1
      /\ DOMAIN s.calls = 1..Len(s.calls) /\ Len(s.calls) \in Nat
      /\ \A q \in Seq(A) : Len(q) = 0 <=> q = <<>>
      /\ \A q \in Seq(C) : Len(q) = 0 <=> q = <<>>
      /\ DOMAIN n.asks = 1..Len(n.asks) /\ DOMAIN n.calls = 1..Len(n.calls)
  BY <1>t, LenProperties, EmptySeq DEF OneApprovalAtATime
<1>n. n = Apply(s, e) /\ log' = Append(log, e)
  BY DEF Persist
<1>v. /\ e.type \in AssociatedTypes => ActiveStepAssociation(s, e)
      /\ e.type = "turn.started" => ValidTurnStarted(s, e)
      /\ e.type = "step.started" => ValidStepStarted(s, e)
      /\ e.type = "step.finished" => ValidStepFinished(s, e)
      /\ e.type = "tool.result" => ValidToolResult(s, e)
      /\ e.type = "permission.requested" => ValidPermissionRequested(s, e)
      /\ e.type = "permission.resolved" => ValidPermissionResolved(s, e)
      /\ e.type = "turn.finished" => ValidTurnFinished(s, e)
  BY DEF Valid
<1>f. /\ n.asks = CASE e.type = "permission.requested" ->
                         Append(s.asks, [req |-> e.req, step |-> e.step, call |-> e.call])
                    [] e.type = "permission.resolved" ->
                         RemoveAt(s.asks, First({k \in DOMAIN s.asks : s.asks[k].req = e.req}))
                    [] OTHER -> s.asks
      /\ n.calls = CASE e.type = "tool.call" -> Append(s.calls, [call |-> e.call, step |-> e.step])
                     [] e.type = "tool.result" ->
                          RemoveAt(s.calls, First({k \in DOMAIN s.calls : s.calls[k].call = e.call}))
                     [] OTHER -> s.calls
      /\ n.turn = CASE e.type = "turn.started" -> e.turn
                    [] e.type = "turn.finished" -> None
                    [] OTHER -> s.turn
      /\ n.step = CASE e.type = "step.started" -> [turn |-> e.turn, id |-> e.step]
                    [] e.type \in {"step.finished", "turn.started"} -> None
                    [] OTHER -> s.step
  BY <1>t, <1>n, ApplyFields
<1>p. /\ s.asks # <<>> \/ s.calls # <<>> =>
           s.turn # None /\ s.step # None /\ At("tool.call", s.step.id) # {}
      /\ \A k \in DOMAIN s.asks : s.asks[k].step = s.step.id /\ PendingCall(s, s.asks[k].call)
      /\ \A k \in DOMAIN s.calls : s.calls[k].step = s.step.id
  BY DEF PendingInStep
<1>a. \A type, step : At(type, step) # {} => At(type, step)' # {}
  <2>1. \A i \in DOMAIN log : i \in DOMAIN log' /\ log'[i] = log[i]
    <3>1. DOMAIN log = 1..Len(log) /\ Len(log) \in Nat
      BY <1>t, LenProperties
    <3>2. DOMAIN log' = 1..(Len(log) + 1) /\ \A i \in 1..Len(log) : log'[i] = log[i]
      BY <1>n, <3>1
    <3> QED
      BY <3>1, <3>2
  <2> QED
    BY <2>1 DEF At
<1>1. CASE e.type = "tool.call"
  <2>1. n.asks = s.asks /\ n.turn = s.turn /\ n.step = s.step /\ s.step # None /\ s.turn # None
    BY <1>1, <1>f
  <2>2. n.calls = Append(s.calls, [call |-> e.call, step |-> e.step]) /\ e.step = s.step.id
    BY <1>1, <1>f, <1>v, <2>1 DEF AssociatedTypes, ActiveStepAssociation
  <2>3. /\ DOMAIN n.calls = 1..(Len(s.calls) + 1)
        /\ \A k \in 1..Len(s.calls) : k \in DOMAIN n.calls /\ n.calls[k] = s.calls[k]
        /\ n.calls[Len(s.calls) + 1] = [call |-> e.call, step |-> e.step]
    BY <2>2, <1>t
  <2>4. At("tool.call", durable.step.id)' # {}
    <3>1. Len(log) + 1 \in DOMAIN log' /\ log'[Len(log) + 1] = e
      BY <1>n, <1>t
    <3>2. log'[Len(log) + 1].type = "tool.call" /\ log'[Len(log) + 1].step = n.step.id
      BY <3>1, <1>1, <2>1, <2>2
    <3> QED
      BY <3>1, <3>2 DEF At
  <2>5. \A k \in DOMAIN n.calls : n.calls[k].step = n.step.id
    <3> SUFFICES ASSUME NEW k \in DOMAIN n.calls PROVE n.calls[k].step = s.step.id
      BY <2>1
    <3>1. Len(s.calls) \in Nat
      BY <1>t, LenProperties
    <3>2. k \in 1..Len(s.calls) \/ k = Len(s.calls) + 1
      BY <2>3, <3>1
    <3> QED
      BY <3>2, <2>2, <2>3, <1>l, <1>p
  <2>6. \A k \in DOMAIN n.asks : n.asks[k].step = n.step.id /\ PendingCall(n, n.asks[k].call)
    BY <2>1, <2>3, <1>p, <1>l DEF PendingCall
  <2>7. PendingInStep'
    BY <2>1, <2>4, <2>5, <2>6 DEF PendingInStep
  <2> QED
    BY <1>1, <2>1, <2>7, <1>l DEF OneApprovalAtATime
<1>2. CASE e.type = "tool.result"
  <2> DEFINE D == {k \in DOMAIN s.calls : s.calls[k].call = e.call}
  <2>1. n.asks = <<>> /\ s.asks = <<>> /\ n.turn = s.turn /\ n.step = s.step
    BY <1>2, <1>f
  <2>2. n.calls = RemoveAt(s.calls, First(D)) /\ D # {} /\ D \in SUBSET (DOMAIN s.calls)
    BY <1>2, <1>f, <1>v DEF ValidToolResult
  <2> HIDE DEF D
  <2>3. /\ Len(n.calls) = Len(s.calls) - 1 /\ Len(n.calls) \in Nat
        /\ \A k \in DOMAIN n.calls : \E j \in DOMAIN s.calls : n.calls[k] = s.calls[j]
    <3>1. s.calls \in Seq(C)
      BY <1>t
    <3> HIDE DEF s, n, C
    <3> QED
      BY <2>2, <3>1, Spliced
  <2>4. s.calls # <<>>
    BY <2>2, <1>l, <1>t, EmptySeq
  <2>5. PendingInStep'
    BY <2>1, <2>3, <2>4, <1>p, <1>a, <1>l DEF PendingInStep
  <2> QED
    BY <1>2, <2>1, <2>5, <1>l DEF OneApprovalAtATime
<1>3. CASE e.type = "permission.requested"
  <2> DEFINE a == [req |-> e.req, step |-> e.step, call |-> e.call]
  <2>1. /\ s.asks = <<>> /\ n.asks = Append(<<>>, a) /\ n.calls = s.calls /\ n.turn = s.turn
        /\ n.step = s.step /\ s.step # None /\ s.turn # None
    BY <1>3, <1>f
  <2>2. PendingCall(s, e.call) /\ e.step = s.step.id
    BY <1>3, <1>v, <2>1 DEF ValidPermissionRequested, AssociatedTypes, ActiveStepAssociation
  <2>3. Len(n.asks) = 1 /\ \A k \in DOMAIN n.asks : n.asks[k] = a
    BY <2>1
  <2>4. s.calls # <<>>
    BY <2>2, <1>l, <1>t, EmptySeq DEF PendingCall
  <2>5. \A k \in DOMAIN n.asks : n.asks[k].step = n.step.id /\ PendingCall(n, n.asks[k].call)
    BY <2>1, <2>2, <2>3 DEF PendingCall
  <2>6. PendingInStep'
    BY <2>1, <2>4, <2>5, <1>p, <1>a DEF PendingInStep
  <2> QED
    BY <1>3, <2>1, <2>3, <2>6 DEF OneApprovalAtATime
<1>4. CASE e.type = "permission.resolved"
  <2> DEFINE D == {k \in DOMAIN s.asks : s.asks[k].req = e.req}
  <2>1. n.calls = s.calls /\ n.turn = s.turn /\ n.step = s.step
    BY <1>4, <1>f
  <2>2. n.asks = RemoveAt(s.asks, First(D)) /\ D # {} /\ D \in SUBSET (DOMAIN s.asks)
    BY <1>4, <1>f, <1>v DEF ValidPermissionResolved
  <2> HIDE DEF D
  <2>3. Len(n.asks) = Len(s.asks) - 1 /\ Len(n.asks) \in Nat
    BY <2>2, <1>t, Spliced
  <2>4. n.asks = <<>>
    BY <2>3, <1>l, <1>t
  <2>5. PendingInStep'
    BY <2>1, <2>4, <1>p, <1>a DEF PendingInStep
  <2>6. Len(n.asks) <= 1
    BY <2>3, <1>l
  <2> QED
    BY <1>4, <2>1, <2>4, <2>5, <2>6 DEF OneApprovalAtATime
<1>5. CASE e.type \in {"turn.started", "turn.finished", "step.started", "step.finished"}
  <2>1. n.asks = s.asks /\ n.calls = s.calls
    BY <1>5, <1>f
  <2>2. s.asks = <<>> /\ s.calls = <<>>
    <3>1. CASE e.type = "turn.started"
      BY <3>1, <1>v, <1>p DEF ValidTurnStarted
    <3>2. CASE e.type = "turn.finished"
      BY <3>2, <1>v DEF ValidTurnFinished
    <3>3. CASE e.type = "step.started"
      BY <3>3, <1>v, <1>p DEF ValidStepStarted
    <3>4. CASE e.type = "step.finished"
      <4>1. DOMAIN s.asks = {} /\ DOMAIN s.calls = {}
        BY <3>4, <1>v, <1>p DEF ValidStepFinished, StepHasNoPendingWork
      <4>2. \A m \in Nat : 1..m = {} => m = 0
        OBVIOUS
      <4>3. Len(s.asks) = 0 /\ Len(s.calls) = 0
        BY <4>1, <4>2, <1>l
      <4> QED
        BY <4>3, <1>t, <1>l
    <3> QED
      BY <1>5, <3>1, <3>2, <3>3, <3>4
  <2>3. PendingInStep'
    BY <2>1, <2>2 DEF PendingInStep
  <2>4. e.type = "step.started" => n.turn # None /\ n.step = [turn |-> e.turn, id |-> e.step]
    BY <1>f, <1>v DEF ValidStepStarted
  <2> QED
    BY <1>5, <2>1, <2>2, <2>3, <2>4, <1>l DEF OneApprovalAtATime
<1>6. CASE e.type \notin {"turn.started", "turn.finished", "step.started", "step.finished", "tool.call",
                          "tool.result", "permission.requested", "permission.resolved"}
  <2>1. n.asks = s.asks /\ n.calls = s.calls /\ n.turn = s.turn /\ n.step = s.step
    BY <1>6, <1>f
  <2>2. PendingInStep'
    BY <2>1, <1>p, <1>a DEF PendingInStep, PendingCall
  <2> QED
    BY <1>6, <2>1, <2>2, <1>l DEF OneApprovalAtATime
<1> QED
  BY <1>1, <1>2, <1>3, <1>4, <1>5, <1>6

-----------------------------------------------------------------------------
(* What the three ways of advancing keep, with one replica.                *)

LEMMA Failing ==
  ASSUME NEW l \in Loops, NEW s
  PROVE  Place(Failed(l), s) /\ Failed(l).pc \in {"idle", "closing"}
  BY DEF Failed, IdleLoop, Place, MayWait, Walking, InActiveStep

(* A step that leaves the log and the view alone.                          *)
LEMMA MoveOne ==
  ASSUME Coherent, OneAsk, NEW l, Loops = {l}, NEW next,
         loop' = [loop EXCEPT ![l] = next], UNCHANGED <<log, durable, view>>,
         Place(next, durable), next.pc \notin {"idle", "closing"} => view[l] = durable
  PROVE  OneAsk'
<1>1. loop'[l] = next
  BY DEF Coherent, TypeOK
<1>2. Place(loop'[l], durable') /\ Informed(l)'
  BY <1>1 DEF Informed, Place
<1> QED
  BY <1>2 DEF OneAsk, OneApprovalAtATime, PendingInStep, At, PendingCall

(* A step that reloads the view.                                           *)
LEMMA ReloadOne ==
  ASSUME Coherent, OneAsk, NEW l, Loops = {l}, NEW next,
         loop' = [loop EXCEPT ![l] = next], UNCHANGED <<log, durable>>, Reload(l),
         Place(next, durable)
  PROVE  OneAsk'
<1>1. loop'[l] = next /\ view'[l] = durable
  BY DEF Coherent, TypeOK, Reload
<1>2. Place(loop'[l], durable') /\ Informed(l)'
  BY <1>1 DEF Informed, Place
<1> QED
  BY <1>2 DEF OneAsk, OneApprovalAtATime, PendingInStep, At, PendingCall

(* What #emit may append where, and where the replica goes from there.     *)
Emitted(event, s) ==
  /\ event.type = "permission.resolved" => s.asks = <<>>
  /\ event.type # "permission.requested" /\ durable.asks = <<>> => s.asks = <<>>
  /\ event.type \notin {"turn.started", "turn.finished", "step.started", "step.finished"} =>
       s.turn = durable.turn /\ s.step = durable.step
  /\ event.type = "step.started" => s.turn # None /\ s.step = [turn |-> event.turn, id |-> event.step]

LEMMA EmitOne ==
  ASSUME Coherent, Coherent', OneAsk, NEW l, Loops = {l}, NEW event, DOMAIN event = DOMAIN NoEvent,
         NEW next,
         loop[l].pc \notin {"idle", "closing"}, Emit(l, event, next),
         event.type = "permission.requested" => event.call # None,
         event.type \in {"tool.call", "permission.requested"} => loop[l].pc \in InActiveStep,
         event.type \in {"tool.result", "permission.requested"} => loop[l].pc \notin MayWait,
         \A s \in AState : Emitted(event, s) => Place(next, s)
  PROVE  OneAsk'
<1> DEFINE e == NextEvent(l, event)
<1>1. /\ e.type = event.type /\ e.call = event.call /\ e.turn = event.turn /\ e.step = event.step
  BY DEF NextEvent, NoEvent
<1>2. /\ view[l] = durable /\ Place(loop[l], durable) /\ OneApprovalAtATime /\ PendingInStep
      /\ durable' \in AState /\ view \in [Loops -> AState] /\ loop \in [Loops -> LoopStates]
  BY DEF OneAsk, Informed, Coherent, TypeOK
<1>3. CASE UNCHANGED <<log, durable, view>> /\ loop' = [loop EXCEPT ![l] = Failed(l)]
  BY <1>3, <1>2, MoveOne, Failing
<1>4. CASE Valid(durable, e) /\ Persist(e)
  <2>1. OneApprovalAtATime' /\ PendingInStep' /\ Emitted(event, durable')
    BY <1>1, <1>2, <1>4, Pending DEF Place, Emitted
  <2>2. CASE loop' = [loop EXCEPT ![l] = next] /\ view' = [view EXCEPT ![l] = Apply(@, e)]
    <3>1. loop'[l] = next /\ view'[l] = durable'
      BY <2>2, <1>2, <1>4 DEF Persist
    <3> QED
      BY <3>1, <2>1, <1>2 DEF OneAsk, Informed
  <2>3. CASE loop' = [loop EXCEPT ![l] = Failed(l)]
    <3>1. loop'[l] = Failed(l)
      BY <2>3, <1>2
    <3> QED
      BY <3>1, <2>1, Failing DEF OneAsk, Informed
  <2> QED
    BY <1>4, <2>2, <2>3 DEF Emit
<1> QED
  BY <1>2, <1>3, <1>4 DEF Emit

LEMMA EventDomains ==
  ASSUME NEW l, NEW type
  PROVE  /\ DOMAIN InStep(l, type) = DOMAIN NoEvent /\ DOMAIN ForCall(l, type) = DOMAIN NoEvent
         /\ DOMAIN ForRequest(l, type) = DOMAIN NoEvent /\ DOMAIN ToolResult(l, type) = DOMAIN NoEvent
         /\ InStep(l, type).type = type /\ ForRequest(l, type).type = type
         /\ ToolResult(l, type).type = "tool.result"
         /\ ForRequest(l, type).call = loop[l].call
  BY DEF InStep, ForCall, ForRequest, ToolResult, NoEvent

-----------------------------------------------------------------------------
(* The actions.                                                            *)

LEMMA Here ==
  ASSUME Coherent, OneAsk, NEW l, Loops = {l}
  PROVE  /\ loop[l] \in LoopStates /\ view[l] \in AState /\ durable \in AState
         /\ Place(loop[l], durable) /\ Informed(l) /\ PendingInStep
         /\ loop[l].pc \notin {"idle", "closing"} => view[l] = durable
  BY DEF Coherent, TypeOK, OneAsk, Informed

(* runTurn, resumeTurn, #driveTurn.                                        *)
LEMMA DriveOne ==
  ASSUME Coherent, Coherent', NoneIsNoStep, OneAsk, NEW l, Loops = {l},
         \/ RunTurn(l) \/ BeginTurn(l) \/ ResumeTurn(l) \/ Abort(l)
         \/ DriveAborted(l) \/ FinishTurn(l) \/ StartStep(l)
  PROVE  OneAsk'
<1>t. /\ loop[l] \in LoopStates /\ durable \in AState /\ Place(loop[l], durable) /\ PendingInStep
      /\ loop[l].pc \notin {"idle", "closing"} => view[l] = durable
  BY Here
<1>1. CASE RunTurn(l)
  <2> DEFINE next == [IdleLoop EXCEPT !.pc = "begin", !.turn = durable.lastSeq + 1]
  <2>1. durable.asks = <<>>
    BY <1>1, <1>t DEF RunTurn, PendingInStep
  <2>2. Place(next, durable)
    BY <2>1 DEF IdleLoop, Place, MayWait, Walking, InActiveStep
  <2> QED
    BY <1>1, <2>2, ReloadOne DEF RunTurn
<1>2. CASE BeginTurn(l)
  <2> DEFINE event == [NoEvent EXCEPT !.type = "turn.started", !.turn = loop[l].turn]
             next == Goto(l, "drive")
  <2>1. DOMAIN event = DOMAIN NoEvent /\ event.type = "turn.started"
    BY DEF NoEvent
  <2>2. \A s \in AState : Emitted(event, s) => Place(next, s)
    BY <1>2, <1>t, <2>1 DEF BeginTurn, Emitted, Goto, LoopStates, Place, MayWait, Walking, InActiveStep
  <2> QED
    BY <1>2, <2>1, <2>2, EmitOne DEF BeginTurn
<1>3. CASE ResumeTurn(l)
  <2>1. Place([IdleLoop EXCEPT !.pc = "recover", !.turn = durable.turn], durable)
    BY DEF IdleLoop, Place, MayWait, Walking, InActiveStep
  <2> QED
    BY <1>3, <2>1, ReloadOne DEF ResumeTurn
<1>4. CASE Abort(l)
  <2>1. Place([loop[l] EXCEPT !.aborted = TRUE], durable) /\ [loop[l] EXCEPT !.aborted = TRUE].pc = loop[l].pc
    BY <1>t DEF LoopStates, Place
  <2> QED
    BY <1>4, <1>t, <2>1, MoveOne DEF Abort, Move
<1>5. CASE DriveAborted(l)
  BY <1>5, MoveOne, Failing DEF DriveAborted, Move
<1>6. CASE FinishTurn(l)
  <2> DEFINE event == [NoEvent EXCEPT !.type = "turn.finished", !.turn = loop[l].turn,
                                      !.outcome = PersistedReason(StopReason(loop[l].turn))]
  <2>1. DOMAIN event = DOMAIN NoEvent /\ event.type = "turn.finished"
    BY DEF NoEvent
  <2>2. \A s \in AState : Emitted(event, s) => Place(IdleLoop, s)
    BY DEF IdleLoop, Place, MayWait, Walking, InActiveStep
  <2> QED
    BY <1>6, <2>1, <2>2, EmitOne DEF FinishTurn
<1>7. CASE StartStep(l)
  <2> DEFINE index == (IF view[l].turn = None THEN 0 ELSE view[l].lastStep) + 1
             step  == <<loop[l].turn, index>>
             event == [NoEvent EXCEPT !.type = "step.started", !.turn = loop[l].turn,
                                      !.step = step, !.index = index]
             next == [loop[l] EXCEPT !.pc = "model", !.step = step, !.batch = <<>>, !.attempt = 1,
                                     !.via = "batch", !.failed = FALSE]
  <2>1. Emit(l, event, next) /\ loop[l].pc = "drive"
    BY <1>7 DEF StartStep
  <2> HIDE DEF step, index
  <2>2. DOMAIN event = DOMAIN NoEvent /\ event.type = "step.started" /\ event.step = step /\ event.turn = loop[l].turn
    BY DEF NoEvent
  <2>3. next.pc = "model" /\ next.asks = loop[l].asks /\ next.step = step
    BY <1>t DEF LoopStates
  <2> HIDE DEF event, next
  <2>4. \A s \in AState : Emitted(event, s) => s.asks = <<>> /\ s.turn # None /\ s.step = [turn |-> loop[l].turn, id |-> step]
    BY <1>t, <2>1, <2>2 DEF Emitted, Place, MayWait
  <2>5. \A s \in AState : Emitted(event, s) => Place(next, s)
    <3>1. [turn |-> loop[l].turn, id |-> step] # None
      <4>1. loop[l].turn \in Optional(Turns) /\ view[l].lastStep \in Int
        BY <1>t, Here DEF LoopStates, AState, SessionStates
      <4>2. index \in Int
        BY <4>1 DEF index
      <4>3. step \in Optional(Steps)
        BY <4>1, <4>2 DEF step, Steps, Optional
      <4> QED
        BY <4>1, <4>3 DEF NoneIsNoStep
    <3> QED
      BY <1>t, <2>1, <2>3, <2>4, <3>1 DEF Place, MayWait, Walking, InActiveStep
  <2> QED
    BY <2>1, <2>2, <2>5, EmitOne
<1> QED
  BY <1>1, <1>2, <1>3, <1>4, <1>5, <1>6, <1>7

(* callModel.                                                              *)
LEMMA ModelOne ==
  ASSUME Coherent, Coherent', OneAsk, NEW l, Loops = {l}, ModelPhase(l)
  PROVE  OneAsk'
<1>t. /\ loop[l] \in LoopStates /\ durable \in AState /\ Place(loop[l], durable)
      /\ loop[l].pc \notin {"idle", "closing"} => view[l] = durable
  BY Here
<1>1. CASE RequestModel(l)
  <2> DEFINE event == InStep(l, "model.request")
             next == Goto(l, "stream")
  <2>1. DOMAIN event = DOMAIN NoEvent /\ event.type = "model.request"
    BY EventDomains
  <2>2. \A s \in AState : Emitted(event, s) => Place(next, s)
    BY <1>1, <1>t, <2>1 DEF RequestModel, Emitted, Goto, LoopStates, Place, MayWait, Walking, InActiveStep
  <2> HIDE DEF event, next
  <2> QED
    BY <1>1, <2>1, <2>2, EmitOne DEF RequestModel, event, next
<1>2. CASE DiscardDeltas(l)
  <2> DEFINE fresh == [loop[l] EXCEPT !.pc = "stream", !.batch = <<>>]
             discarded(first, last) == [InStep(l, "model.attempt.discarded") EXCEPT
                                          !.from = log[first].seq, !.to = log[last].seq]
  <2>1. \A s \in AState : s.asks = <<>> /\ s.turn = durable.turn /\ s.step = durable.step => Place(fresh, s)
    BY <1>2, <1>t DEF DiscardDeltas, LoopStates, Place, MayWait, Walking, InActiveStep
  <2>2. loop[l].pc = "discard" /\ durable.asks = <<>>
    BY <1>2, <1>t DEF DiscardDeltas, Place, MayWait
  <2>3. fresh.pc = "stream"
    BY <1>t DEF LoopStates
  <2> HIDE DEF fresh
  <2>4. CASE Move(l, fresh)
    BY <2>4, <2>1, <2>2, <1>t, MoveOne DEF Move
  <2>5. ASSUME NEW first, NEW last, Emit(l, discarded(first, last), fresh) PROVE OneAsk'
    <3> DEFINE event == discarded(first, last)
    <3>1. DOMAIN event = DOMAIN NoEvent /\ event.type = "model.attempt.discarded"
      BY DEF InStep, NoEvent
    <3> HIDE DEF event
    <3>2. \A s \in AState : Emitted(event, s) => Place(fresh, s)
      BY <2>1, <2>2, <3>1 DEF Emitted
    <3>3. Emit(l, event, fresh)
      BY <2>5 DEF event
    <3> QED
      BY <2>2, <3>1, <3>2, <3>3, EmitOne
  <2> HIDE DEF discarded
  <2>6. Move(l, fresh) \/ \E first, last \in ActiveDeltas(loop[l].step) : Emit(l, discarded(first, last), fresh)
    BY <1>2 DEF DiscardDeltas, fresh, discarded
  <2> QED
    BY <2>4, <2>5, <2>6
<1>3. CASE StreamEnd(l)
  <2> DEFINE next == [loop[l] EXCEPT !.i = 1, !.pc = IF loop[l].batch = <<>> THEN "finish" ELSE "intents"]
  <2>1. Place(next, durable)
    BY <1>3, <1>t DEF StreamEnd, LoopStates, Place, MayWait, Walking, InActiveStep
  <2> QED
    BY <1>3, <1>t, <2>1, MoveOne DEF StreamEnd, Move
<1>4. CASE StreamFail(l)
  <2> DEFINE next == [loop[l] EXCEPT !.pc = "discard", !.attempt = @ + 1]
  <2>1. Place(next, durable)
    BY <1>4, <1>t DEF StreamFail, LoopStates, Place, MayWait, Walking, InActiveStep
  <2> QED
    BY <1>4, <1>t, <2>1, MoveOne, Failing DEF StreamFail, Move
<1>5. ASSUME NEW c \in CallIds, StreamCall(l, c) PROVE OneAsk'
  <2> DEFINE event == [InStep(l, "model.delta") EXCEPT !.call = c]
             next == [loop[l] EXCEPT !.batch = Append(@, c)]
  <2>1. DOMAIN event = DOMAIN NoEvent /\ event.type = "model.delta"
    BY DEF InStep, NoEvent
  <2>2. \A s \in AState : Emitted(event, s) => Place(next, s)
    BY <1>5, <1>t, <2>1 DEF StreamCall, Emitted, LoopStates, Place, MayWait, Walking, InActiveStep
  <2> HIDE DEF event, next
  <2> QED
    BY <1>5, <2>1, <2>2, EmitOne DEF StreamCall, event, next
<1> QED
  BY <1>1, <1>2, <1>3, <1>4, <1>5 DEF ModelPhase

(* Back from a call whose result is recorded: nothing is pending.          *)
LEMMA NextCallOne ==
  ASSUME NEW l, NEW f, NEW s, loop[l] \in LoopStates,
         loop[l].pc \in {"permission", "deny", "record", "feed"},
         Place(loop[l], durable),
         s.asks = <<>>, s.turn = durable.turn, s.step = durable.step
  PROVE  Place(NextCall(l, f), s)
<1> DEFINE r == loop[l]
<1>1. r.asks = <<>> /\ s.turn # None /\ s.step # None /\ r.step = s.step.id
  BY DEF Place, Walking, InActiveStep
<1>2. \E pc \in Pcs : NextCall(l, f).pc = pc /\ NextCall(l, f).asks = r.asks /\ NextCall(l, f).step = r.step
  BY DEF NextCall, LoopStates, Pcs
<1> QED
  BY <1>1, <1>2 DEF Place, Walking

(* The tool batch, the end of a step and its maintenance.                  *)
LEMMA ToolOne ==
  ASSUME Coherent, Coherent', OneAsk, NEW l, Loops = {l},
         ToolPhase(l) \/ FinishStep(l) \/ Maintain(l)
  PROVE  OneAsk'
<1>t. /\ loop[l] \in LoopStates /\ durable \in AState /\ Place(loop[l], durable)
      /\ loop[l].pc \notin {"idle", "closing"} => view[l] = durable
  BY Here
<1>r. ASSUME NEW outcome, NEW next, Emit(l, ToolResult(l, outcome), next),
             loop[l].pc \in {"permission", "deny", "record", "feed"},
             next \in {NextCall(l, TRUE), NextCall(l, FALSE), Failed(l)}
      PROVE  OneAsk'
  <2> DEFINE event == ToolResult(l, outcome)
  <2>1. DOMAIN event = DOMAIN NoEvent /\ event.type = "tool.result"
    BY EventDomains
  <2>2. \A s \in AState : Emitted(event, s) => Place(next, s)
    <3> SUFFICES ASSUME NEW s \in AState, Emitted(event, s) PROVE Place(next, s)
      OBVIOUS
    <3>1. s.asks = <<>> /\ s.turn = durable.turn /\ s.step = durable.step
      BY <1>r, <1>t, <2>1 DEF Emitted, Place, MayWait
    <3> QED
      BY <1>r, <1>t, <3>1, NextCallOne, Failing
  <2> HIDE DEF event
  <2>3. Emit(l, event, next) /\ loop[l].pc \notin MayWait /\ loop[l].pc \notin {"idle", "closing"}
    BY <1>r DEF event, MayWait
  <2> QED
    BY <2>1, <2>2, <2>3, EmitOne
<1>1. CASE RecordIntent(l)
  <2> DEFINE i == loop[l].i
             event == [InStep(l, "tool.call") EXCEPT !.call = loop[l].batch[i]]
             next == IF i < Len(loop[l].batch) THEN [loop[l] EXCEPT !.i = i + 1]
                     ELSE [loop[l] EXCEPT !.pc = "permission", !.i = 1, !.call = loop[l].batch[1]]
  <2>1. DOMAIN event = DOMAIN NoEvent /\ event.type = "tool.call"
    BY DEF InStep, NoEvent
  <2>2. loop[l].pc = "intents" /\ Emit(l, event, next)
    BY <1>1 DEF RecordIntent
  <2>3. next.pc \in {"intents", "permission"} /\ next.asks = loop[l].asks /\ next.step = loop[l].step
    BY <1>t, <2>2 DEF LoopStates
  <2> HIDE DEF event, next
  <2>4. \A s \in AState : Emitted(event, s) => Place(next, s)
    BY <1>t, <2>1, <2>2, <2>3 DEF Emitted, Place, MayWait, Walking, InActiveStep
  <2> QED
    BY <2>1, <2>2, <2>4, EmitOne DEF InActiveStep
<1>2. CASE RejectUnregistered(l)
  BY <1>2, <1>r DEF RejectUnregistered
<1>3. CASE RequestPermission(l)
  <2> DEFINE event == ForRequest(l, "permission.requested")
             next == Goto(l, "ask")
  <2>1. DOMAIN event = DOMAIN NoEvent /\ event.type = "permission.requested" /\ event.call = loop[l].call
    BY EventDomains
  <2>2. loop[l].call # None
    BY <1>3, LoopAssumption DEF RequestPermission
  <2> HIDE DEF event
  <2>3. \A s \in AState : Emitted(event, s) => Place(next, s)
    BY <1>3, <1>t, <2>1 DEF RequestPermission, Emitted, Goto, LoopStates, Place, MayWait, Walking, InActiveStep
  <2> HIDE DEF next
  <2>4. loop[l].pc = "permission" /\ Emit(l, event, next)
    BY <1>3 DEF RequestPermission, event, next
  <2> QED
    BY <2>1, <2>2, <2>3, <2>4, EmitOne DEF MayWait, InActiveStep
<1>4. ASSUME NEW d \in {"allow", "deny"}, ResolvePermission(l, d) PROVE OneAsk'
  <2> DEFINE event == [ForRequest(l, "permission.resolved") EXCEPT !.decision = d]
             next == [loop[l] EXCEPT !.pc = IF d = "allow" THEN "run" ELSE "deny", !.attempt = 1]
  <2>1. DOMAIN event = DOMAIN NoEvent /\ event.type = "permission.resolved"
    BY DEF ForRequest, ForCall, InStep, NoEvent
  <2>2. loop[l].pc = "ask" /\ Emit(l, event, next)
    BY <1>4 DEF ResolvePermission
  <2>3. next.pc \in {"run", "deny"} /\ next.asks = loop[l].asks /\ next.step = loop[l].step
    BY <1>t DEF LoopStates
  <2> HIDE DEF event, next
  <2>4. \A s \in AState : Emitted(event, s) => Place(next, s)
    BY <1>t, <2>1, <2>2, <2>3 DEF Emitted, Place, MayWait, Walking, InActiveStep
  <2> QED
    BY <2>1, <2>2, <2>4, EmitOne
<1>5. CASE RecordDenial(l)
  BY <1>5, <1>r DEF RecordDenial
<1>6. CASE RunTool(l)
  <2>1. \E next :
          /\ loop' = [loop EXCEPT ![l] = next]
          /\ \/ next = Failed(l)
             \/ /\ next.pc \in {"record", "run", "feed"}
                /\ next.asks = loop[l].asks /\ next.step = loop[l].step
    <3> DEFINE Same(next) == next.asks = loop[l].asks /\ next.step = loop[l].step
    <3>1. ASSUME NEW outcome PROVE LET next == [loop[l] EXCEPT !.pc = "record", !.outcome = outcome]
                                   IN  next.pc = "record" /\ Same(next)
      BY <1>t DEF LoopStates
    <3>2. ASSUME NEW action PROVE LET next == [loop[l] EXCEPT !.pc = "feed", !.action = action]
                                  IN  next.pc = "feed" /\ Same(next)
      BY <1>t DEF LoopStates
    <3>3. LET next == [loop[l] EXCEPT !.attempt = @ + 1] IN next.pc = "run" /\ Same(next)
      BY <1>6, <1>t DEF RunTool, LoopStates
    <3>4. CASE \E outcome \in {"succeeded", "failed"} :
                 loop' = [loop EXCEPT ![l] = [loop[l] EXCEPT !.pc = "record", !.outcome = outcome]]
      <4> PICK outcome : loop' = [loop EXCEPT ![l] = [loop[l] EXCEPT !.pc = "record", !.outcome = outcome]]
        BY <3>4
      <4> DEFINE next == [loop[l] EXCEPT !.pc = "record", !.outcome = outcome]
      <4>1. loop' = [loop EXCEPT ![l] = next] /\ next.pc = "record" /\ Same(next)
        BY <3>1
      <4> HIDE DEF next
      <4> QED
        BY <4>1
    <3>5. CASE \E action \in {"feed-back", "fail-turn", ToolExhausted} :
                 loop' = [loop EXCEPT ![l] = [loop[l] EXCEPT !.pc = "feed", !.action = action]]
      <4> PICK action : loop' = [loop EXCEPT ![l] = [loop[l] EXCEPT !.pc = "feed", !.action = action]]
        BY <3>5
      <4> DEFINE next == [loop[l] EXCEPT !.pc = "feed", !.action = action]
      <4>1. loop' = [loop EXCEPT ![l] = next] /\ next.pc = "feed" /\ Same(next)
        BY <3>2
      <4> HIDE DEF next
      <4> QED
        BY <4>1
    <3>6. CASE loop' = [loop EXCEPT ![l].attempt = @ + 1]
      <4>1. loop' = [loop EXCEPT ![l] = [loop[l] EXCEPT !.attempt = @ + 1]]
        BY <3>6
      <4> QED
        BY <4>1, <3>3
    <3>7. CASE loop' = [loop EXCEPT ![l] = Failed(l)]
      BY <3>7
    <3> HIDE DEF Same
    <3> QED
      BY <1>6, <3>4, <3>5, <3>6, <3>7 DEF RunTool
  <2>2. PICK next :
          /\ loop' = [loop EXCEPT ![l] = next]
          /\ \/ next = Failed(l)
             \/ /\ next.pc \in {"record", "run", "feed"}
                /\ next.asks = loop[l].asks /\ next.step = loop[l].step
    BY <2>1
  <2>3. loop[l].pc = "run" /\ UNCHANGED <<log, durable, view>>
    BY <1>6 DEF RunTool
  <2>4. Place(next, durable)
    BY <1>t, <2>2, <2>3, Failing DEF Place, MayWait, Walking, InActiveStep
  <2> QED
    BY <1>t, <2>2, <2>3, <2>4, MoveOne
<1>7. CASE RecordResult(l)
  BY <1>7, <1>r DEF RecordResult
<1>8. CASE RecordFailure(l)
  BY <1>8, <1>r DEF RecordFailure
<1>9. CASE FinishStep(l)
  <2> DEFINE event == [InStep(l, "step.finished") EXCEPT !.turn = loop[l].step[1],
                         !.outcome = IF loop[l].failed THEN "failed" ELSE "succeeded"]
             next == Goto(l, IF loop[l].via = "calls" /\ At("tool.call", loop[l].step) = {}
                             THEN "drive" ELSE "compact")
  <2>1. DOMAIN event = DOMAIN NoEvent /\ event.type = "step.finished"
    BY DEF InStep, NoEvent
  <2>2. loop[l].pc = "finish" /\ Emit(l, event, next)
    BY <1>9 DEF FinishStep
  <2>3. next.pc \in {"drive", "compact"} /\ next.asks = loop[l].asks
    BY <1>t DEF Goto, LoopStates
  <2> HIDE DEF event, next
  <2>4. \A s \in AState : Emitted(event, s) => Place(next, s)
    BY <1>t, <2>1, <2>2, <2>3 DEF Emitted, Place, MayWait, Walking, InActiveStep
  <2> QED
    BY <2>1, <2>2, <2>4, EmitOne
<1>10. CASE Maintain(l)
  <2> DEFINE next == Goto(l, IF loop[l].pc = "compact" THEN "checkpoint" ELSE "drive")
             type == MaintenanceTypes[loop[l].pc]
             event == [NoEvent EXCEPT !.type = type]
  <2>1. next.pc \in {"checkpoint", "drive"} /\ next.asks = loop[l].asks
    BY <1>t DEF Goto, LoopStates
  <2>2. /\ loop[l].pc \in {"compact", "checkpoint"}
        /\ Move(l, next) \/ (type \in {"compaction.applied", "checkpoint.created"} /\ Emit(l, event, next))
    BY <1>10, LoopAssumption DEF Maintain
  <2>3. DOMAIN event = DOMAIN NoEvent /\ event.type = type
    BY DEF NoEvent
  <2> HIDE DEF next, type, event
  <2>4. Place(next, durable)
    BY <1>t, <2>1, <2>2 DEF Place, MayWait, Walking, InActiveStep
  <2>5. ASSUME type \in {"compaction.applied", "checkpoint.created"}, Emit(l, event, next) PROVE OneAsk'
    <3>1. \A s \in AState : Emitted(event, s) => Place(next, s)
      BY <1>t, <2>1, <2>2, <2>3, <2>5 DEF Emitted, Place, MayWait, Walking, InActiveStep
    <3> QED
      BY <2>2, <2>3, <2>5, <3>1, EmitOne
  <2> QED
    BY <1>t, <2>1, <2>2, <2>4, <2>5, MoveOne DEF Move
<1> QED
  BY <1>1, <1>2, <1>3, <1>4, <1>5, <1>6, <1>7, <1>8, <1>9, <1>10 DEF ToolPhase

(* A sequence of one element.                                              *)
LEMMA Single ==
  ASSUME NEW S, NEW seq \in Seq(S), seq # <<>>, Len(seq) <= 1
  PROVE  /\ Len(seq) = 1 /\ 1 \in DOMAIN seq
         /\ Head(seq) = seq[1] /\ Tail(seq) = <<>>
<1>1. Len(seq) = 1 /\ DOMAIN seq = 1..1
  <2>1. Len(seq) \in Nat /\ Len(seq) # 0 /\ DOMAIN seq = 1..Len(seq)
    BY LenProperties, EmptySeq
  <2> QED
    BY <2>1
<1>2. Head(seq) = seq[1] /\ Tail(seq) \in Seq(S) /\ Len(Tail(seq)) = 0
  BY <1>1, HeadTailProperties
<1>3. Tail(seq) = <<>>
  BY <1>2, EmptySeq
<1>4. 1 \in 1..1
  OBVIOUS
<1> QED
  BY <1>1, <1>2, <1>3, <1>4

(* recoverActiveStep.                                                      *)
LEMMA RecoveryOne ==
  ASSUME Coherent, Coherent', OneAsk, NEW l, Loops = {l}, RecoveryPhase(l)
  PROVE  OneAsk'
<1>t. /\ loop[l] \in LoopStates /\ durable \in AState /\ Place(loop[l], durable) /\ PendingInStep
      /\ loop[l].pc \notin {"idle", "closing"} => view[l] = durable
      /\ OneApprovalAtATime
  BY Here DEF OneAsk
<1>1. CASE Recover(l)
  <2> DEFINE step == durable.step.id
             here == [loop[l] EXCEPT !.step = step]
             missing == [here EXCEPT !.pc = "reconcile", !.missing = MissingIntents(step)]
             model == [here EXCEPT !.pc = IF At("model.request", step) # {} THEN "discard" ELSE "model"]
             next == IF durable.turn = None \/ durable.step = None THEN Goto(l, "drive")
                     ELSE IF At("tool.call", step) # {} THEN missing ELSE model
  <2>1. loop[l].pc = "recover" /\ loop[l].asks = <<>>
    BY <1>1, <1>t DEF Recover, Place, Walking
  <2>2. ASSUME durable.turn = None \/ durable.step = None PROVE Place(next, durable)
    <3>1. durable.asks = <<>>
      BY <2>2, <1>t DEF PendingInStep
    <3>2. Place(Goto(l, "drive"), durable)
      BY <2>1, <3>1, <1>t DEF Goto, LoopStates, Place, MayWait, Walking, InActiveStep
    <3> QED
      BY <2>2, <3>2
  <2>3. ASSUME durable.turn # None, durable.step # None, At("tool.call", step) # {}
        PROVE  Place(next, durable)
    <3>1. Place(missing, durable)
      BY <2>1, <2>3, <1>t DEF LoopStates, Place, MayWait, Walking, InActiveStep
    <3> QED
      BY <2>3, <3>1
  <2>4. ASSUME durable.turn # None, durable.step # None, At("tool.call", step) = {}
        PROVE  Place(next, durable)
    <3>1. durable.asks = <<>>
      BY <2>4, <1>t DEF PendingInStep
    <3>2. model.pc \in {"discard", "model"} /\ model.asks = loop[l].asks /\ model.step = step
      BY <1>t DEF LoopStates
    <3> HIDE DEF model
    <3>3. Place(model, durable)
      BY <2>1, <2>4, <3>1, <3>2 DEF Place, MayWait, Walking, InActiveStep
    <3> QED
      BY <2>4, <3>3
  <2>5. Place(next, durable)
    BY <2>2, <2>3, <2>4
  <2> HIDE DEF next
  <2>6. loop' = [loop EXCEPT ![l] = next] /\ Reload(l) /\ UNCHANGED <<log, durable>>
    BY <1>1 DEF Recover, next
  <2> QED
    BY <2>5, <2>6, ReloadOne
<1>2. CASE ReconcileIntent(l)
  <2> DEFINE event(i) == [InStep(l, "tool.call") EXCEPT !.call = log[i].call]
             next(i) == [loop[l] EXCEPT !.missing = @ \ {i}]
  <2>1. PICK i : Move(l, Failed(l)) \/ Emit(l, event(i), next(i))
    BY <1>2 DEF ReconcileIntent
  <2>2. loop[l].pc = "reconcile"
    BY <1>2 DEF ReconcileIntent
  <2>3. DOMAIN event(i) = DOMAIN NoEvent /\ event(i).type = "tool.call"
    BY DEF InStep, NoEvent
  <2>4. next(i).pc = "reconcile" /\ next(i).asks = loop[l].asks /\ next(i).step = loop[l].step
    BY <1>t, <2>2 DEF LoopStates
  <2> HIDE DEF event, next
  <2>5. \A s \in AState : Emitted(event(i), s) => Place(next(i), s)
    BY <1>t, <2>2, <2>3, <2>4 DEF Emitted, Place, MayWait, Walking, InActiveStep
  <2>6. CASE Move(l, Failed(l))
    BY <2>6, MoveOne, Failing DEF Move
  <2>7. CASE Emit(l, event(i), next(i))
    BY <2>7, <2>2, <2>3, <2>5, EmitOne DEF InActiveStep
  <2> QED
    BY <2>1, <2>6, <2>7
<1>3. CASE RecoverAsks(l)
  <2> DEFINE next == [loop[l] EXCEPT !.pc = "recoverAsks", !.via = "asks", !.asks = durable.asks]
  <2>1. Place(next, durable)
    BY <1>3, <1>t DEF RecoverAsks, LoopStates, Place, MayWait, Walking, InActiveStep
  <2> QED
    BY <1>3, <2>1, ReloadOne DEF RecoverAsks
<1>4. ASSUME NEW d \in {"allow", "deny"}, RecoverAsk(l, d) PROVE OneAsk'
  <2> DEFINE ask == Head(loop[l].asks)
             event == [InStep(l, "permission.resolved") EXCEPT !.call = ask.call, !.req = ask.req, !.decision = d]
             here == [loop[l] EXCEPT !.asks = Tail(@), !.call = ask.call, !.attempt = 1]
             next == [here EXCEPT !.pc = IF d = "allow" THEN "run" ELSE "deny"]
  <2>1. loop[l].pc = "recoverAsks" /\ loop[l].asks = durable.asks /\ durable.asks # <<>> /\ view[l] = durable
    BY <1>4, <1>t DEF RecoverAsk, Place, Walking
  <2>2. durable.asks \in Seq(PendingAsks(Steps, CallIds)) /\ Len(durable.asks) = 1 /\ 1 \in DOMAIN durable.asks
    <3>1. durable.asks \in Seq(PendingAsks(Steps, CallIds))
      BY <1>t DEF AState, SessionStates
    <3> QED
      BY <2>1, <3>1, <1>t, Single DEF OneApprovalAtATime
  <2>3. ask = durable.asks[1] /\ Tail(loop[l].asks) = <<>>
    BY <2>1, <2>2, <1>t, Single DEF OneApprovalAtATime
  <2>4. PendingCall(view[l], ask.call)
    BY <2>1, <2>2, <2>3, <1>t DEF PendingInStep
  <2>5. Emit(l, event, next)
    BY <1>4, <2>4 DEF RecoverAsk
  <2>6. DOMAIN event = DOMAIN NoEvent /\ event.type = "permission.resolved"
    BY DEF InStep, NoEvent
  <2>7. next.pc \in {"run", "deny"} /\ next.asks = <<>> /\ next.step = loop[l].step
    BY <1>t, <2>3 DEF LoopStates
  <2> HIDE DEF event, next
  <2>8. \A s \in AState : Emitted(event, s) => Place(next, s)
    BY <1>t, <2>1, <2>6, <2>7 DEF Emitted, Place, MayWait, Walking, InActiveStep
  <2> QED
    BY <2>1, <2>5, <2>6, <2>8, EmitOne
<1>5. CASE RecoverCalls(l)
  <2> DEFINE next == [loop[l] EXCEPT !.pc = "recoverCalls", !.via = "calls", !.calls = durable.calls]
  <2>1. Place(next, durable)
    BY <1>5, <1>t DEF RecoverCalls, LoopStates, Place, MayWait, Walking, InActiveStep
  <2> QED
    BY <1>5, <2>1, ReloadOne DEF RecoverCalls
<1>6. CASE ReloadAfterCall(l)
  <2>1. Place(Goto(l, "recoverCalls"), durable)
    BY <1>6, <1>t DEF ReloadAfterCall, Goto, LoopStates, Place, MayWait, Walking, InActiveStep
  <2> QED
    BY <1>6, <2>1, ReloadOne DEF ReloadAfterCall
<1>7. CASE RecoverCall(l)
  <2> DEFINE here == [loop[l] EXCEPT !.calls = Tail(@), !.call = Head(loop[l].calls).call,
                                     !.step = view[l].step.id, !.action = "feed-back"]
  <2>1. loop[l].pc = "recoverCalls"
    BY <1>7 DEF RecoverCall
  <2>2. \E next : Move(l, next) /\ \/ next = Failed(l)
                                   \/ /\ next.pc \in {"feed", "permission", "deny", "run"}
                                      /\ next.asks = loop[l].asks /\ next.step = view[l].step.id
    <3> DEFINE Right(next) == /\ next.pc \in {"feed", "permission", "deny", "run"}
                              /\ next.asks = loop[l].asks /\ next.step = view[l].step.id
    <3>1. \A pc \in {"feed", "permission", "deny"} : Right([here EXCEPT !.pc = pc])
      BY <1>t DEF LoopStates
    <3>2. Right([here EXCEPT !.pc = "run", !.attempt = 2])
      BY <1>t DEF LoopStates
    <3>3. \/ Move(l, Failed(l)) \/ Move(l, [here EXCEPT !.pc = "run", !.attempt = 2])
          \/ \E pc \in {"feed", "permission", "deny"} : Move(l, [here EXCEPT !.pc = pc])
      BY <1>7 DEF RecoverCall
    <3> HIDE DEF Right, here
    <3>4. \E next : Move(l, next) /\ (next = Failed(l) \/ Right(next))
      BY <3>1, <3>2, <3>3
    <3> QED
      BY <3>4 DEF Right
  <2>3. PICK next : Move(l, next) /\ \/ next = Failed(l)
                                     \/ /\ next.pc \in {"feed", "permission", "deny", "run"}
                                        /\ next.asks = loop[l].asks /\ next.step = view[l].step.id
    BY <2>2
  <2>4. Place(next, durable)
    BY <1>t, <2>1, <2>3, Failing DEF Place, MayWait, Walking, InActiveStep
  <2> QED
    BY <1>t, <2>1, <2>3, <2>4, MoveOne DEF Move
<1>8. CASE RecoverFinish(l)
  <2> DEFINE step == durable.step.id
             failed == \/ ResultsOf(step) \cap {"denied", "error"} # {}
                       \/ At("tool.call", step) = {}
             next == IF durable.step = None THEN Goto(l, "drive")
                     ELSE [loop[l] EXCEPT !.pc = "finish", !.step = step, !.failed = failed]
  <2>1. loop[l].pc = "recoverCalls" /\ Reload(l) /\ loop' = [loop EXCEPT ![l] = next]
        /\ UNCHANGED <<log, durable>>
    BY <1>8 DEF RecoverFinish
  <2>2. durable.asks = <<>> /\ durable.turn # None /\ durable.step # None /\ loop[l].asks = <<>>
    BY <1>t, <2>1 DEF Place, MayWait, Walking, InActiveStep
  <2> HIDE DEF failed
  <2>3. next.pc = "finish" /\ next.asks = loop[l].asks /\ next.step = step
    BY <1>t, <2>2 DEF LoopStates
  <2> HIDE DEF next
  <2>4. Place(next, durable)
    BY <2>2, <2>3 DEF Place, MayWait, Walking, InActiveStep
  <2> QED
    BY <2>1, <2>4, ReloadOne
<1> QED
  BY <1>1, <1>2, <1>3, <1>4, <1>5, <1>6, <1>7, <1>8 DEF RecoveryPhase

(* closeAfterFailure.                                                      *)
LEMMA CloseOne ==
  ASSUME Coherent, Coherent', OneAsk, NEW l, Loops = {l}, ClosePhase(l)
  PROVE  OneAsk'
<1>t. /\ loop[l] \in LoopStates /\ durable \in AState /\ Place(loop[l], durable) /\ PendingInStep
      /\ loop[l].pc \notin {"idle", "closing"} => view[l] = durable
      /\ OneApprovalAtATime
  BY Here DEF OneAsk
<1>i. \A s \in AState : Place(IdleLoop, s)
  BY DEF IdleLoop, Place, MayWait, Walking, InActiveStep
<1>1. CASE CloseReload(l)
  <2> DEFINE asks == [loop[l] EXCEPT !.pc = "closeAsks", !.asks = durable.asks]
             calls == [loop[l] EXCEPT !.pc = "closeCalls", !.calls = durable.calls]
             next == CASE loop[l].pc = "closing"    -> asks
                       [] loop[l].pc = "closeAsks"  -> calls
                       [] loop[l].pc = "closeCalls" -> Goto(l, "closeStep")
                       [] OTHER                     -> Goto(l, "closeTurn")
  <2>1. /\ Reload(l) /\ loop' = [loop EXCEPT ![l] = next] /\ UNCHANGED <<log, durable>>
        /\ loop[l].pc \in {"closing", "closeAsks", "closeCalls", "closeStep"}
        /\ loop[l].pc = "closeAsks" => loop[l].asks = <<>>
    BY <1>1 DEF CloseReload
  <2>2. CASE loop[l].pc = "closing"
    <3>1. Place(asks, durable)
      BY <2>2, <1>t DEF LoopStates, Place, MayWait, Walking, InActiveStep
    <3> QED
      BY <2>2, <3>1, <2>1, ReloadOne
  <2>3. CASE loop[l].pc # "closing"
    <3>1. loop[l].asks = <<>> /\ durable.asks = <<>>
      BY <2>1, <2>3, <1>t DEF Place, MayWait, Walking
    <3>2. next.pc \in {"closeCalls", "closeStep", "closeTurn"} /\ next.asks = loop[l].asks
      BY <1>t, <2>1, <2>3 DEF Goto, LoopStates
    <3> HIDE DEF next
    <3>3. Place(next, durable)
      BY <3>1, <3>2 DEF Place, MayWait, Walking, InActiveStep
    <3> QED
      BY <3>3, <2>1, ReloadOne
  <2> QED
    BY <2>2, <2>3
<1>2. CASE CloseAsk(l)
  <2> DEFINE ask == Head(loop[l].asks)
             event == [NoEvent EXCEPT !.type = "permission.resolved", !.req = ask.req, !.step = ask.step,
                                      !.call = ask.call, !.decision = "deny"]
             next == [loop[l] EXCEPT !.asks = Tail(@)]
  <2>1. loop[l].pc = "closeAsks" /\ loop[l].asks = durable.asks /\ durable.asks # <<>> /\ Emit(l, event, next)
    BY <1>2, <1>t DEF CloseAsk, Place, Walking
  <2>2. Tail(loop[l].asks) = <<>>
    <3>1. durable.asks \in Seq(PendingAsks(Steps, CallIds))
      BY <1>t DEF AState, SessionStates
    <3> QED
      BY <2>1, <3>1, <1>t, Single DEF OneApprovalAtATime
  <2>3. DOMAIN event = DOMAIN NoEvent /\ event.type = "permission.resolved"
    BY DEF NoEvent
  <2>4. next.pc = "closeAsks" /\ next.asks = <<>>
    BY <1>t, <2>1, <2>2 DEF LoopStates
  <2> HIDE DEF event, next
  <2>5. \A s \in AState : Emitted(event, s) => Place(next, s)
    BY <2>3, <2>4 DEF Emitted, Place, MayWait, Walking, InActiveStep
  <2> QED
    BY <2>1, <2>3, <2>5, EmitOne
<1>3. CASE CloseCall(l)
  <2> DEFINE call == Head(loop[l].calls)
             event == [NoEvent EXCEPT !.type = "tool.result", !.call = call.call, !.step = call.step,
                                      !.outcome = "error"]
             next == [loop[l] EXCEPT !.calls = Tail(@)]
  <2>1. loop[l].pc = "closeCalls" /\ Emit(l, event, next)
    BY <1>3 DEF CloseCall
  <2>2. DOMAIN event = DOMAIN NoEvent /\ event.type = "tool.result"
    BY DEF NoEvent
  <2>3. next.pc = "closeCalls" /\ next.asks = loop[l].asks
    BY <1>t, <2>1 DEF LoopStates
  <2> HIDE DEF event, next
  <2>4. \A s \in AState : Emitted(event, s) => Place(next, s)
    BY <1>t, <2>1, <2>2, <2>3 DEF Emitted, Place, MayWait, Walking, InActiveStep
  <2> QED
    BY <2>1, <2>2, <2>4, EmitOne DEF MayWait
<1>4. CASE CloseStep(l)
  <2> DEFINE event == [NoEvent EXCEPT !.type = "step.finished", !.turn = view[l].step.turn,
                                      !.step = view[l].step.id, !.outcome = loop[l].outcome]
  <2>1. loop[l].pc = "closeStep" /\ Emit(l, event, loop[l])
    BY <1>4 DEF CloseStep
  <2>2. DOMAIN event = DOMAIN NoEvent /\ event.type = "step.finished"
    BY DEF NoEvent
  <2> HIDE DEF event
  <2>3. \A s \in AState : Emitted(event, s) => Place(loop[l], s)
    BY <1>t, <2>1, <2>2 DEF Emitted, Place, MayWait, Walking, InActiveStep
  <2> QED
    BY <2>1, <2>2, <2>3, EmitOne
<1>5. CASE CloseTurn(l)
  <2> DEFINE event == [NoEvent EXCEPT !.type = "turn.finished", !.turn = view[l].turn,
                                      !.outcome = loop[l].outcome]
  <2>1. DOMAIN event = DOMAIN NoEvent /\ event.type = "turn.finished"
    BY DEF NoEvent
  <2>2. IdleLoop.pc = "idle"
    BY DEF IdleLoop
  <2>3. loop[l].pc = "closeTurn" /\ (Move(l, IdleLoop) \/ Emit(l, event, IdleLoop))
    BY <1>5 DEF CloseTurn
  <2> HIDE DEF event
  <2> QED
    BY <1>i, <1>t, <2>1, <2>2, <2>3, MoveOne, EmitOne DEF Move
<1> QED
  BY <1>1, <1>2, <1>3, <1>4, <1>5 DEF ClosePhase

-----------------------------------------------------------------------------
(* The specification.                                                      *)

LEMMA InitOne == Init /\ Coherent => OneAsk
<1> SUFFICES ASSUME Init, Coherent PROVE OneAsk
  OBVIOUS
<1>1. durable.asks = <<>> /\ durable.calls = <<>> /\ \A l \in Loops : loop[l] = IdleLoop
  BY DEF Init, EmptyState
<1>2. Len(<<>>) = 0 /\ DOMAIN <<>> = {}
  OBVIOUS
<1>3. \A l \in Loops : Place(loop[l], durable) /\ Informed(l)
  BY <1>1 DEF IdleLoop, Place, MayWait, Walking, InActiveStep, Informed
<1> QED
  BY <1>1, <1>2, <1>3 DEF OneAsk, OneApprovalAtATime, PendingInStep

LEMMA NextOne ==
  ASSUME NEW l, Loops = {l}, NoneIsNoStep, Coherent, Coherent', OneAsk, [Next]_vars
  PROVE  OneAsk'
<1>1. CASE UNCHANGED vars
  BY <1>1 DEF vars, OneAsk, OneApprovalAtATime, PendingInStep, At, PendingCall, Informed
<1>2. CASE PortFails(l)
  BY <1>2, MoveOne, Failing DEF PortFails
<1>3. CASE Crash(l)
  <2>1. loop'[l] = IdleLoop /\ UNCHANGED <<log, durable>>
    BY <1>3 DEF Crash, Coherent, TypeOK
  <2>2. Place(loop'[l], durable') /\ Informed(l)'
    BY <2>1 DEF IdleLoop, Place, MayWait, Walking, InActiveStep, Informed
  <2> QED
    BY <2>1, <2>2 DEF OneAsk, OneApprovalAtATime, PendingInStep, At, PendingCall
<1>4. CASE RunTurn(l) \/ ResumeTurn(l) \/ Proceed(l) \/ Abort(l)
  BY <1>4, DriveOne, ModelOne, ToolOne, RecoveryOne, CloseOne DEF Proceed
<1> QED
  BY <1>1, <1>2, <1>3, <1>4 DEF Next

(* With one replica a session waits for at most one approval, so one reqId *)
(* identifies what it waits for: whatever crash, lost acknowledgement or   *)
(* failure came between a request and its resolution, recovery and closing *)
(* answer what is pending before anything else is asked.                   *)
THEOREM OneReplicaOneApproval ==
  ASSUME NEW l, Loops = {l}, NoneIsNoStep
  PROVE  Spec => []OneApprovalAtATime
<1>1. Coherent /\ OneAsk /\ [Next]_vars => Coherent' /\ OneAsk'
  BY NextCoherent, NextOne
<1>2. Init => Coherent /\ OneAsk
  BY InitCoherent, InitOne
<1>3. OneAsk => OneApprovalAtATime
  BY DEF OneAsk
<1> QED
  BY <1>1, <1>2, <1>3, PTL DEF Spec
=============================================================================
