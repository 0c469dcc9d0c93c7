--------------------------- MODULE Parts_proofs ---------------------------
(***************************************************************************)
(* Proofs about the components that stand alone, for any of their bounds:  *)
(* the cost of a turn, the steering queue, the spans of a turn and their   *)
(* export, the prompts, the recording of a model, and the output of a      *)
(* command.                                                                *)
(***************************************************************************)
EXTENDS Steering, SequenceTheorems, FiniteSetTheorems, WellFoundedInduction, TLAPS

-----------------------------------------------------------------------------
(* The cost of a turn.                                                     *)
CONSTANTS None, Bound   \* see Components
CONSTANTS Loops, Currencies   \* see CostAccounting

VARIABLES acting, costLog, costPc, head, costUsage, seeded, costLost, costFails, costCrashes

Cost == INSTANCE CostAccounting WITH
  log <- costLog, pc <- costPc, usage <- costUsage, lost <- costLost,
  fails <- costFails, crashes <- costCrashes, MaxTurns <- Bound.cost.turns,
  MaxSteps <- Bound.cost.steps, MaxLost <- Bound.cost.lost,
  MaxFails <- Bound.cost.fails, MaxCrashes <- Bound.cost.crashes

costVars == <<acting, costLog, costPc, head, costUsage, seeded, costLost, costFails, costCrashes>>

CostBound == Bound.cost.turns \in Nat /\ Bound.cost.steps \in Nat /\ None \notin Nat

Prefix(h) == SubSeq(costLog, 1, h)
Number(t) == Cardinality(Cost!StepsOf(costLog, t))

EventType ==
  [type : {"turn.started"}, turn : Cost!Turns] \cup [type : {"step.finished"}, turn : Cost!Turns, currency : Currencies]
    \cup [type : {"turn.finished"}, turn : Cost!Turns, usage : Nat]

CostTypes ==
  /\ acting \subseteq Loops /\ costLog \in Seq(EventType) /\ costLost \in Nat
  /\ costPc \in [Loops -> {"idle", "seed", "drive", "close", "closing"}]
  /\ head \in [Loops -> Nat] /\ \A l \in Loops : head[l] <= Len(costLog)
  /\ costUsage \in [Loops -> [Cost!Turns -> [steps : Nat, currency : Currencies \cup {None}]]]
  /\ seeded \in [Loops -> Cost!Turns \cup {None}]

(* Turns are numbered as they start, and only the last one can be open.    *)
Shaped(entries) ==
  \E k \in 0..Bound.cost.turns :
    Cost!TurnsIn(entries) = 1..k /\ \A t \in 1..k : t < k => Cost!IsClosed(entries, t)

LogShaped == \A h \in 0..Len(costLog) : Shaped(Prefix(h))

(* A replica has seen the turn it seeded, and drives that turn.            *)
Remembers(l) ==
  /\ seeded[l] # None => seeded[l] \in Cost!TurnsIn(Cost!Known(l))
  /\ costPc[l] = "drive" => Cost!Open(Cost!Known(l)) = {seeded[l]}

(* The steps of a turn that differ in their currency.                      *)
Mixed(t) == \E i, j \in Cost!StepsOf(costLog, t) : costLog[i].currency # costLog[j].currency

(* A seed that threw: the turn cannot be resumed until another replica     *)
(* closes it.                                                              *)
SeedThrew(l, t) ==
  /\ Mixed(t) /\ costPc[l] \in {"idle", "seed"} /\ seeded[l] # t /\ t \in Cost!TurnsIn(costLog)
  /\ costPc[l] = "seed" => t \in Cost!TurnsIn(Cost!Known(l))

UsageFits(l, t) ==
  \/ costUsage[l][t] = Cost!EmptyUsage
  \/ Cost!IsClosed(costLog, t)
  \/ seeded[l] = t /\ costUsage[l][t].steps <= Number(t)
  \/ SeedThrew(l, t)

OfSteps(l, t) ==
  costUsage[l][t].currency # None =>
    \E i \in Cost!StepsOf(costLog, t) : costLog[i].currency = costUsage[l][t].currency

StepsUntil(i) == Cardinality(Cost!StepsOf(Prefix(i), costLog[i].turn))

NoneTwice ==
  /\ \A t \in Cost!Turns : Number(t) <= Bound.cost.steps
  /\ \A l \in Loops : Remembers(l) /\ \A t \in Cost!Turns : UsageFits(l, t) /\ OfSteps(l, t)
  /\ \A i \in DOMAIN costLog : costLog[i].type = "turn.finished" => costLog[i].usage <= StepsUntil(i)

(* One replica, no acknowledgement lost, one currency.                     *)
Exact(l) ==
  /\ costPc[l] # "idle" => head[l] = Len(costLog)
  /\ costPc[l] \in {"drive", "close", "closing"} => \A t \in Cost!Open(costLog) : seeded[l] = t
  /\ \A t \in Cost!Open(costLog) : seeded[l] = t => costUsage[l][t].steps = Number(t)
  /\ \A i \in DOMAIN costLog : costLog[i].type = "turn.finished" => costLog[i].usage = StepsUntil(i)

AllExact ==
  Cost!OneReplica /\ costLost = 0 /\ Cost!OneCurrency(costLog) => \A l \in acting : Exact(l)

CostInv == CostTypes /\ LogShaped /\ NoneTwice /\ AllExact

(* An event the loop appends: it starts a turn when none is open, or is of *)
(* the open turn.                                                          *)
Appendable(e) ==
  /\ e \in EventType
  /\ \/ e.type = "turn.started" /\ Cost!Open(costLog) = {} /\ e.turn = Cardinality(Cost!TurnsIn(costLog)) + 1
     \/ e.type # "turn.started" /\ e.turn \in Cost!Open(costLog)
  /\ e.type = "step.finished" => Number(e.turn) < Bound.cost.steps

LogStep == costLog' = costLog \/ \E e : Appendable(e) /\ costLog' = Append(costLog, e)

-----------------------------------------------------------------------------
LEMMA SameCardinality == \A S : Cost!Cardinality(S) = Cardinality(S)
  BY DEF Cost!Cardinality, Cardinality

LEMMA EventFields ==
  ASSUME NEW e \in EventType
  PROVE  e.type \in {"turn.started", "step.finished", "turn.finished"} /\ e.turn \in Cost!Turns
  BY DEF EventType

LEMMA StepsCounted ==
  ASSUME NEW entries \in Seq(EventType), NEW t
  PROVE  /\ Cost!StepsOf(entries, t) \subseteq 1..Len(entries) /\ IsFiniteSet(Cost!StepsOf(entries, t))
         /\ Cardinality(Cost!StepsOf(entries, t)) \in Nat
<1>1. Cost!StepsOf(entries, t) \subseteq 1..Len(entries) /\ Len(entries) \in Nat
  BY DEF Cost!StepsOf
<1>2. IsFiniteSet(1..Len(entries))
  BY <1>1, FS_Interval
<1>3. IsFiniteSet(Cost!StepsOf(entries, t))
  BY <1>1, <1>2, FS_Subset
<1> QED
  BY <1>1, <1>3, FS_CardinalityType

LEMMA Grown ==
  ASSUME NEW entries \in Seq(EventType), NEW e \in EventType, NEW t
  PROVE  /\ Cost!StepsOf(Append(entries, e), t) =
              Cost!StepsOf(entries, t) \cup (IF e.type = "step.finished" /\ e.turn = t THEN {Len(entries) + 1} ELSE {})
         /\ Cost!TurnsIn(Append(entries, e)) = Cost!TurnsIn(entries) \cup {e.turn}
         /\ Cost!IsClosed(Append(entries, e), t) <=>
              Cost!IsClosed(entries, t) \/ (e.type = "turn.finished" /\ e.turn = t)
         /\ Cardinality(Cost!StepsOf(Append(entries, e), t)) =
              Cardinality(Cost!StepsOf(entries, t)) + (IF e.type = "step.finished" /\ e.turn = t THEN 1 ELSE 0)
<1> DEFINE grown == Append(entries, e)
           n == Len(entries)
<1>1. /\ n \in Nat /\ DOMAIN entries = 1..n /\ DOMAIN grown = 1..(n + 1) /\ grown[n + 1] = e
      /\ \A i \in 1..n : grown[i] = entries[i]
  OBVIOUS
<1>2. 1..(n + 1) = (1..n) \cup {n + 1} /\ n + 1 \notin 1..n
  BY <1>1
<1> HIDE DEF grown, n
<1>3. Cost!StepsOf(grown, t) = Cost!StepsOf(entries, t) \cup (IF e.type = "step.finished" /\ e.turn = t THEN {n + 1} ELSE {})
  BY <1>1, <1>2 DEF Cost!StepsOf
<1>4. Cost!TurnsIn(grown) = Cost!TurnsIn(entries) \cup {e.turn}
  BY <1>1, <1>2 DEF Cost!TurnsIn
<1>5. Cost!IsClosed(grown, t) <=> Cost!IsClosed(entries, t) \/ (e.type = "turn.finished" /\ e.turn = t)
  BY <1>1, <1>2 DEF Cost!IsClosed
<1>6. Cardinality(Cost!StepsOf(grown, t)) = Cardinality(Cost!StepsOf(entries, t)) + (IF e.type = "step.finished" /\ e.turn = t THEN 1 ELSE 0)
  <2>1. /\ IsFiniteSet(Cost!StepsOf(entries, t)) /\ Cardinality(Cost!StepsOf(entries, t)) \in Nat
        /\ Cost!StepsOf(entries, t) \subseteq 1..n
    BY StepsCounted DEF n
  <2>2. n + 1 \notin Cost!StepsOf(entries, t)
    BY <1>2, <2>1
  <2>3. CASE e.type = "step.finished" /\ e.turn = t
    <3>1. Cost!StepsOf(grown, t) = Cost!StepsOf(entries, t) \cup {n + 1}
      BY <1>3, <2>3
    <3>2. Cardinality(Cost!StepsOf(entries, t) \cup {n + 1}) = Cardinality(Cost!StepsOf(entries, t)) + 1
      BY <2>1, <2>2, FS_AddElement
    <3> QED
      BY <2>3, <3>1, <3>2
  <2>4. CASE ~(e.type = "step.finished" /\ e.turn = t)
    <3>1. Cost!StepsOf(grown, t) = Cost!StepsOf(entries, t)
      BY <1>3, <2>4
    <3> QED
      BY <2>1, <2>4, <3>1
  <2> QED
    BY <2>3, <2>4
<1> QED
  BY <1>3, <1>4, <1>5, <1>6 DEF grown, n

LEMMA OneOpen ==
  ASSUME NEW entries \in Seq(EventType), Shaped(entries)
  PROVE  \A t, u \in Cost!Open(entries) : t = u /\ t \in Cost!Turns
<1>1. PICK k \in 0..Bound.cost.turns : Cost!TurnsIn(entries) = 1..k /\ \A t \in 1..k : t < k => Cost!IsClosed(entries, t)
  BY DEF Shaped
<1>2. \A t \in Cost!Open(entries) : t \in 1..k /\ ~(t < k)
  BY <1>1 DEF Cost!Open
<1>3. \A t \in Cost!TurnsIn(entries) : t \in Cost!Turns
  BY EventFields DEF Cost!TurnsIn
<1> QED
  BY <1>2, <1>3 DEF Cost!Open

LEMMA ShapedGrows ==
  ASSUME CostBound, NEW entries \in Seq(EventType), Shaped(entries), NEW e \in EventType,
         \/ Cost!Open(entries) = {} /\ e.turn = Cardinality(Cost!TurnsIn(entries)) + 1
         \/ e.turn \in Cost!TurnsIn(entries)
  PROVE  Shaped(Append(entries, e))
<1> DEFINE grown == Append(entries, e)
<1>1. PICK k \in 0..Bound.cost.turns : Cost!TurnsIn(entries) = 1..k /\ \A t \in 1..k : t < k => Cost!IsClosed(entries, t)
  BY DEF Shaped
<1>2. /\ Cost!TurnsIn(grown) = Cost!TurnsIn(entries) \cup {e.turn}
      /\ \A t : Cost!IsClosed(entries, t) => Cost!IsClosed(grown, t)
  BY Grown
<1> HIDE DEF grown
<1>3. CASE e.turn \in Cost!TurnsIn(entries)
  <2>1. Cost!TurnsIn(grown) = 1..k
    BY <1>1, <1>2, <1>3
  <2> QED
    BY <1>1, <1>2, <2>1 DEF Shaped, grown
<1>4. CASE Cost!Open(entries) = {} /\ e.turn = Cardinality(Cost!TurnsIn(entries)) + 1
  <2>1. k \in Nat /\ Cardinality(1..k) = k
    <3>1. k \in Nat /\ (1 <= k \/ k = 0)
      BY DEF CostBound
    <3>2. CASE k = 0
      <4>1. 1..k = {}
        BY <3>2
      <4> QED
        BY <3>2, <4>1, FS_EmptySet
    <3>3. CASE 1 <= k
      BY <3>1, <3>3, FS_Interval
    <3> QED
      BY <3>1, <3>2, <3>3
  <2>2. e.turn = k + 1
    BY <1>1, <1>4, <2>1
  <2>3. Cost!TurnsIn(grown) = 1..(k + 1)
    BY <1>1, <1>2, <2>1, <2>2
  <2>4. k + 1 \in 0..Bound.cost.turns
    BY <2>1, <2>2, EventFields DEF Cost!Turns, CostBound
  <2>5. \A t \in 1..(k + 1) : t < k + 1 => Cost!IsClosed(grown, t)
    BY <1>1, <1>2, <1>4, <2>1 DEF Cost!Open
  <2> QED
    BY <2>3, <2>4, <2>5 DEF Shaped, grown
<1> QED
  BY <1>3, <1>4

-----------------------------------------------------------------------------
(* What an append to the log leaves as it was.                             *)
LEMMA LogGrows ==
  ASSUME CostBound, CostTypes, LogShaped, LogStep
  PROVE  /\ costLog' \in Seq(EventType) /\ Len(costLog) \in Nat /\ Len(costLog') \in Nat /\ Len(costLog) <= Len(costLog')
         /\ \A h \in 0..Len(costLog) : SubSeq(costLog', 1, h) = SubSeq(costLog, 1, h)
         /\ \A i \in 1..Len(costLog) : costLog'[i] = costLog[i]
         /\ LogShaped'
<1> DEFINE n == Len(costLog)
<1>1. costLog \in Seq(EventType) /\ n \in Nat
  BY DEF CostTypes
<1>2. CASE costLog' = costLog
  BY <1>1, <1>2 DEF LogShaped, Prefix
<1>3. ASSUME NEW e, Appendable(e), costLog' = Append(costLog, e)
      PROVE  /\ costLog' \in Seq(EventType) /\ Len(costLog') = n + 1
             /\ \A h \in 0..n : SubSeq(costLog', 1, h) = SubSeq(costLog, 1, h)
             /\ \A i \in 1..n : costLog'[i] = costLog[i]
             /\ LogShaped'
  <2>1. /\ costLog' \in Seq(EventType) /\ Len(costLog') = n + 1 /\ \A i \in 1..n : costLog'[i] = costLog[i]
        /\ e \in EventType
    BY <1>1, <1>3 DEF Appendable
  <2>2. \A h \in 0..n : SubSeq(costLog', 1, h) = SubSeq(costLog, 1, h)
    <3> TAKE h \in 0..n
    <3>1. SubSeq(costLog', 1, h) \in Seq(EventType) /\ Len(SubSeq(costLog', 1, h)) = h
      BY <1>1, <2>1
    <3>2. SubSeq(costLog, 1, h) \in Seq(EventType) /\ Len(SubSeq(costLog, 1, h)) = h
      BY <1>1
    <3>3. \A i \in 1..h : SubSeq(costLog', 1, h)[i] = SubSeq(costLog, 1, h)[i]
      BY <1>1, <2>1
    <3> QED
      BY <3>1, <3>2, <3>3
  <2>3. SubSeq(costLog, 1, n) = costLog /\ SubSeq(costLog', 1, n + 1) = costLog'
    BY <1>1, <2>1
  <2>4. Shaped(costLog)
    <3>1. n \in 0..n
      BY <1>1
    <3> QED
      BY <2>3, <3>1 DEF LogShaped, Prefix
  <2>5. Shaped(costLog')
    BY <1>1, <1>3, <2>1, <2>4, ShapedGrows DEF Appendable, Cost!Open
  <2>6. \A h \in 0..(n + 1) : Shaped(SubSeq(costLog', 1, h))
    <3> TAKE h \in 0..(n + 1)
    <3>1. CASE h \in 0..n
      BY <2>2, <3>1 DEF LogShaped, Prefix
    <3>2. CASE h = n + 1
      BY <2>3, <2>5, <3>2
    <3> QED
      BY <1>1, <3>1, <3>2
  <2> QED
    BY <2>1, <2>2, <2>6 DEF LogShaped, Prefix, Shaped
<1> QED
  BY <1>1, <1>2, <1>3 DEF LogStep

LEMMA StepsGrow ==
  ASSUME CostBound, CostTypes, LogShaped, LogStep, NEW t
  PROVE  /\ Number(t) \in Nat /\ Number(t)' \in Nat /\ Number(t) <= Number(t)'
         /\ \A i \in Cost!StepsOf(costLog, t) : i \in Cost!StepsOf(costLog', t) /\ costLog'[i] = costLog[i]
         /\ Cost!IsClosed(costLog, t) => Cost!IsClosed(costLog', t)
         /\ Cost!TurnsIn(costLog) \subseteq Cost!TurnsIn(costLog')
         /\ Mixed(t) => Mixed(t)'
         /\ Number(t) <= Bound.cost.steps => Number(t)' <= Bound.cost.steps
<1>1. /\ costLog \in Seq(EventType) /\ costLog' \in Seq(EventType) /\ Len(costLog) \in Nat /\ Len(costLog') \in Nat
      /\ Len(costLog) <= Len(costLog') /\ \A i \in 1..Len(costLog) : costLog'[i] = costLog[i]
  BY LogGrows DEF CostTypes
<1>2. DOMAIN costLog = 1..Len(costLog) /\ DOMAIN costLog' = 1..Len(costLog')
  BY <1>1
<1>3. \A i \in DOMAIN costLog : i \in DOMAIN costLog' /\ costLog'[i] = costLog[i]
  BY <1>1, <1>2
<1>4. \A i \in Cost!StepsOf(costLog, t) : i \in Cost!StepsOf(costLog', t) /\ costLog'[i] = costLog[i]
  BY <1>3 DEF Cost!StepsOf
<1>5. Cost!IsClosed(costLog, t) => Cost!IsClosed(costLog', t)
  BY <1>3 DEF Cost!IsClosed
<1>6. Cost!TurnsIn(costLog) \subseteq Cost!TurnsIn(costLog')
  BY <1>3 DEF Cost!TurnsIn
<1>7. Mixed(t) => Mixed(t)'
  BY <1>4 DEF Mixed
<1>8. Number(t) \in Nat /\ Number(t)' \in Nat
  BY <1>1, StepsCounted DEF Number
<1>9. Number(t) <= Number(t)' /\ (Number(t) <= Bound.cost.steps => Number(t)' <= Bound.cost.steps)
  <2>1. CASE costLog' = costLog
    BY <1>8, <2>1 DEF Number
  <2>2. ASSUME NEW e, Appendable(e), costLog' = Append(costLog, e)
        PROVE  Number(t) <= Number(t)' /\ (Number(t) <= Bound.cost.steps => Number(t)' <= Bound.cost.steps)
    <3>1. Number(t)' = Number(t) + (IF e.type = "step.finished" /\ e.turn = t THEN 1 ELSE 0)
      BY <1>1, <2>2, Grown DEF Number, Appendable
    <3>2. e.type = "step.finished" /\ e.turn = t => Number(t) < Bound.cost.steps
      BY <2>2 DEF Appendable
    <3> QED
      BY <1>8, <3>1, <3>2 DEF CostBound
  <2> QED
    BY <2>1, <2>2 DEF LogStep
<1> QED
  BY <1>4, <1>5, <1>6, <1>7, <1>8, <1>9

(* What a replica knows is a part of the log, all of it if its head is the *)
(* log's.                                                                  *)
LEMMA KnownFacts ==
  ASSUME CostTypes, LogShaped, NEW k \in Loops
  PROVE  /\ Cost!Known(k) = SubSeq(costLog, 1, head[k]) /\ head[k] \in 0..Len(costLog)
         /\ Cost!Known(k) \in Seq(EventType) /\ Shaped(Cost!Known(k))
         /\ \A t : Cost!IsClosed(Cost!Known(k), t) => Cost!IsClosed(costLog, t)
         /\ Cost!TurnsIn(Cost!Known(k)) \subseteq Cost!TurnsIn(costLog)
         /\ head[k] = Len(costLog) => Cost!Known(k) = costLog
<1>1. costLog \in Seq(EventType) /\ head[k] \in 0..Len(costLog) /\ Len(costLog) \in Nat
  BY DEF CostTypes
<1>2. Cost!Known(k) = SubSeq(costLog, 1, head[k])
  BY DEF Cost!Known
<1>3. Cost!Known(k) \in Seq(EventType) /\ Shaped(Cost!Known(k)) /\ (head[k] = Len(costLog) => Cost!Known(k) = costLog)
  BY <1>1, <1>2 DEF LogShaped, Prefix
<1>4. /\ DOMAIN Cost!Known(k) = 1..head[k] /\ DOMAIN costLog = 1..Len(costLog)
      /\ \A i \in 1..head[k] : Cost!Known(k)[i] = costLog[i] /\ i \in 1..Len(costLog)
  BY <1>1, <1>2
<1>5. \A t : Cost!IsClosed(Cost!Known(k), t) => Cost!IsClosed(costLog, t)
  BY <1>4 DEF Cost!IsClosed
<1>6. Cost!TurnsIn(Cost!Known(k)) \subseteq Cost!TurnsIn(costLog)
  BY <1>4 DEF Cost!TurnsIn
<1> QED
  BY <1>1, <1>2, <1>3, <1>5, <1>6

(* It does not change before the replica reloads or appends.               *)
LEMMA KnownStays ==
  ASSUME CostBound, CostTypes, LogShaped, LogStep, NEW k \in Loops, head'[k] = head[k]
  PROVE  Cost!Known(k)' = Cost!Known(k)
<1>1. Cost!Known(k) = SubSeq(costLog, 1, head[k]) /\ head[k] \in 0..Len(costLog)
  BY KnownFacts
<1>2. SubSeq(costLog', 1, head[k]) = SubSeq(costLog, 1, head[k])
  BY <1>1, LogGrows
<1> QED
  BY <1>1, <1>2 DEF Cost!Known

(* The one turn a replica knows to be open.                                *)
LEMMA TurnIs ==
  ASSUME CostTypes, LogShaped, NEW l \in Loops, Cost!Open(Cost!Known(l)) # {}
  PROVE  Cost!Open(Cost!Known(l)) = {Cost!Turn(l)} /\ Cost!Turn(l) \in Cost!Turns
<1>1. \A t, u \in Cost!Open(Cost!Known(l)) : t = u /\ t \in Cost!Turns
  BY KnownFacts, OneOpen
<1>2. Cost!Turn(l) \in Cost!Open(Cost!Known(l))
  BY DEF Cost!Turn
<1> QED
  BY <1>1, <1>2

(* A turn whose usage a replica leaves alone.                              *)
LEMMA UsageStays ==
  ASSUME CostBound, CostInv, LogStep, NEW k \in Loops, NEW t \in Cost!Turns, costUsage'[k][t] = costUsage[k][t],
         seeded[k] = t => seeded'[k] = t \/ Cost!IsClosed(costLog, t),
         SeedThrew(k, t) => SeedThrew(k, t)' \/ Cost!IsClosed(costLog, t)
  PROVE  UsageFits(k, t)' /\ OfSteps(k, t)'
<1>1. CostTypes /\ LogShaped /\ UsageFits(k, t) /\ OfSteps(k, t)
  BY DEF CostInv, NoneTwice
<1>2. OfSteps(k, t)'
  BY <1>1, StepsGrow DEF OfSteps
<1>3. UsageFits(k, t)'
  <2>1. CASE costUsage[k][t] = Cost!EmptyUsage
    BY <2>1 DEF UsageFits, Cost!EmptyUsage
  <2>2. CASE Cost!IsClosed(costLog, t)
    BY <1>1, <2>2, StepsGrow DEF UsageFits
  <2>3. CASE seeded[k] = t /\ costUsage[k][t].steps <= Number(t) /\ seeded'[k] = t
    <3>1. Number(t) \in Nat /\ Number(t)' \in Nat /\ Number(t) <= Number(t)' /\ costUsage[k][t].steps \in Nat
      BY <1>1, StepsGrow DEF CostTypes
    <3>2. costUsage'[k][t].steps <= Number(t)'
      BY <2>3, <3>1
    <3> QED
      BY <2>3, <3>2 DEF UsageFits
  <2>4. CASE SeedThrew(k, t)'
    BY <2>4 DEF UsageFits
  <2> QED
    BY <1>1, <2>1, <2>2, <2>3, <2>4 DEF UsageFits
<1> QED
  BY <1>2, <1>3

(* A replica that does nothing.                                            *)
LEMMA OthersStay ==
  ASSUME CostBound, CostInv, LogStep, NEW k \in Loops,
         head'[k] = head[k], costPc'[k] = costPc[k], costUsage'[k] = costUsage[k], seeded'[k] = seeded[k]
  PROVE  Remembers(k)' /\ \A t \in Cost!Turns : UsageFits(k, t)' /\ OfSteps(k, t)'
<1>1. CostTypes /\ LogShaped /\ Remembers(k)
  BY DEF CostInv, NoneTwice
<1>2. Cost!Known(k)' = Cost!Known(k)
  BY <1>1, KnownStays
<1>3. Remembers(k)'
  BY <1>1, <1>2 DEF Remembers, Cost!Open, Cost!TurnsIn, Cost!IsClosed
<1>4. \A t \in Cost!Turns : SeedThrew(k, t) => SeedThrew(k, t)'
  BY <1>1, <1>2, StepsGrow DEF SeedThrew, Cost!TurnsIn
<1> QED
  BY <1>3, <1>4, UsageStays

(* What one replica does, put together.                                    *)
LEMMA Together ==
  ASSUME CostBound, CostInv, LogStep, UNCHANGED acting, NEW l \in acting, CostTypes',
         \A k \in Loops \ {l} : head'[k] = head[k] /\ costPc'[k] = costPc[k] /\ costUsage'[k] = costUsage[k] /\ seeded'[k] = seeded[k],
         Remembers(l)', \A t \in Cost!Turns : UsageFits(l, t)' /\ OfSteps(l, t)',
         \A e : costLog' = Append(costLog, e) /\ e.type = "turn.finished" => e.usage <= Number(e.turn),
         costLost <= costLost',
         acting = {l} /\ costLost' = 0 /\ Cost!OneCurrency(costLog)' /\ Exact(l) =>
           /\ costPc'[l] # "idle" => head'[l] = Len(costLog')
           /\ costPc'[l] \in {"drive", "close", "closing"} => \A t \in Cost!Open(costLog') : seeded'[l] = t
           /\ \A t \in Cost!Open(costLog') : seeded'[l] = t => costUsage'[l][t].steps = Number(t)'
           /\ \A e : costLog' = Append(costLog, e) /\ e.type = "turn.finished" => e.usage = Number(e.turn)
  PROVE  CostInv'
<1>1. CostTypes /\ LogShaped /\ NoneTwice /\ AllExact
  BY DEF CostInv
<1> DEFINE n == Len(costLog)
<1>2. /\ costLog \in Seq(EventType) /\ n \in Nat /\ DOMAIN costLog = 1..n
      /\ costLog' \in Seq(EventType) /\ DOMAIN costLog' = 1..Len(costLog') /\ n <= Len(costLog') /\ Len(costLog') \in Nat
  BY <1>1, LogGrows DEF CostTypes
<1>3. \A i \in 1..n : costLog'[i] = costLog[i] /\ StepsUntil(i)' = StepsUntil(i)
  <2> TAKE i \in 1..n
  <2>0. i \in 0..n
    <3>1. n \in Nat
      BY <1>2
    <3> HIDE DEF n
    <3> QED
      BY <3>1
  <2>1. costLog'[i] = costLog[i] /\ SubSeq(costLog', 1, i) = SubSeq(costLog, 1, i)
    BY <1>1, <2>0, LogGrows
  <2> QED
    BY <2>1 DEF StepsUntil, Prefix
<1>4. ASSUME NEW i \in DOMAIN costLog', i \notin 1..n
      PROVE  \E e : /\ costLog' = Append(costLog, e) /\ costLog'[i] = e
                    /\ e.type = "turn.finished" => StepsUntil(i)' = Number(e.turn) /\ Number(e.turn) \in Nat
  <2>1. PICK e : Appendable(e) /\ costLog' = Append(costLog, e)
    BY <1>2, <1>4 DEF LogStep
  <2>2. e \in EventType /\ i = n + 1 /\ Len(costLog') = n + 1 /\ costLog'[i] = e
    BY <1>2, <1>4, <2>1 DEF Appendable
  <2>3. SubSeq(costLog', 1, i) = costLog'
    BY <1>2, <2>2
  <2>4. e.type = "turn.finished" => Cardinality(Cost!StepsOf(costLog', e.turn)) = Number(e.turn)
    <3> HAVE e.type = "turn.finished"
    <3>1. Cardinality(Cost!StepsOf(Append(costLog, e), e.turn)) = Cardinality(Cost!StepsOf(costLog, e.turn)) + 0
      BY <1>2, <2>2, Grown
    <3> QED
      BY <1>2, <2>1, <3>1, StepsCounted DEF Number
  <2>5. Number(e.turn) \in Nat
    BY <1>2, StepsCounted DEF Number
  <2> QED
    BY <2>1, <2>2, <2>3, <2>4, <2>5 DEF StepsUntil, Prefix
<1>5. LogShaped'
  BY <1>1, LogGrows
<1>6. NoneTwice'
  <2>1. \A t \in Cost!Turns : Number(t)' <= Bound.cost.steps
    BY <1>1, StepsGrow DEF NoneTwice
  <2>2. \A k \in Loops : Remembers(k)' /\ \A t \in Cost!Turns : UsageFits(k, t)' /\ OfSteps(k, t)'
    BY OthersStay
  <2>3. \A i \in DOMAIN costLog' : costLog'[i].type = "turn.finished" => costLog'[i].usage <= StepsUntil(i)'
    <3> SUFFICES ASSUME NEW i \in DOMAIN costLog', costLog'[i].type = "turn.finished" PROVE costLog'[i].usage <= StepsUntil(i)'
      OBVIOUS
    <3>1. CASE i \in 1..n
      <4>1. costLog'[i] = costLog[i] /\ StepsUntil(i)' = StepsUntil(i)
        BY <1>3, <3>1
      <4>2. i \in DOMAIN costLog
        BY <1>2, <3>1
      <4>3. costLog[i].type = "turn.finished" => costLog[i].usage <= StepsUntil(i)
        BY <1>1, <4>2 DEF NoneTwice
      <4> QED
        BY <4>1, <4>3
    <3>2. CASE i \notin 1..n
      BY <1>4, <3>2
    <3> QED
      BY <3>1, <3>2
  <2> QED
    BY <2>1, <2>2, <2>3 DEF NoneTwice
<1>7. AllExact'
  <2> SUFFICES ASSUME Cost!OneReplica, costLost' = 0, Cost!OneCurrency(costLog)' PROVE \A k \in acting : Exact(k)'
    BY DEF AllExact, Cost!OneReplica
  <2>1. acting = {l}
    BY DEF Cost!OneReplica
  <2>2. costLost = 0
    BY <1>1 DEF CostTypes
  <2>3. Cost!OneCurrency(costLog)
    <3>1. \A i \in DOMAIN costLog : i \in DOMAIN costLog' /\ costLog'[i] = costLog[i]
      <4>1. \A a, b \in Nat : a <= b => \A i \in 1..a : i \in 1..b
        OBVIOUS
      <4>2. n \in Nat
        BY <1>2
      <4>3. Len(costLog') \in Nat /\ n <= Len(costLog')
        BY <1>2
      <4>4. \A i \in 1..n : i \in 1..Len(costLog') /\ costLog'[i] = costLog[i]
        BY <1>3, <4>1, <4>2, <4>3, Zenon
      <4>5. DOMAIN costLog = 1..n /\ DOMAIN costLog' = 1..Len(costLog')
        BY <1>2
      <4> QED
        BY <4>4, <4>5, Zenon
    <3> QED
      BY <3>1 DEF Cost!OneCurrency
  <2>4. Exact(l)
    BY <1>1, <2>1, <2>2, <2>3 DEF AllExact, Cost!OneReplica
  <2>5. \A i \in DOMAIN costLog' : costLog'[i].type = "turn.finished" => costLog'[i].usage = StepsUntil(i)'
    <3> SUFFICES ASSUME NEW i \in DOMAIN costLog', costLog'[i].type = "turn.finished" PROVE costLog'[i].usage = StepsUntil(i)'
      OBVIOUS
    <3>1. CASE i \in 1..n
      <4>1. costLog'[i] = costLog[i] /\ StepsUntil(i)' = StepsUntil(i)
        BY <1>3, <3>1
      <4>2. i \in DOMAIN costLog
        BY <1>2, <3>1
      <4>3. costLog[i].type = "turn.finished" => costLog[i].usage = StepsUntil(i)
        BY <2>4, <4>2 DEF Exact
      <4> QED
        BY <4>1, <4>3
    <3>2. CASE i \notin 1..n
      BY <1>4, <2>1, <2>4, <3>2
    <3> QED
      BY <3>1, <3>2
  <2> QED
    BY <2>1, <2>4, <2>5 DEF Exact
<1> QED
  BY <1>5, <1>6, <1>7 DEF CostInv

-----------------------------------------------------------------------------
(* What the steps of a replica do to its usage.                            *)
LEMMA NothingAppended ==
  ASSUME CostTypes, costLog' = costLog
  PROVE  LogStep /\ ~\E e : costLog' = Append(costLog, e)
<1>1. \A e : Len(Append(costLog, e)) = Len(costLog) + 1 /\ Len(costLog) \in Nat
  BY DEF CostTypes
<1> QED
  BY <1>1 DEF LogStep

LEMMA NumbersKnown ==
  ASSUME CostTypes
  PROVE  /\ \A t \in Cost!Turns : t \in Nat
         /\ \A t \in Cost!TurnsIn(costLog) : t \in Cost!Turns
<1>1. \A i \in DOMAIN costLog : costLog[i] \in EventType
  BY DEF CostTypes
<1> QED
  BY <1>1, EventFields DEF Cost!Turns, Cost!TurnsIn

(* The state is loaded again.                                              *)
LEMMA Reloads ==
  ASSUME CostBound, CostInv, UNCHANGED <<acting, costLog, costUsage, seeded, costLost>>, NEW l \in acting,
         head' = [head EXCEPT ![l] = Len(costLog)], NEW to \in {"idle", "seed", "closing"}, costPc' = [costPc EXCEPT ![l] = to],
         \/ costPc[l] = "idle" /\ to = "seed"
         \/ costPc[l] = "close" /\ to \in {"idle", "closing"}
  PROVE  CostInv'
<1>1. CostTypes /\ LogShaped /\ Remembers(l) /\ l \in Loops /\ Len(costLog) \in Nat
  BY DEF CostInv, NoneTwice, CostTypes
<1>2. LogStep /\ ~\E e : costLog' = Append(costLog, e)
  BY <1>1, NothingAppended
<1>3. head'[l] = Len(costLog) /\ costPc'[l] = to
  BY <1>1 DEF CostTypes
<1>4. \A k \in Loops \ {l} : head'[k] = head[k] /\ costPc'[k] = costPc[k] /\ costUsage'[k] = costUsage[k] /\ seeded'[k] = seeded[k]
  BY <1>1 DEF CostTypes
<1>5. CostTypes'
  BY <1>1, <1>3, <1>4 DEF CostTypes
<1>6. Cost!Known(l)' = costLog
  <2>1. SubSeq(costLog, 1, Len(costLog)) = costLog
    BY <1>1 DEF CostTypes
  <2> QED
    BY <1>3, <2>1 DEF Cost!Known
<1>7. Remembers(l)'
  BY <1>1, <1>3, <1>6, KnownFacts DEF Remembers, Cost!TurnsIn
<1>8. \A t \in Cost!Turns : UsageFits(l, t)' /\ OfSteps(l, t)'
  <2> TAKE t \in Cost!Turns
  <2>1. SeedThrew(l, t) => SeedThrew(l, t)'
    BY <1>3, <1>6 DEF SeedThrew, Mixed, Cost!TurnsIn
  <2> QED
    BY <1>1, <1>2, <2>1, UsageStays
<1>9. costLost <= costLost'
  BY <1>1 DEF CostTypes
<1>10. ASSUME Exact(l)
       PROVE  /\ costPc'[l] # "idle" => head'[l] = Len(costLog')
              /\ costPc'[l] \in {"drive", "close", "closing"} => \A t \in Cost!Open(costLog') : seeded'[l] = t
              /\ \A t \in Cost!Open(costLog') : seeded'[l] = t => costUsage'[l][t].steps = Number(t)'
  BY <1>3, <1>10 DEF Exact, Number
<1> QED
  BY <1>2, <1>4, <1>5, <1>7, <1>8, <1>9, <1>10, Together

LEMMA CostCrashes ==
  ASSUME CostBound, CostInv, UNCHANGED acting, NEW l \in acting, Cost!Crash(l)
  PROVE  CostInv'
<1>1. CostTypes /\ LogShaped /\ l \in Loops
  BY DEF CostInv, CostTypes
<1>2. /\ UNCHANGED <<costLog, costLost>> /\ costPc' = [costPc EXCEPT ![l] = "idle"] /\ head' = [head EXCEPT ![l] = 0]
      /\ seeded' = [seeded EXCEPT ![l] = None] /\ costUsage' = [costUsage EXCEPT ![l] = [t \in Cost!Turns |-> Cost!EmptyUsage]]
  BY DEF Cost!Crash, Cost!To
<1>3. LogStep /\ ~\E e : costLog' = Append(costLog, e)
  BY <1>1, <1>2, NothingAppended
<1>4. \A k \in Loops \ {l} : head'[k] = head[k] /\ costPc'[k] = costPc[k] /\ costUsage'[k] = costUsage[k] /\ seeded'[k] = seeded[k]
  BY <1>1, <1>2 DEF CostTypes
<1>5. head'[l] = 0 /\ costPc'[l] = "idle" /\ seeded'[l] = None /\ costUsage'[l] = [t \in Cost!Turns |-> Cost!EmptyUsage]
  BY <1>1, <1>2 DEF CostTypes
<1>6. CostTypes'
  BY <1>1, <1>2, <1>5 DEF CostTypes, Cost!EmptyUsage
<1>7. Remembers(l)' /\ \A t \in Cost!Turns : UsageFits(l, t)' /\ OfSteps(l, t)'
  BY <1>5 DEF Remembers, UsageFits, OfSteps, Cost!EmptyUsage
<1>8. costLost <= costLost'
  BY <1>1, <1>2 DEF CostTypes
<1>9. \A t \in Cost!Open(costLog') : seeded'[l] # t
  BY <1>1, <1>2, <1>5, NumbersKnown DEF CostBound, Cost!Open
<1> QED
  BY <1>3, <1>4, <1>5, <1>6, <1>7, <1>8, <1>9, Together

(* A turn whose seed threw has been closed when the replica goes on with   *)
(* another one, or starts one.                                             *)
LEMMA ThrewEnds ==
  ASSUME CostInv, NEW l \in Loops, NEW t, SeedThrew(l, t), costPc[l] = "seed", t \notin Cost!Open(Cost!Known(l))
  PROVE  Cost!IsClosed(costLog, t)
  BY KnownFacts DEF SeedThrew, Cost!Open, CostInv

(* So has the turn it seeded, when it knows of another or of none.         *)
LEMMA SeededEnds ==
  ASSUME CostInv, NEW l \in Loops, NEW t \in Cost!Turns, CostBound, seeded[l] = t, t \notin Cost!Open(Cost!Known(l))
  PROVE  Cost!IsClosed(costLog, t)
<1>1. CostTypes /\ LogShaped /\ Remembers(l) /\ seeded[l] # None
  BY NumbersKnown DEF CostInv, NoneTwice, CostBound
<1> QED
  BY <1>1, KnownFacts DEF Remembers, Cost!Open

LEMMA AlreadySeeded ==
  ASSUME CostBound, CostInv, UNCHANGED acting, NEW l \in acting, Cost!SeededAlready(l)
  PROVE  CostInv'
<1> DEFINE turn0 == Cost!Turn(l)
<1>1. CostTypes /\ LogShaped /\ Remembers(l) /\ l \in Loops
  BY DEF CostInv, NoneTwice, CostTypes
<1>2. /\ UNCHANGED <<costLog, costLost, head, costUsage, seeded>> /\ costPc' = [costPc EXCEPT ![l] = "drive"]
      /\ costPc[l] = "seed" /\ seeded[l] = turn0 /\ Cost!Open(Cost!Known(l)) # {}
  BY DEF Cost!SeededAlready, Cost!To, Cost!faults
<1>3. LogStep /\ ~\E e : costLog' = Append(costLog, e)
  BY <1>1, <1>2, NothingAppended
<1>4. costPc'[l] = "drive" /\ \A k \in Loops \ {l} : costPc'[k] = costPc[k]
  BY <1>1, <1>2 DEF CostTypes
<1>5. CostTypes'
  BY <1>1, <1>2 DEF CostTypes
<1>6. Cost!Open(Cost!Known(l)) = {turn0} /\ Cost!Known(l)' = Cost!Known(l)
  BY <1>1, <1>2, <1>3, TurnIs, KnownStays
<1>7. Remembers(l)'
  BY <1>1, <1>2, <1>6 DEF Remembers, Cost!Open, Cost!TurnsIn, Cost!IsClosed
<1>8. \A t \in Cost!Turns : UsageFits(l, t)' /\ OfSteps(l, t)'
  <2> TAKE t \in Cost!Turns
  <2>1. SeedThrew(l, t) => Cost!IsClosed(costLog, t)
    <3>1. SeedThrew(l, t) => t \notin Cost!Open(Cost!Known(l))
      BY <1>2, <1>6 DEF SeedThrew
    <3> QED
      BY <1>1, <1>2, <3>1, ThrewEnds
  <2> QED
    BY <1>1, <1>2, <1>3, <2>1, UsageStays
<1>9. costLost <= costLost'
  BY <1>1, <1>2 DEF CostTypes
<1>10. ASSUME Exact(l)
       PROVE  /\ costPc'[l] # "idle" => head'[l] = Len(costLog')
              /\ costPc'[l] \in {"drive", "close", "closing"} => \A t \in Cost!Open(costLog') : seeded'[l] = t
              /\ \A t \in Cost!Open(costLog') : seeded'[l] = t => costUsage'[l][t].steps = Number(t)'
  <2>1. head[l] = Len(costLog)
    BY <1>2, <1>10 DEF Exact
  <2>2. Cost!Open(costLog) = {seeded[l]}
    BY <1>1, <1>2, <1>6, <2>1, KnownFacts
  <2> QED
    BY <1>2, <1>10, <2>1, <2>2 DEF Exact, Number
<1> QED
  BY <1>2, <1>3, <1>4, <1>5, <1>7, <1>8, <1>9, <1>10, Together

-----------------------------------------------------------------------------
(* The seed of a turn.                                                     *)
Added(t, base) ==
  {i \in Cost!StepsOf(costLog, t) : \A j, k \in Cost!StepsOf(costLog, t) : k <= j /\ j <= i =>
     ~Cost!Mixes(base, costLog[j].currency) /\ costLog[j].currency = costLog[k].currency}

UsageType == [steps : Nat, currency : Currencies \cup {None}]

LEMMA CappedType ==
  ASSUME CostBound, NEW n \in Nat
  PROVE  Cost!Capped(n) \in Nat /\ Cost!Capped(n) <= n /\ (n <= Bound.cost.steps => Cost!Capped(n) = n)
  BY DEF Cost!Capped, CostBound

LEMMA StepCurrency ==
  ASSUME CostTypes, NEW t, NEW i \in Cost!StepsOf(costLog, t)
  PROVE  costLog[i].currency \in Currencies /\ i \in Nat
<1>1. costLog[i] \in EventType /\ costLog[i].type = "step.finished" /\ i \in Nat
  BY DEF CostTypes, Cost!StepsOf
<1> QED
  BY <1>1 DEF EventType

(* A seed adds all steps, unless they differ in their currency.            *)
LEMMA SeedAdds ==
  ASSUME CostBound, CostTypes, NEW t, NEW base \in UsageType
  PROVE  /\ Mixed(t) => Added(t, base) # Cost!StepsOf(costLog, t)
         /\ base = Cost!EmptyUsage /\ Added(t, base) # Cost!StepsOf(costLog, t) => Mixed(t)
         /\ Cost!SumOf(Added(t, base), base) \in UsageType
         /\ Added(t, base) = Cost!StepsOf(costLog, t) =>
              Cost!SumOf(Added(t, base), base).steps = Cost!Capped(base.steps + Number(t))
         /\ \/ Cost!SumOf(Added(t, base), base).currency = base.currency
            \/ \E i \in Cost!StepsOf(costLog, t) : costLog[i].currency = Cost!SumOf(Added(t, base), base).currency
<1> DEFINE steps == Cost!StepsOf(costLog, t)
           added == Added(t, base)
<1>1. added \subseteq steps /\ IsFiniteSet(steps) /\ costLog \in Seq(EventType) /\ \A i \in steps : i \in Nat
  BY StepsCounted, StepCurrency DEF Added, CostTypes
<1>2. IsFiniteSet(added) /\ Cardinality(added) \in Nat
  BY <1>1, FS_Subset, FS_CardinalityType
<1>3. Mixed(t) => added # steps
  <2> SUFFICES ASSUME added = steps, NEW i \in steps, NEW j \in steps, costLog[i].currency # costLog[j].currency PROVE FALSE
    BY DEF Mixed
  <2>1. i \in Nat /\ j \in Nat
    BY <1>1
  <2>2. CASE i <= j
    <3>1. j <= j /\ j \in Added(t, base)
      BY <2>1
    <3> QED
      BY <2>2, <3>1 DEF Added
  <2>3. CASE j <= i
    <3>1. i <= i /\ i \in Added(t, base)
      BY <2>1
    <3> QED
      BY <2>3, <3>1 DEF Added
  <2> QED
    BY <2>1, <2>2, <2>3
<1>4. base = Cost!EmptyUsage /\ added # steps => Mixed(t)
  <2> SUFFICES ASSUME base = Cost!EmptyUsage, added # steps PROVE Mixed(t)
    OBVIOUS
  <2>1. PICK i \in steps : i \notin added
    BY <1>1
  <2>2. PICK j \in steps, k \in steps : Cost!Mixes(base, costLog[j].currency) \/ costLog[j].currency # costLog[k].currency
    BY <2>1 DEF Added
  <2>3. ~Cost!Mixes(base, costLog[j].currency)
    BY DEF Cost!Mixes, Cost!EmptyUsage
  <2> QED
    BY <2>2, <2>3 DEF Mixed
<1>5. base.steps \in Nat /\ base.currency \in Currencies \cup {None}
  BY DEF UsageType
<1>6. Cost!Capped(base.steps + Cardinality(added)) \in Nat
  BY <1>2, <1>5, CappedType
<1> HIDE DEF added, steps
<1>7. /\ Cost!SumOf(added, base).steps = Cost!Capped(base.steps + Cardinality(added))
      /\ Cost!SumOf(added, base).currency = IF added = {} THEN base.currency ELSE costLog[CHOOSE i \in added : TRUE].currency
      /\ Cost!SumOf(added, base) = [steps |-> Cost!SumOf(added, base).steps, currency |-> Cost!SumOf(added, base).currency]
  BY SameCardinality DEF Cost!SumOf
<1>8. \/ Cost!SumOf(added, base).currency = base.currency
      \/ \E i \in steps : costLog[i].currency = Cost!SumOf(added, base).currency
  <2>1. CASE added = {}
    BY <1>7, <2>1
  <2>2. CASE added # {}
    <3>1. (CHOOSE i \in added : TRUE) \in steps
      BY <1>1, <2>2
    <3> QED
      BY <1>7, <2>2, <3>1
  <2> QED
    BY <2>1, <2>2
<1>9. Cost!SumOf(added, base).currency \in Currencies \cup {None}
  BY <1>5, <1>8, StepCurrency DEF steps
<1>10. Cost!SumOf(added, base) \in UsageType
  BY <1>6, <1>7, <1>9 DEF UsageType
<1>11. added = steps => Cost!SumOf(added, base).steps = Cost!Capped(base.steps + Number(t))
  BY <1>7 DEF Number, steps
<1> QED
  BY <1>3, <1>4, <1>8, <1>10, <1>11 DEF added, steps

LEMMA SeedKeeps ==
  ASSUME CostBound, CostInv, UNCHANGED acting, NEW l \in acting, Cost!Seed(l)
  PROVE  CostInv'
<1>0. PICK t0 : t0 = Cost!Turn(l)
  OBVIOUS
<1> DEFINE base == costUsage[l][t0]
           steps == Cost!StepsOf(costLog, t0)
           sum == Cost!SumOf(Added(t0, base), base)
           all == Added(t0, base) = steps
<1>1. CostTypes /\ LogShaped /\ NoneTwice /\ Remembers(l) /\ l \in Loops
  BY DEF CostInv, NoneTwice, CostTypes
<1>2. /\ UNCHANGED <<costLog, costLost, head>> /\ costUsage' = [costUsage EXCEPT ![l][t0] = sum]
      /\ costPc[l] = "seed" /\ seeded[l] # t0 /\ Cost!Open(Cost!Known(l)) # {}
      /\ costPc' = [costPc EXCEPT ![l] = IF all THEN "drive" ELSE "idle"]
      /\ IF all THEN seeded' = [seeded EXCEPT ![l] = t0] ELSE seeded' = seeded
  BY <1>0 DEF Cost!Seed, Cost!To, Cost!faults, Added
<1>3. LogStep /\ ~\E e : costLog' = Append(costLog, e)
  BY <1>1, <1>2, NothingAppended
<1>4. Cost!Open(Cost!Known(l)) = {t0} /\ t0 \in Cost!Turns /\ Cost!Known(l)' = Cost!Known(l)
  BY <1>0, <1>1, <1>2, <1>3, TurnIs, KnownStays
<1>5. base \in UsageType
  BY <1>1, <1>4 DEF CostTypes, UsageType
<1>6. /\ Mixed(t0) => ~all
      /\ base = Cost!EmptyUsage /\ ~all => Mixed(t0)
      /\ sum \in UsageType
      /\ all => sum.steps = Cost!Capped(base.steps + Number(t0))
      /\ sum.currency = base.currency \/ \E i \in steps : costLog[i].currency = sum.currency
  BY <1>1, <1>5, SeedAdds
<1>7. /\ costPc'[l] = (IF all THEN "drive" ELSE "idle") /\ \A k \in Loops \ {l} : costPc'[k] = costPc[k]
      /\ seeded'[l] = (IF all THEN t0 ELSE seeded[l]) /\ \A k \in Loops \ {l} : seeded'[k] = seeded[k]
  BY <1>1, <1>2 DEF CostTypes
<1> HIDE DEF sum, all
<1>8. /\ costUsage'[l][t0] = sum /\ \A t \in Cost!Turns : t # t0 => costUsage'[l][t] = costUsage[l][t]
      /\ \A k \in Loops \ {l} : costUsage'[k] = costUsage[k]
      /\ costUsage' \in [Loops -> [Cost!Turns -> UsageType]]
  BY <1>1, <1>2, <1>4, <1>6 DEF CostTypes, UsageType
<1>9. CostTypes'
  <2>1. seeded' \in [Loops -> Cost!Turns \cup {None}] /\ costPc' \in [Loops -> {"idle", "seed", "drive", "close", "closing"}]
    BY <1>1, <1>2, <1>4 DEF CostTypes
  <2> QED
    BY <1>1, <1>2, <1>8, <2>1 DEF CostTypes, UsageType
<1>10. t0 \in Cost!TurnsIn(costLog) /\ t0 \in Cost!TurnsIn(Cost!Known(l))
  BY <1>1, <1>4, KnownFacts DEF Cost!Open
<1>11. Remembers(l)'
  BY <1>1, <1>4, <1>7, <1>10 DEF Remembers, Cost!Open, Cost!TurnsIn, Cost!IsClosed
<1>12. costUsage[l][t0] = Cost!EmptyUsage \/ Cost!IsClosed(costLog, t0) \/ SeedThrew(l, t0)
  BY <1>1, <1>2, <1>4 DEF NoneTwice, UsageFits
<1>13. Number(t0) \in Nat /\ Number(t0) <= Bound.cost.steps /\ base.steps \in Nat
  BY <1>1, <1>3, <1>4, <1>5, StepsGrow DEF NoneTwice, UsageType
<1>14. base = Cost!EmptyUsage /\ all => sum.steps = Number(t0)
  <2> HAVE base = Cost!EmptyUsage /\ all
  <2>1. base.steps = 0
    BY DEF Cost!EmptyUsage
  <2>2. base.steps + Number(t0) = Number(t0)
    BY <1>13, <2>1
  <2> QED
    BY <1>6, <1>13, <2>2, CappedType
<1>15. UsageFits(l, t0)' /\ OfSteps(l, t0)'
  <2>1. OfSteps(l, t0)'
    <3>1. OfSteps(l, t0)
      BY <1>1, <1>4 DEF NoneTwice
    <3> QED
      BY <1>2, <1>6, <1>8, <3>1 DEF OfSteps
  <2>2. CASE Cost!IsClosed(costLog, t0)
    BY <1>2, <2>1, <2>2 DEF UsageFits
  <2>3. CASE all /\ base = Cost!EmptyUsage
    <3>1. sum.steps = Number(t0) /\ Number(t0)' = Number(t0)
      BY <1>2, <1>14, <2>3 DEF Number
    <3>2. costUsage'[l][t0].steps <= Number(t0)'
      BY <1>8, <1>13, <3>1
    <3> QED
      BY <1>7, <2>1, <2>3, <3>2 DEF UsageFits
  <2>4. CASE ~all
    <3>1. Mixed(t0) \/ Cost!IsClosed(costLog, t0)
      BY <1>6, <1>12, <2>4 DEF SeedThrew
    <3>2. Mixed(t0) => SeedThrew(l, t0)'
      BY <1>2, <1>7, <1>10, <2>4 DEF SeedThrew, Mixed
    <3> QED
      BY <2>1, <2>2, <3>1, <3>2 DEF UsageFits
  <2>5. SeedThrew(l, t0) => ~all
    BY <1>6 DEF SeedThrew
  <2> QED
    BY <1>12, <2>2, <2>3, <2>4, <2>5
<1>16. \A t \in Cost!Turns : UsageFits(l, t)' /\ OfSteps(l, t)'
  <2> TAKE t \in Cost!Turns
  <2>1. CASE t = t0
    BY <1>15, <2>1
  <2>2. CASE t # t0
    <3>1. t \notin Cost!Open(Cost!Known(l))
      BY <1>4, <2>2
    <3>2. seeded[l] = t => Cost!IsClosed(costLog, t)
      BY <1>1, <3>1, SeededEnds
    <3>3. SeedThrew(l, t) => Cost!IsClosed(costLog, t)
      BY <1>1, <1>2, <3>1, ThrewEnds
    <3> QED
      BY <1>1, <1>3, <1>8, <2>2, <3>2, <3>3, UsageStays
  <2> QED
    BY <2>1, <2>2
<1>17. costLost <= costLost'
  BY <1>1, <1>2 DEF CostTypes
<1>18. ASSUME Exact(l), Cost!OneCurrency(costLog)'
       PROVE  /\ costPc'[l] # "idle" => head'[l] = Len(costLog')
              /\ costPc'[l] \in {"drive", "close", "closing"} => \A t \in Cost!Open(costLog') : seeded'[l] = t
              /\ \A t \in Cost!Open(costLog') : seeded'[l] = t => costUsage'[l][t].steps = Number(t)'
  <2>1. head[l] = Len(costLog)
    BY <1>2, <1>18 DEF Exact
  <2>2. Cost!Open(costLog) = {t0}
    BY <1>1, <1>4, <2>1, KnownFacts
  <2>3. ~Mixed(t0)
    BY <1>2, <1>18 DEF Mixed, Cost!OneCurrency, Cost!StepsOf
  <2>4. ~Cost!IsClosed(costLog, t0)
    BY <2>2 DEF Cost!Open
  <2>5. base = Cost!EmptyUsage /\ all
    BY <1>6, <1>12, <2>3, <2>4 DEF SeedThrew
  <2>6. sum.steps = Number(t0) /\ Number(t0)' = Number(t0)
    BY <1>2, <1>14, <2>5 DEF Number
  <2> QED
    BY <1>2, <1>7, <1>8, <2>1, <2>2, <2>5, <2>6
<1>19. \A k \in Loops \ {l} : head'[k] = head[k] /\ costPc'[k] = costPc[k] /\ costUsage'[k] = costUsage[k] /\ seeded'[k] = seeded[k]
  BY <1>2, <1>7, <1>8
<1> QED
  BY <1>3, <1>9, <1>11, <1>16, <1>17, <1>18, <1>19, Together

-----------------------------------------------------------------------------
(* What an append does, and what its failure does.                         *)

(* An event a replica may append as far as it knows.                       *)
Fits(l, e) ==
  /\ e \in EventType
  /\ \/ /\ e.type = "turn.started" /\ Cost!Open(Cost!Known(l)) = {}
        /\ e.turn = Cardinality(Cost!TurnsIn(Cost!Known(l))) + 1
     \/ e.type # "turn.started" /\ e.turn \in Cost!Open(Cost!Known(l))
  /\ e.type = "step.finished" => Cardinality(Cost!StepsOf(Cost!Known(l), e.turn)) < Bound.cost.steps

LEMMA Appends ==
  ASSUME CostTypes, LogShaped, NEW l \in Loops, NEW e, Fits(l, e),
         head[l] = Len(costLog), costLog' = Append(costLog, e)
  PROVE  /\ LogStep /\ Cost!Known(l) = costLog /\ Appendable(e) /\ costLog \in Seq(EventType)
         /\ \A f : costLog' = Append(costLog, f) => f = e
         /\ Len(costLog') = Len(costLog) + 1 /\ costLog'[Len(costLog) + 1] = e
         /\ head'[l] = Len(costLog) + 1 => Cost!Known(l)' = costLog'
<1>1. Cost!Known(l) = costLog /\ costLog \in Seq(EventType) /\ Len(costLog) \in Nat /\ e \in EventType
  BY KnownFacts DEF CostTypes, Fits
<1>2. Appendable(e)
  BY <1>1 DEF Fits, Appendable, Number
<1>3. \A f : Append(costLog, f)[Len(costLog) + 1] = f
  BY <1>1
<1>4. Len(costLog') = Len(costLog) + 1 /\ SubSeq(costLog', 1, Len(costLog) + 1) = costLog'
  BY <1>1
<1>5. LogStep
  BY <1>2 DEF LogStep
<1>6. head'[l] = Len(costLog) + 1 => Cost!Known(l)' = costLog'
  BY <1>4 DEF Cost!Known
<1>7. \A f : costLog' = Append(costLog, f) => f = e
  <2> SUFFICES ASSUME NEW f, costLog' = Append(costLog, f) PROVE f = e
    OBVIOUS
  <2>1. Append(costLog, f) = Append(costLog, e)
    OBVIOUS
  <2>2. Append(costLog, f)[Len(costLog) + 1] = f /\ Append(costLog, e)[Len(costLog) + 1] = e
    BY <1>3
  <2> QED
    BY <2>1, <2>2
<1>8. costLog'[Len(costLog) + 1] = e
  BY <1>3
<1> QED
  BY <1>1, <1>2, <1>4, <1>5, <1>6, <1>7, <1>8

LEMMA AppendFails ==
  ASSUME CostBound, CostInv, UNCHANGED <<acting, costUsage, seeded>>, NEW l \in acting, NEW e, Fits(l, e),
         Cost!Unacknowledged(l, e) \/ Cost!Rejected(l),
         NEW to \in {"close", "idle"}, costPc' = [costPc EXCEPT ![l] = to],
         \/ costPc[l] = "seed" /\ Cost!Open(Cost!Known(l)) = {}
         \/ costPc[l] = "drive"
         \/ costPc[l] = "closing" /\ to = "idle",
         head[l] = Len(costLog) /\ e.type = "turn.finished" => e.usage <= Number(e.turn)
  PROVE  CostInv'
<1>1. CostTypes /\ LogShaped /\ Remembers(l) /\ l \in Loops
  BY DEF CostInv, NoneTwice, CostTypes
<1>2. /\ head' = head
      /\ \/ costLog' = costLog /\ costLost' = costLost
         \/ costLog' = Append(costLog, e) /\ costLost' = costLost + 1 /\ head[l] = Len(costLog)
  BY DEF Cost!Unacknowledged, Cost!Rejected
<1>3. LogStep /\ \A f : costLog' = Append(costLog, f) => f = e /\ head[l] = Len(costLog)
  BY <1>1, <1>2, NothingAppended, Appends
<1>4. costPc'[l] = to /\ \A k \in Loops \ {l} : costPc'[k] = costPc[k]
  BY <1>1 DEF CostTypes
<1>5. costLog' \in Seq(EventType) /\ Len(costLog) \in Nat /\ Len(costLog') \in Nat /\ Len(costLog) <= Len(costLog')
  BY <1>1, <1>3, LogGrows
<1>6. CostTypes'
  <2>1. costPc' \in [Loops -> {"idle", "seed", "drive", "close", "closing"}] /\ costLost' \in Nat
    BY <1>1, <1>2 DEF CostTypes
  <2>2. \A k \in Loops : head[k] \in Nat /\ head[k] <= Len(costLog)
    BY <1>1 DEF CostTypes
  <2>3. \A k \in Loops : head'[k] <= Len(costLog')
    BY <1>2, <1>5, <2>2
  <2> QED
    BY <1>1, <1>2, <1>5, <2>1, <2>3 DEF CostTypes
<1>7. Cost!Known(l)' = Cost!Known(l)
  BY <1>1, <1>2, <1>3, KnownStays
<1>8. Remembers(l)'
  BY <1>1, <1>4, <1>7 DEF Remembers, Cost!TurnsIn
<1>9. \A t \in Cost!Turns : UsageFits(l, t)' /\ OfSteps(l, t)'
  <2> TAKE t \in Cost!Turns
  <2>1. SeedThrew(l, t) => costPc[l] = "seed" /\ t \notin Cost!Open(Cost!Known(l))
    BY DEF SeedThrew
  <2>2. SeedThrew(l, t) => Cost!IsClosed(costLog, t)
    BY <1>1, <2>1, ThrewEnds
  <2> QED
    BY <1>1, <1>3, <2>2, UsageStays
<1>10. costLost <= costLost'
  BY <1>1, <1>2 DEF CostTypes
<1>11. \A f : costLog' = Append(costLog, f) /\ f.type = "turn.finished" => f.usage <= Number(f.turn)
  BY <1>3
<1>12. ASSUME Exact(l), costLost' = 0, costLost = 0
       PROVE  /\ costPc'[l] # "idle" => head'[l] = Len(costLog')
              /\ costPc'[l] \in {"drive", "close", "closing"} => \A t \in Cost!Open(costLog') : seeded'[l] = t
              /\ \A t \in Cost!Open(costLog') : seeded'[l] = t => costUsage'[l][t].steps = Number(t)'
              /\ ~\E f : costLog' = Append(costLog, f)
  <2>1. costLog' = costLog /\ head[l] = Len(costLog)
    BY <1>2, <1>12 DEF Exact
  <2>2. costPc[l] = "seed" => Cost!Open(costLog) = {}
    BY <1>1, <2>1, KnownFacts
  <2>3. ~\E f : costLog' = Append(costLog, f)
    BY <1>1, <2>1, NothingAppended
  <2> QED
    BY <1>2, <1>4, <1>12, <2>1, <2>2, <2>3 DEF Exact, Number
<1>13. costLost' = 0 => costLost = 0
  BY <1>1, <1>2 DEF CostTypes
<1>14. \A k \in Loops \ {l} : head'[k] = head[k] /\ costPc'[k] = costPc[k] /\ costUsage'[k] = costUsage[k] /\ seeded'[k] = seeded[k]
  BY <1>2, <1>4
<1> QED
  BY <1>3, <1>6, <1>8, <1>9, <1>10, <1>11, <1>12, <1>13, <1>14, Together

(* The turns of a log, counted.                                            *)
LEMMA TurnsCounted ==
  ASSUME CostBound, NEW entries \in Seq(EventType), Shaped(entries)
  PROVE  /\ Cardinality(Cost!TurnsIn(entries)) \in Nat
         /\ Cardinality(Cost!TurnsIn(entries)) + 1 \notin Cost!TurnsIn(entries)
<1>1. PICK k \in 0..Bound.cost.turns : Cost!TurnsIn(entries) = 1..k
  BY DEF Shaped
<1>2. k \in Nat /\ (1 <= k \/ k = 0)
  BY <1>1 DEF CostBound
<1>3. Cardinality(1..k) = k
  <2>1. CASE k = 0
    <3>1. 1..k = {}
      BY <2>1
    <3> QED
      BY <2>1, <3>1, FS_EmptySet
  <2>2. CASE 1 <= k
    BY <1>2, <2>2, FS_Interval
  <2> QED
    BY <1>2, <2>1, <2>2
<1> QED
  BY <1>1, <1>2, <1>3

LEMMA TurnBegins ==
  ASSUME CostBound, CostInv, UNCHANGED acting, NEW l \in acting, Cost!BeginTurn(l)
  PROVE  CostInv'
<1>0. PICK t0 : t0 = Cardinality(Cost!TurnsIn(Cost!Known(l))) + 1
  OBVIOUS
<1> DEFINE e == Cost!Started(t0)
<1>1. CostTypes /\ LogShaped /\ NoneTwice /\ Remembers(l) /\ l \in Loops
  BY DEF CostInv, NoneTwice, CostTypes
<1>2. /\ costUsage' = costUsage /\ costPc[l] = "seed" /\ Cost!Open(Cost!Known(l)) = {} /\ t0 <= Bound.cost.turns
      /\ \/ Cost!Accepted(l, e) /\ seeded' = [seeded EXCEPT ![l] = t0] /\ costPc' = [costPc EXCEPT ![l] = "drive"]
         \/ /\ Cost!Unacknowledged(l, e) \/ Cost!Rejected(l)
            /\ costPc' = [costPc EXCEPT ![l] = "close"] /\ seeded' = seeded
  <2>1. Cardinality(Cost!TurnsIn(Cost!Known(l))) \in Nat
    BY <1>1, KnownFacts, TurnsCounted
  <2>2. Cardinality(Cost!TurnsIn(Cost!Known(l))) < Bound.cost.turns
    BY SameCardinality DEF Cost!BeginTurn
  <2>3. t0 <= Bound.cost.turns
    BY <1>0, <2>1, <2>2 DEF CostBound
  <2> QED
    BY <1>0, <2>3, SameCardinality DEF Cost!BeginTurn, Cost!To
<1>3. t0 \in Cost!Turns /\ t0 \notin Cost!TurnsIn(Cost!Known(l))
  <2>1. Cardinality(Cost!TurnsIn(Cost!Known(l))) \in Nat /\ t0 \notin Cost!TurnsIn(Cost!Known(l))
    BY <1>0, <1>1, KnownFacts, TurnsCounted
  <2> QED
    BY <1>0, <1>2, <2>1 DEF Cost!Turns, CostBound
<1>4. Fits(l, e) /\ e.type = "turn.started" /\ e.turn = t0
  BY <1>0, <1>2, <1>3 DEF Fits, EventType, Cost!Started
<1> HIDE DEF e
<1>5. CASE /\ Cost!Unacknowledged(l, e) \/ Cost!Rejected(l)
           /\ costPc' = [costPc EXCEPT ![l] = "close"] /\ seeded' = seeded
  BY <1>2, <1>4, <1>5, AppendFails
<1>6. CASE Cost!Accepted(l, e) /\ seeded' = [seeded EXCEPT ![l] = t0] /\ costPc' = [costPc EXCEPT ![l] = "drive"]
  <2>1. /\ head[l] = Len(costLog) /\ costLog' = Append(costLog, e) /\ head' = [head EXCEPT ![l] = head[l] + 1]
        /\ costLost' = costLost
    BY <1>6 DEF Cost!Accepted, Cost!faults
  <2>2. /\ head'[l] = Len(costLog) + 1 /\ seeded'[l] = t0 /\ costPc'[l] = "drive"
        /\ \A k \in Loops \ {l} : head'[k] = head[k] /\ costPc'[k] = costPc[k] /\ costUsage'[k] = costUsage[k] /\ seeded'[k] = seeded[k]
    BY <1>1, <1>2, <1>6, <2>1 DEF CostTypes
  <2>3. /\ LogStep /\ Cost!Known(l) = costLog /\ Appendable(e) /\ costLog \in Seq(EventType)
        /\ \A f : costLog' = Append(costLog, f) => f = e
        /\ Len(costLog') = Len(costLog) + 1 /\ Cost!Known(l)' = costLog'
    BY <1>1, <1>4, <2>1, <2>2, Appends
  <2>4. /\ Cost!TurnsIn(costLog') = Cost!TurnsIn(costLog) \cup {t0}
        /\ \A t : Cost!IsClosed(costLog', t) <=> Cost!IsClosed(costLog, t)
        /\ Cost!StepsOf(costLog', t0) = Cost!StepsOf(costLog, t0)
    <3>1. e \in EventType /\ e.turn = t0 /\ e.type # "step.finished" /\ e.type # "turn.finished"
      BY <1>4 DEF Fits
    <3>2. Cost!TurnsIn(Append(costLog, e)) = Cost!TurnsIn(costLog) \cup {t0}
      BY <2>3, <3>1, Grown
    <3>3. \A t : Cost!IsClosed(Append(costLog, e), t) <=> Cost!IsClosed(costLog, t)
      BY <2>3, <3>1, Grown
    <3>4. Cost!StepsOf(Append(costLog, e), t0) = Cost!StepsOf(costLog, t0) \cup {}
      BY <2>3, <3>1, Grown
    <3> QED
      BY <2>1, <3>2, <3>3, <3>4
  <2>5. ~Cost!IsClosed(costLog, t0) /\ Cost!StepsOf(costLog, t0) = {}
    BY <1>3, <2>3 DEF Cost!IsClosed, Cost!StepsOf, Cost!TurnsIn
  <2>6. Cost!Open(costLog') = {t0}
    BY <1>2, <2>3, <2>4, <2>5 DEF Cost!Open
  <2>7. costUsage[l][t0] = Cost!EmptyUsage
    <3>1. UsageFits(l, t0)
      BY <1>1, <1>3 DEF NoneTwice
    <3>2. seeded[l] # t0
      BY <1>1, <1>3, NumbersKnown DEF Remembers, CostBound
    <3> QED
      BY <1>3, <2>3, <2>5, <3>1, <3>2 DEF UsageFits, SeedThrew
  <2>8. CostTypes'
    <3>1. /\ seeded' \in [Loops -> Cost!Turns \cup {None}] /\ costPc' \in [Loops -> {"idle", "seed", "drive", "close", "closing"}]
          /\ head' \in [Loops -> Nat]
      BY <1>1, <1>3, <1>6, <2>1 DEF CostTypes
    <3>2. costLog' \in Seq(EventType)
      BY <1>1, <2>3, LogGrows
    <3>3. \A k \in Loops : head[k] \in Nat /\ head[k] <= Len(costLog) /\ Len(costLog) \in Nat
      BY <1>1 DEF CostTypes
    <3>4. \A k \in Loops : head'[k] <= Len(costLog')
      BY <2>2, <2>3, <3>3
    <3> QED
      BY <1>1, <1>2, <2>1, <3>1, <3>2, <3>4 DEF CostTypes
  <2>9. Remembers(l)'
    <3>1. Cost!Open(Cost!Known(l))' = {t0} /\ Cost!TurnsIn(Cost!Known(l))' = Cost!TurnsIn(costLog')
      BY <2>3, <2>6 DEF Cost!Open, Cost!TurnsIn, Cost!IsClosed
    <3> QED
      BY <2>2, <2>4, <3>1 DEF Remembers
  <2>10. \A t \in Cost!Turns : UsageFits(l, t)' /\ OfSteps(l, t)'
    <3> TAKE t \in Cost!Turns
    <3>1. CASE t = t0
      <4>1. costUsage'[l][t] = Cost!EmptyUsage
        BY <1>2, <2>7, <3>1
      <4> QED
        BY <4>1 DEF UsageFits, OfSteps, Cost!EmptyUsage
    <3>2. CASE t # t0
      <4>1. t \notin Cost!Open(Cost!Known(l))
        BY <1>2
      <4>2. seeded[l] = t => Cost!IsClosed(costLog, t)
        BY <1>1, <4>1, SeededEnds
      <4>3. SeedThrew(l, t) => Cost!IsClosed(costLog, t)
        BY <1>1, <1>2, <4>1, ThrewEnds
      <4> QED
        BY <1>1, <1>2, <2>3, <4>2, <4>3, UsageStays
    <3> QED
      BY <3>1, <3>2
  <2>11. costLost <= costLost'
    BY <1>1, <2>1 DEF CostTypes
  <2>12. /\ costPc'[l] # "idle" => head'[l] = Len(costLog')
         /\ costPc'[l] \in {"drive", "close", "closing"} => \A t \in Cost!Open(costLog') : seeded'[l] = t
         /\ \A t \in Cost!Open(costLog') : seeded'[l] = t => costUsage'[l][t].steps = Number(t)'
    <3>1. costUsage'[l][t0].steps = 0
      BY <1>2, <2>7 DEF Cost!EmptyUsage
    <3>2. Number(t0)' = 0
      BY <2>4, <2>5, FS_EmptySet DEF Number
    <3> QED
      BY <2>2, <2>3, <2>6, <3>1, <3>2
  <2>13. \A f : costLog' = Append(costLog, f) => f.type # "turn.finished"
    BY <1>4, <2>3
  <2> QED
    BY <2>2, <2>3, <2>8, <2>9, <2>10, <2>11, <2>12, <2>13, Together
<1> QED
  BY <1>2, <1>5, <1>6

(* The usage of the turn a replica works on.                               *)
LEMMA UsageOfTurn ==
  ASSUME CostBound, CostInv, NEW l \in Loops, NEW t \in Cost!Turns, t \in Cost!Open(costLog), costPc[l] \in {"drive", "closing"}
  PROVE  /\ costUsage[l][t] \in UsageType /\ Number(t) \in Nat /\ costUsage[l][t].steps <= Number(t)
         /\ Exact(l) => seeded[l] = t /\ costUsage[l][t].steps = Number(t)
<1>1. CostTypes /\ UsageFits(l, t) /\ ~Cost!IsClosed(costLog, t)
  BY DEF CostInv, NoneTwice, Cost!Open
<1>2. costUsage[l][t] \in UsageType
  BY <1>1 DEF CostTypes, UsageType
<1>3. Number(t) \in Nat
  BY <1>1, StepsCounted DEF CostTypes, Number
<1>4. costUsage[l][t] = Cost!EmptyUsage => costUsage[l][t].steps = 0
  BY DEF Cost!EmptyUsage
<1>5. costUsage[l][t].steps <= Number(t)
  BY <1>1, <1>3, <1>4 DEF UsageFits, SeedThrew
<1> QED
  BY <1>2, <1>3, <1>5 DEF Exact

LEMMA StepFinishes ==
  ASSUME CostBound, CostInv, UNCHANGED acting, NEW l \in acting, Cost!FinishStep(l)
  PROVE  CostInv'
<1>0. PICK t0 : t0 = Cost!Turn(l)
  OBVIOUS
<1>1. CostTypes /\ LogShaped /\ NoneTwice /\ Remembers(l) /\ l \in Loops
  BY DEF CostInv, NoneTwice, CostTypes
<1>2. PICK c \in Currencies :
        /\ seeded' = seeded
        /\ \/ /\ Cost!Accepted(l, [type |-> "step.finished", turn |-> t0, currency |-> c])
              /\ IF Cost!Mixes(costUsage[l][t0], c) THEN costUsage' = costUsage /\ costPc' = [costPc EXCEPT ![l] = "close"]
                 ELSE costUsage' = [costUsage EXCEPT ![l][t0] = Cost!AddUsage(costUsage[l][t0], c)] /\ costPc' = costPc
           \/ /\ Cost!Unacknowledged(l, [type |-> "step.finished", turn |-> t0, currency |-> c]) \/ Cost!Rejected(l)
              /\ costPc' = [costPc EXCEPT ![l] = "close"] /\ costUsage' = costUsage
  BY <1>0 DEF Cost!FinishStep, Cost!To
<1> DEFINE e == [type |-> "step.finished", turn |-> t0, currency |-> c]
<1>3. costPc[l] = "drive" /\ Cardinality(Cost!StepsOf(Cost!Known(l), t0)) < Bound.cost.steps
  BY <1>0, SameCardinality DEF Cost!FinishStep
<1>4. Cost!Open(Cost!Known(l)) = {t0} /\ t0 \in Cost!Turns /\ seeded[l] = t0
  BY <1>0, <1>1, <1>3, TurnIs DEF Remembers
<1>5. Fits(l, e) /\ e.type = "step.finished" /\ e.turn = t0 /\ e.currency = c
  BY <1>2, <1>3, <1>4 DEF Fits, EventType
<1> HIDE DEF e
<1>6. CASE /\ Cost!Unacknowledged(l, e) \/ Cost!Rejected(l)
           /\ costPc' = [costPc EXCEPT ![l] = "close"] /\ costUsage' = costUsage
  BY <1>2, <1>3, <1>5, <1>6, AppendFails DEF e
<1>7. ASSUME Cost!Accepted(l, e),
             IF Cost!Mixes(costUsage[l][t0], c) THEN costUsage' = costUsage /\ costPc' = [costPc EXCEPT ![l] = "close"]
             ELSE costUsage' = [costUsage EXCEPT ![l][t0] = Cost!AddUsage(costUsage[l][t0], c)] /\ costPc' = costPc
      PROVE  CostInv'
  <2>1. /\ head[l] = Len(costLog) /\ costLog' = Append(costLog, e) /\ head' = [head EXCEPT ![l] = head[l] + 1]
        /\ costLost' = costLost
    BY <1>7 DEF Cost!Accepted, Cost!faults
  <2> DEFINE n == Len(costLog)
  <2>2. n \in Nat /\ head'[l] = n + 1 /\ \A k \in Loops \ {l} : head'[k] = head[k]
    BY <1>1, <2>1 DEF CostTypes
  <2>3. /\ LogStep /\ Cost!Known(l) = costLog /\ Appendable(e) /\ costLog \in Seq(EventType)
        /\ \A f : costLog' = Append(costLog, f) => f = e
        /\ Len(costLog') = n + 1 /\ costLog'[n + 1] = e /\ Cost!Known(l)' = costLog'
    BY <1>1, <1>5, <2>1, <2>2, Appends
  <2>4. /\ Cost!TurnsIn(costLog') = Cost!TurnsIn(costLog) \cup {t0}
        /\ \A t : Cost!IsClosed(costLog', t) <=> Cost!IsClosed(costLog, t)
        /\ Cost!StepsOf(costLog', t0) = Cost!StepsOf(costLog, t0) \cup {n + 1}
        /\ Number(t0)' = Number(t0) + 1
    <3>1. e \in EventType /\ e.turn = t0 /\ e.type = "step.finished" /\ e.type # "turn.finished"
      BY <1>5 DEF Fits
    <3>2. Cost!TurnsIn(Append(costLog, e)) = Cost!TurnsIn(costLog) \cup {t0}
      BY <2>3, <3>1, Grown
    <3>3. \A t : Cost!IsClosed(Append(costLog, e), t) <=> Cost!IsClosed(costLog, t)
      BY <2>3, <3>1, Grown
    <3>4. Cost!StepsOf(Append(costLog, e), t0) = Cost!StepsOf(costLog, t0) \cup {n + 1}
      BY <2>3, <3>1, Grown
    <3>5. Cardinality(Cost!StepsOf(Append(costLog, e), t0)) = Cardinality(Cost!StepsOf(costLog, t0)) + 1
      BY <2>3, <3>1, Grown
    <3> QED
      BY <2>1, <3>2, <3>3, <3>4, <3>5 DEF Number
  <2>5. t0 \in Cost!Open(costLog) /\ Cost!Open(costLog') = {t0}
    BY <1>4, <2>3, <2>4 DEF Cost!Open
  <2> DEFINE current == costUsage[l][t0]
             mixes == Cost!Mixes(current, c)
  <2>6. /\ current \in UsageType /\ Number(t0) \in Nat /\ current.steps <= Number(t0)
        /\ Exact(l) => current.steps = Number(t0)
    BY <1>1, <1>3, <1>4, <2>5, UsageOfTurn
  <2>7. /\ current.steps \in Nat /\ current.steps + 1 \in Nat
        /\ Cost!Capped(current.steps + 1) \in Nat /\ Cost!Capped(current.steps + 1) <= current.steps + 1
        /\ current.steps + 1 <= Bound.cost.steps => Cost!Capped(current.steps + 1) = current.steps + 1
    <3>1. current.steps \in Nat /\ current.steps + 1 \in Nat
      BY <2>6 DEF UsageType
    <3> HIDE DEF current
    <3> QED
      BY <3>1, CappedType
  <2>8. /\ ~mixes => costUsage'[l][t0] = [steps |-> Cost!Capped(current.steps + 1), currency |-> c]
        /\ mixes => costUsage'[l][t0] = current
        /\ \A t \in Cost!Turns : t # t0 => costUsage'[l][t] = costUsage[l][t]
        /\ \A k \in Loops \ {l} : costUsage'[k] = costUsage[k]
        /\ costUsage' \in [Loops -> [Cost!Turns -> UsageType]]
    <3>1. [steps |-> Cost!Capped(current.steps + 1), currency |-> c] \in UsageType
      BY <2>7 DEF UsageType
    <3>2. Cost!AddUsage(current, c) = [steps |-> Cost!Capped(current.steps + 1), currency |-> c]
      BY DEF Cost!AddUsage
    <3>3. costUsage \in [Loops -> [Cost!Turns -> UsageType]]
      BY <1>1 DEF CostTypes, UsageType
    <3>4. CASE mixes
      BY <1>7, <3>3, <3>4
    <3>5. CASE ~mixes
      BY <1>1, <1>4, <1>7, <3>1, <3>2, <3>3, <3>5
    <3> QED
      BY <3>4, <3>5
  <2>9. /\ costPc'[l] = (IF mixes THEN "close" ELSE "drive") /\ \A k \in Loops \ {l} : costPc'[k] = costPc[k]
        /\ costPc' \in [Loops -> {"idle", "seed", "drive", "close", "closing"}]
    BY <1>1, <1>3, <1>7 DEF CostTypes
  <2> HIDE DEF mixes, current, n
  <2>10. CostTypes'
    <3>1. head' \in [Loops -> Nat] /\ costLog' \in Seq(EventType)
      BY <1>1, <2>1, <2>3, LogGrows DEF CostTypes
    <3>2. \A k \in Loops : head[k] \in Nat /\ head[k] <= n
      BY <1>1 DEF CostTypes, n
    <3>3. \A k \in Loops : head'[k] <= Len(costLog')
      BY <2>2, <2>3, <3>2
    <3> QED
      BY <1>1, <1>2, <2>1, <2>8, <2>9, <3>1, <3>3 DEF CostTypes, UsageType
  <2>11. Remembers(l)'
    <3>1. Cost!Open(Cost!Known(l))' = {t0} /\ Cost!TurnsIn(Cost!Known(l))' = Cost!TurnsIn(costLog')
      BY <2>3, <2>5 DEF Cost!Open, Cost!TurnsIn, Cost!IsClosed
    <3> QED
      BY <1>2, <1>4, <2>4, <3>1 DEF Remembers
  <2>12. \A t \in Cost!Turns : UsageFits(l, t)' /\ OfSteps(l, t)'
    <3> TAKE t \in Cost!Turns
    <3>1. ~SeedThrew(l, t)
      BY <1>3 DEF SeedThrew
    <3>2. CASE t # t0 \/ mixes
      <4>1. costUsage'[l][t] = costUsage[l][t]
        BY <2>8, <3>2 DEF current
      <4>2. seeded[l] = t => seeded'[l] = t
        BY <1>2
      <4> QED
        BY <1>1, <2>3, <3>1, <4>1, <4>2, UsageStays
    <3>3. CASE t = t0 /\ ~mixes
      <4>1. costUsage'[l][t0].steps = Cost!Capped(current.steps + 1) /\ costUsage'[l][t0].currency = c
        BY <2>8, <3>3
      <4>2. costUsage'[l][t0].steps <= Number(t0)'
        BY <2>4, <2>6, <2>7, <4>1
      <4>3. n + 1 \in Cost!StepsOf(costLog', t0) /\ costLog'[n + 1].currency = c
        BY <1>5, <2>3, <2>4
      <4>4. UsageFits(l, t0)'
        BY <1>2, <1>4, <4>2 DEF UsageFits
      <4>5. OfSteps(l, t0)'
        BY <4>1, <4>3 DEF OfSteps
      <4> QED
        BY <3>3, <4>4, <4>5
    <3> QED
      BY <3>2, <3>3
  <2>13. costLost <= costLost'
    BY <1>1, <2>1 DEF CostTypes
  <2>14. ASSUME Exact(l), Cost!OneCurrency(costLog)'
         PROVE  /\ costPc'[l] # "idle" => head'[l] = Len(costLog')
                /\ costPc'[l] \in {"drive", "close", "closing"} => \A t \in Cost!Open(costLog') : seeded'[l] = t
                /\ \A t \in Cost!Open(costLog') : seeded'[l] = t => costUsage'[l][t].steps = Number(t)'
    <3>1. ~mixes
      <4> SUFFICES ASSUME mixes PROVE FALSE
        OBVIOUS
      <4>1. current.currency # None /\ current.currency # c /\ OfSteps(l, t0)
        BY <1>1, <1>4 DEF mixes, Cost!Mixes, NoneTwice
      <4>2. PICK i \in Cost!StepsOf(costLog, t0) : costLog[i].currency = current.currency
        BY <4>1 DEF OfSteps, current
      <4>3. i \in Cost!StepsOf(costLog', t0) /\ costLog'[i] = costLog[i]
        BY <1>1, <2>3, StepsGrow
      <4>4. n + 1 \in Cost!StepsOf(costLog', t0) /\ costLog'[n + 1].currency = c
        BY <1>5, <2>3, <2>4
      <4>5. costLog'[i].currency = costLog'[n + 1].currency
        BY <2>14, <4>3, <4>4 DEF Cost!OneCurrency, Cost!StepsOf
      <4> QED
        BY <4>1, <4>2, <4>3, <4>4, <4>5
    <3>2. Number(t0)' <= Bound.cost.steps
      BY <1>1, <1>4, <2>3, StepsGrow DEF NoneTwice
    <3>3. costUsage'[l][t0].steps = Number(t0)'
      BY <2>4, <2>6, <2>7, <2>8, <2>14, <3>1, <3>2
    <3> QED
      BY <1>2, <1>4, <2>2, <2>3, <2>5, <3>3
  <2>15. \A f : costLog' = Append(costLog, f) => f.type # "turn.finished"
    BY <1>5, <2>3
  <2>16. \A k \in Loops \ {l} : head'[k] = head[k] /\ costPc'[k] = costPc[k] /\ costUsage'[k] = costUsage[k] /\ seeded'[k] = seeded[k]
    BY <1>2, <2>2, <2>8, <2>9
  <2> QED
    BY <2>3, <2>10, <2>11, <2>12, <2>13, <2>14, <2>15, <2>16, Together
<1> QED
  BY <1>2, <1>6, <1>7 DEF e

-----------------------------------------------------------------------------
(* The end of a turn.                                                      *)
LEMMA TurnFinishes ==
  ASSUME CostBound, CostInv, UNCHANGED acting, NEW l \in acting, Cost!FinishTurn(l)
  PROVE  CostInv'
<1>0. PICK t0 : t0 = Cost!Turn(l)
  OBVIOUS
<1> DEFINE e == Cost!Finished(l, t0)
<1>1. CostTypes /\ LogShaped /\ NoneTwice /\ Remembers(l) /\ l \in Loops
  BY DEF CostInv, NoneTwice, CostTypes
<1>2. /\ seeded' = seeded /\ costPc[l] \in {"drive", "closing"}
      /\ \/ Cost!Accepted(l, e) /\ costUsage' = [costUsage EXCEPT ![l][t0] = Cost!EmptyUsage] /\ costPc' = [costPc EXCEPT ![l] = "idle"]
         \/ /\ Cost!Unacknowledged(l, e) \/ Cost!Rejected(l)
            /\ costPc' = [costPc EXCEPT ![l] = IF costPc[l] = "drive" THEN "close" ELSE "idle"] /\ costUsage' = costUsage
  BY <1>0 DEF Cost!FinishTurn, Cost!To
<1>3. Cost!Open(Cost!Known(l)) = {t0} /\ t0 \in Cost!Turns
  BY <1>0, <1>1, TurnIs DEF Cost!FinishTurn
<1>4. e.type = "turn.finished" /\ e.turn = t0 /\ e.usage = costUsage[l][t0].steps
  BY DEF Cost!Finished
<1>5. Fits(l, e)
  <2>1. costUsage[l][t0].steps \in Nat
    BY <1>1, <1>3 DEF CostTypes
  <2> QED
    BY <1>3, <2>1 DEF Fits, EventType, Cost!Finished
<1> HIDE DEF e
<1>6. head[l] = Len(costLog) =>
        /\ t0 \in Cost!Open(costLog) /\ Cost!Open(costLog) = {t0} /\ Cost!Known(l) = costLog
        /\ e.usage \in Nat /\ Number(t0) \in Nat /\ e.usage <= Number(t0)
        /\ Exact(l) => e.usage = Number(t0)
  <2> HAVE head[l] = Len(costLog)
  <2>1. Cost!Known(l) = costLog /\ t0 \in Cost!Open(costLog)
    BY <1>1, <1>3, KnownFacts
  <2>2. /\ costUsage[l][t0] \in UsageType /\ Number(t0) \in Nat /\ costUsage[l][t0].steps <= Number(t0)
        /\ Exact(l) => costUsage[l][t0].steps = Number(t0)
    BY <1>1, <1>2, <1>3, <2>1, UsageOfTurn
  <2>3. costUsage[l][t0].steps \in Nat
    BY <2>2 DEF UsageType
  <2> QED
    BY <1>3, <1>4, <2>1, <2>2, <2>3
<1>7. ASSUME Cost!Unacknowledged(l, e) \/ Cost!Rejected(l), costUsage' = costUsage,
             costPc' = [costPc EXCEPT ![l] = IF costPc[l] = "drive" THEN "close" ELSE "idle"]
      PROVE  CostInv'
  <2>1. CASE costPc[l] = "drive"
    <3>1. costPc' = [costPc EXCEPT ![l] = "close"]
      BY <1>7, <2>1
    <3> QED
      BY <1>2, <1>4, <1>5, <1>6, <1>7, <2>1, <3>1, AppendFails
  <2>2. CASE costPc[l] = "closing"
    <3>1. costPc' = [costPc EXCEPT ![l] = "idle"]
      BY <1>7, <2>2
    <3> QED
      BY <1>2, <1>4, <1>5, <1>6, <1>7, <2>2, <3>1, AppendFails
  <2> QED
    BY <1>2, <2>1, <2>2
<1>8. ASSUME Cost!Accepted(l, e), costUsage' = [costUsage EXCEPT ![l][t0] = Cost!EmptyUsage], costPc' = [costPc EXCEPT ![l] = "idle"]
      PROVE  CostInv'
  <2>1. /\ head[l] = Len(costLog) /\ costLog' = Append(costLog, e) /\ head' = [head EXCEPT ![l] = head[l] + 1]
        /\ costLost' = costLost
    BY <1>8 DEF Cost!Accepted, Cost!faults
  <2>2. /\ head'[l] = Len(costLog) + 1 /\ costPc'[l] = "idle"
        /\ \A k \in Loops \ {l} : head'[k] = head[k] /\ costPc'[k] = costPc[k]
    BY <1>1, <1>8, <2>1 DEF CostTypes
  <2>3. /\ LogStep /\ Cost!Known(l) = costLog /\ costLog \in Seq(EventType)
        /\ \A f : costLog' = Append(costLog, f) => f = e
        /\ Len(costLog') = Len(costLog) + 1 /\ Cost!Known(l)' = costLog'
    BY <1>1, <1>5, <2>1, <2>2, Appends
  <2>4. /\ Cost!TurnsIn(costLog') = Cost!TurnsIn(costLog) \cup {t0}
        /\ \A t : Cost!IsClosed(costLog', t) <=> Cost!IsClosed(costLog, t) \/ t = t0
    <3>1. e \in EventType /\ e.turn = t0 /\ e.type = "turn.finished"
      BY <1>4, <1>5 DEF Fits
    <3>2. Cost!TurnsIn(Append(costLog, e)) = Cost!TurnsIn(costLog) \cup {t0}
      BY <2>3, <3>1, Grown
    <3>3. \A t : Cost!IsClosed(Append(costLog, e), t) <=> Cost!IsClosed(costLog, t) \/ t = t0
      BY <2>3, <3>1, Grown
    <3> QED
      BY <2>1, <3>2, <3>3
  <2>5. Cost!Open(costLog') = {}
    BY <1>6, <2>1, <2>4 DEF Cost!Open
  <2>6. /\ costUsage'[l][t0] = Cost!EmptyUsage /\ \A t \in Cost!Turns : t # t0 => costUsage'[l][t] = costUsage[l][t]
        /\ \A k \in Loops \ {l} : costUsage'[k] = costUsage[k]
    BY <1>1, <1>3, <1>8 DEF CostTypes
  <2>7. CostTypes'
    <3>1. costUsage' \in [Loops -> [Cost!Turns -> UsageType]]
      <4>1. Cost!EmptyUsage \in UsageType /\ costUsage \in [Loops -> [Cost!Turns -> UsageType]]
        BY <1>1 DEF CostTypes, UsageType, Cost!EmptyUsage
      <4> QED
        BY <1>1, <1>3, <1>8, <4>1
    <3>2. /\ costPc' \in [Loops -> {"idle", "seed", "drive", "close", "closing"}] /\ head' \in [Loops -> Nat]
          /\ costLog' \in Seq(EventType)
      BY <1>1, <1>8, <2>1, <2>3, LogGrows DEF CostTypes
    <3>3. \A k \in Loops : head[k] \in Nat /\ head[k] <= Len(costLog) /\ Len(costLog) \in Nat
      BY <1>1 DEF CostTypes
    <3>4. \A k \in Loops : head'[k] <= Len(costLog')
      BY <2>2, <2>3, <3>3
    <3> QED
      BY <1>1, <1>2, <2>1, <3>1, <3>2, <3>4 DEF CostTypes, UsageType
  <2>8. Remembers(l)'
    <3>1. Cost!TurnsIn(Cost!Known(l))' = Cost!TurnsIn(costLog')
      BY <2>3 DEF Cost!TurnsIn
    <3>2. seeded[l] # None => seeded[l] \in Cost!TurnsIn(costLog)
      BY <1>1, <2>3 DEF Remembers
    <3> QED
      BY <1>2, <2>2, <2>4, <3>1, <3>2 DEF Remembers
  <2>9. \A t \in Cost!Turns : UsageFits(l, t)' /\ OfSteps(l, t)'
    <3> TAKE t \in Cost!Turns
    <3>1. CASE t = t0
      <4>1. costUsage'[l][t] = Cost!EmptyUsage
        BY <2>6, <3>1
      <4> QED
        BY <4>1 DEF UsageFits, OfSteps, Cost!EmptyUsage
    <3>2. CASE t # t0
      <4>1. ~SeedThrew(l, t)
        BY <1>2 DEF SeedThrew
      <4>2. costUsage'[l][t] = costUsage[l][t] /\ (seeded[l] = t => seeded'[l] = t)
        BY <1>2, <2>6, <3>2
      <4> QED
        BY <1>1, <2>3, <4>1, <4>2, UsageStays
    <3> QED
      BY <3>1, <3>2
  <2>10. costLost <= costLost'
    BY <1>1, <2>1 DEF CostTypes
  <2>11. \A f : costLog' = Append(costLog, f) /\ f.type = "turn.finished" =>
           f.usage <= Number(f.turn) /\ (Exact(l) => f.usage = Number(f.turn))
    BY <1>4, <1>6, <2>1, <2>3
  <2>12. \A k \in Loops \ {l} : head'[k] = head[k] /\ costPc'[k] = costPc[k] /\ costUsage'[k] = costUsage[k] /\ seeded'[k] = seeded[k]
    BY <1>2, <2>2, <2>6
  <2> QED
    BY <2>2, <2>3, <2>5, <2>7, <2>8, <2>9, <2>10, <2>11, <2>12, Together
<1> QED
  BY <1>2, <1>7, <1>8

LEMMA CostStarts == ASSUME CostBound, Cost!Init PROVE CostInv
<1>1. /\ acting \subseteq Loops /\ costLog = <<>> /\ costPc = [l \in Loops |-> "idle"] /\ head = [l \in Loops |-> 0]
      /\ costUsage = [l \in Loops |-> [t \in Cost!Turns |-> Cost!EmptyUsage]] /\ seeded = [l \in Loops |-> None] /\ costLost = 0
  BY DEF Cost!Init
<1>2. costLog \in Seq(EventType) /\ Len(costLog) = 0
  BY <1>1
<1>3. CostTypes
  BY <1>1, <1>2 DEF CostTypes, Cost!EmptyUsage
<1>4. LogShaped
  <2>1. \A h \in 0..Len(costLog) : Prefix(h) = <<>>
    BY <1>1, <1>2 DEF Prefix
  <2>2. Cost!TurnsIn(<<>>) = {} /\ 1..0 = {} /\ 0 \in 0..Bound.cost.turns
    BY DEF Cost!TurnsIn, CostBound
  <2>3. Shaped(<<>>)
    BY <2>2 DEF Shaped
  <2> QED
    BY <2>1, <2>3 DEF LogShaped
<1>5. \A t : Number(t) = 0
  <2>1. \A t : Cost!StepsOf(costLog, t) = {}
    BY <1>1 DEF Cost!StepsOf
  <2> QED
    BY <2>1, FS_EmptySet DEF Number
<1>6. NoneTwice
  <2>1. \A t \in Cost!Turns : Number(t) <= Bound.cost.steps
    BY <1>5 DEF CostBound
  <2>2. \A l \in Loops : Remembers(l) /\ \A t \in Cost!Turns : UsageFits(l, t) /\ OfSteps(l, t)
    BY <1>1 DEF Remembers, UsageFits, OfSteps, Cost!EmptyUsage
  <2> QED
    BY <1>1, <2>1, <2>2 DEF NoneTwice
<1>7. AllExact
  <2>1. Cost!Open(costLog) = {}
    BY <1>1 DEF Cost!Open, Cost!TurnsIn
  <2> QED
    BY <1>1, <1>3, <2>1 DEF AllExact, Exact, CostTypes
<1> QED
  BY <1>3, <1>4, <1>6, <1>7 DEF CostInv

LEMMA CostStep == ASSUME CostBound, CostInv, [Cost!Next]_costVars PROVE CostInv'
<1>1. CASE UNCHANGED costVars
  <2>1. UNCHANGED <<acting, costLog, costPc, head, costUsage, seeded, costLost>>
    BY <1>1 DEF costVars
  <2>2. CostTypes' /\ LogShaped'
    BY <2>1 DEF CostInv, CostTypes, LogShaped, Shaped, Prefix
  <2>3. \A t : Number(t)' = Number(t) /\ (Mixed(t)' <=> Mixed(t))
    BY <2>1 DEF Number, Mixed
  <2>4. \A i : StepsUntil(i)' = StepsUntil(i)
    BY <2>1 DEF StepsUntil, Prefix
  <2>5. \A l : Cost!Known(l)' = Cost!Known(l)
    BY <2>1 DEF Cost!Known
  <2>6. \A l \in Loops : Remembers(l) => Remembers(l)'
    BY <2>1, <2>5 DEF Remembers, Cost!Open, Cost!TurnsIn, Cost!IsClosed
  <2>7. \A l \in Loops, t \in Cost!Turns : UsageFits(l, t) /\ OfSteps(l, t) => UsageFits(l, t)' /\ OfSteps(l, t)'
    BY <2>1, <2>3, <2>5 DEF UsageFits, SeedThrew, OfSteps, Cost!TurnsIn
  <2>8. NoneTwice'
    BY <2>1, <2>3, <2>4, <2>6, <2>7 DEF CostInv, NoneTwice
  <2>9. \A l : Exact(l) => Exact(l)'
    BY <2>1, <2>3, <2>4 DEF Exact
  <2>10. AllExact'
    BY <2>1, <2>9 DEF CostInv, AllExact, Cost!OneReplica
  <2> QED
    BY <2>2, <2>8, <2>10 DEF CostInv
<1>2. ASSUME UNCHANGED acting, NEW l \in acting, Cost!Step(l) \/ Cost!Crash(l) PROVE CostInv'
  <2>1. CASE Cost!Prepare(l)
    <3>1. /\ UNCHANGED <<costLog, costUsage, seeded, costLost>> /\ costPc[l] = "idle"
          /\ head' = [head EXCEPT ![l] = Len(costLog)] /\ costPc' = [costPc EXCEPT ![l] = "seed"]
      BY <2>1 DEF Cost!Prepare, Cost!To, Cost!faults
    <3> QED
      BY <1>2, <3>1, Reloads
  <2>2. CASE Cost!Close(l)
    <3>1. /\ UNCHANGED <<costLog, costUsage, seeded, costLost>> /\ costPc[l] = "close"
          /\ head' = [head EXCEPT ![l] = Len(costLog)]
          /\ costPc' = [costPc EXCEPT ![l] = "idle"] \/ costPc' = [costPc EXCEPT ![l] = "closing"]
      BY <2>2 DEF Cost!Close, Cost!To, Cost!faults
    <3> QED
      BY <1>2, <3>1, Reloads
  <2>3. CASE Cost!Seed(l)
    BY <1>2, <2>3, SeedKeeps
  <2>4. CASE Cost!SeededAlready(l)
    BY <1>2, <2>4, AlreadySeeded
  <2>5. CASE Cost!BeginTurn(l)
    BY <1>2, <2>5, TurnBegins
  <2>6. CASE Cost!FinishStep(l)
    BY <1>2, <2>6, StepFinishes
  <2>7. CASE Cost!FinishTurn(l)
    BY <1>2, <2>7, TurnFinishes
  <2>8. CASE Cost!Crash(l)
    BY <1>2, <2>8, CostCrashes
  <2> QED
    BY <1>2, <2>1, <2>2, <2>3, <2>4, <2>5, <2>6, <2>7, <2>8 DEF Cost!Step
<1> QED
  BY <1>1, <1>2 DEF Cost!Next

(* The invariant gives the property: what a turn reports against the steps *)
(* the log had of it.                                                      *)
LEMMA CostHolds == ASSUME CostInv PROVE Cost!TurnUsageIsSum
<1>1. CostTypes /\ NoneTwice /\ AllExact
  BY DEF CostInv
<1>2. \A i : Cost!Steps(i) = StepsUntil(i) /\ Cost!Reported(i) = costLog[i].usage
  BY SameCardinality DEF Cost!Steps, StepsUntil, Prefix, Cost!Reported
<1>3. \A i \in DOMAIN costLog : costLog[i].type = "turn.finished" => Cost!Reported(i) <= Cost!Steps(i)
  BY <1>1, <1>2 DEF NoneTwice
<1>4. ASSUME Cost!OneReplica, costLost = 0, Cost!OneCurrency(costLog), NEW i \in DOMAIN costLog, costLog[i].type = "turn.finished"
      PROVE  Cost!Reported(i) = Cost!Steps(i)
  <2>1. PICK l \in acting : Exact(l)
    BY <1>1, <1>4 DEF AllExact, Cost!OneReplica
  <2> QED
    BY <1>2, <1>4, <2>1 DEF Exact
<1> QED
  BY <1>3, <1>4 DEF Cost!TurnUsageIsSum

-----------------------------------------------------------------------------
(* Joining sequences, one more at a time.                                  *)

(* Induction over a set of numbers.                                        *)
LEMMA SetInduction ==
  ASSUME NEW P \in SUBSET Nat, 0 \in P, \A n \in P : n + 1 \in P
  PROVE  P = Nat
<1> SUFFICES ASSUME P # Nat PROVE FALSE
  OBVIOUS
<1> DEFINE R == {p \in Nat \X Nat : p[1] < p[2]}
           T == Nat \ P
<1>1. IsWellFoundedOn(R, Nat)
  BY NatLessThanWellFounded DEF OpToRel
<1>2. T # {} /\ T \subseteq Nat
  OBVIOUS
<1> HIDE DEF R, T
<1>3. PICK i \in T : \A j \in T : <<j, i>> \notin R
  BY <1>1, <1>2, WFMin
<1>4. i \in Nat /\ i # 0 /\ i - 1 \in Nat /\ i - 1 \notin P
  BY <1>3 DEF T
<1>5. <<i - 1, i>> \in R
  BY <1>4 DEF R
<1> QED
  BY <1>3, <1>4, <1>5 DEF T

(* A name for the concatenation, which the provers shall not look into.    *)
Glue(s, t) == s \o t

(* f joins the first 1, 2, ..., n sequences of ss.                         *)
Joins(ss, n, f) == f = [i \in 1..n |-> IF i = 1 THEN ss[i] ELSE Glue(f[i - 1], ss[i])]

(* f on fewer of them.                                                     *)
Upto(f, n) == [i \in 1..n |-> f[i]]

LEMMA JoinsUpto ==
  ASSUME NEW ss, NEW other, NEW n \in Nat, NEW f, Joins(ss, n + 1, f),
         \A i \in 1..n : other[i] = ss[i]
  PROVE  Joins(other, n, Upto(f, n))
<1>1. \A i \in 1..n : f[i] = IF i = 1 THEN ss[i] ELSE Glue(f[i - 1], ss[i])
  BY DEF Joins
<1>2. \A i \in 1..n : i # 1 => i - 1 \in 1..n
  OBVIOUS
<1> QED
  BY <1>1, <1>2 DEF Joins, Upto

(* There is one such function for every number of sequences.               *)
LEMMA JoinsExist ==
  ASSUME NEW ss, NEW n \in Nat
  PROVE  /\ \E f : Joins(ss, n, f)
         /\ \A f, g : Joins(ss, n, f) /\ Joins(ss, n, g) => f = g
<1> DEFINE P == {m \in Nat : /\ \E f : Joins(ss, m, f)
                             /\ \A f, g : Joins(ss, m, f) /\ Joins(ss, m, g) => f = g}
<1>1. 0 \in P
  <2>1. 1..0 = {}
    OBVIOUS
  <2>2. \A f : Joins(ss, 0, f) <=> f = [i \in {} |-> 0]
    BY <2>1 DEF Joins
  <2> QED
    BY <2>2
<1>2. ASSUME NEW m \in P PROVE m + 1 \in P
  <2>1. m \in Nat /\ \A f, g : Joins(ss, m, f) /\ Joins(ss, m, g) => f = g
    OBVIOUS
  <2>2. PICK f : Joins(ss, m, f)
    OBVIOUS
  <2> DEFINE At(i) == IF i = 1 THEN ss[i] ELSE Glue(f[i - 1], ss[i])
             g == [i \in 1..(m + 1) |-> At(i)]
  <2>3. \A i \in 1..m : g[i] = f[i]
    <3>1. \A i \in 1..m : f[i] = At(i) /\ i \in 1..(m + 1)
      BY <2>1, <2>2 DEF Joins
    <3> QED
      BY <3>1
  <2>4. \A i \in 1..(m + 1) : i # 1 => i - 1 \in 1..m
    BY <2>1
  <2>5. Joins(ss, m + 1, g)
    <3>1. \A i \in 1..(m + 1) : i # 1 => g[i - 1] = f[i - 1]
      BY <2>3, <2>4
    <3> HIDE DEF g
    <3> QED
      BY <3>1 DEF Joins, g
  <2>6. ASSUME NEW h, Joins(ss, m + 1, h) PROVE h = g
    <3>1. Upto(h, m) = f
      BY <2>1, <2>2, <2>6, JoinsUpto
    <3>2. \A i \in 1..(m + 1) : i # 1 => h[i - 1] = f[i - 1]
      BY <3>1, <2>4 DEF Upto
    <3>3. \A i \in 1..(m + 1) : (IF i = 1 THEN ss[i] ELSE Glue(h[i - 1], ss[i])) = At(i)
      BY <3>2
    <3> QED
      BY <2>6, <3>3 DEF Joins
  <2> HIDE DEF g
  <2> QED
    BY <2>1, <2>5, <2>6
<1> HIDE DEF P
<1>3. P = Nat
  BY <1>1, <1>2, SetInduction DEF P
<1> QED
  BY <1>3 DEF P

LEMMA FlattenJoins ==
  ASSUME NEW ss, Len(ss) # 0
  PROVE  FlattenSeq(ss) = (CHOOSE f : Joins(ss, Len(ss), f))[Len(ss)]
  BY DEF FlattenSeq, Joins, Glue

LEMMA FlattenAppend ==
  ASSUME NEW S, NEW ss \in Seq(Seq(S)), NEW s \in Seq(S)
  PROVE  FlattenSeq(Append(ss, s)) = FlattenSeq(ss) \o s
<1> DEFINE n == Len(ss)
           new == Append(ss, s)
<1>1. n \in Nat /\ Len(new) = n + 1 /\ new[n + 1] = s /\ \A i \in 1..n : new[i] = ss[i]
  OBVIOUS
<1> HIDE DEF n, new
<1>2. PICK g : Joins(new, n + 1, g) /\ FlattenSeq(new) = g[n + 1]
  BY <1>1, JoinsExist, FlattenJoins
<1>3. g[n + 1] = IF n + 1 = 1 THEN new[n + 1] ELSE Glue(g[n + 1 - 1], new[n + 1])
  BY <1>1, <1>2 DEF Joins
<1>4. CASE n = 0
  <2>1. ss = <<>> /\ <<>> \o s = s
    BY <1>4, EmptySeq, ConcatEmptySeq DEF n
  <2>2. FlattenSeq(ss) = <<>>
    BY <2>1 DEF FlattenSeq
  <2> QED
    BY <1>1, <1>2, <1>3, <1>4, <2>1, <2>2 DEF new, Glue
<1>5. CASE n # 0
  <2>1. PICK f : Joins(ss, n, f) /\ FlattenSeq(ss) = f[n]
    BY <1>1, <1>5, JoinsExist, FlattenJoins DEF n
  <2>2. Upto(g, n) = f
    BY <1>1, <1>2, <2>1, JoinsUpto, JoinsExist
  <2>3. g[n] = f[n]
    BY <1>1, <1>5, <2>2 DEF Upto
  <2>4. g[n + 1] = Glue(g[n], s)
    BY <1>1, <1>3, <1>5
  <2> QED
    BY <1>2, <2>1, <2>3, <2>4 DEF new, Glue
<1> QED
  BY <1>4, <1>5
-----------------------------------------------------------------------------
(* The steering queue.                                                     *)

Has(s, i) == \E k \in DOMAIN s : s[k] = i

Count(s, i) == Cardinality({k \in DOMAIN s : s[k] = i})

LEMMA CountType ==
  ASSUME NEW s \in Seq(Nat), NEW i
  PROVE  /\ IsFiniteSet({k \in DOMAIN s : s[k] = i})
         /\ Count(s, i) \in Nat
         /\ Count(s, i) > 0 <=> Has(s, i)
<1> DEFINE its == {k \in DOMAIN s : s[k] = i}
<1>1. IsFiniteSet(1..Len(s)) /\ DOMAIN s = 1..Len(s)
  BY LenProperties, FS_Interval
<1>2. IsFiniteSet(its)
  <2>1. its \subseteq 1..Len(s)
    BY <1>1
  <2> QED
    BY <1>1, <2>1, FS_Subset
<1>3. Cardinality(its) \in Nat /\ (Cardinality(its) = 0 <=> its = {})
  BY <1>2, FS_CardinalityType, FS_EmptySet
<1>4. its = {} <=> ~Has(s, i)
  BY DEF Has
<1> QED
  BY <1>2, <1>3, <1>4 DEF Count

(* Inputs that are all different are counted once more each.               *)
LEMMA CountJoined ==
  ASSUME NEW s \in Seq(Nat), NEW t \in Seq(Nat), NEW i,
         \A k, m \in DOMAIN t : t[k] = t[m] => k = m
  PROVE  /\ Count(s \o t, i) <= Count(s, i) + 1
         /\ ~Has(t, i) => Count(s \o t, i) = Count(s, i)
<1> DEFINE its == {k \in DOMAIN s : s[k] = i}
           all == {k \in DOMAIN (s \o t) : (s \o t)[k] = i}
           n == Len(s)
<1>1. /\ s \o t \in Seq(Nat) /\ n \in Nat /\ Len(t) \in Nat
      /\ DOMAIN s = 1..n /\ DOMAIN t = 1..Len(t) /\ DOMAIN (s \o t) = 1..(n + Len(t))
      /\ \A k \in 1..n : (s \o t)[k] = s[k]
      /\ \A k \in 1..Len(t) : (s \o t)[n + k] = t[k]
  BY LenProperties, ConcatProperties
<1>2. IsFiniteSet(its) /\ Count(s, i) = Cardinality(its) /\ Count(s \o t, i) = Cardinality(all)
  BY CountType DEF Count
<1>3. Cardinality(its) \in Nat
  BY <1>2, FS_CardinalityType
<1>4. CASE ~Has(t, i)
  <2>1. ASSUME NEW k \in 1..(n + Len(t)), k > n PROVE (s \o t)[k] # i
    <3>1. k - n \in 1..Len(t) /\ k = n + (k - n)
      BY <1>1, <2>1
    <3>2. (s \o t)[k] = t[k - n] /\ k - n \in DOMAIN t
      BY <1>1, <3>1
    <3> QED
      BY <1>4, <3>2 DEF Has
  <2>2. all = its
    BY <1>1, <2>1
  <2> HIDE DEF its, all
  <2> QED
    BY <1>2, <1>3, <2>2
<1>5. ASSUME NEW x \in DOMAIN t, t[x] = i PROVE Count(s \o t, i) <= Count(s, i) + 1
  <2>1. ASSUME NEW k \in 1..(n + Len(t)), k > n, (s \o t)[k] = i PROVE k = n + x
    <3>1. k - n \in 1..Len(t) /\ k = n + (k - n)
      BY <1>1, <2>1
    <3>2. t[k - n] = i
      BY <1>1, <2>1, <3>1
    <3>3. k - n = x
      BY <1>1, <1>5, <3>1, <3>2
    <3> QED
      BY <3>1, <3>3
  <2>2. all \subseteq its \cup {n + x}
    BY <1>1, <2>1
  <2> HIDE DEF its, all
  <2>3. IsFiniteSet(its \cup {n + x}) /\ Cardinality(its \cup {n + x}) <= Cardinality(its) + 1
    <3>1. IsFiniteSet(its)
      BY <1>2
    <3>2. /\ IsFiniteSet(its \cup {n + x})
          /\ Cardinality(its \cup {n + x}) = IF n + x \in its THEN Cardinality(its) ELSE Cardinality(its) + 1
      BY <3>1, FS_AddElement
    <3> QED
      BY <1>3, <3>2
  <2>4. Cardinality(all) <= Cardinality(its \cup {n + x})
    BY <2>2, <2>3, FS_Subset
  <2>5. Cardinality(all) \in Nat /\ Cardinality(its \cup {n + x}) \in Nat
    BY <2>2, <2>3, FS_Subset, FS_CardinalityType
  <2> QED
    BY <1>2, <1>3, <2>3, <2>4, <2>5
<1> QED
  BY <1>2, <1>3, <1>4, <1>5 DEF Has

SteerTypes ==
  /\ steering \in Seq(Nat) /\ batch \in Seq(Nat)
  /\ started \in Seq(Seq(Nat)) /\ Injected \in Seq(Nat)
  /\ steered \in Nat /\ kept \in Nat /\ lost \in Nat
  /\ memory \in BOOLEAN /\ active \in BOOLEAN

(* The step being started injects the head of the queue; the memory has    *)
(* the step once its event is acknowledged; what a dry run will cut was    *)
(* steered while it ran.                                                   *)
Starting ==
  /\ pc \in {"idle", "append", "rejected", "preview", "close"} => ~memory
  /\ pc \in {"append", "consume", "rejected"} =>
       /\ Len(batch) <= Len(steering)
       /\ \A k \in 1..Len(batch) : steering[k] = batch[k]
  /\ pc = "consume" => memory /\ \A k \in 1..Len(batch) : Has(Injected, batch[k])
  /\ pc = "preview" =>
       /\ kept <= Len(steering)
       /\ \A k \in (kept + 1)..Len(steering) : steering[k] \in previewed

NoneLost == ~crashed => \A i \in 1..steered : i \in previewed \/ Has(Injected, i) \/ Has(steering, i)

(* The queue is in order; what still waits was injected once for every     *)
(* acknowledgement lost at most, and whatever is in the log that came      *)
(* later, it was injected before.                                          *)
Waits(k) == k \in 1..Len(steering) /\ (pc = "consume" => k > Len(batch))

Before(s, i, m) == \E j \in 1..m : s[j] = i

Ordered ==
  /\ \A k \in 1..Len(steering) : steering[k] <= steered
  /\ \A k, m \in 1..Len(steering) : k < m => steering[k] < steering[m]
  /\ \A k \in 1..Len(Injected) : Injected[k] <= steered
  /\ \A k, m \in 1..Len(Injected) : k < m /\ Injected[k] > Injected[m] => Before(Injected, Injected[m], k)
  /\ \A k : Waits(k) => \A m \in 1..Len(Injected) : Injected[m] > steering[k] => Before(Injected, steering[k], m)

Counted ==
  /\ \A i \in Nat : Count(Injected, i) <= 1 + lost
  /\ \A k : Waits(k) => Count(Injected, steering[k]) <= lost

SteerInv == SteerTypes /\ Starting /\ NoneLost /\ Ordered /\ Counted

LEMMA InjectedKept ==
  ASSUME UNCHANGED started
  PROVE  UNCHANGED Injected
  BY DEF Injected, FlattenSeq

LEMMA SteerStarts ==
  ASSUME Init
  PROVE  SteerInv
<1>2. Injected = <<>>
  BY DEF Init, Injected, FlattenSeq
<1>3. SteerTypes
  <2>1. <<>> \in Seq(Nat) /\ <<>> \in Seq(Seq(Nat))
    BY EmptySeq
  <2> QED
    BY <1>2, <2>1 DEF Init, SteerTypes
<1>4. Starting /\ NoneLost /\ Ordered
  BY <1>2 DEF Init, Starting, NoneLost, Ordered, Waits
<1>5. \A i : Count(<<>>, i) = 0
  <2>1. \A i : {k \in DOMAIN <<>> : <<>>[k] = i} = {}
    OBVIOUS
  <2> QED
    BY <2>1, FS_EmptySet DEF Count
<1>6. Counted
  BY <1>2, <1>5 DEF Counted, Init, Waits
<1> QED
  BY <1>3, <1>4, <1>6 DEF SteerInv

(* Steps that append no event leave the order, whatever they cut off.      *)
LEMMA CutOrdered ==
  ASSUME SteerInv, NEW from \in Nat, UNCHANGED <<started, steered, lost>>,
         steering' \in Seq(Nat), from + Len(steering') <= Len(steering),
         \A k \in 1..Len(steering') : steering'[k] = steering[from + k],
         \A k \in 1..Len(steering') : (pc = "consume" => from + k > Len(batch))
                                         \/ (pc' = "consume" /\ from = 0 /\ UNCHANGED batch)
  PROVE  Ordered' /\ Counted'
<1> DEFINE n == Len(steering)
           m == Len(steering')
<1>1. n \in Nat /\ m \in Nat /\ from + m <= n
  BY LenProperties DEF SteerInv, SteerTypes
<1>2. UNCHANGED <<Injected, steered, lost>>
  BY InjectedKept
<1>3. \A k \in 1..m : from + k \in 1..n /\ steering'[k] = steering[from + k]
  BY <1>1
<1>4. \A k : Waits(k)' => k \in 1..m /\ Waits(from + k)
  <2> SUFFICES ASSUME NEW k, Waits(k)' PROVE k \in 1..m /\ Waits(from + k)
    OBVIOUS
  <2>1. k \in 1..m /\ (pc' = "consume" => k > Len(batch'))
    BY DEF Waits
  <2>2. from + k \in 1..n
    BY <1>3, <2>1
  <2>3. CASE pc = "consume" => from + k > Len(batch)
    BY <2>1, <2>2, <2>3 DEF Waits
  <2>4. CASE pc' = "consume" /\ from = 0 /\ UNCHANGED batch
    <3>1. k > Len(batch) /\ from + k = k
      BY <2>1, <2>4
    <3> QED
      BY <2>1, <2>2, <3>1 DEF Waits
  <2> QED
    BY <2>1, <2>3, <2>4
<1> HIDE DEF n, m
<1>5. \A k, j \in 1..m : k < j => from + k < from + j
  BY <1>1
<1>6. Ordered'
  <2>1. \A k \in 1..m : steering'[k] <= steered'
    BY <1>2, <1>3 DEF SteerInv, Ordered, n
  <2>2. \A k, j \in 1..m : k < j => steering'[k] < steering'[j]
    BY <1>3, <1>5 DEF SteerInv, Ordered, n
  <2>3. \A k : Waits(k)' => \A j \in 1..Len(Injected') :
          Injected'[j] > steering'[k] => Before(Injected', steering'[k], j)
    BY <1>2, <1>3, <1>4 DEF SteerInv, Ordered
  <2> QED
    BY <1>2, <2>1, <2>2, <2>3 DEF SteerInv, Ordered, m
<1>7. Counted'
  BY <1>2, <1>3, <1>4 DEF SteerInv, Counted
<1> QED
  BY <1>6, <1>7

(* The host steers one more input.                                         *)
LEMMA HostSteers ==
  ASSUME SteerInv, Steer
  PROVE  SteerInv'
<1> DEFINE n == Len(steering)
           new == steered + 1
<1>1. /\ steering' = Append(steering, new) /\ steered' = new
      /\ UNCHANGED <<started, active, memory, batch, kept, pc,
                     lost, crashed>>
      /\ previewed' = IF pc = "preview" THEN previewed \cup {new} ELSE previewed
  BY DEF Steer, faults
<1>2. /\ n \in Nat /\ steering' \in Seq(Nat) /\ Len(steering') = n + 1
      /\ steering'[n + 1] = new /\ \A k \in 1..n : steering'[k] = steering[k]
  BY <1>1 DEF SteerInv, SteerTypes
<1>3. UNCHANGED Injected
  BY <1>1, InjectedKept
<1>4. SteerTypes'
  BY <1>1, <1>2, <1>3 DEF SteerInv, SteerTypes
<1>5. Starting'
  <2>1. ASSUME pc \in {"append", "consume", "rejected"}
        PROVE  /\ Len(batch) <= n + 1
               /\ \A k \in 1..Len(batch) : steering'[k] = batch[k]
    <3>1. Len(batch) \in Nat /\ Len(batch) <= n
      BY <2>1 DEF SteerInv, SteerTypes, Starting
    <3> QED
      BY <1>2, <2>1, <3>1 DEF SteerInv, Starting
  <2>2. ASSUME pc = "preview"
        PROVE  /\ kept <= n + 1
               /\ \A k \in (kept + 1)..(n + 1) : steering'[k] \in previewed'
    <3>1. kept \in Nat /\ kept <= n
      BY <2>2 DEF SteerInv, SteerTypes, Starting
    <3>2. \A k \in (kept + 1)..(n + 1) : k \in (kept + 1)..n \/ k = n + 1
      BY <1>2, <3>1
    <3>3. \A k \in (kept + 1)..n : k \in 1..n
      BY <1>2, <3>1
    <3> QED
      BY <1>1, <1>2, <2>2, <3>1, <3>2, <3>3 DEF SteerInv, Starting
  <2> QED
    BY <1>1, <1>2, <1>3, <2>1, <2>2 DEF SteerInv, Starting, Has
<1>6. NoneLost'
  <2>1. \A i : Has(steering, i) => Has(steering', i)
    <3>1. DOMAIN steering = 1..n /\ DOMAIN steering' = 1..(n + 1)
      BY <1>2 DEF SteerInv, SteerTypes
    <3> QED
      BY <1>2, <3>1 DEF Has
  <2>2. Has(steering', new)
    <3>1. n + 1 \in DOMAIN steering'
      BY <1>2
    <3> QED
      BY <1>2, <3>1 DEF Has
  <2>3. \A i \in 1..new : i \in 1..steered \/ i = new
    BY DEF SteerInv, SteerTypes
  <2> QED
    BY <1>1, <1>3, <2>1, <2>2, <2>3 DEF SteerInv, NoneLost
<1>7. \A k : Waits(k)' => Waits(k) \/ k = n + 1
  BY <1>1, <1>2 DEF Waits
<1>71. \A k : Waits(k) => k \in 1..n
  BY DEF Waits
<1>8. \A k \in 1..Len(Injected) : Injected[k] \in Nat /\ Injected[k] <= steered
  BY DEF SteerInv, SteerTypes, Ordered
<1>9. Ordered'
  <2>1. \A k \in 1..(n + 1) : k \in 1..n \/ k = n + 1
    BY <1>2
  <2>2. \A k \in 1..n : steering[k] \in Nat /\ steering[k] <= steered
    BY DEF SteerInv, SteerTypes, Ordered
  <2>3. \A k \in 1..(n + 1) : steering'[k] <= steered'
    BY <1>1, <1>2, <2>1, <2>2 DEF SteerInv, SteerTypes
  <2>4. \A k, j \in 1..(n + 1) : k < j => steering'[k] < steering'[j]
    <3> SUFFICES ASSUME NEW k \in 1..(n + 1), NEW j \in 1..(n + 1), k < j PROVE steering'[k] < steering'[j]
      OBVIOUS
    <3>1. k \in 1..n
      BY <1>2
    <3>2. CASE j \in 1..n
      BY <1>2, <3>1, <3>2 DEF SteerInv, Ordered
    <3>3. CASE j = n + 1
      <4>1. steering'[k] \in Nat /\ steering'[k] <= steered /\ steered \in Nat
        BY <1>2, <2>2, <3>1 DEF SteerInv, SteerTypes
      <4>2. steering'[j] = steered + 1
        BY <1>2, <3>3
      <4> QED
        BY <4>1, <4>2
    <3> QED
      BY <2>1, <3>2, <3>3
  <2>5. ASSUME NEW k, Waits(k)', NEW j \in 1..Len(Injected), Injected[j] > steering'[k]
        PROVE  Before(Injected, steering'[k], j)
    <3>1. CASE Waits(k)
      BY <1>2, <1>71, <2>5, <3>1 DEF SteerInv, Ordered
    <3>2. CASE k = n + 1
      <4>1. Injected[j] > steered + 1 /\ Injected[j] \in Nat /\ Injected[j] <= steered /\ steered \in Nat
        BY <1>2, <1>8, <2>5, <3>2 DEF SteerInv, SteerTypes
      <4> QED
        BY <4>1
    <3> QED
      BY <1>7, <2>5, <3>1, <3>2
  <2>6. /\ \A k \in 1..Len(Injected) : Injected[k] <= new
        /\ \A k, m \in 1..Len(Injected) : k < m /\ Injected[k] > Injected[m] => Before(Injected, Injected[m], k)
    BY <1>8 DEF SteerInv, SteerTypes, Ordered
  <2> HIDE DEF new
  <2> QED
    BY <1>1, <1>2, <1>3, <2>3, <2>4, <2>5, <2>6 DEF Ordered
<1>10. Counted'
  <2>1. ~Has(Injected, new)
    <3>1. DOMAIN Injected = 1..Len(Injected)
      BY DEF SteerInv, SteerTypes
    <3>2. \A k \in 1..Len(Injected) : Injected[k] # new
      BY <1>8 DEF SteerInv, SteerTypes
    <3> QED
      BY <3>1, <3>2 DEF Has
  <2>2. Count(Injected, new) = 0
    <3>1. Count(Injected, new) \in Nat /\ ~(Count(Injected, new) > 0)
      BY <2>1, CountType DEF SteerInv, SteerTypes
    <3> QED
      BY <3>1
  <2>3. ASSUME NEW k, Waits(k)' PROVE Count(Injected, steering'[k]) <= lost
    <3>1. CASE Waits(k)
      BY <1>2, <1>71, <3>1 DEF SteerInv, Counted
    <3>2. CASE k = n + 1
      BY <1>2, <2>2, <3>2 DEF SteerInv, SteerTypes
    <3> QED
      BY <1>7, <2>3, <3>1, <3>2
  <2> QED
    BY <1>1, <1>3, <2>3 DEF SteerInv, Counted
<1> QED
  BY <1>4, <1>5, <1>6, <1>9, <1>10 DEF SteerInv

(* A step is started in the log: with the head of the queue, which then    *)
(* still waits only if the acknowledgement is lost.                        *)
LEMMA Injects ==
  ASSUME SteerInv, AppendStarted \/ AppendUnacknowledged
  PROVE  SteerInv'
<1> DEFINE n == Len(steering)
           b == Len(batch)
           i == Len(Injected)
<1>1. /\ pc = "append" /\ started' = Append(started, batch)
      /\ active' = TRUE
      /\ UNCHANGED <<steering, steered, previewed, batch, kept, crashed>>
      /\ \/ memory' = TRUE /\ pc' = "consume" /\ lost' = lost
         \/ memory' = memory /\ pc' = "rejected" /\ lost' = lost + 1
  BY DEF AppendStarted, AppendUnacknowledged, faults
<1>2. /\ n \in Nat /\ b \in Nat /\ i \in Nat /\ b <= n
      /\ \A k \in 1..b : steering[k] = batch[k]
      /\ DOMAIN steering = 1..n /\ DOMAIN batch = 1..b /\ DOMAIN Injected = 1..i
  BY <1>1 DEF SteerInv, SteerTypes, Starting
<1>3. Injected' = Injected \o batch
  BY <1>1, FlattenAppend DEF SteerInv, SteerTypes, Injected
<1>4. /\ Injected' \in Seq(Nat) /\ Len(Injected') = i + b /\ DOMAIN Injected' = 1..(i + b)
      /\ \A k \in 1..i : Injected'[k] = Injected[k]
      /\ \A k \in 1..b : Injected'[i + k] = batch[k]
  BY <1>3, ConcatProperties DEF SteerInv, SteerTypes
<1>5. \A k \in 1..n : Waits(k) /\ steering[k] \in Nat /\ steering[k] <= steered
  BY <1>1, <1>2 DEF SteerInv, SteerTypes, Ordered, Waits
<1>6. \A k \in 1..b : k \in 1..n
  BY <1>2
<1>7. \A k \in 1..(i + b) : k \in 1..i \/ (k > i /\ k - i \in 1..b /\ k = i + (k - i))
  BY <1>2
<1>8. \A x \in 1..i : x \in 1..(i + b)
  BY <1>2
<1>9. \A x \in 1..b : i + x \in 1..(i + b)
  BY <1>2
<1> HIDE DEF n, b, i
<1>10. SteerTypes'
  <2>1. started' \in Seq(Seq(Nat))
    BY <1>1, AppendProperties DEF SteerInv, SteerTypes
  <2>2. memory' \in BOOLEAN /\ active' \in BOOLEAN
    BY <1>1 DEF SteerInv, SteerTypes
  <2>3. lost' \in Nat
    BY <1>1 DEF SteerInv, SteerTypes
  <2> QED
    BY <1>1, <1>4, <2>1, <2>2, <2>3 DEF SteerInv, SteerTypes
<1>11. Starting'
  <2>1. \A k \in 1..b : Has(Injected', batch[k])
    BY <1>4, <1>9 DEF Has
  <2> QED
    BY <1>1, <1>2, <2>1 DEF SteerInv, Starting, n, b
<1>12. NoneLost'
  <2>1. \A x : Has(Injected, x) => Has(Injected', x)
    BY <1>2, <1>4, <1>8 DEF Has
  <2> QED
    BY <1>1, <2>1 DEF SteerInv, NoneLost
<1>13. \A x, y \in 1..b : x < y => batch[x] < batch[y]
  BY <1>2, <1>6 DEF SteerInv, Ordered, n
<1>14. \A k \in 1..i : Injected[k] <= steered
  BY DEF SteerInv, Ordered, i
<1>15. \A k \in 1..(i + b) : Injected'[k] <= steered
  <2> SUFFICES ASSUME NEW k \in 1..(i + b) PROVE Injected'[k] <= steered
    OBVIOUS
  <2>1. CASE k \in 1..i
    BY <1>4, <1>14, <2>1
  <2>2. CASE k - i \in 1..b /\ k = i + (k - i)
    BY <1>2, <1>4, <1>5, <1>6, <2>2
  <2> QED
    BY <1>7, <2>1, <2>2
<1>16. ASSUME NEW k \in 1..n, NEW m \in 1..(i + b), Injected'[m] > steering[k]
       PROVE  Before(Injected', steering[k], m)
  <2>1. CASE m \in 1..i
    <3>1. Before(Injected, steering[k], m)
      BY <1>4, <1>5, <1>16, <2>1 DEF SteerInv, Ordered, i
    <3>2. \A j \in 1..m : j \in 1..i
      BY <1>2, <2>1
    <3> QED
      BY <1>4, <3>1, <3>2 DEF Before
  <2>2. CASE m > i /\ m - i \in 1..b /\ m = i + (m - i)
    <3> DEFINE y == m - i
    <3>1. y \in 1..b /\ m = i + y /\ steering[y] > steering[k] /\ y \in 1..n
      BY <1>2, <1>4, <1>6, <1>16, <2>2
    <3> HIDE DEF y
    <3>2. k < y
      <4>1. \A x, z \in 1..n : x < z => steering[x] < steering[z]
        BY DEF SteerInv, Ordered, n
      <4>2. steering[k] \in Nat /\ steering[y] \in Nat
        BY <1>5, <3>1
      <4>3. CASE k > y
        <5>1. steering[y] < steering[k]
          BY <3>1, <4>1, <4>3
        <5> QED
          BY <3>1, <4>2, <5>1
      <4>4. k # y
        BY <3>1, <4>2
      <4> QED
        BY <1>2, <3>1, <4>3, <4>4
    <3>3. k \in 1..b /\ i + k \in 1..m
      BY <1>2, <3>1, <3>2
    <3>4. Injected'[i + k] = steering[k]
      BY <1>2, <1>4, <3>3
    <3> QED
      BY <3>3, <3>4 DEF Before
  <2> QED
    BY <1>7, <2>1, <2>2
<1>17. ASSUME NEW k \in 1..(i + b), NEW m \in 1..(i + b), k < m, Injected'[k] > Injected'[m]
       PROVE  Before(Injected', Injected'[m], k)
  <2>1. CASE m \in 1..i
    <3>1. k \in 1..i /\ \A j \in 1..k : j \in 1..i
      BY <1>2, <1>17, <2>1
    <3>2. Before(Injected, Injected[m], k)
      BY <1>4, <1>17, <2>1, <3>1 DEF SteerInv, Ordered, i
    <3> QED
      BY <1>4, <2>1, <3>1, <3>2 DEF Before
  <2>2. CASE m > i /\ m - i \in 1..b /\ m = i + (m - i)
    <3>1. Injected'[m] = steering[m - i] /\ m - i \in 1..n
      BY <1>2, <1>4, <1>6, <2>2
    <3> QED
      BY <1>16, <1>17, <3>1
  <2> QED
    BY <1>7, <2>1, <2>2
<1>18. Ordered'
  <2>1. /\ \A k \in 1..n : steering[k] <= steered
        /\ \A k, m \in 1..n : k < m => steering[k] < steering[m]
    BY DEF SteerInv, Ordered, n
  <2>2. \A k : Waits(k)' => k \in 1..n
    BY <1>1 DEF Waits, n
  <2> QED
    BY <1>1, <1>4, <1>15, <1>16, <1>17, <2>1, <2>2 DEF Ordered, n
<1>19. \A x, y \in 1..b : batch[x] = batch[y] => x = y
  <2> SUFFICES ASSUME NEW x \in 1..b, NEW y \in 1..b, x < y, batch[x] = batch[y] PROVE FALSE
    BY <1>2
  <2>1. batch[x] < batch[y] /\ batch[x] \in Nat
    BY <1>2, <1>5, <1>6, <1>13
  <2> QED
    BY <2>1
<1>20. \A x : /\ Count(Injected', x) <= Count(Injected, x) + 1
              /\ ~Has(batch, x) => Count(Injected', x) = Count(Injected, x)
              /\ Count(Injected, x) \in Nat /\ Count(Injected', x) \in Nat
  <2> TAKE x
  <2>1. Injected \in Seq(Nat) /\ batch \in Seq(Nat)
    BY DEF SteerInv, SteerTypes
  <2>2. \A k, m \in DOMAIN batch : batch[k] = batch[m] => k = m
    BY <1>2, <1>19
  <2>3. /\ Count(Injected \o batch, x) <= Count(Injected, x) + 1
        /\ ~Has(batch, x) => Count(Injected \o batch, x) = Count(Injected, x)
    BY <2>1, <2>2, CountJoined
  <2>4. Count(Injected, x) \in Nat /\ Count(Injected', x) \in Nat
    BY <1>4, <2>1, CountType
  <2> QED
    BY <1>3, <2>3, <2>4
<1>21. \A k \in 1..n : Count(Injected, steering[k]) <= lost
  BY <1>5 DEF SteerInv, Counted
<1>22. \A x : Has(batch, x) => \E k \in 1..n : steering[k] = x
  BY <1>2, <1>6 DEF Has
<1>23. Counted'
  <2>1. ASSUME NEW x \in Nat PROVE Count(Injected', x) <= 1 + lost'
    <3>1. lost \in Nat /\ lost' \in Nat /\ lost' >= lost
      BY <1>1 DEF SteerInv, SteerTypes
    <3>2. CASE Has(batch, x)
      <4>1. Count(Injected, x) <= lost
        BY <1>21, <1>22, <3>2
      <4> QED
        BY <1>20, <3>1, <4>1
    <3>3. CASE ~Has(batch, x)
      <4>1. Count(Injected, x) <= 1 + lost
        BY DEF SteerInv, Counted
      <4> QED
        BY <1>20, <3>1, <3>3, <4>1
    <3> QED
      BY <3>2, <3>3
  <2>2. ASSUME NEW k, Waits(k)' PROVE Count(Injected', steering'[k]) <= lost'
    <3>1. k \in 1..n /\ steering'[k] = steering[k] /\ (pc' = "consume" => k > b)
      BY <1>1, <2>2 DEF Waits, n, b
    <3>2. lost \in Nat /\ Count(Injected, steering[k]) <= lost
      BY <1>21, <3>1 DEF SteerInv, SteerTypes
    <3>3. CASE lost' = lost + 1
      BY <1>20, <3>1, <3>2, <3>3
    <3>4. CASE pc' = "consume" /\ lost' = lost
      <4>1. ~Has(batch, steering[k])
        <5> SUFFICES ASSUME NEW x \in 1..b, steering[x] = steering[k] PROVE FALSE
          BY <1>2 DEF Has
        <5>1. x \in 1..n /\ x < k
          BY <1>2, <1>6, <3>1, <3>4
        <5>2. steering[x] < steering[k]
          BY <3>1, <5>1 DEF SteerInv, Ordered, n
        <5> QED
          BY <1>5, <3>1, <5>2
      <4> QED
        BY <1>20, <3>1, <3>2, <3>4, <4>1
    <3> QED
      BY <1>1, <3>3, <3>4
  <2> QED
    BY <2>1, <2>2 DEF Counted
<1> QED
  BY <1>10, <1>11, <1>12, <1>18, <1>23 DEF SteerInv

LEMMA SteeringStays ==
  ASSUME SteerInv,
         UNCHANGED <<steering, steered, previewed, started, lost, crashed>>,
         pc # "consume"
  PROVE  UNCHANGED Injected /\ NoneLost' /\ Ordered' /\ Counted'
<1>1. UNCHANGED Injected
  BY InjectedKept
<1>2. NoneLost'
  BY <1>1 DEF SteerInv, NoneLost
<1>3. Ordered' /\ Counted'
  <2>1. 0 \in Nat /\ 0 + Len(steering') <= Len(steering) /\ \A k \in 1..Len(steering') : 0 + k = k
    BY LenProperties DEF SteerInv, SteerTypes
  <2>2. steering' \in Seq(Nat)
    BY DEF SteerInv, SteerTypes
  <2> QED
    BY <2>1, <2>2, CutOrdered
<1> QED
  BY <1>1, <1>2, <1>3

LEMMA Consumes ==
  ASSUME SteerInv, Consume
  PROVE  SteerInv'
<1> DEFINE n == Len(steering)
           b == Len(batch)
<1>1. /\ pc \in {"consume", "rejected"}
      /\ pc' = IF pc = "consume" THEN "body" ELSE "close"
      /\ steering' = IF memory THEN SubSeq(steering, b + 1, n) ELSE steering
      /\ UNCHANGED <<steered, previewed, started, active, memory, batch,
                     kept, lost, crashed>>
  BY DEF Consume, faults
<1>2. UNCHANGED Injected
  BY <1>1, InjectedKept
<1>3. /\ n \in Nat /\ b \in Nat /\ b <= n /\ DOMAIN steering = 1..n
      /\ \A k \in 1..b : steering[k] = batch[k]
  BY <1>1 DEF SteerInv, SteerTypes, Starting
<1> HIDE DEF n, b
<1>4. CASE pc = "rejected"
  <2>1. ~memory /\ steering' = steering /\ pc' = "close"
    BY <1>1, <1>4 DEF SteerInv, Starting
  <2>2. SteerTypes' /\ Starting'
    BY <1>1, <1>2, <2>1 DEF SteerInv, SteerTypes, Starting
  <2> QED
    BY <1>1, <1>4, <2>1, <2>2, SteeringStays DEF SteerInv
<1>5. CASE pc = "consume"
  <2>1. /\ memory /\ steering' = SubSeq(steering, b + 1, n) /\ pc' = "body"
        /\ \A k \in 1..b : Has(Injected, batch[k])
    BY <1>1, <1>5 DEF SteerInv, Starting, b
  <2>2. /\ steering' \in Seq(Nat) /\ Len(steering') = n - b
        /\ \A k \in 1..(n - b) : steering'[k] = steering[b + k]
    <3>1. \A k \in (b + 1)..n : steering[k] \in Nat
      BY <1>3 DEF SteerInv, SteerTypes
    <3>2. /\ SubSeq(steering, b + 1, n) \in Seq(Nat)
          /\ Len(SubSeq(steering, b + 1, n)) = IF b + 1 <= n THEN n - (b + 1) + 1 ELSE 0
          /\ \A k \in 1..(n - (b + 1) + 1) : SubSeq(steering, b + 1, n)[k] = steering[b + 1 + k - 1]
      <4>1. b + 1 \in Int /\ n \in Int
        BY <1>3
      <4> QED
        BY <3>1, <4>1, SubSeqProperties
    <3>3. n - (b + 1) + 1 = n - b /\ \A k \in 1..(n - b) : b + 1 + k - 1 = b + k
      BY <1>3
    <3>4. (IF b + 1 <= n THEN n - (b + 1) + 1 ELSE 0) = n - b
      BY <1>3
    <3>5. Len(SubSeq(steering, b + 1, n)) = n - b
      BY <3>2, <3>4
    <3>6. \A k \in 1..(n - b) : SubSeq(steering, b + 1, n)[k] = steering[b + k]
      BY <3>2, <3>3
    <3> QED
      BY <2>1, <3>2, <3>5, <3>6
  <2>3. SteerTypes' /\ Starting'
    BY <1>1, <1>2, <2>1, <2>2 DEF SteerInv, SteerTypes, Starting
  <2>4. NoneLost'
    <3> SUFFICES ASSUME ~crashed, NEW i \in 1..steered
                 PROVE  i \in previewed \/ Has(Injected, i) \/ Has(steering', i)
      BY <1>1, <1>2 DEF NoneLost
    <3>1. ASSUME NEW k \in 1..n, steering[k] = i PROVE Has(Injected, i) \/ Has(steering', i)
      <4>1. CASE k \in 1..b
        BY <1>3, <2>1, <3>1, <4>1
      <4>2. CASE k > b
        <5>1. k - b \in 1..(n - b) /\ b + (k - b) = k
          BY <1>3, <4>2
        <5>2. DOMAIN steering' = 1..(n - b)
          BY <2>2
        <5> QED
          BY <2>2, <3>1, <5>1, <5>2 DEF Has
      <4> QED
        BY <1>3, <4>1, <4>2
    <3> QED
      BY <1>3, <3>1 DEF SteerInv, NoneLost, Has
  <2>5. Ordered' /\ Counted'
    <3>1. b + Len(steering') <= n /\ \A k \in 1..(n - b) : b + k > b
      BY <1>3, <2>2
    <3> QED
      BY <1>1, <1>3, <2>2, <3>1, CutOrdered DEF n, b
  <2> QED
    BY <2>3, <2>4, <2>5 DEF SteerInv
<1> QED
  BY <1>1, <1>4, <1>5

LEMMA PreviewEnds ==
  ASSUME SteerInv, DryRunEnds
  PROVE  SteerInv'
<1> DEFINE n == Len(steering)
<1>1. /\ pc = "preview" /\ pc' = "idle" /\ kept' = 0
      /\ steering' = SubSeq(steering, 1, kept)
      /\ UNCHANGED <<steered, previewed, started, active, memory, batch,
                     lost, crashed>>
  BY DEF DryRunEnds, faults
<1>2. UNCHANGED Injected
  BY <1>1, InjectedKept
<1>3. /\ n \in Nat /\ kept \in Nat /\ kept <= n /\ DOMAIN steering = 1..n
      /\ \A k \in (kept + 1)..n : steering[k] \in previewed
  BY <1>1 DEF SteerInv, SteerTypes, Starting
<1> HIDE DEF n
<1>4. /\ steering' \in Seq(Nat) /\ Len(steering') = kept
      /\ \A k \in 1..kept : steering'[k] = steering[k]
  <2>1. \A k \in 1..kept : steering[k] \in Nat
    BY <1>3 DEF SteerInv, SteerTypes
  <2>2. /\ SubSeq(steering, 1, kept) \in Seq(Nat)
        /\ Len(SubSeq(steering, 1, kept)) = IF 1 <= kept THEN kept - 1 + 1 ELSE 0
        /\ \A k \in 1..(kept - 1 + 1) : SubSeq(steering, 1, kept)[k] = steering[1 + k - 1]
    BY <1>3, <2>1, SubSeqProperties DEF SteerInv, SteerTypes
  <2>3. kept - 1 + 1 = kept /\ \A k \in 1..kept : 1 + k - 1 = k
    BY <1>3
  <2> QED
    BY <1>1, <1>3, <2>2, <2>3
<1>5. SteerTypes' /\ Starting'
  BY <1>1, <1>2, <1>4 DEF SteerInv, SteerTypes, Starting
<1>6. NoneLost'
  <2>1. ASSUME NEW k \in 1..n PROVE steering[k] \in previewed \/ Has(steering', steering[k])
    <3>1. CASE k \in 1..kept
      <4>1. k \in DOMAIN steering'
        BY <1>4, <3>1
      <4> QED
        BY <1>4, <3>1, <4>1 DEF Has
    <3>2. CASE k \in (kept + 1)..n
      BY <1>3, <3>2
    <3> QED
      BY <1>3, <3>1, <3>2
  <2> QED
    BY <1>1, <1>2, <1>3, <2>1 DEF SteerInv, NoneLost, Has
<1>7. Ordered' /\ Counted'
  <2>1. 0 \in Nat /\ 0 + Len(steering') <= n /\ \A k \in 1..kept : 0 + k = k
    BY <1>3, <1>4
  <2> QED
    BY <1>1, <1>4, <2>1, CutOrdered DEF n
<1> QED
  BY <1>5, <1>6, <1>7 DEF SteerInv

LEMMA SteerStep ==
  ASSUME SteerInv, [Next]_vars
  PROVE  SteerInv'
<1>1. CASE UNCHANGED vars
  <2>1. UNCHANGED Injected
    BY <1>1, InjectedKept DEF vars
  <2> QED
    BY <1>1, <2>1 DEF vars, SteerInv, SteerTypes, Starting, NoneLost, Ordered, Counted, Waits
<1>2. CASE StartStep
  <2>1. /\ pc = "idle" /\ pc' = "append" /\ batch' = steering
        /\ UNCHANGED <<steering, steered, previewed, started, active, memory,
                       kept, lost, crashed>>
    BY <1>2 DEF StartStep, faults
  <2>2. SteerTypes' /\ Starting'
    <3>1. UNCHANGED Injected
      BY <2>1, InjectedKept
    <3> QED
      BY <2>1, <3>1 DEF SteerInv, SteerTypes, Starting
  <2> QED
    BY <2>1, <2>2, SteeringStays DEF SteerInv
<1>3. CASE AppendRejected
  <2>1. /\ pc = "append" /\ pc' = "rejected"
        /\ UNCHANGED <<steering, steered, previewed, started, active, memory,
                       batch, kept, lost, crashed>>
    BY <1>3 DEF AppendRejected
  <2>2. SteerTypes' /\ Starting'
    <3>1. UNCHANGED Injected
      BY <2>1, InjectedKept
    <3> QED
      BY <2>1, <3>1 DEF SteerInv, SteerTypes, Starting
  <2> QED
    BY <2>1, <2>2, SteeringStays DEF SteerInv
<1>4. CASE FinishStep
  <2>1. /\ pc \in {"body", "close"} /\ pc' = "idle" /\ batch' = <<>>
        /\ active' = FALSE /\ memory' = FALSE
        /\ UNCHANGED <<steering, steered, previewed, started, kept, lost, crashed>>
    BY <1>4 DEF FinishStep, faults
  <2>2. SteerTypes' /\ Starting'
    <3>1. UNCHANGED Injected /\ <<>> \in Seq(Nat)
      BY <2>1, InjectedKept, EmptySeq
    <3> QED
      BY <2>1, <3>1 DEF SteerInv, SteerTypes, Starting
  <2> QED
    BY <2>1, <2>2, SteeringStays DEF SteerInv
<1>5. CASE DryRun
  <2>1. /\ pc = "idle" /\ pc' = "preview" /\ kept' = Len(steering)
        /\ UNCHANGED <<steering, steered, previewed, started, active, memory,
                       batch, lost, crashed>>
    BY <1>5 DEF DryRun, faults
  <2>2. SteerTypes' /\ Starting'
    <3>1. UNCHANGED Injected /\ Len(steering) \in Nat
      BY <2>1, InjectedKept, LenProperties DEF SteerInv, SteerTypes
    <3>2. \A k \in (Len(steering) + 1)..Len(steering) : FALSE
      BY <3>1
    <3> QED
      BY <2>1, <3>1, <3>2 DEF SteerInv, SteerTypes, Starting
  <2> QED
    BY <2>1, <2>2, SteeringStays DEF SteerInv
<1>6. CASE Crash
  <2>1. /\ crashed' = TRUE /\ steering' = <<>> /\ batch' = <<>> /\ kept' = 0
        /\ memory' = active /\ pc' = IF active THEN "body" ELSE "idle"
        /\ UNCHANGED <<steered, previewed, started, active, lost>>
    BY <1>6 DEF Crash
  <2>2. UNCHANGED Injected /\ <<>> \in Seq(Nat) /\ Len(<<>>) = 0 /\ 1..0 = {}
    BY <2>1, InjectedKept, EmptySeq
  <2>3. SteerTypes'
    BY <2>1, <2>2 DEF SteerInv, SteerTypes
  <2>4. Starting'
    <3>1. active \in BOOLEAN
      BY DEF SteerInv, SteerTypes
    <3> QED
      BY <2>1, <3>1 DEF Starting
  <2>5. NoneLost'
    BY <2>1 DEF NoneLost
  <2>6. Ordered' /\ Counted'
    <3>1. 0 \in Nat /\ 0 + Len(steering') <= Len(steering) /\ steering' \in Seq(Nat)
      BY <2>1, <2>2, LenProperties DEF SteerInv, SteerTypes
    <3>2. \A k \in 1..Len(steering') : FALSE
      BY <2>1, <2>2
    <3> QED
      BY <2>1, <3>1, <3>2, CutOrdered
  <2> QED
    BY <2>3, <2>4, <2>5, <2>6 DEF SteerInv
<1> QED
  BY <1>1, <1>2, <1>3, <1>4, <1>5, <1>6, HostSteers, Injects, Consumes, PreviewEnds DEF Next

(* The properties the invariant is for.                                    *)
LEMMA SteerKeeps ==
  ASSUME SteerInv
  PROVE  InputsAreKept /\ InjectedOnce
<1>1. InputsAreKept
  <2>1. \A i : Has(Injected, i) <=> Times(i) > 0
    BY CountType DEF SteerInv, SteerTypes, Count, Times
  <2> QED
    BY <2>1 DEF SteerInv, NoneLost, Has, InputsAreKept
<1>2. \A i \in 1..steered : Times(i) <= 1 + lost
  <2>1. \A i : Times(i) = Count(Injected, i)
    BY DEF Count, Times
  <2>2. \A i \in 1..steered : i \in Nat
    BY DEF SteerInv, SteerTypes
  <2> QED
    BY <2>1, <2>2 DEF SteerInv, Counted
<1>3. \A k, m \in DOMAIN Injected :
        k < m /\ Injected[k] > Injected[m] => \E j \in 1..k : Injected[j] = Injected[m]
  <2>1. DOMAIN Injected = 1..Len(Injected)
    BY DEF SteerInv, SteerTypes
  <2> QED
    BY <2>1 DEF SteerInv, Ordered, Before
<1> QED
  BY <1>1, <1>2, <1>3 DEF InjectedOnce

-----------------------------------------------------------------------------
(* The spans of a turn and their export.                                   *)

VARIABLES turn, step, traceStage, traceCalls, turns, traceSteps, models,
  tools, traceStarted, ended, spans, flushing, traceBatch, received, closed,
  shutdown, traceLost, traceCrashes, traceFails

Trace == INSTANCE Tracing WITH
  stage <- traceStage, calls <- traceCalls, steps <- traceSteps,
  started <- traceStarted, batch <- traceBatch, lost <- traceLost,
  crashes <- traceCrashes, fails <- traceFails, MaxSteps <- Bound.trace.steps,
  MaxCalls <- Bound.trace.calls, MaxLost <- Bound.trace.lost,
  MaxCrashes <- Bound.trace.crashes, MaxFails <- Bound.trace.fails

traceVars == <<turn, step, traceStage, traceCalls, turns, traceSteps, models,
  tools, traceStarted, ended, spans, flushing, traceBatch, received, closed,
  shutdown, traceLost, traceCrashes, traceFails>>

TraceSpans ==
  {Trace!TurnSpan} \cup {Trace!StepSpan(n) : n \in Nat} \cup {Trace!ChatSpan(n) : n \in Nat}
    \cup {Trace!ToolSpan(c) : c \in Nat \X Nat}

Occurs(s, a) == \E i \in DOMAIN s : s[i] = a

Precedes(s, a, b) == \E i, j \in DOMAIN s : i < j /\ s[i] = a /\ s[j] = b

(* The queue is in the order of what ended.                                *)
SameOrder(queue, of) == \A i, j \in DOMAIN queue : i < j => Precedes(of, queue[i], queue[j])

LEMMA ToSetOccurs == \A s, a : a \in Trace!ToSet(s) <=> Occurs(s, a)
  BY DEF Trace!ToSet, Occurs

LEMMA OccursConcat ==
  ASSUME NEW S, NEW s \in Seq(S), NEW t \in Seq(S)
  PROVE  \A a : Occurs(s \o t, a) <=> Occurs(s, a) \/ Occurs(t, a)
<1>1. s \o t \in Seq(S) /\ Len(s \o t) = Len(s) + Len(t)
  OBVIOUS
<1>2. \A i \in 1..Len(s) : (s \o t)[i] = s[i]
  OBVIOUS
<1>3. \A i \in 1..Len(t) : (s \o t)[Len(s) + i] = t[i]
  OBVIOUS
<1>4. ASSUME NEW a, Occurs(s \o t, a) PROVE Occurs(s, a) \/ Occurs(t, a)
  <2>1. PICK i \in 1..Len(s \o t) : (s \o t)[i] = a
    BY <1>1, <1>4 DEF Occurs
  <2>2. CASE i > Len(s)
    <3>1. i - Len(s) \in 1..Len(t) /\ Len(s) + (i - Len(s)) = i
      BY <1>1, <2>1, <2>2
    <3> QED
      BY <1>3, <2>1, <3>1 DEF Occurs
  <2> QED
    BY <1>1, <1>2, <2>1, <2>2 DEF Occurs
<1>5. ASSUME NEW a, Occurs(s, a) PROVE Occurs(s \o t, a)
  <2>1. PICK i \in 1..Len(s) : s[i] = a
    BY <1>5 DEF Occurs
  <2> QED
    BY <1>1, <1>2, <2>1 DEF Occurs
<1>6. ASSUME NEW a, Occurs(t, a) PROVE Occurs(s \o t, a)
  <2>1. PICK i \in 1..Len(t) : t[i] = a
    BY <1>6 DEF Occurs
  <2>2. Len(s) + i \in 1..Len(s \o t)
    BY <1>1, <2>1
  <2> QED
    BY <1>1, <1>3, <2>1, <2>2 DEF Occurs
<1> QED
  BY <1>4, <1>5, <1>6

(* What was before, in order, and then what is added, in order.            *)
LEMMA PrecedesConcat ==
  ASSUME NEW S, NEW s \in Seq(S), NEW t \in Seq(S)
  PROVE  /\ \A a, b : Precedes(s, a, b) => Precedes(s \o t, a, b)
         /\ \A a, b : Occurs(s, a) /\ Occurs(t, b) => Precedes(s \o t, a, b)
         /\ \A i, j \in DOMAIN t : i < j => Precedes(s \o t, t[i], t[j])
<1>1. s \o t \in Seq(S) /\ Len(s \o t) = Len(s) + Len(t) /\ Len(s) \in Nat /\ Len(t) \in Nat
  OBVIOUS
<1>2. \A i \in 1..Len(s) : (s \o t)[i] = s[i] /\ i \in 1..Len(s \o t)
  BY <1>1
<1>3. \A i \in 1..Len(t) : (s \o t)[Len(s) + i] = t[i] /\ Len(s) + i \in 1..Len(s \o t)
  BY <1>1
<1>4. DOMAIN (s \o t) = 1..Len(s \o t) /\ DOMAIN s = 1..Len(s) /\ DOMAIN t = 1..Len(t)
  BY <1>1
<1> DEFINE st == s \o t
<1> HIDE DEF st
<1>5. ASSUME NEW a, NEW b, Precedes(s, a, b) PROVE Precedes(st, a, b)
  BY <1>2, <1>4, <1>5 DEF Precedes, st
<1>6. ASSUME NEW a, NEW b, Occurs(s, a), Occurs(t, b) PROVE Precedes(st, a, b)
  <2>1. PICK i \in 1..Len(s), j \in 1..Len(t) : s[i] = a /\ t[j] = b
    BY <1>4, <1>6 DEF Occurs
  <2>2. i < Len(s) + j
    BY <1>1
  <2> QED
    BY <1>2, <1>3, <1>4, <2>1, <2>2 DEF Precedes, st
<1>7. ASSUME NEW i \in DOMAIN t, NEW j \in DOMAIN t, i < j PROVE Precedes(st, t[i], t[j])
  <2>1. Len(s) + i < Len(s) + j
    BY <1>1, <1>4, <1>7
  <2> QED
    BY <1>3, <1>4, <2>1 DEF Precedes, st
<1> QED
  BY <1>5, <1>6, <1>7 DEF st

(* The queue goes on in the order of what ended.                           *)
LEMMA SameOrderExtends ==
  ASSUME NEW S, NEW queue \in Seq(S), NEW of \in Seq(S), NEW new \in Seq(S),
         SameOrder(queue, of), \A a : Occurs(queue, a) => Occurs(of, a)
  PROVE  SameOrder(queue \o new, of \o new)
<1>1. SUFFICES ASSUME NEW i \in DOMAIN (queue \o new), NEW j \in DOMAIN (queue \o new), i < j
               PROVE  Precedes(of \o new, (queue \o new)[i], (queue \o new)[j])
  BY DEF SameOrder
<1>2. Len(queue) \in Nat /\ Len(new) \in Nat /\ i \in 1..(Len(queue) + Len(new)) /\ j \in 1..(Len(queue) + Len(new))
  BY <1>1
<1>3. CASE j <= Len(queue)
  <2>1. i \in DOMAIN queue /\ j \in DOMAIN queue /\ (queue \o new)[i] = queue[i] /\ (queue \o new)[j] = queue[j]
    BY <1>1, <1>2, <1>3
  <2> QED
    BY <1>1, <2>1, PrecedesConcat DEF SameOrder
<1>4. CASE i <= Len(queue) /\ j > Len(queue)
  <2>1. i \in DOMAIN queue /\ j - Len(queue) \in DOMAIN new
    BY <1>2, <1>4
  <2>2. (queue \o new)[i] = queue[i] /\ (queue \o new)[j] = new[j - Len(queue)]
    BY <1>2, <1>4
  <2>3. Occurs(of, queue[i]) /\ Occurs(new, new[j - Len(queue)])
    BY <2>1 DEF Occurs
  <2> QED
    BY <2>2, <2>3, PrecedesConcat
<1>5. CASE i > Len(queue)
  <2>1. i - Len(queue) \in DOMAIN new /\ j - Len(queue) \in DOMAIN new /\ i - Len(queue) < j - Len(queue)
    BY <1>1, <1>2, <1>5
  <2>2. (queue \o new)[i] = new[i - Len(queue)] /\ (queue \o new)[j] = new[j - Len(queue)]
    BY <1>1, <1>2, <1>5
  <2> QED
    BY <2>1, <2>2, PrecedesConcat
<1> QED
  BY <1>1, <1>2, <1>3, <1>4, <1>5

SessionType == step \in Nat /\ traceCalls \subseteq Nat \X Nat /\ IsFiniteSet(traceCalls)

LEMMA Regroup ==
  ASSUME NEW s \in Seq(TraceSpans), NEW t \in Seq(TraceSpans), NEW u \in Seq(TraceSpans)
  PROVE  (s \o t) \o u = s \o (t \o u)
  BY ConcatAssociative

(* The spans that ended wait, are under way, or have arrived.              *)
ExportTypes ==
  /\ ended \in Seq(TraceSpans) /\ spans \in Seq(TraceSpans)
  /\ traceBatch \in Seq(TraceSpans) /\ received \in Seq(TraceSpans)
  /\ traceFails \in Nat /\ flushing \in {"none", "spans", "metrics"}
  /\ SessionType

Queued ==
  /\ \A a : Occurs(ended, a) <=> Occurs(received, a) \/ Occurs(traceBatch, a) \/ Occurs(spans, a)
  /\ traceFails = 0 => ended = received \o traceBatch \o spans
  /\ SameOrder(traceBatch \o spans, ended)

(* A shutdown that joined no flush has a flush of its own.                 *)
ShutDown ==
  /\ flushing # "spans" => traceBatch = <<>>
  /\ closed => flushing = "none"
  /\ ~shutdown.joined => \A a \in shutdown.due : Occurs(received, a) \/ Occurs(traceBatch, a)

ExportInv == ExportTypes /\ Queued /\ ShutDown

LEMMA EventExports ==
  ASSUME ExportInv, NEW new \in Seq(TraceSpans), ended' = ended \o new, spans' = spans \o new,
         UNCHANGED <<flushing, traceBatch, received, closed, shutdown, traceFails>>,
         ExportTypes'
  PROVE  ExportInv'
<1>1. \A a : Occurs(ended', a) <=> Occurs(received, a) \/ Occurs(traceBatch, a) \/ Occurs(spans', a)
  BY OccursConcat DEF ExportInv, ExportTypes, Queued
<1>2. traceFails = 0 => ended' = received \o traceBatch \o spans'
  <2> SUFFICES ASSUME traceFails = 0 PROVE ended' = received \o traceBatch \o spans'
    OBVIOUS
  <2>1. ended = received \o traceBatch \o spans
    BY DEF ExportInv, Queued
  <2>2. received \o traceBatch \in Seq(TraceSpans) /\ spans \in Seq(TraceSpans)
    BY DEF ExportInv, ExportTypes
  <2>3. ((received \o traceBatch) \o spans) \o new = (received \o traceBatch) \o (spans \o new)
    BY <2>2, Regroup, Zenon
  <2> QED
    BY <2>1, <2>3
<1>3. SameOrder(traceBatch' \o spans', ended')
  <2>1. traceBatch \o spans \in Seq(TraceSpans) /\ \A a : Occurs(traceBatch \o spans, a) => Occurs(ended, a)
    BY OccursConcat DEF ExportInv, ExportTypes, Queued
  <2>2. SameOrder((traceBatch \o spans) \o new, ended \o new)
    BY <2>1, SameOrderExtends DEF ExportInv, ExportTypes, Queued
  <2>3. traceBatch \in Seq(TraceSpans) /\ spans \in Seq(TraceSpans)
    BY DEF ExportInv, ExportTypes
  <2>4. (traceBatch \o spans) \o new = traceBatch \o (spans \o new)
    BY <2>3, Regroup, Zenon
  <2> QED
    BY <2>2, <2>4
<1> QED
  BY <1>1, <1>2, <1>3 DEF ExportInv, Queued, ShutDown

LEMMA HeldType ==
  ASSUME ExportTypes, NEW span \in TraceSpans, NEW holder
  PROVE  Trace!Held(span, holder) \in Seq(TraceSpans)
  BY DEF Trace!Held

(* An event of the session ends spans, or none.                            *)
LEMMA EventsEnd ==
  ASSUME ExportInv, Trace!Events,
         \/ Trace!TurnStarted \/ Trace!StepStarted \/ Trace!ModelRequested \/ Trace!ToolCalled
         \/ Trace!StepFinished \/ Trace!TurnFinished
         \/ \E c \in traceCalls : Trace!ToolAnswered(c)
  PROVE  ExportInv'
<1>1. ASSUME UNCHANGED <<ended, spans>>, ExportTypes' PROVE ExportInv'
  BY <1>1 DEF ExportInv, Queued, ShutDown, Trace!Events, Trace!exporter
<1>2. ASSUME NEW new \in Seq(TraceSpans), Trace!End(new), SessionType' PROVE ExportInv'
  <2>1. ExportTypes'
    BY <1>2 DEF Trace!End, ExportInv, ExportTypes, Trace!Events, Trace!exporter
  <2> QED
    BY <1>2, <2>1, EventExports DEF Trace!End, Trace!Events, Trace!exporter
<1>3. ASSUME UNCHANGED <<ended, spans>>, SessionType' PROVE ExportInv'
  BY <1>1, <1>3 DEF ExportInv, ExportTypes, Trace!Events, Trace!exporter
<1>4. \A span, parent : Trace!Start(span, parent) => UNCHANGED <<ended, spans>>
  BY DEF Trace!Start, Trace!Quiet
<1>5. Trace!Unobserved => UNCHANGED <<ended, spans>>
  BY DEF Trace!Unobserved, Trace!Quiet
<1>6. /\ Trace!TurnSpan \in TraceSpans /\ Trace!StepSpan(step) \in TraceSpans /\ Trace!ChatSpan(step) \in TraceSpans
      /\ \A c \in Nat \X Nat : Trace!ToolSpan(c) \in TraceSpans
  BY DEF TraceSpans, ExportInv, ExportTypes, SessionType
<1>7. step \in Nat /\ step + 1 \in Nat /\ traceCalls \subseteq Nat \X Nat /\ SessionType /\ ExportTypes
  BY DEF ExportInv, ExportTypes, SessionType
<1>8. CASE Trace!TurnStarted
  BY <1>3, <1>4, <1>5, <1>7, <1>8 DEF SessionType, Trace!TurnStarted, Trace!Observed, Trace!OnTurnStarted
<1>9. CASE Trace!StepStarted
  BY <1>3, <1>4, <1>5, <1>7, <1>9 DEF SessionType, Trace!StepStarted, Trace!Observed, Trace!OnStepStarted
<1>10. CASE Trace!ModelRequested
  BY <1>3, <1>4, <1>5, <1>7, <1>10 DEF SessionType, Trace!ModelRequested, Trace!Observed, Trace!OnModelRequest
<1>11. CASE Trace!ToolCalled
  <2> DEFINE c == Trace!CallId(Trace!Cardinality(traceCalls) + 1)
  <2>0. Trace!Cardinality(traceCalls) \in Nat
    BY <1>7, FS_CardinalityType DEF SessionType, Trace!Cardinality, Cardinality
  <2>1. SessionType'
    <3>1. c \in Nat \X Nat /\ traceCalls' = traceCalls \cup {c} /\ step' = step
      BY <1>7, <1>11, <2>0 DEF Trace!ToolCalled, Trace!CallId
    <3> HIDE DEF c
    <3> QED
      BY <1>7, <3>1, FS_AddElement DEF SessionType
  <2>2. CASE Trace!OnToolCall(step, c)
    BY <1>2, <1>6, <1>7, <2>1, <2>2, HeldType DEF Trace!OnToolCall
  <2> QED
    BY <1>3, <1>5, <1>11, <2>1, <2>2 DEF Trace!ToolCalled, Trace!Observed
<1>12. ASSUME NEW c \in traceCalls, Trace!ToolAnswered(c) PROVE ExportInv'
  <2>1. SessionType' /\ c \in Nat \X Nat
    BY <1>7, <1>12, FS_RemoveElement DEF Trace!ToolAnswered, SessionType
  <2>2. CASE Trace!OnToolResult(c)
    BY <1>2, <1>6, <1>7, <2>1, <2>2, HeldType DEF Trace!OnToolResult
  <2> QED
    BY <1>3, <1>5, <1>12, <2>1, <2>2 DEF Trace!ToolAnswered, Trace!Observed
<1>13. CASE Trace!StepFinished
  <2>1. SessionType'
    BY <1>7, <1>13 DEF Trace!StepFinished, SessionType
  <2>2. CASE Trace!OnStepFinished(step)
    <3>1. Trace!Held(Trace!ChatSpan(step), models) \in Seq(TraceSpans)
           /\ (IF closed THEN <<>> ELSE Trace!Held(Trace!StepSpan(step), traceSteps)) \in Seq(TraceSpans)
      BY <1>6, <1>7, HeldType
    <3>2. Trace!Held(Trace!ChatSpan(step), models) \o (IF closed THEN <<>> ELSE Trace!Held(Trace!StepSpan(step), traceSteps))
            \in Seq(TraceSpans)
      BY <3>1
    <3> QED
      BY <1>2, <2>1, <2>2, <3>2 DEF Trace!OnStepFinished
  <2> QED
    BY <1>3, <1>5, <1>13, <2>1, <2>2 DEF Trace!StepFinished, Trace!Observed
<1>14. CASE Trace!TurnFinished
  <2>1. SessionType'
    BY <1>7, <1>14 DEF Trace!TurnFinished, SessionType
  <2>2. CASE Trace!OnTurnFinished
    BY <1>2, <1>6, <1>7, <2>1, <2>2, HeldType DEF Trace!OnTurnFinished
  <2> QED
    BY <1>3, <1>5, <1>14, <2>1, <2>2 DEF Trace!TurnFinished, Trace!Observed
<1> QED
  BY <1>8, <1>9, <1>10, <1>11, <1>12, <1>13, <1>14

(* What was taken from the queue arrives, or goes back to its head.        *)
LEMMA FlushStep ==
  ASSUME ExportInv, Trace!Exporting,
         Trace!ForceFlush \/ Trace!Shutdown \/ Trace!SpansExported \/ Trace!ExportFails \/ Trace!MetricsExported
  PROVE  ExportInv'
<1>0. UNCHANGED <<ended, traceCalls, step>>
  BY DEF Trace!Exporting, Trace!session
<1>1. /\ ended \in Seq(TraceSpans) /\ spans \in Seq(TraceSpans) /\ traceBatch \in Seq(TraceSpans)
      /\ received \in Seq(TraceSpans) /\ traceFails \in Nat
      /\ <<>> \in Seq(TraceSpans) /\ \A a : ~Occurs(<<>>, a)
  BY DEF ExportInv, ExportTypes, Occurs
<1>2. \A s \in Seq(TraceSpans) : s \o <<>> = s /\ <<>> \o s = s
  BY ConcatEmptySeq
<1>3. CASE Trace!TakeSpans /\ flushing = "none" /\ ~closed /\ UNCHANGED <<received, closed, traceFails>>
           /\ \/ UNCHANGED shutdown
              \/ shutdown' = [called |-> TRUE, due |-> Trace!ToSet(ended), joined |-> flushing # "none"]
  <2>1. traceBatch = <<>> /\ traceBatch' = spans /\ spans' = <<>> /\ flushing' = "spans"
    BY <1>3 DEF ExportInv, ShutDown, Trace!TakeSpans
  <2>2. ExportTypes'
    BY <1>0, <1>1, <1>3, <2>1 DEF ExportInv, ExportTypes, SessionType
  <2>3. Queued'
    <3>1. traceBatch' \o spans' = traceBatch \o spans
      BY <1>1, <1>2, <2>1
    <3>2. received \o traceBatch' \o spans' = received \o traceBatch \o spans
      BY <1>1, <1>2, <2>1
    <3> QED
      BY <1>0, <1>1, <1>3, <2>1, <3>1, <3>2 DEF ExportInv, Queued
  <2>4. ShutDown'
    <3>1. ~shutdown'.joined => \A a \in shutdown'.due : Occurs(received', a) \/ Occurs(traceBatch', a)
      <4>1. CASE UNCHANGED shutdown
        BY <1>1, <1>3, <2>1, <4>1 DEF ExportInv, ShutDown
      <4>2. CASE shutdown' = [called |-> TRUE, due |-> Trace!ToSet(ended), joined |-> flushing # "none"]
        BY <1>1, <1>3, <2>1, <4>2, ToSetOccurs DEF ExportInv, Queued
      <4> QED
        BY <1>3, <4>1, <4>2
    <3> QED
      BY <1>3, <2>1, <3>1 DEF ShutDown
  <2> QED
    BY <2>2, <2>3, <2>4 DEF ExportInv
<1>4. CASE Trace!ForceFlush
  BY <1>3, <1>4 DEF Trace!ForceFlush
<1>5. CASE Trace!Shutdown
  <2>1. CASE flushing = "none"
    BY <1>3, <1>5, <2>1 DEF Trace!Shutdown
  <2>2. CASE flushing # "none"
    BY <1>0, <1>5, <2>2 DEF Trace!Shutdown, ExportInv, ExportTypes, SessionType, Queued, ShutDown
  <2> QED
    BY <2>1, <2>2
<1>6. CASE Trace!SpansExported
  <2>1. received' = received \o traceBatch /\ traceBatch' = <<>> /\ flushing' = "metrics" /\ flushing = "spans"
        /\ UNCHANGED <<spans, closed, shutdown, traceFails>>
    BY <1>6 DEF Trace!SpansExported
  <2>2. ExportTypes'
    BY <1>0, <1>1, <2>1 DEF ExportInv, ExportTypes, SessionType
  <2>3. \A a : Occurs(received', a) <=> Occurs(received, a) \/ Occurs(traceBatch, a)
    BY <1>1, <2>1, OccursConcat
  <2>4. SameOrder(traceBatch' \o spans', ended')
    <3>1. DOMAIN spans = 1..Len(spans) /\ Len(spans) \in Nat /\ Len(traceBatch) \in Nat
      BY <1>1
    <3>2. \A i \in DOMAIN spans : Len(traceBatch) + i \in DOMAIN (traceBatch \o spans)
                                /\ (traceBatch \o spans)[Len(traceBatch) + i] = spans[i]
      BY <1>1, <3>1
    <3>3. \A i, j \in DOMAIN spans : i < j => Len(traceBatch) + i < Len(traceBatch) + j
      BY <3>1
    <3> DEFINE queue == traceBatch \o spans
    <3> HIDE DEF queue
    <3>4. SameOrder(queue, ended)
      BY DEF queue, ExportInv, Queued
    <3>5. SameOrder(spans, ended)
      <4>1. \A i, j \in DOMAIN spans : i < j => Precedes(ended, queue[Len(traceBatch) + i], queue[Len(traceBatch) + j])
        BY <3>2, <3>3, <3>4 DEF SameOrder, queue
      <4> QED
        BY <3>2, <4>1 DEF SameOrder, queue
    <3> QED
      BY <1>0, <1>1, <1>2, <2>1, <3>5
  <2>5. traceFails' = 0 => ended' = received' \o traceBatch' \o spans'
    BY <1>0, <1>1, <1>2, <2>1 DEF ExportInv, Queued
  <2>6. Queued'
    <3>1. \A a : Occurs(ended', a) <=> Occurs(received', a) \/ Occurs(traceBatch', a) \/ Occurs(spans', a)
      <4>1. \A a : Occurs(ended, a) <=> Occurs(received, a) \/ Occurs(traceBatch, a) \/ Occurs(spans, a)
        BY DEF ExportInv, Queued
      <4>2. \A a : ~Occurs(traceBatch', a)
        BY <1>1, <2>1
      <4> QED
        BY <1>0, <2>1, <2>3, <4>1, <4>2
    <3>2. SameOrder(traceBatch' \o spans', ended')
      BY <1>0, <2>4 DEF ExportInv, Queued
    <3> QED
      BY <2>5, <3>1, <3>2 DEF Queued
  <2>7. ShutDown'
    BY <2>1, <2>3 DEF ExportInv, ShutDown
  <2> QED
    BY <2>2, <2>6, <2>7 DEF ExportInv
<1>7. CASE Trace!ExportFails
  <2>1. /\ spans' = traceBatch \o spans /\ traceBatch' = <<>> /\ flushing' = "none" /\ flushing # "none"
        /\ received' \in {received, received \o traceBatch}
        /\ traceFails' = traceFails + 1 /\ shutdown' = Trace!NoCall /\ UNCHANGED closed
    BY <1>7 DEF Trace!ExportFails, Trace!Failing
  <2>2. ExportTypes'
    <3>1. spans' \in Seq(TraceSpans) /\ received' \in Seq(TraceSpans) /\ traceFails' \in Nat
      <4>1. traceBatch \o spans \in Seq(TraceSpans) /\ received \o traceBatch \in Seq(TraceSpans)
        BY <1>1
      <4>2. received' = received \/ received' = received \o traceBatch
        BY <2>1
      <4>3. received' \in Seq(TraceSpans)
        BY <1>1, <4>1, <4>2
      <4> QED
        BY <1>1, <2>1, <4>1, <4>3
    <3> QED
      BY <1>0, <1>1, <2>1, <3>1 DEF ExportInv, ExportTypes, SessionType
  <2>3. \A a : /\ Occurs(spans', a) <=> Occurs(traceBatch, a) \/ Occurs(spans, a)
               /\ Occurs(received', a) => Occurs(received, a) \/ Occurs(traceBatch, a)
               /\ Occurs(received, a) => Occurs(received', a)
    <3>1. \A a : Occurs(traceBatch \o spans, a) <=> Occurs(traceBatch, a) \/ Occurs(spans, a)
      BY <1>1, OccursConcat
    <3>2. \A a : Occurs(received \o traceBatch, a) <=> Occurs(received, a) \/ Occurs(traceBatch, a)
      BY <1>1, OccursConcat
    <3> DEFINE sent == received \o traceBatch
    <3> HIDE DEF sent
    <3>3. received' = received \/ received' = sent
      BY <2>1 DEF sent
    <3>4. \A a : Occurs(spans', a) <=> Occurs(traceBatch, a) \/ Occurs(spans, a)
      BY <2>1, <3>1
    <3> QED
      BY <3>2, <3>3, <3>4 DEF sent
  <2>4. traceBatch' \o spans' = traceBatch \o spans
    BY <1>1, <1>2, <2>1
  <2>5. traceFails' # 0
    BY <1>1, <2>1
  <2>6. Queued'
    <3>1. \A a : Occurs(ended', a) <=> Occurs(received', a) \/ Occurs(traceBatch', a) \/ Occurs(spans', a)
      <4>1. \A a : Occurs(ended, a) <=> Occurs(received, a) \/ Occurs(traceBatch, a) \/ Occurs(spans, a)
        BY DEF ExportInv, Queued
      <4>2. \A a : ~Occurs(traceBatch', a)
        BY <1>1, <2>1
      <4> QED
        BY <1>0, <2>3, <4>1, <4>2
    <3>2. SameOrder(traceBatch' \o spans', ended')
      BY <1>0, <2>4 DEF ExportInv, Queued
    <3> QED
      BY <2>5, <3>1, <3>2 DEF Queued
  <2>7. ShutDown'
    BY <2>1 DEF ExportInv, ShutDown, Trace!NoCall
  <2> QED
    BY <2>2, <2>6, <2>7 DEF ExportInv
<1>8. CASE Trace!MetricsExported
  BY <1>0, <1>8 DEF Trace!MetricsExported, ExportInv, ExportTypes, SessionType, Queued, ShutDown
<1> QED
  BY <1>4, <1>5, <1>6, <1>7, <1>8

LEMMA ExportStep ==
  ASSUME ExportInv, [Trace!Next]_traceVars
  PROVE  ExportInv'
<1>1. CASE UNCHANGED traceVars
  BY <1>1 DEF traceVars, ExportInv, ExportTypes, SessionType, Queued, ShutDown
<1>2. CASE Trace!Crash
  <2>1. /\ ended' = <<>> /\ spans' = <<>> /\ traceBatch' = <<>> /\ received' = <<>> /\ flushing' = "none"
        /\ closed' = FALSE /\ shutdown' = Trace!NoCall /\ UNCHANGED <<traceCalls, step, traceFails>>
    BY <1>2 DEF Trace!Crash, Trace!session
  <2>2. <<>> \o <<>> = <<>> /\ <<>> \o <<>> \o <<>> = <<>> /\ DOMAIN <<>> = {}
    BY ConcatEmptySeq
  <2> QED
    BY <2>1, <2>2 DEF ExportInv, ExportTypes, SessionType, Queued, ShutDown, SameOrder, Occurs, Trace!NoCall
<1>3. CASE UNCHANGED Trace!vars
  BY <1>1, <1>3 DEF Trace!vars, Trace!session, Trace!lifecycle, Trace!exporter, traceVars
<1>4. CASE Trace!TurnStarted \/ Trace!StepStarted \/ Trace!ModelRequested \/ Trace!ToolCalled
           \/ Trace!StepFinished \/ Trace!TurnFinished \/ \E c \in traceCalls : Trace!ToolAnswered(c)
  BY <1>4, EventsEnd DEF Trace!TurnStarted, Trace!StepStarted, Trace!ModelRequested, Trace!ToolCalled,
     Trace!StepFinished, Trace!TurnFinished, Trace!ToolAnswered
<1>5. CASE Trace!ForceFlush \/ Trace!Shutdown \/ Trace!SpansExported \/ Trace!ExportFails \/ Trace!MetricsExported
  BY <1>5, FlushStep DEF Trace!ForceFlush, Trace!Shutdown, Trace!SpansExported, Trace!ExportFails, Trace!MetricsExported
<1> QED
  BY <1>1, <1>2, <1>3, <1>4, <1>5 DEF Trace!Next

LEMMA ExportStarts == Trace!Init => ExportInv
<1>1. <<>> \o <<>> = <<>> /\ <<>> \o <<>> \o <<>> = <<>> /\ DOMAIN <<>> = {}
  BY ConcatEmptySeq
<1> QED
  BY <1>1, FS_EmptySet DEF Trace!Init, ExportInv, ExportTypes, SessionType, Queued, ShutDown, SameOrder, Occurs, Trace!NoCall

LEMMA ExportKeeps ==
  ASSUME ExportInv
  PROVE  Trace!EndedAreKept
<1>1. Trace!ToSet(ended) = Trace!ToSet(received) \cup Trace!ToSet(traceBatch) \cup Trace!ToSet(spans)
  BY ToSetOccurs DEF ExportInv, Queued
<1>2. closed /\ ~shutdown.joined => shutdown.due \subseteq Trace!ToSet(received)
  BY ToSetOccurs DEF ExportInv, ShutDown, Occurs
<1>3. \A i, j \in DOMAIN (traceBatch \o spans) : i < j =>
         Trace!Before((traceBatch \o spans)[i], (traceBatch \o spans)[j])
  BY DEF ExportInv, Queued, SameOrder, Precedes, Trace!Before
<1> QED
  BY <1>1, <1>2, <1>3 DEF Trace!EndedAreKept, ExportInv, Queued

-----------------------------------------------------------------------------
(* How spans nest.                                                         *)

(* The log of the turn.                                                    *)
TurnInv ==
  /\ turn \in {"new", "open", "closed"} /\ traceStage \in {"none", "begun", "asked", "answered"}
  /\ turn # "open" => traceStage = "none"
  /\ traceStage \in {"none", "begun"} => traceCalls = {}
  /\ \A c \in traceCalls : c[1] = step
  /\ traceStage = "asked" => \A c \in traceCalls : c[2] <= Cardinality(traceCalls)

(* The spans the lifecycle holds.                                          *)
Holding == turns \cup traceSteps \cup models \cup tools

HeldSpans ==
  /\ turns \subseteq {Trace!TurnSpan} /\ (turn # "open" => turns = {})
  /\ traceSteps \subseteq {Trace!StepSpan(step)} /\ (traceStage = "none" => traceSteps = {})
  /\ models \subseteq {Trace!ChatSpan(step)} /\ (traceStage \in {"none", "begun"} => models = {})
  /\ tools \subseteq {Trace!ToolSpan(c) : c \in traceCalls}

(* What was started is held or has ended.                                  *)
HeldOrEnded ==
  /\ \A s \in traceStarted : s.span \in Holding \/ Occurs(ended, s.span)
  /\ \A a \in Holding : ~Occurs(ended, a) /\ \E s \in traceStarted : s.span = a
  /\ \A a : Occurs(ended, a) => \E s \in traceStarted : s.span = a

(* A span is started once, for what the log has reached.                   *)
Reached(a) ==
  \/ a = Trace!TurnSpan /\ turn # "new"
  \/ \E n \in Nat : a = Trace!StepSpan(n) /\ n <= step
  \/ \E n \in Nat : a = Trace!ChatSpan(n) /\ n <= step /\ (n = step => traceStage # "begun")
  \/ \E c \in Nat \X Nat :
       /\ a = Trace!ToolSpan(c) /\ c[1] <= step
       /\ c[1] = step => traceStage # "begun" /\ (traceStage = "asked" => c \in traceCalls)

PartOf(a, parent) ==
  \/ parent = Trace!NoParent
  \/ parent = Trace!TurnSpan /\ \E n \in Nat : a = Trace!StepSpan(n)
  \/ \E n \in Nat :
       /\ parent = Trace!StepSpan(n) /\ n <= step
       /\ \/ a = Trace!ChatSpan(n)
          \/ \E c \in Nat \X Nat : a = Trace!ToolSpan(c) /\ c[1] = n

Nests(these, of) == \A s \in these : Occurs(of, s.parent) => Precedes(of, s.span, s.parent)

SpanInv ==
  /\ HeldSpans /\ HeldOrEnded /\ Nests(traceStarted, ended)
  /\ \A s \in traceStarted : Reached(s.span) /\ PartOf(s.span, s.parent)

NestInv == ExportInv /\ TurnInv /\ (traceLost = 0 /\ ~closed => SpanInv) /\ traceLost \in Nat

LEMMA TurnStep ==
  ASSUME NestInv, [Trace!Next]_traceVars
  PROVE  TurnInv'
<1>0. TurnInv /\ step \in Nat /\ traceCalls \subseteq Nat \X Nat /\ IsFiniteSet(traceCalls)
      /\ Cardinality(traceCalls) \in Nat /\ Trace!Cardinality(traceCalls) = Cardinality(traceCalls)
  BY FS_CardinalityType DEF NestInv, ExportInv, ExportTypes, SessionType, Trace!Cardinality, Cardinality
<1>1. CASE UNCHANGED <<turn, step, traceStage, traceCalls>>
  BY <1>0, <1>1 DEF TurnInv
<1>2. CASE Trace!ToolCalled
  <2> DEFINE c == <<step, Cardinality(traceCalls) + 1>>
  <2>1. c \notin traceCalls /\ traceCalls' = traceCalls \cup {c} /\ traceStage = "asked"
        /\ UNCHANGED <<turn, step, traceStage>> /\ c[1] = step /\ c[2] = Cardinality(traceCalls) + 1
    <3>1. traceCalls' = traceCalls \cup {c} /\ traceStage = "asked" /\ UNCHANGED <<turn, step, traceStage>>
      BY <1>0, <1>2 DEF Trace!ToolCalled, Trace!CallId
    <3>2. c \notin traceCalls
      BY <1>0, <3>1 DEF TurnInv
    <3> QED
      BY <3>1, <3>2
  <2> HIDE DEF c
  <2>2. Cardinality(traceCalls') = Cardinality(traceCalls) + 1
    BY <1>0, <2>1, FS_AddElement
  <2> QED
    BY <1>0, <2>1, <2>2 DEF TurnInv
<1>3. CASE Trace!TurnStarted \/ Trace!StepStarted \/ Trace!ModelRequested \/ Trace!StepFinished \/ Trace!TurnFinished
  BY <1>0, <1>3 DEF TurnInv, Trace!TurnStarted, Trace!StepStarted, Trace!ModelRequested, Trace!StepFinished, Trace!TurnFinished
<1>4. CASE \E c \in traceCalls : Trace!ToolAnswered(c)
  BY <1>0, <1>4 DEF TurnInv, Trace!ToolAnswered
<1>5. CASE Trace!Crash \/ Trace!ForceFlush \/ Trace!Shutdown \/ Trace!SpansExported \/ Trace!ExportFails
           \/ Trace!MetricsExported \/ UNCHANGED Trace!vars \/ UNCHANGED traceVars
  BY <1>1, <1>5 DEF Trace!Crash, Trace!ForceFlush, Trace!Shutdown, Trace!SpansExported, Trace!ExportFails,
     Trace!MetricsExported, Trace!Exporting, Trace!session, Trace!vars, traceVars
<1> QED
  BY <1>2, <1>3, <1>4, <1>5 DEF Trace!Next

(* A span that ends now has had its parts ended.                           *)
LEMMA NestsExtend ==
  ASSUME ExportTypes, NEW new \in Seq(TraceSpans), Nests(traceStarted, ended),
         \A s \in traceStarted : Occurs(new, s.parent) =>
           Occurs(ended, s.span) \/ Precedes(new, s.span, s.parent)
  PROVE  Nests(traceStarted, ended \o new)
<1> SUFFICES ASSUME NEW s \in traceStarted, Occurs(ended \o new, s.parent)
             PROVE  Precedes(ended \o new, s.span, s.parent)
  BY DEF Nests
<1>1. ended \in Seq(TraceSpans) /\ new \in Seq(TraceSpans)
  BY DEF ExportTypes
<1>2. CASE Occurs(ended, s.parent)
  BY <1>1, <1>2, PrecedesConcat DEF Nests
<1>3. CASE Occurs(new, s.parent) /\ Occurs(ended, s.span)
  BY <1>1, <1>3, PrecedesConcat
<1>4. CASE Precedes(new, s.span, s.parent)
  <2>1. PICK i, j \in DOMAIN new : i < j /\ new[i] = s.span /\ new[j] = s.parent
    BY <1>4 DEF Precedes
  <2>2. Precedes(ended \o new, new[i], new[j])
    BY <1>1, <2>1, PrecedesConcat
  <2> QED
    BY <2>1, <2>2
<1> QED
  BY <1>1, <1>2, <1>3, <1>4, OccursConcat

LEMMA SpansDiffer ==
  /\ \A m, n : (Trace!StepSpan(m) = Trace!StepSpan(n) <=> m = n) /\ (Trace!ChatSpan(m) = Trace!ChatSpan(n) <=> m = n)
               /\ (Trace!ToolSpan(m) = Trace!ToolSpan(n) <=> m = n)
  /\ \A m, n : /\ Trace!StepSpan(m) # Trace!ChatSpan(n) /\ Trace!StepSpan(m) # Trace!ToolSpan(n)
               /\ Trace!ChatSpan(m) # Trace!ToolSpan(n)
  /\ \A n : /\ Trace!TurnSpan # Trace!StepSpan(n) /\ Trace!TurnSpan # Trace!ChatSpan(n) /\ Trace!TurnSpan # Trace!ToolSpan(n)
            /\ Trace!NoParent # Trace!StepSpan(n) /\ Trace!NoParent # Trace!ChatSpan(n) /\ Trace!NoParent # Trace!ToolSpan(n)
  /\ Trace!TurnSpan # Trace!NoParent
  BY DEF Trace!StepSpan, Trace!ChatSpan, Trace!ToolSpan, Trace!TurnSpan, Trace!NoParent

(* An event that ends the spans of `new` and opens those of `opened`.      *)
LEMMA SpansMove ==
  ASSUME ExportTypes, SpanInv, NEW new \in Seq(TraceSpans), NEW opened,
         ended' = ended \o new, traceStarted' = traceStarted \cup opened,
         \A a : a \in Holding' <=> (a \in Holding /\ ~Occurs(new, a)) \/ \E o \in opened : o.span = a,
         \A a : Occurs(new, a) => a \in Holding,
         \A o \in opened : /\ ~Occurs(ended, o.span) /\ ~Occurs(new, o.span)
                           /\ ~Occurs(ended, o.parent) /\ ~Occurs(new, o.parent),
         \A s \in traceStarted : Occurs(new, s.parent) => Occurs(ended, s.span) \/ Precedes(new, s.span, s.parent)
  PROVE  HeldOrEnded' /\ Nests(traceStarted', ended')
<1>1. \A a : Occurs(ended', a) <=> Occurs(ended, a) \/ Occurs(new, a)
  BY OccursConcat DEF ExportTypes
<1>2. HeldOrEnded'
  BY <1>1 DEF HeldOrEnded, SpanInv
<1>3. Nests(traceStarted, ended \o new)
  BY NestsExtend DEF SpanInv
<1> QED
  BY <1>1, <1>2, <1>3 DEF Nests

(* What the log has reached it does not leave.                             *)
LEMMA ReachedStays ==
  ASSUME NestInv, [Trace!Next]_traceVars
  PROVE  /\ \A a : Reached(a) => Reached(a)'
         /\ \A a, p : PartOf(a, p) => PartOf(a, p)'
<1>0. TurnInv /\ step \in Nat /\ traceCalls \subseteq Nat \X Nat
  BY DEF NestInv, ExportInv, ExportTypes, SessionType
<1>1. CASE UNCHANGED <<turn, step, traceStage, traceCalls>>
  BY <1>1 DEF Reached, PartOf
<1>2. CASE Trace!TurnStarted \/ Trace!TurnFinished
  BY <1>0, <1>2 DEF Reached, PartOf, TurnInv, Trace!TurnStarted, Trace!TurnFinished
<1>3. CASE Trace!StepStarted
  BY <1>0, <1>3 DEF Reached, PartOf, TurnInv, Trace!StepStarted
<1>4. CASE Trace!ModelRequested
  BY <1>0, <1>4 DEF Reached, PartOf, TurnInv, Trace!ModelRequested
<1>5. CASE Trace!ToolCalled
  BY <1>0, <1>5 DEF Reached, PartOf, TurnInv, Trace!ToolCalled
<1>6. CASE \E c \in traceCalls : Trace!ToolAnswered(c)
  BY <1>0, <1>6 DEF Reached, PartOf, TurnInv, Trace!ToolAnswered
<1>7. CASE Trace!StepFinished
  BY <1>0, <1>7 DEF Reached, PartOf, TurnInv, Trace!StepFinished
<1>8. CASE Trace!Crash \/ Trace!ForceFlush \/ Trace!Shutdown \/ Trace!SpansExported \/ Trace!ExportFails
           \/ Trace!MetricsExported \/ UNCHANGED Trace!vars \/ UNCHANGED traceVars
  BY <1>1, <1>8 DEF Trace!Crash, Trace!ForceFlush, Trace!Shutdown, Trace!SpansExported, Trace!ExportFails,
     Trace!MetricsExported, Trace!Exporting, Trace!session, Trace!vars, traceVars
<1> QED
  BY <1>2, <1>3, <1>4, <1>5, <1>6, <1>7, <1>8 DEF Trace!Next

(* What a span is held by, and that it has not ended, is known.            *)
LEMMA HeldIs ==
  ASSUME NEW span, NEW holder, Trace!ToSet(ended) \cap holder = {}
  PROVE  Trace!Held(span, holder) = IF span \in holder THEN <<span>> ELSE <<>>
  BY DEF Trace!Held

LEMMA OccursOne ==
  /\ \A a : ~Occurs(<<>>, a)
  /\ \A a, b : Occurs(<<b>>, a) <=> a = b
  BY DEF Occurs

(* The spans that are open.                                                *)
LEMMA Opens ==
  ASSUME ExportTypes, SpanInv, NEW a, NEW parent, Trace!Start(a, parent), ~closed,
         ~Occurs(ended, a), ~Occurs(ended, parent),
         \A b : b \in Holding' <=> b \in Holding \/ b = a
  PROVE  /\ traceStarted' = traceStarted \cup {[span |-> a, parent |-> parent]}
         /\ HeldOrEnded' /\ Nests(traceStarted', ended')
<1> DEFINE o == [span |-> a, parent |-> parent]
<1>1. traceStarted' = traceStarted \cup {o} /\ ended' = ended /\ o.span = a /\ o.parent = parent
  BY DEF Trace!Start
<1>2. ended \in Seq(TraceSpans) /\ <<>> \in Seq(TraceSpans) /\ ended \o <<>> = ended
  BY ConcatEmptySeq DEF ExportTypes
<1> HIDE DEF o
<1>3. /\ HeldOrEnded' /\ Nests(traceStarted', ended')
  <2> DEFINE opened == {o}
             new == <<>>
  <2>1. new \in Seq(TraceSpans) /\ ended' = ended \o new /\ traceStarted' = traceStarted \cup opened /\ \A b : ~Occurs(new, b)
    BY <1>1, <1>2, OccursOne
  <2>2. \A x \in opened : x = o
    OBVIOUS
  <2>3. o \in opened
    OBVIOUS
  <2> HIDE DEF opened, new
  <2>4. \A b : b \in Holding' <=> (b \in Holding /\ ~Occurs(new, b)) \/ \E x \in opened : x.span = b
    BY <1>1, <2>1, <2>2, <2>3
  <2> QED
    BY <1>1, <2>1, <2>2, <2>4, SpansMove
<1> QED
  BY <1>1, <1>3 DEF o

(* Spans end that were open, and none of their parts stays open.           *)
LEMMA Ends ==
  ASSUME ExportTypes, SpanInv, NEW new \in Seq(TraceSpans), Trace!End(new), UNCHANGED traceStarted,
         \A a : Occurs(new, a) => a \in Holding,
         \A a : a \in Holding' <=> a \in Holding /\ ~Occurs(new, a),
         \A s \in traceStarted : Occurs(new, s.parent) => Occurs(ended, s.span) \/ Precedes(new, s.span, s.parent)
  PROVE  HeldOrEnded' /\ Nests(traceStarted', ended')
<1>1. traceStarted' = traceStarted \cup {} /\ ended' = ended \o new
  BY DEF Trace!End
<1> DEFINE opened == {}
<1>2. traceStarted' = traceStarted \cup opened /\ \A o \in opened : FALSE
  BY <1>1
<1> HIDE DEF opened
<1> QED
  BY <1>1, <1>2, SpansMove

(* A span that the log has not reached was not started.                    *)
LEMMA Fresh ==
  ASSUME SpanInv, NEW a, ~Reached(a)
  PROVE  ~Occurs(ended, a) /\ \A s \in traceStarted : s.span # a
  BY DEF SpanInv, HeldOrEnded

LEMMA NoParentNeverEnds ==
  ASSUME ExportTypes
  PROVE  ~Occurs(ended, Trace!NoParent)
  BY SpansDiffer DEF ExportTypes, Occurs, TraceSpans

LEMMA HeldNow ==
  ASSUME SpanInv, NEW span, NEW holder, holder \subseteq Holding
  PROVE  /\ Trace!Held(span, holder) = IF span \in holder THEN <<span>> ELSE <<>>
         /\ \A a : Occurs(Trace!Held(span, holder), a) <=> a = span /\ span \in holder
<1>1. Trace!ToSet(ended) \cap holder = {}
  BY ToSetOccurs DEF SpanInv, HeldOrEnded
<1>2. Trace!Held(span, holder) = IF span \in holder THEN <<span>> ELSE <<>>
  BY <1>1, HeldIs
<1> QED
  BY <1>2, OccursOne

LEMMA SpanStep ==
  ASSUME NestInv, [Trace!Next]_traceVars, traceLost' = 0, ~closed'
  PROVE  SpanInv'
<1>0. /\ TurnInv /\ step \in Nat /\ step + 1 \in Nat /\ step + 1 > step
      /\ traceCalls \subseteq Nat \X Nat /\ ExportTypes /\ traceLost \in Nat
      /\ \A n \in Nat : n <= step => n # step + 1
  BY DEF NestInv, ExportInv, ExportTypes, SessionType
<1>1. ASSUME UNCHANGED <<turn, step, traceStage, traceCalls, turns, traceSteps, models, tools, traceStarted, ended>>,
             traceLost = 0, ~closed
      PROVE  SpanInv'
  BY <1>1 DEF NestInv, SpanInv, HeldSpans, HeldOrEnded, Holding, Nests, Reached, PartOf
<1>2. Trace!Unobserved => FALSE
  BY <1>0 DEF Trace!Unobserved
<1>3. ASSUME Trace!Events, UNCHANGED traceLost PROVE SpanInv /\ ~closed
  BY <1>3 DEF NestInv, Trace!Events, Trace!exporter
<1>4. /\ \A a : Reached(a) => Reached(a)'
      /\ \A a, p : PartOf(a, p) => PartOf(a, p)'
  BY ReachedStays
<1>5. ~Occurs(ended, Trace!NoParent)
  BY <1>0, NoParentNeverEnds
<1>15. /\ Trace!TurnSpan \in TraceSpans /\ Trace!StepSpan(step) \in TraceSpans /\ Trace!ChatSpan(step) \in TraceSpans
       /\ \A c \in Nat \X Nat : Trace!ToolSpan(c) \in TraceSpans
       /\ turns \subseteq Holding /\ traceSteps \subseteq Holding /\ models \subseteq Holding /\ tools \subseteq Holding
  BY <1>0 DEF TraceSpans, Holding
<1>6. CASE Trace!TurnStarted
  <2>1. Trace!OnTurnStarted /\ SpanInv /\ ~closed /\ turn = "new" /\ turn' = "open"
        /\ UNCHANGED <<step, traceStage, traceCalls>>
    BY <1>2, <1>3, <1>6 DEF Trace!TurnStarted, Trace!Observed
  <2>2. /\ Trace!Start(Trace!TurnSpan, Trace!NoParent) /\ turns' = turns \cup {Trace!TurnSpan}
        /\ UNCHANGED <<traceSteps, models, tools>>
    BY <2>1 DEF Trace!OnTurnStarted
  <2>3. ~Reached(Trace!TurnSpan)
    BY <2>1, SpansDiffer DEF Reached
  <2>4. \A b : b \in Holding' <=> b \in Holding \/ b = Trace!TurnSpan
    BY <2>2 DEF Holding
  <2>5. /\ traceStarted' = traceStarted \cup {[span |-> Trace!TurnSpan, parent |-> Trace!NoParent]}
        /\ HeldOrEnded' /\ Nests(traceStarted', ended')
    BY <1>0, <1>5, <2>1, <2>2, <2>3, <2>4, Fresh, Opens
  <2>6. HeldSpans'
    BY <2>1, <2>2 DEF SpanInv, HeldSpans
  <2>7. Reached(Trace!TurnSpan)' /\ PartOf(Trace!TurnSpan, Trace!NoParent)'
    BY <2>1 DEF Reached, PartOf
  <2> QED
    BY <1>4, <2>1, <2>5, <2>6, <2>7 DEF SpanInv
<1>7. CASE Trace!StepStarted
  <2> DEFINE a == Trace!StepSpan(step + 1)
             parent == IF Trace!TurnSpan \in turns THEN Trace!TurnSpan ELSE Trace!NoParent
  <2>1. Trace!OnStepStarted(step + 1) /\ SpanInv /\ ~closed /\ step' = step + 1 /\ traceStage = "none"
        /\ traceStage' = "begun" /\ UNCHANGED <<turn, traceCalls>> /\ turn = "open"
    BY <1>2, <1>3, <1>7 DEF Trace!StepStarted, Trace!Observed
  <2>2. Trace!Start(a, parent) /\ traceSteps' = traceSteps \cup {a} /\ UNCHANGED <<turns, models, tools>>
    BY <2>1 DEF Trace!OnStepStarted
  <2>3. ~Reached(a)
    BY <1>0, SpansDiffer DEF Reached
  <2>4. \A b : b \in Holding' <=> b \in Holding \/ b = a
    BY <2>2 DEF Holding
  <2>5. ~Occurs(ended, parent)
    BY <1>5, <2>1 DEF SpanInv, HeldOrEnded, Holding
  <2>6. HeldSpans'
    BY <1>0, <2>1, <2>2 DEF SpanInv, HeldSpans, TurnInv
  <2>7. \A b, p : b = a /\ p = parent => Reached(b)' /\ PartOf(b, p)'
    BY <1>0, <2>1 DEF Reached, PartOf
  <2> HIDE DEF a, parent
  <2>8. /\ traceStarted' = traceStarted \cup {[span |-> a, parent |-> parent]}
        /\ HeldOrEnded' /\ Nests(traceStarted', ended')
    BY <1>0, <2>1, <2>2, <2>3, <2>4, <2>5, Fresh, Opens
  <2> QED
    BY <1>4, <2>1, <2>6, <2>7, <2>8 DEF SpanInv
<1>8. CASE Trace!ModelRequested
  <2> DEFINE a == Trace!ChatSpan(step)
             parent == Trace!Parent(step)
  <2>1. Trace!OnModelRequest(step) /\ SpanInv /\ ~closed /\ traceStage = "begun"
        /\ traceStage' = "asked" /\ UNCHANGED <<turn, step, traceCalls>>
    BY <1>2, <1>3, <1>8 DEF Trace!ModelRequested, Trace!Observed
  <2>2. Trace!Start(a, parent) /\ models' = models \cup {a} /\ UNCHANGED <<turns, traceSteps, tools>>
    BY <2>1 DEF Trace!OnModelRequest
  <2>3. ~Reached(a)
    BY <1>0, <2>1, SpansDiffer DEF Reached
  <2>4. \A b : b \in Holding' <=> b \in Holding \/ b = a
    BY <2>2 DEF Holding
  <2>5. ~Occurs(ended, parent)
    BY <1>5, <2>1 DEF SpanInv, HeldOrEnded, Holding, Trace!Parent
  <2>6. HeldSpans'
    BY <1>0, <2>1, <2>2 DEF SpanInv, HeldSpans, TurnInv
  <2>7. \A b, p : b = a /\ p = parent => Reached(b)' /\ PartOf(b, p)'
    BY <1>0, <2>1 DEF Reached, PartOf, Trace!Parent
  <2> HIDE DEF a, parent
  <2>8. /\ traceStarted' = traceStarted \cup {[span |-> a, parent |-> parent]}
        /\ HeldOrEnded' /\ Nests(traceStarted', ended')
    BY <1>0, <2>1, <2>2, <2>3, <2>4, <2>5, Fresh, Opens
  <2> QED
    BY <1>4, <2>1, <2>6, <2>7, <2>8 DEF SpanInv
<1>9. CASE Trace!ToolCalled
  <2> DEFINE c == Trace!CallId(Trace!Cardinality(traceCalls) + 1)
             a == Trace!ToolSpan(c)
             parent == Trace!Parent(step)
             new == Trace!Held(Trace!ChatSpan(step), models)
             opened == {[span |-> a, parent |-> parent]}
  <2>0. Trace!Cardinality(traceCalls) \in Nat /\ Trace!Cardinality(traceCalls) = Cardinality(traceCalls)
    BY FS_CardinalityType DEF NestInv, ExportInv, ExportTypes, SessionType, Trace!Cardinality, Cardinality
  <2>1. Trace!OnToolCall(step, c) /\ SpanInv /\ ~closed /\ traceStage = "asked"
        /\ traceCalls' = traceCalls \cup {c} /\ UNCHANGED <<turn, step, traceStage>>
    BY <1>2, <1>3, <1>9 DEF Trace!ToolCalled, Trace!Observed
  <2>2. Trace!End(new) /\ models' = models \ {Trace!ChatSpan(step)} /\ traceStarted' = traceStarted \cup opened
        /\ tools' = tools \cup {a} /\ UNCHANGED <<turns, traceSteps>>
    BY <2>1 DEF Trace!OnToolCall
  <2>3. c \in Nat \X Nat /\ c[1] = step /\ c \notin traceCalls
    BY <1>0, <2>0, <2>1 DEF TurnInv, Trace!CallId
  <2> HIDE DEF c
  <2>4. ~Reached(a)
    BY <1>0, <2>1, <2>3, SpansDiffer DEF Reached
  <2>5. ~Occurs(ended, parent) /\ parent # Trace!ChatSpan(step) /\ a # Trace!ChatSpan(step)
    BY <1>5, <2>1, SpansDiffer DEF SpanInv, HeldOrEnded, Holding, Trace!Parent
  <2>6. HeldSpans'
    BY <1>0, <2>1, <2>2, <2>3, SpansDiffer DEF SpanInv, HeldSpans, TurnInv
  <2>7. \A b, p : b = a /\ p = parent => Reached(b)' /\ PartOf(b, p)'
    BY <1>0, <2>1, <2>3 DEF Reached, PartOf, Trace!Parent
  <2>8. new \in Seq(TraceSpans) /\ \A b : Occurs(new, b) <=> b = Trace!ChatSpan(step) /\ b \in models
    BY <1>0, <1>15, <2>1, HeldNow, HeldType
  <2>9. \A x \in opened : x.span = a /\ x.parent = parent
    OBVIOUS
  <2>10. [span |-> a, parent |-> parent] \in opened
    OBVIOUS
  <2>11. \A b : b \in Holding' <=> (b \in Holding /\ b # Trace!ChatSpan(step)) \/ b = a
    BY <2>1, <2>2, <2>5, SpansDiffer DEF Holding, SpanInv, HeldSpans
  <2>12. ended' = ended \o new
    BY <2>2 DEF Trace!End
  <2>13. \A s \in traceStarted : s.parent # Trace!ChatSpan(step)
    BY <2>1, SpansDiffer DEF SpanInv, PartOf
  <2>14. ~Occurs(ended, a)
    BY <2>1, <2>4, Fresh
  <2>15. Trace!ChatSpan(step) \in Holding => Trace!ChatSpan(step) \in models
    BY <2>1, SpansDiffer DEF SpanInv, HeldSpans, Holding
  <2>16. models \subseteq Holding
    BY DEF Holding
  <2> HIDE DEF new, a, parent
  <2>17. \E x \in opened : x.span = a
    BY <2>10
  <2> HIDE DEF opened
  <2>18. \A b : b \in Holding' <=> (b \in Holding /\ ~Occurs(new, b)) \/ \E x \in opened : x.span = b
    BY <2>8, <2>9, <2>11, <2>15, <2>17
  <2>19. HeldOrEnded' /\ Nests(traceStarted', ended')
    <3>1. \A o \in opened : /\ ~Occurs(ended, o.span) /\ ~Occurs(new, o.span)
                            /\ ~Occurs(ended, o.parent) /\ ~Occurs(new, o.parent)
      BY <2>5, <2>8, <2>9, <2>14
    <3>2. \A b : Occurs(new, b) => b \in Holding
      BY <2>8, <2>16
    <3>3. \A s \in traceStarted : ~Occurs(new, s.parent)
      BY <2>8, <2>13
    <3> QED
      BY <1>0, <2>1, <2>2, <2>8, <2>12, <2>18, <3>1, <3>2, <3>3, SpansMove
  <2> QED
    BY <1>4, <2>1, <2>2, <2>6, <2>7, <2>9, <2>19 DEF SpanInv
<1>10. ASSUME NEW c \in traceCalls, Trace!ToolAnswered(c) PROVE SpanInv'
  <2> DEFINE a == Trace!ToolSpan(c)
             new == Trace!Held(a, tools)
  <2>1. Trace!OnToolResult(c) /\ SpanInv /\ ~closed /\ traceStage' = "answered"
        /\ traceCalls' = traceCalls \ {c} /\ UNCHANGED <<turn, step>> /\ traceStage \notin {"none", "begun"}
    BY <1>0, <1>2, <1>3, <1>10 DEF Trace!ToolAnswered, Trace!Observed, TurnInv
  <2>2. Trace!End(new) /\ tools' = tools \ {a} /\ UNCHANGED <<turns, traceSteps, models, traceStarted>>
    BY <2>1 DEF Trace!OnToolResult
  <2>3. HeldSpans'
    BY <1>0, <2>1, <2>2, SpansDiffer DEF SpanInv, HeldSpans, TurnInv
  <2>4. new \in Seq(TraceSpans) /\ \A b : Occurs(new, b) <=> b = a /\ b \in tools
    BY <1>0, <1>15, <2>1, HeldNow, HeldType
  <2>5. \A b : b \in Holding' <=> b \in Holding /\ ~Occurs(new, b)
    BY <2>1, <2>2, <2>4, SpansDiffer DEF Holding, SpanInv, HeldSpans
  <2>6. \A s \in traceStarted : s.parent # a
    BY <2>1, SpansDiffer DEF SpanInv, PartOf
  <2>7. tools \subseteq Holding
    BY DEF Holding
  <2> HIDE DEF new, a
  <2>8. HeldOrEnded' /\ Nests(traceStarted', ended')
    BY <1>0, <2>1, <2>2, <2>4, <2>5, <2>6, <2>7, Ends
  <2> QED
    BY <1>4, <2>1, <2>2, <2>3, <2>8 DEF SpanInv
<1>11. CASE Trace!StepFinished
  <2> DEFINE chat == Trace!ChatSpan(step)
             a == Trace!StepSpan(step)
             first == Trace!Held(chat, models)
             second == Trace!Held(a, traceSteps)
             new == first \o second
  <2>1. Trace!OnStepFinished(step) /\ SpanInv /\ ~closed /\ traceStage' = "none" /\ traceStage # "none"
        /\ traceCalls = {} /\ UNCHANGED <<turn, step, traceCalls>>
    BY <1>0, <1>2, <1>3, <1>11 DEF Trace!StepFinished, Trace!Observed
  <2>2. Trace!End(new) /\ models' = models \ {chat} /\ traceSteps' = traceSteps \ {a} /\ UNCHANGED <<turns, tools, traceStarted>>
    BY <2>1 DEF Trace!OnStepFinished
  <2>3. HeldSpans'
    BY <1>0, <2>1, <2>2, SpansDiffer DEF SpanInv, HeldSpans, TurnInv
  <2>4. /\ first \in Seq(TraceSpans) /\ \A b : Occurs(first, b) <=> b = chat /\ b \in models
        /\ second \in Seq(TraceSpans) /\ \A b : Occurs(second, b) <=> b = a /\ b \in traceSteps
    BY <1>0, <1>15, <2>1, HeldNow, HeldType
  <2>5. tools = {} /\ a # chat /\ turns \cap {a, chat} = {} /\ traceSteps \cap {chat} = {} /\ models \cap {a} = {}
    BY <2>1, SpansDiffer DEF SpanInv, HeldSpans
  <2>6. \A b : b \in Holding' <=> b \in Holding /\ b # a /\ b # chat
    BY <2>2, <2>5 DEF Holding
  <2>7. \A b : b \in Holding <=> b \in turns \/ b \in traceSteps \/ b \in models
    BY <2>5 DEF Holding
  <2>8. \A s \in traceStarted : s.parent # chat /\ (s.parent = a => s.span \notin turns /\ s.span \notin traceSteps)
    BY <2>1, SpansDiffer DEF SpanInv, PartOf, HeldSpans
  <2>9. models \subseteq {chat}
    BY <2>1 DEF SpanInv, HeldSpans
  <2> HIDE DEF first, second, a, chat
  <2>10. new \in Seq(TraceSpans) /\ \A b : Occurs(new, b) <=> Occurs(first, b) \/ Occurs(second, b)
    BY <2>4, OccursConcat
  <2>11. \A b, d : Occurs(first, b) /\ Occurs(second, d) => Precedes(new, b, d)
    BY <2>4, PrecedesConcat
  <2> HIDE DEF new
  <2>12. \A s \in traceStarted : Occurs(new, s.parent) => Occurs(ended, s.span) \/ Precedes(new, s.span, s.parent)
    <3> SUFFICES ASSUME NEW s \in traceStarted, Occurs(new, s.parent), ~Occurs(ended, s.span)
                 PROVE  Precedes(new, s.span, s.parent)
      OBVIOUS
    <3>1. s.parent = a /\ a \in traceSteps
      BY <2>4, <2>8, <2>10
    <3>2. s.span \in models
      BY <2>1, <2>7, <2>8, <3>1 DEF SpanInv, HeldOrEnded
    <3>3. Occurs(first, s.span) /\ Occurs(second, s.parent)
      BY <2>4, <2>9, <3>1, <3>2
    <3> QED
      BY <2>11, <3>3
  <2>13. \A b : b \in Holding' <=> b \in Holding /\ ~Occurs(new, b)
    BY <2>4, <2>5, <2>6, <2>7, <2>10
  <2>14. \A b : Occurs(new, b) => b \in Holding
    BY <2>4, <2>7, <2>10
  <2>15. HeldOrEnded' /\ Nests(traceStarted', ended')
    BY <1>0, <2>1, <2>2, <2>10, <2>12, <2>13, <2>14, Ends
  <2> QED
    BY <1>4, <2>1, <2>2, <2>3, <2>15 DEF SpanInv
<1>12. CASE Trace!TurnFinished
  <2> DEFINE a == Trace!TurnSpan
             new == Trace!Held(a, turns)
  <2>1. Trace!OnTurnFinished /\ SpanInv /\ ~closed /\ traceStage = "none" /\ turn' = "closed"
        /\ UNCHANGED <<step, traceStage, traceCalls>> /\ traceCalls = {}
    BY <1>0, <1>2, <1>3, <1>12 DEF Trace!TurnFinished, Trace!Observed, TurnInv
  <2>2. Trace!End(new) /\ turns' = turns \ {a} /\ UNCHANGED <<traceSteps, models, tools, traceStarted>>
    BY <2>1 DEF Trace!OnTurnFinished
  <2>3. HeldSpans'
    BY <1>0, <2>1, <2>2, SpansDiffer DEF SpanInv, HeldSpans, TurnInv
  <2>4. new \in Seq(TraceSpans) /\ \A b : Occurs(new, b) <=> b = a /\ b \in turns
    BY <1>0, <1>15, <2>1, HeldNow, HeldType
  <2>5. Holding = turns /\ turns \subseteq {a} /\ \A b : b \in Holding' <=> b \in turns /\ b # a
    BY <2>1, <2>2 DEF Holding, SpanInv, HeldSpans
  <2>6. \A s \in traceStarted : s.parent = a => s.span # a
    BY <2>1, SpansDiffer DEF SpanInv, PartOf
  <2>7. \A s \in traceStarted : s.parent = a => Occurs(ended, s.span)
    BY <2>1, <2>5, <2>6 DEF SpanInv, HeldOrEnded
  <2> HIDE DEF new, a
  <2>8. HeldOrEnded' /\ Nests(traceStarted', ended')
    BY <1>0, <2>1, <2>2, <2>4, <2>5, <2>7, Ends
  <2> QED
    BY <1>4, <2>1, <2>2, <2>3, <2>8 DEF SpanInv
<1>13. CASE Trace!Crash
  <2>1. turns' = {} /\ traceSteps' = {} /\ models' = {} /\ tools' = {} /\ traceStarted' = {} /\ ended' = <<>>
    BY <1>13 DEF Trace!Crash
  <2> QED
    BY <2>1, OccursOne DEF SpanInv, HeldSpans, HeldOrEnded, Holding, Nests
<1>14. CASE Trace!ForceFlush \/ Trace!Shutdown \/ Trace!SpansExported \/ Trace!ExportFails
            \/ Trace!MetricsExported \/ UNCHANGED Trace!vars \/ UNCHANGED traceVars
  <2>1. UNCHANGED <<turn, step, traceStage, traceCalls, turns, traceSteps, models, tools, traceStarted, ended, traceLost>>
    BY <1>14 DEF Trace!ForceFlush, Trace!Shutdown, Trace!SpansExported, Trace!ExportFails, Trace!MetricsExported,
       Trace!Exporting, Trace!session, Trace!lifecycle, Trace!vars, traceVars
  <2>2. ~closed
    BY <1>14 DEF Trace!ForceFlush, Trace!Shutdown, Trace!SpansExported, Trace!ExportFails, Trace!MetricsExported,
       Trace!Exporting, Trace!exporter, Trace!vars, traceVars, NestInv, ExportInv, ShutDown
  <2> QED
    BY <1>1, <2>1, <2>2
<1> QED
  BY <1>6, <1>7, <1>8, <1>9, <1>10, <1>11, <1>12, <1>13, <1>14 DEF Trace!Next

LEMMA NestStep ==
  ASSUME NestInv, [Trace!Next]_traceVars
  PROVE  NestInv'
<1>1. traceLost' = traceLost \/ traceLost' = traceLost + 1
  BY DEF Trace!Next, Trace!TurnStarted, Trace!StepStarted, Trace!ModelRequested, Trace!ToolCalled, Trace!ToolAnswered,
     Trace!StepFinished, Trace!TurnFinished, Trace!Observed, Trace!Unobserved, Trace!Crash, Trace!ForceFlush,
     Trace!Shutdown, Trace!SpansExported, Trace!ExportFails, Trace!MetricsExported, Trace!Exporting, Trace!vars, traceVars
<1>2. traceLost' \in Nat
  BY <1>1 DEF NestInv
<1> QED
  BY <1>2, ExportStep, TurnStep, SpanStep DEF NestInv

LEMMA NestStarts == Trace!Init => NestInv
  BY ExportStarts, OccursOne DEF Trace!Init, NestInv, TurnInv, SpanInv, HeldSpans, HeldOrEnded, Holding, Nests

LEMMA NestHolds ==
  ASSUME NestInv
  PROVE  Trace!SpansNest
<1> SUFFICES ASSUME traceLost = 0, ~closed
             PROVE  /\ \A s \in traceStarted : s.parent \in Trace!ToSet(ended) => Trace!Before(s.span, s.parent)
                    /\ turn = "closed" => {s.span : s \in traceStarted} = Trace!ToSet(ended)
  BY DEF Trace!SpansNest
<1>1. SpanInv /\ TurnInv
  BY DEF NestInv
<1>2. \A s \in traceStarted : s.parent \in Trace!ToSet(ended) => Trace!Before(s.span, s.parent)
  BY <1>1, ToSetOccurs DEF SpanInv, Nests, Precedes, Trace!Before
<1>3. turn = "closed" => Holding = {}
  BY <1>1 DEF SpanInv, HeldSpans, TurnInv, Holding
<1>4. turn = "closed" => \A a : Occurs(ended, a) <=> \E s \in traceStarted : s.span = a
  BY <1>1, <1>3 DEF SpanInv, HeldOrEnded
<1> QED
  BY <1>2, <1>4, ToSetOccurs

-----------------------------------------------------------------------------
(* The prompts of the registry.                                            *)
CONSTANTS Ids, Texts   \* see PromptRegistry

VARIABLES revision, sources, promptsPrompts

Prompt == INSTANCE PromptRegistry WITH
  prompts <- promptsPrompts, MaxRevision <- Bound.prompts.revision

promptsVars == <<revision, sources, promptsPrompts>>

(* The contents of the definitions that parts names.                       *)
ContentsOf(parts, of, id) == [i \in DOMAIN parts |-> of[parts[i]][id].content]

(* The parts of a prompt explain what the kinds that had their turn gave.  *)
Explained(prompt, of, id, kinds) ==
  /\ prompt.parts \in Seq(Prompt!Kinds)
  /\ \A i \in DOMAIN prompt.parts : Prompt!Defines(of, prompt.parts[i], id)
  /\ prompt.content = FlattenSeq(ContentsOf(prompt.parts, of, id))
  /\ \A i \in DOMAIN prompt.parts : of[prompt.parts[i]][id].mode = "replace" => i = 1
  /\ \A kind \in kinds : Prompt!Defines(of, kind, id) =>
       \/ \E i \in DOMAIN prompt.parts : prompt.parts[i] = kind
       \/ prompt.parts # <<>> /\ of[prompt.parts[1]][id].mode = "replace"

SourcesType == [Prompt!Kinds -> Prompt!Prompts \cup {None}]

LEMMA DefinitionType ==
  ASSUME NEW of \in SourcesType, NEW kind \in Prompt!Kinds, NEW id, Prompt!Defines(of, kind, id)
  PROVE  of[kind][id].content \in Seq(Texts) /\ of[kind][id].mode \in {"replace", "append"}
<1>1. PICK ids \in SUBSET Ids : of[kind] \in [ids -> Prompt!Definitions]
  BY DEF SourcesType, Prompt!Defines, Prompt!Prompts
<1>2. of[kind][id] \in Prompt!Definitions
  BY <1>1 DEF Prompt!Defines
<1>3. <<>> \in Seq(Texts) /\ \A text \in Texts : <<text>> \in Seq(Texts)
  OBVIOUS
<1>4. Prompt!Written \subseteq Seq(Texts)
  BY <1>3 DEF Prompt!Written
<1> QED
  BY <1>2, <1>4 DEF Prompt!Definitions

LEMMA TurnExplains ==
  ASSUME NEW of \in SourcesType, NEW kind \in Prompt!Kinds, NEW id, NEW kinds, NEW prompt,
         Explained(prompt, of, id, kinds)
  PROVE  Explained(Prompt!Turn(prompt, kind, id, of), of, id, kinds \cup {kind})
<1> DEFINE content == of[kind][id].content
           new == Prompt!Turn(prompt, kind, id, of)
<1>1. CASE ~Prompt!Defines(of, kind, id)
  BY <1>1 DEF Explained, Prompt!Turn
<1>2. CASE Prompt!Defines(of, kind, id) /\ of[kind][id].mode = "replace"
  <2>1. new.content = content /\ new.parts = <<kind>>
    BY <1>2 DEF Prompt!Turn, Prompt!Contribute
  <2>2. content \in Seq(Texts)
    BY <1>2, DefinitionType
  <2> HIDE DEF new, content
  <2>3. ContentsOf(<<kind>>, of, id) = <<content>>
    BY DEF ContentsOf, content
  <2>4. FlattenSeq(<<content>>) = content
    <3>1. <<>> \in Seq(Seq(Texts)) /\ Append(<<>>, content) = <<content>> /\ <<>> \o content = content
      BY <2>2, ConcatEmptySeq
    <3>2. FlattenSeq(<<>>) = <<>>
      BY DEF FlattenSeq
    <3>3. FlattenSeq(Append(<<>>, content)) = FlattenSeq(<<>>) \o content
      BY <2>2, <3>1, FlattenAppend
    <3> QED
      BY <3>1, <3>2, <3>3
  <2>5. new.parts \in Seq(Prompt!Kinds) /\ DOMAIN new.parts = {1} /\ new.parts[1] = kind
    BY <2>1
  <2> QED
    BY <1>2, <2>1, <2>3, <2>4, <2>5 DEF Explained, new
<1>3. CASE Prompt!Defines(of, kind, id) /\ of[kind][id].mode # "replace"
  <2> DEFINE parts == prompt.parts
             n == Len(parts)
  <2>1. new.content = prompt.content \o content /\ new.parts = Append(parts, kind)
    BY <1>3 DEF Prompt!Turn, Prompt!Contribute, Prompt!Extended
  <2>2. content \in Seq(Texts) /\ \A i \in DOMAIN parts : of[parts[i]][id].content \in Seq(Texts)
    BY <1>3, DefinitionType, ElementOfSeq DEF Explained
  <2>3. parts \in Seq(Prompt!Kinds) /\ n \in Nat /\ DOMAIN parts = 1..n
    BY DEF Explained
  <2> HIDE DEF new, parts, n
  <2>4. /\ new.parts \in Seq(Prompt!Kinds) /\ DOMAIN new.parts = 1..(n + 1) /\ new.parts[n + 1] = kind
        /\ \A i \in 1..n : new.parts[i] = parts[i]
    BY <2>1, <2>3 DEF n
  <2>5. ContentsOf(new.parts, of, id) = Append(ContentsOf(parts, of, id), content)
    BY <2>3, <2>4 DEF ContentsOf, content
  <2>6. ContentsOf(parts, of, id) \in Seq(Seq(Texts))
    BY <2>2, <2>3 DEF ContentsOf
  <2>7. FlattenSeq(ContentsOf(new.parts, of, id)) = FlattenSeq(ContentsOf(parts, of, id)) \o content
    BY <2>2, <2>5, <2>6, FlattenAppend
  <2>8. new.content = FlattenSeq(ContentsOf(new.parts, of, id))
    BY <2>1, <2>7 DEF Explained, parts
  <2>9. \A i \in 1..n : Prompt!Defines(of, parts[i], id) /\ (of[parts[i]][id].mode = "replace" => i = 1)
    BY <2>3 DEF Explained, parts
  <2>10. \A k \in kinds : Prompt!Defines(of, k, id) =>
            (\E i \in 1..n : parts[i] = k) \/ (n # 0 /\ of[parts[1]][id].mode = "replace")
    BY <2>3 DEF Explained, parts
  <2>11. \A i \in 1..(n + 1) : i \in 1..n \/ i = n + 1
    BY <2>3
  <2>12. \A k \in kinds \cup {kind} : Prompt!Defines(of, k, id) =>
           \/ \E i \in DOMAIN new.parts : new.parts[i] = k
           \/ new.parts # <<>> /\ of[new.parts[1]][id].mode = "replace"
    <3> SUFFICES ASSUME NEW k \in kinds \cup {kind}, Prompt!Defines(of, k, id)
                 PROVE  \/ \E i \in DOMAIN new.parts : new.parts[i] = k
                        \/ new.parts # <<>> /\ of[new.parts[1]][id].mode = "replace"
      OBVIOUS
    <3>1. CASE k = kind
      BY <2>3, <2>4, <3>1
    <3>2. CASE \E i \in 1..n : parts[i] = k
      BY <2>3, <2>4, <3>2
    <3>3. CASE of[parts[1]][id].mode = "replace" /\ n # 0
      BY <2>3, <2>4, <3>3
    <3> QED
      BY <2>10, <3>1, <3>2, <3>3
  <2> QED
    BY <1>3, <2>4, <2>8, <2>9, <2>11, <2>12 DEF Explained, new
<1> QED
  BY <1>1, <1>2, <1>3

LEMMA SourcesStay ==
  ASSUME sources \in SourcesType, [Prompt!Next]_promptsVars
  PROVE  sources' \in SourcesType
<1>1. \A of : of \in Prompt!Prompts <=> DOMAIN of \subseteq Ids /\ of \in [DOMAIN of -> Prompt!Definitions]
  BY DEF Prompt!Prompts
<1>2. ASSUME NEW kind \in Prompt!Kinds, NEW of \in Prompt!Prompts, Prompt!ReplaceSource(kind, of)
      PROVE  sources' \in SourcesType
  BY <1>2 DEF Prompt!ReplaceSource, SourcesType
<1>3. Prompt!Runtime \in Prompt!Prompts
  <2>1. sources["runtime"] \in Prompt!Prompts \cup {None}
    BY DEF SourcesType, Prompt!Kinds
  <2>2. <<>> \in Prompt!Prompts
    <3>1. <<>> \in [{} -> Prompt!Definitions]
      OBVIOUS
    <3> QED
      BY <3>1 DEF Prompt!Prompts
  <2> QED
    BY <2>1, <2>2 DEF Prompt!Runtime
<1>4. "runtime" \in Prompt!Kinds /\ "builtin" \in Prompt!Kinds /\ "directory" \in Prompt!Kinds
  BY DEF Prompt!Kinds
<1>5. ASSUME NEW id \in Ids, NEW definition \in Prompt!Definitions
      PROVE  Prompt!With(Prompt!Runtime, id, definition) \in Prompt!Prompts
  BY <1>1, <1>3 DEF Prompt!With
<1>6. ASSUME NEW id \in Ids
      PROVE  Prompt!Deleted(Prompt!Runtime, id) \in Prompt!Prompts
  BY <1>1, <1>3 DEF Prompt!Deleted, Prompt!Without
<1>7. CASE UNCHANGED promptsVars
  BY <1>7 DEF promptsVars
<1> QED
  BY <1>2, <1>3, <1>4, <1>5, <1>6, <1>7 DEF Prompt!Next, Prompt!SetRuntimePrompt, Prompt!DeleteRuntime

(* The prompts are those of the sources.                                   *)
PromptInv == sources \in SourcesType /\ promptsPrompts = Prompt!BuildState(sources)

LEMMA PromptStarts == Prompt!Init => PromptInv
  BY DEF Prompt!Init, PromptInv, SourcesType

LEMMA PromptStep ==
  ASSUME PromptInv, [Prompt!Next]_promptsVars
  PROVE  PromptInv'
<1>1. promptsPrompts' = Prompt!BuildState(sources')
  <2>1. CASE UNCHANGED promptsVars
    BY <2>1 DEF PromptInv, promptsVars
  <2>2. CASE Prompt!Next
    BY <2>2 DEF Prompt!Next, Prompt!SetRuntimePrompt, Prompt!DeleteRuntime, Prompt!ReplaceSource
  <2> QED
    BY <2>1, <2>2
<1>2. Prompt!BuildState(sources') = Prompt!BuildState(sources)'
  BY DEF Prompt!BuildState
<1> QED
  BY <1>1, SourcesStay DEF PromptInv

LEMMA PromptHolds ==
  ASSUME PromptInv
  PROVE  Prompt!PartsExplainContent
<1> SUFFICES ASSUME NEW id \in DOMAIN promptsPrompts
             PROVE  LET parts == promptsPrompts[id].parts
                        At(i) == sources[parts[i]][id]
                    IN  /\ promptsPrompts[id].content = FlattenSeq([i \in DOMAIN parts |-> At(i).content])
                        /\ \A i \in DOMAIN parts : At(i).mode = "replace" => i = 1
                        /\ \A kind \in Prompt!Kinds : Prompt!Defines(sources, kind, id) =>
                             \/ kind \in Prompt!ToSet(parts)
                             \/ At(1).mode = "replace"
  BY DEF Prompt!PartsExplainContent, Prompt!FlattenSeq, FlattenSeq
<1> DEFINE empty == [content |-> <<>>, parts |-> <<>>]
           first == Prompt!Turn(empty, "builtin", id, sources)
           second == Prompt!Turn(first, "directory", id, sources)
           third == Prompt!Turn(second, "runtime", id, sources)
<1>1. promptsPrompts[id] = third
  BY DEF PromptInv, Prompt!BuildState, Prompt!ResolvePrompt
<1>2. Explained(empty, sources, id, {})
  <2>1. FlattenSeq(<<>>) = <<>> /\ ContentsOf(<<>>, sources, id) = <<>>
    BY DEF FlattenSeq, ContentsOf
  <2> QED
    BY <2>1 DEF Explained
<1> HIDE DEF empty
<1>3. Explained(first, sources, id, {"builtin"})
  BY <1>2, TurnExplains, {} \cup {"builtin"} = {"builtin"} DEF PromptInv, Prompt!Kinds
<1> HIDE DEF first
<1>4. Explained(second, sources, id, {"builtin"} \cup {"directory"})
  BY <1>3, TurnExplains DEF PromptInv, Prompt!Kinds
<1> HIDE DEF second
<1>5. Explained(third, sources, id, ({"builtin"} \cup {"directory"}) \cup {"runtime"})
  BY <1>4, TurnExplains DEF PromptInv, Prompt!Kinds
<1>6. ({"builtin"} \cup {"directory"}) \cup {"runtime"} = Prompt!Kinds
  BY DEF Prompt!Kinds
<1> HIDE DEF third
<1> QED
  BY <1>1, <1>5, <1>6 DEF Explained, ContentsOf, Prompt!ToSet

-----------------------------------------------------------------------------
(* The recording of a model and its replay.                                *)
CONSTANTS Requests, Chunks   \* see Recording

VARIABLES recordPhase, recordCalls, frames, operations, recordActive, broken,
  recording, recordNext, recordAgain, recordAt

Record == INSTANCE Recording WITH
  phase <- recordPhase, calls <- recordCalls, active <- recordActive,
  next <- recordNext, again <- recordAgain, at <- recordAt,
  MaxCalls <- Bound.record.calls, MaxChunks <- Bound.record.chunks,
  MaxBroken <- Bound.record.broken

recordVars == <<recordPhase, recordCalls, frames, operations, recordActive,
  broken, recording, recordNext, recordAgain, recordAt>>

CallType == [
  operation : {"stream", "countTokens"}, request : Requests, seen : Seq(Chunks),
  state : {"waiting", "holding", "ended"}, aborted : {"never", "waiting", "holding"},
  end : {"none", "completed", "error", "aborted", "stopped", "mismatch"}]

FrameType == [kind : {"chunk", "completed", "error", "cancelled"}, chunk : Chunks \cup {"none"}]

(* The frames of a call are what its consumer saw, and how it ended.       *)
Told(call, its) ==
  /\ Len(its) = Len(call.seen) + (IF call.state = "ended" THEN 1 ELSE 0)
  /\ \A k \in 1..Len(call.seen) : its[k].kind = "chunk" /\ its[k].chunk = call.seen[k]
  /\ call.state = "ended" =>
       \/ call.end \in {"completed", "error"} /\ its[Len(its)].kind = call.end
       \/ call.end \in {"aborted", "stopped"} /\ its[Len(its)].kind = "cancelled"
  /\ call.operation = "countTokens" => call.seen = <<>>

(* When a call is aborted, and what it leads to.                           *)
Consistent(call) ==
  /\ call.state = "holding" \/ call.aborted = "holding" \/ call.end = "stopped" => call.seen # <<>>
  /\ call.state # "ended" => call.end = "none" /\ call.aborted \in {"never", call.state}
  /\ call.end \in {"completed", "error"} => call.aborted = "never"
  /\ call.end = "aborted" => call.aborted # "never"
  /\ call.end = "stopped" => call.aborted # "waiting"

OperationOf(s) ==
  [seq |-> s, operation |-> recordCalls[s].operation, request |-> recordCalls[s].request, frames |-> frames[s]]

Numbers == 1..Len(recordCalls)

Running == {s \in Numbers : recordCalls[s].state # "ended"}

RecordTypes ==
  /\ recordPhase \in {"recording", "replaying"}
  /\ recordCalls \in Seq(CallType) /\ frames \in Seq(Seq(FrameType)) /\ Len(frames) = Len(recordCalls)
  /\ recordActive \in Nat /\ broken \in Nat /\ DOMAIN operations = 1..Len(operations) /\ Len(operations) \in Nat

(* Every call that ended has one operation, and the numbers add up.        *)
Pushed ==
  /\ \A k \in 1..Len(operations) :
       \E s \in Numbers : recordCalls[s].state = "ended" /\ operations[k] = OperationOf(s)
  /\ \A s \in Numbers : recordCalls[s].state = "ended" => \E k \in 1..Len(operations) : operations[k].seq = s
  /\ \A j, k \in 1..Len(operations) : operations[j].seq = operations[k].seq => j = k

Counts ==
  /\ Len(operations) + recordActive = Len(recordCalls) + broken
  /\ recordActive = broken + Cardinality(Running)

CallsInv == RecordTypes /\ (\A s \in Numbers : Told(recordCalls[s], frames[s]) /\ Consistent(recordCalls[s])) /\ Pushed /\ Counts

-----------------------------------------------------------------------------
(* Numbers from 1 to n in a row, in order, are the numbers from 1 to n.    *)
LEMMA Increasing ==
  ASSUME NEW n \in Nat, NEW f \in [1..n -> 1..n], \A i, j \in 1..n : i < j => f[i] < f[j]
  PROVE  \A i \in 1..n : f[i] = i
<1> DEFINE P == {m \in Nat : m \in 1..n => f[m] >= m}
           Q == {m \in Nat : m < n => f[n - m] <= n - m}
<1>1. 0 \in P
  OBVIOUS
<1>2. ASSUME NEW m \in P PROVE m + 1 \in P
  <2>1. CASE m \in 1..n /\ m + 1 \in 1..n
    <3>1. f[m] < f[m + 1] /\ f[m] >= m /\ f[m] \in Nat /\ f[m + 1] \in Nat /\ m \in Nat
      BY <2>1, <1>2
    <3> QED
      BY <3>1
  <2>2. CASE m + 1 \notin 1..n
    BY <1>2, <2>2
  <2>3. CASE m = 0
    BY <2>3
  <2> QED
    BY <1>2, <2>1, <2>2, <2>3
<1>3. 0 \in Q
  OBVIOUS
<1>4. ASSUME NEW m \in Q PROVE m + 1 \in Q
  <2> SUFFICES ASSUME m + 1 < n PROVE f[n - (m + 1)] <= n - (m + 1)
    BY <1>4
  <2>1. n - m \in 1..n /\ n - (m + 1) \in 1..n /\ n - (m + 1) < n - m /\ m \in Nat /\ m < n
    BY <1>4
  <2>2. f[n - (m + 1)] < f[n - m] /\ f[n - m] <= n - m
    BY <2>1, <1>4
  <2> QED
    BY <2>1, <2>2
<1>5. P = Nat /\ Q = Nat
  <2>1. P \in SUBSET Nat /\ Q \in SUBSET Nat
    OBVIOUS
  <2> HIDE DEF P, Q
  <2> QED
    BY <1>1, <1>2, <1>3, <1>4, <2>1, SetInduction
<1> QED
  <2> TAKE i \in 1..n
  <2>1. i \in Nat /\ n - i \in Nat /\ n - (n - i) = i /\ n - i < n
    OBVIOUS
  <2>2. i \in P /\ n - i \in Q
    <3> HIDE DEF P, Q
    <3> QED
      BY <1>5, <2>1
  <2> QED
    BY <2>1, <2>2

(* The operations carry the numbers from 1 to n; each once, in some order. *)
Numbered(n, its) ==
  /\ DOMAIN its = 1..n /\ \A k \in 1..n : its[k].seq \in 1..n
  /\ \A s \in 1..n : \E k \in 1..n : its[k].seq = s

ByNumber(n, its, sorted) ==
  /\ DOMAIN sorted = 1..n /\ Len(sorted) = n
  /\ \A s \in 1..n : sorted[s].seq = s /\ \E k \in 1..n : sorted[s] = its[k]

(* Sorted, the operations of all calls are numbered as the calls are.      *)
LEMMA Sorted ==
  ASSUME NEW n \in Nat, NEW its, Numbered(n, its)
  PROVE  ByNumber(n, its, Record!BySeq(its))
<1> USE DEF Numbered
<1> DEFINE Sorts(place) == \A i, j \in 1..n : i < j => its[place[i]].seq < its[place[j]].seq
           found == [s \in 1..n |-> CHOOSE k \in 1..n : its[k].seq = s]
<1>1. found \in [1..n -> 1..n] /\ \A s \in 1..n : its[found[s]].seq = s
  OBVIOUS
<1>2. Sorts(found)
  BY <1>1
<1>3. Record!Order(its) = CHOOSE place \in [1..n -> 1..n] : Sorts(place)
  BY DEF Record!Order
<1> HIDE DEF Sorts
<1>4. Record!Order(its) \in [1..n -> 1..n] /\ Sorts(Record!Order(its))
  BY <1>1, <1>2, <1>3
<1> DEFINE f == [i \in 1..n |-> its[Record!Order(its)[i]].seq]
<1>5. f \in [1..n -> 1..n] /\ \A i, j \in 1..n : i < j => f[i] < f[j]
  BY <1>4 DEF Sorts
<1>6. \A i \in 1..n : f[i] = i
  <2> HIDE DEF f
  <2> QED
    BY <1>5, Increasing
<1>7. Len(Record!BySeq(its)) = n
  BY DEF Record!BySeq
<1> QED
  BY <1>4, <1>6, <1>7 DEF Record!BySeq, ByNumber

-----------------------------------------------------------------------------
(* The calls that are recorded.                                            *)

(* One call, and its frames, are changed; no operation is pushed.          *)
LEMMA CallChanges ==
  ASSUME CallsInv, NEW s \in Numbers, NEW call \in CallType, NEW its \in Seq(FrameType),
         recordCalls' = [recordCalls EXCEPT ![s] = call], frames' = [frames EXCEPT ![s] = its],
         recordCalls[s].state # "ended", call.state # "ended",
         Told(call, its), Consistent(call),
         UNCHANGED <<recordPhase, operations, recordActive, broken>>
  PROVE  CallsInv'
<1>1. /\ recordCalls' \in Seq(CallType) /\ Len(recordCalls') = Len(recordCalls)
      /\ frames' \in Seq(Seq(FrameType)) /\ Len(frames') = Len(frames)
      /\ recordCalls'[s] = call /\ frames'[s] = its
      /\ \A i \in Numbers : i # s => recordCalls'[i] = recordCalls[i] /\ frames'[i] = frames[i]
  BY DEF CallsInv, RecordTypes, Numbers
<1>2. Numbers' = Numbers /\ Running' = Running
  BY <1>1 DEF Numbers, Running
<1>3. RecordTypes'
  BY <1>1 DEF CallsInv, RecordTypes
<1>4. \A i \in Numbers' : Told(recordCalls'[i], frames'[i]) /\ Consistent(recordCalls'[i])
  BY <1>1, <1>2 DEF CallsInv
<1>5. \A i \in Numbers : i # s => OperationOf(i)' = OperationOf(i)
  BY <1>1 DEF OperationOf
<1>6. Pushed'
  <2>1. ASSUME NEW k \in 1..Len(operations)
        PROVE  \E i \in Numbers : recordCalls'[i].state = "ended" /\ operations[k] = OperationOf(i)'
    <3>1. PICK i \in Numbers : recordCalls[i].state = "ended" /\ operations[k] = OperationOf(i)
      BY DEF CallsInv, Pushed
    <3>2. i # s
      BY <3>1
    <3> QED
      BY <1>1, <1>5, <3>1, <3>2
  <2>2. \A i \in Numbers : recordCalls'[i].state = "ended" => \E k \in 1..Len(operations) : operations[k].seq = i
    BY <1>1 DEF CallsInv, Pushed
  <2>3. \A j, k \in 1..Len(operations) : operations[j].seq = operations[k].seq => j = k
    BY DEF CallsInv, Pushed
  <2> QED
    BY <1>2, <2>1, <2>2, <2>3 DEF Pushed
<1>7. Counts'
  BY <1>1, <1>2 DEF CallsInv, Counts
<1> QED
  BY <1>3, <1>4, <1>6, <1>7 DEF CallsInv

(* A call ends, and its operation is pushed.                               *)
LEMMA CallEnds ==
  ASSUME CallsInv, NEW s \in Numbers, NEW end, NEW kind, Record!Ends(s, end, kind), recordPhase' = recordPhase,
         recordCalls[s].state # "ended",
         \/ end \in {"completed", "error"} /\ kind = end /\ recordCalls[s].aborted = "never"
         \/ end = "aborted" /\ kind = "cancelled" /\ recordCalls[s].aborted # "never"
         \/ end = "stopped" /\ kind = "cancelled" /\ recordCalls[s].state = "holding"
  PROVE  CallsInv'
<1> DEFINE its == Append(frames[s], Record!Terminal(kind))
           call == [recordCalls[s] EXCEPT !.state = "ended", !.end = end]
           operation == [seq |-> s, operation |-> recordCalls[s].operation, request |-> recordCalls[s].request, frames |-> its]
<1>0. /\ recordCalls[s] \in CallType /\ frames[s] \in Seq(FrameType) /\ Record!Terminal(kind) \in FrameType
      /\ Told(recordCalls[s], frames[s]) /\ Consistent(recordCalls[s])
      /\ recordCalls \in Seq(CallType) /\ frames \in Seq(Seq(FrameType)) /\ Len(frames) = Len(recordCalls)
  BY DEF CallsInv, RecordTypes, Numbers, Record!Terminal, FrameType
<1>1. /\ call \in CallType /\ its \in Seq(FrameType) /\ call.state = "ended" /\ call.end = end
      /\ call.seen = recordCalls[s].seen /\ call.aborted = recordCalls[s].aborted
      /\ call.operation = recordCalls[s].operation /\ call.request = recordCalls[s].request
  <2>1. end \in {"completed", "error", "aborted", "stopped"}
    OBVIOUS
  <2>2. its \in Seq(FrameType)
    BY <1>0
  <2>3. call \in CallType
    BY <1>0, <2>1 DEF CallType
  <2>4. /\ call.state = "ended" /\ call.end = end
        /\ call.seen = recordCalls[s].seen /\ call.aborted = recordCalls[s].aborted
        /\ call.operation = recordCalls[s].operation /\ call.request = recordCalls[s].request
    BY <1>0 DEF CallType
  <2> QED
    BY <2>2, <2>3, <2>4
<1>2. Told(call, its) /\ Consistent(call)
  <2>1. /\ Len(frames[s]) = Len(call.seen) /\ Len(its) = Len(call.seen) + 1 /\ its[Len(its)].kind = kind
        /\ \A k \in 1..Len(call.seen) : its[k] = frames[s][k]
    BY <1>0, <1>1 DEF Told, CallType, Record!Terminal
  <2>2. Told(call, its)
    <3> HIDE DEF its, call
    <3> QED
      BY <1>0, <1>1, <2>1 DEF Told
  <2>3. Consistent(call)
    <3> HIDE DEF its, call
    <3> QED
      BY <1>0, <1>1 DEF Consistent
  <2> QED
    BY <2>2, <2>3
<1>3. /\ recordCalls' = [recordCalls EXCEPT ![s] = call] /\ frames' = [frames EXCEPT ![s] = its]
      /\ operations' = Append(operations, operation) /\ recordActive' = recordActive - 1 /\ broken' = broken
  BY DEF Record!Ends
<1> HIDE DEF its, call
<1>4. /\ recordCalls' \in Seq(CallType) /\ Len(recordCalls') = Len(recordCalls)
      /\ frames' \in Seq(Seq(FrameType)) /\ Len(frames') = Len(frames)
      /\ recordCalls'[s] = call /\ frames'[s] = its
      /\ \A i \in Numbers : i # s => recordCalls'[i] = recordCalls[i] /\ frames'[i] = frames[i]
  BY <1>0, <1>1, <1>3 DEF Numbers
<1>5. Numbers' = Numbers /\ s \in Running /\ Running' = Running \ {s} /\ IsFiniteSet(Running) /\ Cardinality(Running) \in Nat
  <2>1. Running \subseteq 1..Len(recordCalls) /\ Len(recordCalls) \in Nat
    BY <1>0 DEF Running, Numbers
  <2>2. IsFiniteSet(Running) /\ Cardinality(Running) \in Nat
    <3>1. IsFiniteSet(1..Len(recordCalls))
      BY <2>1, FS_Interval
    <3>2. IsFiniteSet(Running)
      BY <2>1, <3>1, FS_Subset
    <3> QED
      BY <3>2, FS_CardinalityType
  <2> QED
    BY <1>1, <1>4, <2>2 DEF Numbers, Running
<1>6. Cardinality(Running') = Cardinality(Running) - 1
  BY <1>5, FS_RemoveElement
<1> DEFINE n == Len(operations)
<1>7. /\ n \in Nat /\ Len(operations') = n + 1 /\ DOMAIN operations' = 1..(n + 1) /\ operations'[n + 1] = operation
      /\ \A k \in 1..n : operations'[k] = operations[k]
  BY <1>3 DEF CallsInv, RecordTypes
<1>8. operation = OperationOf(s)' /\ \A i \in Numbers : i # s => OperationOf(i)' = OperationOf(i)
  BY <1>1, <1>4 DEF OperationOf
<1>9. RecordTypes'
  <2>1. recordActive > 0
    BY <1>5, <1>6, FS_CardinalityType, FS_RemoveElement DEF CallsInv, Counts, RecordTypes
  <2> QED
    BY <1>3, <1>4, <1>7, <2>1 DEF CallsInv, RecordTypes
<1>10. \A i \in Numbers' : Told(recordCalls'[i], frames'[i]) /\ Consistent(recordCalls'[i])
  BY <1>2, <1>4, <1>5 DEF CallsInv
<1>11. \A i \in Numbers : recordCalls'[i].state = "ended" <=> recordCalls[i].state = "ended" \/ i = s
  BY <1>1, <1>4
<1>12. operation.seq = s /\ \A k \in 1..n : operations[k].seq \in Numbers /\ operations[k].seq # s
  <2>1. ASSUME NEW k \in 1..n PROVE operations[k].seq \in Numbers /\ operations[k].seq # s
    <3>1. PICK i \in Numbers : recordCalls[i].state = "ended" /\ operations[k] = OperationOf(i)
      BY DEF CallsInv, Pushed
    <3>2. operations[k].seq = i
      BY <3>1 DEF OperationOf
    <3> QED
      BY <3>1, <3>2
  <2> QED
    BY <2>1
<1> HIDE DEF operation, n
<1>13. Pushed'
  <2>1. \A k \in 1..(n + 1) : k \in 1..n \/ k = n + 1
    BY <1>7
  <2>2. \A k \in 1..n : k \in 1..(n + 1)
    BY <1>7
  <2>3. \A k \in 1..n : \E i \in Numbers : recordCalls[i].state = "ended" /\ operations[k] = OperationOf(i)
    BY DEF CallsInv, Pushed, n
  <2>4. n + 1 \in 1..(n + 1)
    BY <1>7
  <2>5. \A k \in 1..Len(operations') : \E i \in Numbers' : recordCalls'[i].state = "ended" /\ operations'[k] = OperationOf(i)'
    <3> TAKE k \in 1..Len(operations')
    <3>1. CASE k = n + 1
      BY <1>5, <1>7, <1>8, <1>11, <3>1
    <3>2. CASE k \in 1..n
      <4>1. PICK i \in Numbers : recordCalls[i].state = "ended" /\ operations[k] = OperationOf(i)
        BY <2>3, <3>2
      <4> QED
        BY <1>5, <1>7, <1>8, <1>11, <3>2, <4>1
    <3> QED
      BY <1>7, <2>1, <3>1, <3>2
  <2>6. \A i \in Numbers' : recordCalls'[i].state = "ended" => \E k \in 1..Len(operations') : operations'[k].seq = i
    <3> SUFFICES ASSUME NEW i \in Numbers, recordCalls'[i].state = "ended" PROVE \E k \in 1..(n + 1) : operations'[k].seq = i
      BY <1>5, <1>7
    <3>1. CASE i = s
      BY <1>7, <1>12, <2>4, <3>1
    <3>2. CASE i # s
      <4>1. recordCalls[i].state = "ended"
        BY <1>11, <3>2
      <4>2. PICK k \in 1..n : operations[k].seq = i
        BY <4>1 DEF CallsInv, Pushed, n
      <4> QED
        BY <1>7, <2>2, <4>2
    <3> QED
      BY <3>1, <3>2
  <2>7. \A j, k \in 1..Len(operations') : operations'[j].seq = operations'[k].seq => j = k
    <3>1. \A j, k \in 1..n : operations[j].seq = operations[k].seq => j = k
      BY DEF CallsInv, Pushed, n
    <3> QED
      BY <1>7, <1>12, <2>1, <3>1
  <2> QED
    BY <2>5, <2>6, <2>7 DEF Pushed
<1>14. Counts'
  <2>1. /\ Len(operations) + recordActive = Len(recordCalls) + broken /\ recordActive = broken + Cardinality(Running)
        /\ recordActive \in Nat /\ broken \in Nat /\ Len(recordCalls) \in Nat /\ Len(operations) \in Nat
    BY <1>0 DEF CallsInv, RecordTypes, Counts
  <2>2. Len(operations') = Len(operations) + 1 /\ Len(recordCalls') = Len(recordCalls)
        /\ Cardinality(Running') = Cardinality(Running) - 1 /\ Cardinality(Running) \in Nat
    BY <1>4, <1>5, <1>6, <1>7 DEF n
  <2>3. Len(operations') + recordActive' = Len(recordCalls') + broken'
    BY <1>3, <2>1, <2>2
  <2>4. recordActive' = broken' + Cardinality(Running')
    BY <1>3, <2>1, <2>2
  <2> QED
    BY <2>3, <2>4 DEF Counts
<1> QED
  BY <1>9, <1>10, <1>13, <1>14 DEF CallsInv

LEMMA CallsStay ==
  ASSUME CallsInv, UNCHANGED <<recordCalls, frames, operations, recordActive, broken>>, recordPhase' \in {"recording", "replaying"}
  PROVE  CallsInv'
<1>1. Numbers' = Numbers /\ Running' = Running
  BY DEF Numbers, Running
<1>2. RecordTypes'
  BY DEF CallsInv, RecordTypes
<1>3. Pushed'
  BY <1>1 DEF CallsInv, Pushed, OperationOf
<1>4. Counts'
  BY <1>1 DEF CallsInv, Counts
<1>5. (\A s \in Numbers : Told(recordCalls[s], frames[s]) /\ Consistent(recordCalls[s]))'
  BY <1>1 DEF CallsInv
<1> QED
  BY <1>2, <1>3, <1>4, <1>5 DEF CallsInv

LEMMA RunningFinite ==
  ASSUME CallsInv
  PROVE  IsFiniteSet(Running) /\ Cardinality(Running) \in Nat
<1>1. Running \subseteq 1..Len(recordCalls) /\ Len(recordCalls) \in Nat
  BY DEF Running, Numbers, CallsInv, RecordTypes
<1>2. IsFiniteSet(1..Len(recordCalls))
  BY <1>1, FS_Interval
<1>3. IsFiniteSet(Running)
  BY <1>1, <1>2, FS_Subset
<1> QED
  BY <1>3, FS_CardinalityType

LEMMA CallBegins ==
  ASSUME CallsInv, NEW operation \in {"stream", "countTokens"}, NEW request \in Requests, Record!Begin(operation, request)
  PROVE  CallsInv'
<1> DEFINE call == Record!Begun(operation, request)
           n == Len(recordCalls)
<1>0. recordCalls \in Seq(CallType) /\ frames \in Seq(Seq(FrameType)) /\ Len(frames) = n /\ n \in Nat /\ <<>> \in Seq(FrameType)
  BY DEF CallsInv, RecordTypes
<1>1. call \in CallType /\ Told(call, <<>>) /\ Consistent(call) /\ call.state = "waiting"
  BY DEF Record!Begun, CallType, Told, Consistent
<1>2. recordCalls' = Append(recordCalls, call) /\ frames' = Append(frames, <<>>) /\ recordActive' = recordActive + 1
      /\ UNCHANGED <<operations, broken, recordPhase>>
  BY DEF Record!Begin, Record!Recording
<1> HIDE DEF call
<1>3. /\ recordCalls' \in Seq(CallType) /\ Len(recordCalls') = n + 1 /\ frames' \in Seq(Seq(FrameType)) /\ Len(frames') = n + 1
      /\ recordCalls'[n + 1] = call /\ frames'[n + 1] = <<>>
      /\ \A i \in Numbers : recordCalls'[i] = recordCalls[i] /\ frames'[i] = frames[i]
  BY <1>0, <1>1, <1>2 DEF Numbers
<1>4. /\ n + 1 \notin Numbers /\ Numbers' = Numbers \cup {n + 1}
      /\ n + 1 \notin Running /\ Running' = Running \cup {n + 1}
  <2>1. Numbers = 1..n /\ Numbers' = 1..(n + 1)
    BY <1>3 DEF Numbers
  <2>2. n + 1 \notin Numbers /\ Numbers' = Numbers \cup {n + 1}
    BY <1>0, <2>1
  <2>3. Running' = {i \in Numbers' : recordCalls'[i].state # "ended"}
    BY DEF Running
  <2> QED
    BY <1>1, <1>3, <2>2, <2>3 DEF Running
<1>5. Cardinality(Running') = Cardinality(Running) + 1
  BY <1>4, RunningFinite, FS_AddElement
<1> HIDE DEF n
<1>6. \A i \in Numbers : OperationOf(i)' = OperationOf(i)
  BY <1>3 DEF OperationOf
<1>7. RecordTypes'
  BY <1>2, <1>3 DEF CallsInv, RecordTypes
<1>8. \A i \in Numbers' : Told(recordCalls'[i], frames'[i]) /\ Consistent(recordCalls'[i])
  BY <1>1, <1>3, <1>4 DEF CallsInv
<1>9. Pushed'
  <2>1. ASSUME NEW k \in 1..Len(operations)
        PROVE  \E i \in Numbers' : recordCalls'[i].state = "ended" /\ operations[k] = OperationOf(i)'
    <3>1. PICK i \in Numbers : recordCalls[i].state = "ended" /\ operations[k] = OperationOf(i)
      BY DEF CallsInv, Pushed
    <3> QED
      BY <1>3, <1>4, <1>6, <3>1
  <2>2. \A i \in Numbers' : recordCalls'[i].state = "ended" => \E k \in 1..Len(operations) : operations[k].seq = i
    BY <1>1, <1>3, <1>4 DEF CallsInv, Pushed
  <2>3. \A j, k \in 1..Len(operations) : operations[j].seq = operations[k].seq => j = k
    BY DEF CallsInv, Pushed
  <2> QED
    BY <1>2, <2>1, <2>2, <2>3 DEF Pushed
<1>10. Counts'
  <2>1. /\ Len(operations) + recordActive = Len(recordCalls) + broken /\ recordActive = broken + Cardinality(Running)
        /\ recordActive \in Nat /\ broken \in Nat /\ Len(recordCalls) \in Nat /\ Len(operations) \in Nat
    BY <1>0 DEF CallsInv, RecordTypes, Counts, n
  <2>2. Len(operations') = Len(operations) /\ Len(recordCalls') = Len(recordCalls) + 1
        /\ Cardinality(Running') = Cardinality(Running) + 1 /\ Cardinality(Running) \in Nat
    BY <1>2, <1>3, <1>5, RunningFinite DEF n
  <2>3. recordActive' = recordActive + 1 /\ broken' = broken
    BY <1>2
  <2>4. Len(operations') + recordActive' = Len(recordCalls') + broken'
    <3>1. \A o, r, c, b \in Nat : o + r = c + b => o + (r + 1) = (c + 1) + b
      OBVIOUS
    <3>2. Len(operations) + (recordActive + 1) = (Len(recordCalls) + 1) + broken
      BY <2>1, <3>1
    <3> QED
      BY <2>2, <2>3, <3>2
  <2>5. recordActive' = broken' + Cardinality(Running')
    BY <2>1, <2>2, <2>3
  <2> QED
    BY <2>4, <2>5 DEF Counts
<1> QED
  BY <1>7, <1>8, <1>9, <1>10 DEF CallsInv

LEMMA CallsStep ==
  ASSUME CallsInv, Record!Recording,
         \/ \E operation \in {"stream", "countTokens"}, request \in Requests : Record!Begin(operation, request)
         \/ Record!BeginThrows
         \/ \E s \in DOMAIN recordCalls : Record!Answers(s) \/ Record!ConsumerNext(s) \/ Record!ConsumerReturns(s) \/ Record!Abort(s)
  PROVE  CallsInv'
<1>1. CASE \E operation \in {"stream", "countTokens"}, request \in Requests : Record!Begin(operation, request)
  BY <1>1, CallBegins
<1>2. CASE Record!BeginThrows
  <2>1. broken' = broken + 1 /\ recordActive' = recordActive + 1 /\ UNCHANGED <<recordPhase, recordCalls, frames, operations>>
    BY <1>2 DEF Record!BeginThrows, Record!Recording
  <2>2. Running' = Running /\ Numbers' = Numbers
    BY <2>1 DEF Running, Numbers
  <2>3. Counts' /\ RecordTypes'
    <3>1. /\ Len(operations) + recordActive = Len(recordCalls) + broken /\ recordActive = broken + Cardinality(Running)
          /\ recordActive \in Nat /\ broken \in Nat /\ Len(recordCalls) \in Nat /\ Len(operations) \in Nat
      BY DEF CallsInv, RecordTypes, Counts
    <3>2. Cardinality(Running) \in Nat /\ Cardinality(Running') = Cardinality(Running)
      BY <2>2, RunningFinite
    <3>3. Len(operations') + recordActive' = Len(recordCalls') + broken' /\ recordActive' = broken' + Cardinality(Running')
      <4>1. Len(operations') = Len(operations) /\ Len(recordCalls') = Len(recordCalls)
        BY <2>1
      <4>2. recordActive' = recordActive + 1 /\ broken' = broken + 1
        BY <2>1
      <4>3. \A o, r, c, b, k \in Nat : o + r = c + b /\ r = b + k => o + (r + 1) = c + (b + 1) /\ r + 1 = (b + 1) + k
        OBVIOUS
      <4>4. /\ Len(operations) + (recordActive + 1) = Len(recordCalls) + (broken + 1)
            /\ recordActive + 1 = (broken + 1) + Cardinality(Running)
        BY <3>1, <3>2, <4>3
      <4> QED
        BY <3>2, <4>1, <4>2, <4>4
    <3>4. RecordTypes'
      BY <2>1, <3>1 DEF CallsInv, RecordTypes
    <3> QED
      BY <3>3, <3>4 DEF Counts
  <2> QED
    BY <2>1, <2>2, <2>3 DEF CallsInv, Pushed, OperationOf
<1>3. ASSUME NEW s \in DOMAIN recordCalls,
             Record!Answers(s) \/ Record!ConsumerNext(s) \/ Record!ConsumerReturns(s) \/ Record!Abort(s)
      PROVE  CallsInv'
  <2>1. s \in Numbers /\ UNCHANGED recordPhase
    BY DEF CallsInv, RecordTypes, Numbers, Record!Recording
  <2>2. /\ recordCalls[s] \in CallType /\ frames[s] \in Seq(FrameType)
        /\ Told(recordCalls[s], frames[s]) /\ Consistent(recordCalls[s])
    BY <2>1 DEF CallsInv, RecordTypes, Numbers
  <2>3. ASSUME Record!Cancelled(s), Record!Aborted(s), recordCalls[s].state # "ended" PROVE CallsInv'
    BY <2>1, <2>3, CallEnds DEF Record!Cancelled, Record!Aborted
  <2>4. ASSUME NEW call \in CallType, NEW its \in Seq(FrameType), Told(call, its), Consistent(call),
               recordCalls' = [recordCalls EXCEPT ![s] = call], frames' = [frames EXCEPT ![s] = its],
               recordCalls[s].state # "ended", call.state # "ended", UNCHANGED <<operations, recordActive, broken>>
        PROVE  CallsInv'
    BY <2>1, <2>4, CallChanges
  <2>5. ASSUME UNCHANGED frames PROVE frames' = [frames EXCEPT ![s] = frames[s]]
    BY <2>1, <2>5 DEF CallsInv, RecordTypes, Numbers
  <2>6. CASE Record!Answers(s)
    <3>1. recordCalls[s].state = "waiting"
      BY <2>6 DEF Record!Answers
    <3>2. CASE Record!Aborted(s) /\ Record!Cancelled(s)
      BY <2>3, <3>1, <3>2
    <3>3. CASE ~Record!Aborted(s) /\ Record!Ends(s, "completed", "completed")
      BY <2>1, <3>1, <3>3, CallEnds DEF Record!Aborted
    <3>4. CASE ~Record!Aborted(s) /\ Record!Ends(s, "error", "error")
      BY <2>1, <3>1, <3>4, CallEnds DEF Record!Aborted
    <3>5. ASSUME NEW chunk \in Chunks, ~Record!Aborted(s), recordCalls[s].operation = "stream",
                 frames' = [frames EXCEPT ![s] = Append(@, [kind |-> "chunk", chunk |-> chunk])],
                 recordCalls' = [recordCalls EXCEPT ![s].seen = Append(@, chunk), ![s].state = "holding"],
                 UNCHANGED <<operations, recordActive, broken>>
          PROVE  CallsInv'
      <4> DEFINE call == [recordCalls[s] EXCEPT !.seen = Append(@, chunk), !.state = "holding"]
                 frame == [kind |-> "chunk", chunk |-> chunk]
                 its == Append(frames[s], frame)
                 n == Len(recordCalls[s].seen)
      <4>1. call \in CallType /\ its \in Seq(FrameType)
        <5>1. frame \in FrameType
          BY DEF FrameType
        <5>2. its \in Seq(FrameType)
          BY <2>2, <5>1
        <5>3. recordCalls[s].seen \in Seq(Chunks)
          BY <2>2 DEF CallType
        <5>4. Append(recordCalls[s].seen, chunk) \in Seq(Chunks)
          BY <5>3
        <5>5. call \in CallType
          BY <2>2, <5>4 DEF CallType
        <5> QED
          BY <5>2, <5>5
      <4>2. /\ call.state = "holding" /\ call.operation = "stream" /\ call.end = recordCalls[s].end /\ call.end = "none"
            /\ call.aborted = "never" /\ call.seen = Append(recordCalls[s].seen, chunk)
        BY <2>2, <3>1, <3>5 DEF CallType, Record!Aborted, Consistent
      <4>3. recordCalls' = [recordCalls EXCEPT ![s] = call] /\ frames' = [frames EXCEPT ![s] = its]
        BY <2>1, <3>5 DEF CallsInv, RecordTypes, Numbers
      <4>4. /\ n \in Nat /\ Len(frames[s]) = n /\ Len(its) = n + 1 /\ its[n + 1] = frame /\ frame.kind = "chunk" /\ frame.chunk = chunk
            /\ \A k \in 1..n : its[k] = frames[s][k]
        BY <2>2, <3>1 DEF Told, CallType
      <4>5. /\ Len(call.seen) = n + 1 /\ call.seen[n + 1] = chunk /\ call.seen # <<>>
            /\ \A k \in 1..n : call.seen[k] = recordCalls[s].seen[k]
        BY <2>2, <4>2 DEF CallType
      <4> HIDE DEF call, its, frame
      <4>6. Told(call, its)
        BY <2>2, <4>2, <4>4, <4>5 DEF Told
      <4>7. Consistent(call)
        BY <4>2, <4>5 DEF Consistent
      <4> QED
        BY <2>4, <3>1, <3>5, <4>1, <4>2, <4>3, <4>6, <4>7
    <3> QED
      BY <2>6, <3>2, <3>3, <3>4, <3>5 DEF Record!Answers
  <2>7. CASE Record!ConsumerNext(s)
    <3>1. recordCalls[s].state = "holding"
      BY <2>7 DEF Record!ConsumerNext
    <3>2. CASE Record!Aborted(s)
      BY <2>3, <2>7, <3>1, <3>2 DEF Record!ConsumerNext
    <3>3. CASE ~Record!Aborted(s)
      <4> DEFINE call == [recordCalls[s] EXCEPT !.state = "waiting"]
      <4>1. /\ call \in CallType /\ call.state = "waiting" /\ call.seen = recordCalls[s].seen /\ call.end = recordCalls[s].end
            /\ call.aborted = "never" /\ call.operation = recordCalls[s].operation
        BY <2>2, <3>3 DEF CallType, Record!Aborted
      <4>2. recordCalls' = [recordCalls EXCEPT ![s] = call] /\ UNCHANGED <<frames, operations, recordActive, broken>>
        BY <2>1, <2>7, <3>3 DEF Record!ConsumerNext, CallsInv, RecordTypes, Numbers
      <4> HIDE DEF call
      <4>3. Told(call, frames[s]) /\ Consistent(call)
        BY <2>2, <3>1, <4>1 DEF Told, Consistent
      <4> QED
        BY <2>2, <2>4, <2>5, <3>1, <4>1, <4>2, <4>3
    <3> QED
      BY <3>2, <3>3
  <2>8. CASE Record!ConsumerReturns(s)
    BY <2>1, <2>8, CallEnds DEF Record!ConsumerReturns
  <2>9. CASE Record!Abort(s)
    <3> DEFINE call == [recordCalls[s] EXCEPT !.aborted = recordCalls[s].state]
    <3>1. recordCalls[s].state \in {"waiting", "holding"} /\ recordCalls[s].state # "ended"
      BY <2>2, <2>9 DEF Record!Abort, CallType
    <3>2. /\ call \in CallType /\ call.state = recordCalls[s].state /\ call.seen = recordCalls[s].seen /\ call.end = recordCalls[s].end
          /\ call.aborted = recordCalls[s].state /\ call.operation = recordCalls[s].operation
      BY <2>2, <3>1 DEF CallType
    <3>3. recordCalls' = [recordCalls EXCEPT ![s] = call] /\ UNCHANGED <<frames, operations, recordActive, broken>>
      BY <2>1, <2>9 DEF Record!Abort, CallsInv, RecordTypes, Numbers
    <3> HIDE DEF call
    <3>4. Told(call, frames[s]) /\ Consistent(call)
      BY <2>2, <3>1, <3>2 DEF Told, Consistent
    <3> QED
      BY <2>2, <2>4, <2>5, <3>1, <3>2, <3>3, <3>4
  <2> QED
    BY <1>3, <2>6, <2>7, <2>8, <2>9
<1> QED
  BY <1>1, <1>2, <1>3

-----------------------------------------------------------------------------
(* The replay.                                                             *)

(* A call made again has ended as the recorded one, or its abort was late. *)
Done(call, same) ==
  /\ same.state = "ended" /\ same.seen = call.seen
  /\ same.end = call.end \/ (call.aborted = "waiting" /\ same.aborted = "never" /\ same.end = "mismatch")

(* It has seen the first chunks of the recorded one; when it has seen all  *)
(* it is where the recorded one ended, or was aborted.                     *)
Going(call, same, at) ==
  /\ same.state \in {"waiting", "holding"} /\ at = Len(same.seen) /\ Len(same.seen) <= Len(call.seen)
  /\ \A k \in 1..Len(same.seen) : same.seen[k] = call.seen[k]
  /\ same.aborted # "never" => same.aborted = same.state /\ same.aborted = call.aborted /\ Len(same.seen) = Len(call.seen)
  /\ same.state = "waiting" /\ Len(same.seen) = Len(call.seen) => call.end # "stopped" /\ call.aborted # "holding"

Recorded ==
  /\ Len(recording) = Len(recordCalls)
  /\ \A s \in Numbers : recording[s] = OperationOf(s) /\ recordCalls[s].state = "ended"

Replays ==
  /\ recordAgain \in Seq(CallType) /\ Len(recordAgain) <= Len(recordCalls) /\ recordNext = Len(recordAgain) /\ recordAt \in Nat
  /\ \A i \in 1..Len(recordAgain) :
       \/ Done(recordCalls[i], recordAgain[i])
       \/ i = Len(recordAgain) /\ Going(recordCalls[i], recordAgain[i], recordAt)

RecordInv ==
  /\ CallsInv /\ Replays
  /\ recordPhase = "recording" => recordAgain = <<>>
  /\ recordPhase = "replaying" => Recorded

LEMMA OperationValid ==
  ASSUME NEW call \in CallType, NEW its \in Seq(FrameType), Told(call, its), call.state = "ended"
  PROVE  IF call.operation = "stream" THEN Record!FramesValid(its) ELSE Record!TokenOutcomeValid(its)
<1> DEFINE m == Len(call.seen)
<1>1. m \in Nat /\ Len(its) = m + 1 /\ DOMAIN its = 1..(m + 1)
  BY DEF Told, CallType
<1>2. its[m + 1].kind # "chunk" /\ \A k \in 1..m : its[k].kind = "chunk"
  BY <1>1 DEF Told
<1>3. \A k \in DOMAIN its : (its[k].kind = "chunk") = (k < Len(its))
  <2> TAKE k \in DOMAIN its
  <2>1. CASE k = m + 1
    <3>1. ~(its[k].kind = "chunk") /\ ~(k < Len(its))
      BY <1>1, <1>2, <2>1
    <3> QED
      BY <3>1
  <2>2. CASE k \in 1..m
    <3>1. its[k].kind = "chunk" /\ k < Len(its)
      BY <1>1, <1>2, <2>2
    <3> QED
      BY <3>1
  <2> QED
    BY <1>1, <2>1, <2>2
<1>4. its # <<>>
  BY <1>1
<1>5. call.operation # "stream" => m = 0
  BY DEF Told, CallType
<1> QED
  BY <1>1, <1>2, <1>3, <1>4, <1>5 DEF Record!FramesValid, Record!TokenOutcomeValid

LEMMA SnapshotTaken ==
  ASSUME RecordInv, Record!Snapshot
  PROVE  recordPhase' = "replaying" /\ Recorded' /\ UNCHANGED <<recordCalls, frames, operations, recordActive, broken, recordNext, recordAgain, recordAt>>
<1> DEFINE n == Len(recordCalls)
           its == Record!BySeq(operations)
<1>0. UNCHANGED <<recordCalls, frames, operations, recordActive, broken, recordNext, recordAgain, recordAt>> /\ recordActive = 0
  BY DEF Record!Snapshot, Record!record, Record!replay
<1>1. /\ n \in Nat /\ DOMAIN operations = 1..Len(operations) /\ broken \in Nat /\ Len(operations) \in Nat
      /\ Cardinality(Running) \in Nat /\ IsFiniteSet(Running)
  BY RunningFinite DEF RecordInv, CallsInv, RecordTypes
<1>2. broken = 0 /\ Cardinality(Running) = 0 /\ Len(operations) = n /\ Len(operations) = n + broken
  <2>1. recordActive = 0
    BY <1>0
  <2>2. Len(operations) + recordActive = n + broken
    BY DEF RecordInv, CallsInv, Counts
  <2>3. recordActive = broken + Cardinality(Running)
    BY DEF RecordInv, CallsInv, Counts
  <2> HIDE DEF n
  <2>4. broken = 0 /\ Cardinality(Running) = 0
    BY <1>1, <2>1, <2>3
  <2>5. Len(operations) + 0 = n + 0 /\ n \in Nat /\ Len(operations) \in Nat
    BY <1>1, <2>1, <2>2, <2>4
  <2>6. Len(operations) = n /\ n = n + 0
    BY <2>5
  <2> QED
    BY <2>4, <2>6
<1>3. \A s \in 1..n : recordCalls[s].state = "ended"
  <2>1. Running = {}
    BY <1>1, <1>2, FS_EmptySet
  <2> QED
    BY <2>1 DEF Running, Numbers
<1>4. /\ \A k \in 1..n : \E s \in 1..n : operations[k] = OperationOf(s) /\ operations[k].seq = s
      /\ \A s \in 1..n : \E k \in 1..n : operations[k].seq = s
  <2>1. ASSUME NEW k \in 1..n PROVE \E s \in 1..n : operations[k] = OperationOf(s) /\ operations[k].seq = s
    <3>1. PICK s \in Numbers : operations[k] = OperationOf(s)
      BY <1>2 DEF RecordInv, CallsInv, Pushed
    <3>2. operations[k].seq = s
      BY <3>1 DEF OperationOf
    <3> QED
      BY <3>1, <3>2 DEF Numbers
  <2>2. ASSUME NEW s \in 1..n PROVE \E k \in 1..n : operations[k].seq = s
    BY <1>2, <1>3 DEF RecordInv, CallsInv, Pushed, Numbers
  <2> QED
    BY <2>1, <2>2
<1>5. /\ DOMAIN its = 1..n /\ Len(its) = n
      /\ \A s \in 1..n : its[s].seq = s /\ \E k \in 1..n : its[s] = operations[k]
  <2>1. DOMAIN operations = 1..n /\ \A k \in 1..n : operations[k].seq \in 1..n
    BY <1>1, <1>2, <1>4
  <2>2. n \in Nat
    BY <1>1
  <2>3. \A s \in 1..n : \E k \in 1..n : operations[k].seq = s
    BY <1>4
  <2> HIDE DEF n
  <2>4. Numbered(n, operations)
    BY <2>1, <2>3 DEF Numbered
  <2>5. ByNumber(n, operations, its)
    BY <2>2, <2>4, Sorted
  <2> QED
    BY <2>5 DEF ByNumber
<1> HIDE DEF its
<1>6. \A s \in 1..n : its[s] = OperationOf(s)
  <2> TAKE s \in 1..n
  <2>1. PICK k \in 1..n : its[s] = operations[k]
    BY <1>5
  <2>2. PICK i \in 1..n : operations[k] = OperationOf(i) /\ operations[k].seq = i
    BY <1>4
  <2>3. its[s].seq = s
    BY <1>5
  <2> QED
    BY <2>1, <2>2, <2>3
<1>7. Record!AssertModelRecording(its)
  <2> SUFFICES ASSUME NEW s \in 1..n
               PROVE  its[s].seq = s /\ IF its[s].operation = "stream" THEN Record!FramesValid(its[s].frames)
                                                                      ELSE Record!TokenOutcomeValid(its[s].frames)
    BY <1>5 DEF Record!AssertModelRecording
  <2>1. recordCalls[s] \in CallType /\ frames[s] \in Seq(FrameType) /\ Told(recordCalls[s], frames[s])
    BY DEF RecordInv, CallsInv, RecordTypes, Numbers
  <2>2. IF recordCalls[s].operation = "stream" THEN Record!FramesValid(frames[s]) ELSE Record!TokenOutcomeValid(frames[s])
    BY <1>3, <2>1, OperationValid
  <2>3. its[s].operation = recordCalls[s].operation /\ its[s].frames = frames[s]
    <3>1. its[s] = OperationOf(s)
      BY <1>6
    <3> QED
      BY <3>1 DEF OperationOf
  <2> QED
    BY <1>5, <2>2, <2>3
<1>8. recordPhase' = "replaying" /\ recording' = its
  BY <1>2, <1>7 DEF Record!Snapshot, its
<1>9. \A s \in 1..n : OperationOf(s)' = OperationOf(s)
  BY <1>0 DEF OperationOf
<1>10. Recorded'
  BY <1>0, <1>3, <1>5, <1>6, <1>8, <1>9 DEF Recorded, Numbers
<1> QED
  BY <1>0, <1>8, <1>10

(* The call that is being replayed changes.                                *)
LEMMA ReplayChanges ==
  ASSUME RecordInv, recordAgain # <<>>, NEW same \in CallType, Record!Replayed(same), recordNext' = recordNext,
         recordAt' \in Nat, UNCHANGED recordCalls,
         LET call == recordCalls[Len(recordAgain)] IN Done(call, same) \/ Going(call, same, recordAt')
  PROVE  Replays'
<1> DEFINE n == Len(recordAgain)
<1>1. n \in Nat /\ n # 0 /\ recordAgain \in Seq(CallType) /\ n \in 1..n
  BY DEF RecordInv, Replays
<1>2. /\ recordAgain' \in Seq(CallType) /\ Len(recordAgain') = n /\ recordAgain'[n] = same
      /\ \A i \in 1..n : i # n => recordAgain'[i] = recordAgain[i]
  BY <1>1 DEF Record!Replayed
<1>3. \A i \in 1..n : i # n => Done(recordCalls[i], recordAgain[i])
  BY DEF RecordInv, Replays
<1>4. Done(recordCalls[n], same) \/ Going(recordCalls[n], same, recordAt')
  OBVIOUS
<1>5. n <= Len(recordCalls) /\ recordNext = n
  BY DEF RecordInv, Replays
<1>6. Len(recordCalls') = Len(recordCalls) /\ recordNext' = n /\ recordAt' \in Nat
  BY <1>5
<1>7. \A i \in 1..n : Done(recordCalls'[i], recordAgain'[i]) \/ (i = n /\ Going(recordCalls'[i], recordAgain'[i], recordAt'))
  <2> TAKE i \in 1..n
  <2>1. CASE i = n
    BY <1>2, <1>4, <2>1
  <2>2. CASE i # n
    BY <1>2, <1>3, <2>2
  <2> QED
    BY <2>1, <2>2
<1> HIDE DEF n
<1>8. Len(recordAgain') <= Len(recordCalls') /\ recordNext' = Len(recordAgain')
  BY <1>2, <1>5, <1>6
<1> QED
  BY <1>2, <1>6, <1>7, <1>8 DEF Replays

-----------------------------------------------------------------------------
(* A recorded call that is made again: the recorded one, the one that is   *)
(* made, and the recorded frames.                                          *)
Playing(call, cur, its) ==
  /\ call \in CallType /\ cur \in CallType /\ call.state = "ended" /\ Told(call, its) /\ Consistent(call)
  /\ Going(call, cur, recordAt)
  /\ Len(its) = Len(call.seen) + 1 /\ Len(call.seen) \in Nat

LEMMA CallPlays ==
  ASSUME RecordInv, Record!Replaying, ~Record!Idle
  PROVE  /\ recordAgain # <<>> /\ Record!Now = recordCalls[Len(recordAgain)]
         /\ Playing(Record!Now, Record!Current, Record!Frames)
<1> DEFINE n == Len(recordAgain)
<1>1. recordAgain # <<>> /\ Record!Current.state # "ended"
  BY DEF Record!Idle
<1>2. recordAgain \in Seq(CallType) /\ n <= Len(recordCalls) /\ recordNext = n /\ Len(recordCalls) \in Nat
  BY DEF RecordInv, Replays, CallsInv, RecordTypes
<1>3. n \in 1..n /\ n \in Numbers /\ n \in Nat
  BY <1>1, <1>2 DEF Numbers
<1>4. Record!Current = recordAgain[n] /\ Record!Now = recordCalls[n]
  BY DEF Record!Current, Record!Now, Record!Last
<1>5. Going(recordCalls[n], recordAgain[n], recordAt)
  BY <1>1, <1>3, <1>4 DEF RecordInv, Replays, Done
<1>6. recording[n] = OperationOf(n) /\ recordCalls[n].state = "ended"
  BY <1>3 DEF RecordInv, Recorded, Record!Replaying
<1>7. Record!Frames = frames[n]
  BY <1>2, <1>6 DEF Record!Frames, OperationOf
<1>8. /\ recordCalls[n] \in CallType /\ recordAgain[n] \in CallType
      /\ Told(recordCalls[n], frames[n]) /\ Consistent(recordCalls[n])
  BY <1>2, <1>3 DEF RecordInv, CallsInv, RecordTypes, Numbers
<1>9. Len(frames[n]) = Len(recordCalls[n].seen) + 1 /\ Len(recordCalls[n].seen) \in Nat
  BY <1>6, <1>8 DEF Told, CallType
<1> QED
  BY <1>1, <1>4, <1>5, <1>6, <1>7, <1>8, <1>9 DEF Playing

(* Two calls have seen the same if one saw as much and nothing else.       *)
LEMMA SawAll ==
  ASSUME NEW call, NEW cur, NEW its, Playing(call, cur, its), Len(cur.seen) = Len(call.seen)
  PROVE  cur.seen = call.seen
<1>1. call.seen \in Seq(Chunks) /\ cur.seen \in Seq(Chunks)
  BY DEF Playing, CallType
<1>2. \A k \in 1..Len(cur.seen) : cur.seen[k] = call.seen[k]
  BY DEF Playing, Going
<1> QED
  BY <1>1, <1>2

(* An abort that came in time ends the call as it ended the recorded one.  *)
LEMMA AbortEnds ==
  ASSUME NEW call, NEW cur, NEW its, Playing(call, cur, its), cur.aborted # "never",
         cur.state = "waiting" \/ call.end # "stopped"
  PROVE  [cur EXCEPT !.state = "ended", !.end = "aborted"] \in CallType
         /\ Done(call, [cur EXCEPT !.state = "ended", !.end = "aborted"])
<1>1. cur.aborted = cur.state /\ cur.aborted = call.aborted /\ Len(cur.seen) = Len(call.seen)
  BY DEF Playing, Going
<1>2. cur.seen = call.seen
  BY <1>1, SawAll
<1>3. call.end \in {"completed", "error", "aborted", "stopped"}
  BY DEF Playing, Told
<1>4. call.end = "aborted"
  BY <1>1, <1>3 DEF Playing, Consistent
<1> QED
  BY <1>2, <1>4 DEF Playing, Done, CallType

LEMMA FramePlays ==
  ASSUME RecordInv, Record!NextFrame
  PROVE  Replays'
<1> DEFINE call == Record!Now
           cur == Record!Current
           its == Record!Frames
<1>1. /\ Record!Replaying /\ ~Record!Idle /\ recordAgain # <<>> /\ recordNext' = recordNext /\ UNCHANGED recordCalls
      /\ call = recordCalls[Len(recordAgain)] /\ recordAt \in Nat /\ cur.state = "waiting"
  BY CallPlays DEF Record!NextFrame, Record!Replaying, Record!record, RecordInv, Replays
<1>2. Playing(call, cur, its)
  BY <1>1, CallPlays
<1>3. ASSUME NEW same \in CallType, Record!Replayed(same), recordAt' \in Nat, Done(call, same) \/ Going(call, same, recordAt')
      PROVE  Replays'
  BY <1>1, <1>3, ReplayChanges
<1>4. CASE cur.aborted # "never"
  <2> DEFINE same == [cur EXCEPT !.state = "ended", !.end = "aborted"]
  <2>1. Record!Replayed(same) /\ recordAt' = recordAt
    BY <1>4 DEF Record!NextFrame, Record!ReplayEnds
  <2>2. same \in CallType /\ Done(call, same)
    BY <1>1, <1>2, <1>4, AbortEnds
  <2> QED
    BY <1>1, <1>3, <2>1, <2>2
<1>5. CASE cur.aborted = "never"
  <2> DEFINE frame == its[recordAt + 1]
  <2>0. recordAt' = recordAt + 1
    BY <1>5 DEF Record!NextFrame
  <2>1. recordAt = Len(cur.seen) /\ Len(cur.seen) <= Len(call.seen) /\ Len(call.seen) \in Nat /\ cur.seen \in Seq(Chunks)
    BY <1>2 DEF Playing, Going, CallType
  <2>2. CASE Len(cur.seen) < Len(call.seen)
    <3> DEFINE seen == Append(cur.seen, frame.chunk)
               same == [cur EXCEPT !.seen = seen, !.state = "holding"]
    <3>1. recordAt + 1 \in 1..Len(call.seen)
      BY <1>1, <2>1, <2>2
    <3>2. frame.kind = "chunk" /\ frame.chunk = call.seen[recordAt + 1] /\ frame.chunk \in Chunks
      BY <1>2, <3>1 DEF Playing, Told, CallType
    <3>3. Record!Replayed(same)
      BY <1>5, <3>2 DEF Record!NextFrame
    <3>4. /\ seen \in Seq(Chunks) /\ Len(seen) = recordAt + 1 /\ seen[recordAt + 1] = call.seen[recordAt + 1]
          /\ \A k \in 1..recordAt : seen[k] = cur.seen[k]
      BY <2>1, <3>2
    <3>5. \A k \in 1..recordAt : cur.seen[k] = call.seen[k]
      BY <1>2, <2>1 DEF Playing, Going
    <3>6. same \in CallType /\ same.seen = seen /\ same.state = "holding" /\ same.aborted = "never"
      BY <1>2, <1>5, <3>4 DEF Playing, CallType
    <3>7. \A k \in 1..Len(seen) : seen[k] = call.seen[k]
      BY <1>1, <3>4, <3>5
    <3>8. Len(seen) <= Len(call.seen) /\ recordAt' = Len(seen)
      BY <2>0, <3>1, <3>4
    <3> HIDE DEF seen, same
    <3>9. Going(call, same, recordAt')
      BY <3>6, <3>7, <3>8 DEF Going
    <3> QED
      BY <1>1, <1>3, <2>0, <3>3, <3>6, <3>9
  <2>3. CASE Len(cur.seen) = Len(call.seen)
    <3> DEFINE end == IF frame.kind = "cancelled" THEN "mismatch" ELSE frame.kind
               same == [cur EXCEPT !.state = "ended", !.end = end]
    <3>1. cur.seen = call.seen
      BY <1>2, <2>3, SawAll
    <3>2. frame = its[Len(its)]
      BY <1>2, <2>1, <2>3 DEF Playing
    <3>3. \/ call.end \in {"completed", "error"} /\ frame.kind = call.end
          \/ call.end \in {"aborted", "stopped"} /\ frame.kind = "cancelled"
      BY <1>2, <3>2 DEF Playing, Told
    <3>4. Record!Replayed(same)
      BY <1>5, <3>3 DEF Record!NextFrame, Record!ReplayEnds
    <3>5. call.end # "stopped" /\ call.aborted # "holding"
      BY <1>1, <1>2, <2>3 DEF Playing, Going
    <3>6. frame.kind = "cancelled" => call.aborted = "waiting"
      BY <1>2, <3>3, <3>5 DEF Playing, Consistent, CallType
    <3>7. same \in CallType /\ same.state = "ended" /\ same.seen = call.seen /\ same.end = end /\ same.aborted = "never"
      BY <1>2, <1>5, <3>1, <3>3 DEF Playing, CallType
    <3> HIDE DEF same
    <3>8. Done(call, same)
      BY <3>3, <3>6, <3>7 DEF Done
    <3> QED
      BY <1>1, <1>3, <2>0, <3>4, <3>7, <3>8
  <2> QED
    BY <2>1, <2>2, <2>3
<1> QED
  BY <1>4, <1>5

(* The consumer aborts its signal, leaves, or asks for the next chunk.     *)
LEMMA ConsumerPlays ==
  ASSUME RecordInv, Record!SameAbort \/ Record!SameLeave \/ Record!SameNext
  PROVE  Replays'
<1> DEFINE call == Record!Now
           cur == Record!Current
           its == Record!Frames
<1>1. /\ Record!Replaying /\ ~Record!Idle /\ UNCHANGED <<recordNext, recordAt, recordCalls>>
  BY DEF Record!SameAbort, Record!SameLeave, Record!SameNext, Record!Replaying, Record!record
<1>2. recordAgain # <<>> /\ call = recordCalls[Len(recordAgain)] /\ recordAt \in Nat /\ Playing(call, cur, its)
  BY <1>1, CallPlays DEF RecordInv, Replays
<1>3. ASSUME NEW same \in CallType, Record!Replayed(same), Done(call, same) \/ Going(call, same, recordAt)
      PROVE  Replays'
  BY <1>1, <1>2, <1>3, ReplayChanges
<1>4. call \in CallType /\ cur \in CallType /\ Going(call, cur, recordAt)
  BY <1>2 DEF Playing
<1>5. CASE Record!SameAbort
  <2> DEFINE same == [cur EXCEPT !.aborted = cur.state]
  <2>1. Record!Replayed(same) /\ call.aborted = cur.state /\ Len(cur.seen) = Len(call.seen)
    BY <1>5 DEF Record!SameAbort
  <2>2. same \in CallType /\ same.state = cur.state /\ same.aborted = cur.state /\ same.seen = cur.seen
    BY <1>4 DEF Going, CallType
  <2> HIDE DEF same
  <2>3. Going(call, same, recordAt)
    BY <1>4, <2>1, <2>2 DEF Going
  <2> QED
    BY <1>3, <2>1, <2>2, <2>3
<1>6. CASE Record!SameLeave
  <2> DEFINE same == [cur EXCEPT !.state = "ended", !.end = "stopped"]
  <2>1. Len(cur.seen) = Len(call.seen) /\ call.end = "stopped" /\ Record!ReplayEnds(Record!StopsAt)
    BY <1>6 DEF Record!SameLeave
  <2>2. recordAt = Len(cur.seen) /\ Len(its) = Len(call.seen) + 1
    BY <1>2, <1>4 DEF Playing, Going
  <2>3. its[Len(its)].kind = "cancelled"
    BY <1>2, <2>1 DEF Playing, Told
  <2>4. Record!StopsAt = "stopped"
    BY <2>1, <2>2, <2>3 DEF Record!StopsAt, Record!LeftInTime
  <2>5. cur.seen = call.seen
    BY <1>2, <2>1, SawAll
  <2>6. Record!Replayed(same)
    BY <2>1, <2>4 DEF Record!ReplayEnds
  <2>7. same \in CallType /\ Done(call, same)
    BY <1>4, <2>1, <2>5 DEF Done, CallType
  <2> QED
    BY <1>3, <2>6, <2>7
<1>7. CASE Record!SameNext
  <2>0. /\ cur.state = "holding"
        /\ Len(cur.seen) = Len(call.seen) => call.end # "stopped" /\ (call.aborted = "holding" => cur.aborted = "holding")
    BY <1>7 DEF Record!SameNext
  <2>1. CASE cur.aborted # "never"
    <3> DEFINE same == [cur EXCEPT !.state = "ended", !.end = "aborted"]
    <3>1. call.end # "stopped"
      BY <1>4, <2>0, <2>1 DEF Going
    <3>2. Record!Replayed(same)
      BY <1>7, <2>1 DEF Record!SameNext, Record!ReplayEnds
    <3>3. same \in CallType /\ Done(call, same)
      BY <1>2, <2>1, <3>1, AbortEnds
    <3> QED
      BY <1>3, <3>2, <3>3
  <2>2. CASE cur.aborted = "never"
    <3> DEFINE same == [cur EXCEPT !.state = "waiting"]
    <3>1. Record!Replayed(same)
      BY <1>7, <2>2 DEF Record!SameNext
    <3>2. same \in CallType /\ same.state = "waiting" /\ same.aborted = "never" /\ same.seen = cur.seen
      BY <1>4, <2>2 DEF CallType
    <3> HIDE DEF same
    <3>3. Going(call, same, recordAt)
      BY <1>4, <2>0, <2>2, <3>2 DEF Going
    <3> QED
      BY <1>3, <3>1, <3>2, <3>3
  <2> QED
    BY <2>1, <2>2
<1> QED
  BY <1>5, <1>6, <1>7

(* The consumer makes its next call, and finds it recorded.                *)
LEMMA ClaimPlays ==
  ASSUME RecordInv, Record!Claim
  PROVE  Replays'
<1> DEFINE n == Len(recordAgain)
           call == recordCalls[n + 1]
           same == Record!Begun(call.operation, call.request)
<1>1. /\ Record!Idle /\ n < Len(recordCalls) /\ recordPhase = "replaying" /\ UNCHANGED <<recordCalls, recording>>
  BY DEF Record!Claim, Record!Replaying, Record!record
<1>2. recordAgain \in Seq(CallType) /\ recordNext = n /\ n \in Nat /\ Len(recordCalls) \in Nat
  BY DEF RecordInv, Replays, CallsInv, RecordTypes
<1>3. n + 1 \in Numbers /\ call \in CallType /\ Consistent(call)
  BY <1>1, <1>2 DEF RecordInv, CallsInv, RecordTypes, Numbers
<1>4. recording[n + 1] = OperationOf(n + 1) /\ n < Len(recording) /\ call.state = "ended"
  BY <1>1, <1>3 DEF RecordInv, Recorded
<1>5. recording[n + 1].operation = call.operation /\ recording[n + 1].request = call.request
  BY <1>4 DEF OperationOf
<1>6. recordNext' = n + 1 /\ recordAgain' = Append(recordAgain, same) /\ recordAt' = 0
  BY <1>2, <1>4, <1>5 DEF Record!Claim
<1>7. same \in CallType /\ same.state = "waiting" /\ same.seen = <<>> /\ same.aborted = "never"
  BY <1>3 DEF Record!Begun, CallType
<1>8. \A i \in 1..n : Done(recordCalls[i], recordAgain[i])
  <2> SUFFICES ASSUME NEW i \in 1..n, i = n, Going(recordCalls[i], recordAgain[i], recordAt) PROVE FALSE
    BY DEF RecordInv, Replays
  <2>1. recordAgain # <<>> /\ Record!Current = recordAgain[n]
    BY <1>2 DEF Record!Current, Record!Last
  <2>2. recordAgain[n].state = "ended"
    BY <1>1, <2>1 DEF Record!Idle
  <2> QED
    BY <2>2 DEF Going
<1>9. call.seen \in Seq(Chunks) /\ (call.seen = <<>> => call.end # "stopped" /\ call.aborted # "holding")
  BY <1>3 DEF Consistent, CallType
<1> HIDE DEF same, call
<1>10. Going(call, same, 0)
  <2>1. Len(same.seen) = 0 /\ Len(call.seen) \in Nat
    BY <1>7, <1>9
  <2>2. Len(call.seen) = 0 => call.seen = <<>>
    BY <1>9
  <2> QED
    BY <1>7, <1>9, <2>1, <2>2 DEF Going
<1>11. /\ recordAgain' \in Seq(CallType) /\ Len(recordAgain') = n + 1 /\ recordAgain'[n + 1] = same
       /\ \A i \in 1..n : recordAgain'[i] = recordAgain[i]
  BY <1>2, <1>6, <1>7
<1>12. \A i \in 1..(n + 1) :
         \/ Done(recordCalls'[i], recordAgain'[i])
         \/ i = n + 1 /\ Going(recordCalls'[i], recordAgain'[i], recordAt')
  <2> TAKE i \in 1..(n + 1)
  <2>1. CASE i = n + 1
    BY <1>1, <1>6, <1>10, <1>11, <2>1 DEF call
  <2>2. CASE i \in 1..n
    BY <1>1, <1>8, <1>11, <2>2
  <2> QED
    BY <1>2, <2>1, <2>2
<1>13. Len(recordAgain') <= Len(recordCalls') /\ recordNext' = Len(recordAgain') /\ recordAt' \in Nat
  BY <1>1, <1>2, <1>6, <1>11
<1> QED
  BY <1>11, <1>12, <1>13 DEF Replays

LEMMA RecordStarts == Record!Init => RecordInv
<1> SUFFICES ASSUME Record!Init PROVE RecordInv
  OBVIOUS
<1>1. /\ recordPhase = "recording" /\ recordCalls = <<>> /\ frames = <<>> /\ operations = <<>> /\ recordActive = 0 /\ broken = 0
      /\ recording = <<>> /\ recordNext = 0 /\ recordAgain = <<>> /\ recordAt = 0
  BY DEF Record!Init
<1>2. Numbers = {} /\ Running = {}
  BY <1>1 DEF Numbers, Running
<1>3. Cardinality(Running) = 0
  BY <1>2, FS_EmptySet
<1>4. RecordTypes /\ Pushed /\ Counts
  BY <1>1, <1>2, <1>3 DEF RecordTypes, Pushed, Counts
<1> QED
  BY <1>1, <1>2, <1>4 DEF RecordInv, CallsInv, Replays

LEMMA RecordStep == RecordInv /\ [Record!Next]_recordVars => RecordInv'
<1> SUFFICES ASSUME RecordInv, [Record!Next]_recordVars PROVE RecordInv'
  OBVIOUS
<1>1. CallsInv /\ recordPhase \in {"recording", "replaying"}
  BY DEF RecordInv, CallsInv, RecordTypes
<1>2. ASSUME UNCHANGED recordVars PROVE RecordInv'
  <2>1. CallsInv'
    BY <1>1, <1>2, CallsStay DEF recordVars
  <2>2. Replays' /\ (recordPhase' = "replaying" => Recorded')
    BY <1>2 DEF recordVars, RecordInv, Replays, Recorded, Numbers, OperationOf
  <2> QED
    BY <1>2, <2>1, <2>2 DEF recordVars, RecordInv
<1>3. ASSUME Record!Recording,
             \/ \E operation \in {"stream", "countTokens"}, request \in Requests : Record!Begin(operation, request)
             \/ Record!BeginThrows
             \/ \E s \in DOMAIN recordCalls : Record!Answers(s) \/ Record!ConsumerNext(s) \/ Record!ConsumerReturns(s) \/ Record!Abort(s)
      PROVE  RecordInv'
  <2>1. CallsInv'
    BY <1>1, <1>3, CallsStep
  <2>2. recordPhase = "recording" /\ UNCHANGED <<recordPhase, recordNext, recordAgain, recordAt>> /\ recordAgain = <<>>
    BY <1>3 DEF Record!Recording, Record!replay, RecordInv
  <2>3. Replays'
    <3>1. recordNext = 0 /\ recordAt \in Nat
      BY <2>2 DEF RecordInv, Replays
    <3>2. Len(recordCalls') \in Nat
      BY <2>1 DEF CallsInv, RecordTypes
    <3> QED
      BY <2>2, <3>1, <3>2 DEF Replays
  <2> QED
    BY <2>1, <2>2, <2>3 DEF RecordInv
<1>4. CASE Record!Snapshot
  <2>1. recordPhase' = "replaying" /\ Recorded' /\ UNCHANGED <<recordCalls, frames, operations, recordActive, broken, recordNext, recordAgain, recordAt>>
    BY <1>4, SnapshotTaken
  <2>2. CallsInv'
    BY <1>1, <2>1, CallsStay
  <2>3. Replays'
    BY <2>1 DEF RecordInv, Replays
  <2> QED
    BY <2>1, <2>2, <2>3 DEF RecordInv
<1>5. ASSUME Record!Claim \/ Record!NextFrame \/ Record!SameAbort \/ Record!SameLeave \/ Record!SameNext
      PROVE  RecordInv'
  <2>1. Replays'
    BY <1>5, ClaimPlays, FramePlays, ConsumerPlays
  <2>2. recordPhase = "replaying" /\ UNCHANGED <<recordPhase, recordCalls, frames, operations, recordActive, broken, recording>>
    BY <1>5 DEF Record!Claim, Record!NextFrame, Record!SameAbort, Record!SameLeave, Record!SameNext, Record!Replaying, Record!record
  <2>3. CallsInv'
    BY <1>1, <2>2, CallsStay
  <2>4. Recorded'
    BY <2>2 DEF RecordInv, Recorded, Numbers, OperationOf
  <2> QED
    BY <2>1, <2>2, <2>3, <2>4 DEF RecordInv
<1>6. ASSUME (Record!Over \/ Record!Stuck) /\ UNCHANGED Record!vars PROVE RecordInv'
  BY <1>2, <1>6 DEF Record!vars, Record!record, Record!replay, recordVars
<1>7. ASSUME NEW operation \in {"stream", "countTokens"}, NEW request \in Requests, Record!Begin(operation, request)
      PROVE  Record!Recording
  BY <1>7 DEF Record!Begin
<1>8. Record!BeginThrows => Record!Recording
  BY DEF Record!BeginThrows
<1>9. ASSUME NEW s \in DOMAIN recordCalls, Record!Answers(s) \/ Record!ConsumerNext(s) \/ Record!ConsumerReturns(s) \/ Record!Abort(s)
      PROVE  Record!Recording
  BY <1>9 DEF Record!Answers, Record!ConsumerNext, Record!ConsumerReturns, Record!Abort
<1> QED
  BY <1>2, <1>3, <1>4, <1>5, <1>6, <1>7, <1>8, <1>9 DEF Record!Next

LEMMA RecordHolds == RecordInv => Record!ReplayIsFaithful
<1> SUFFICES ASSUME RecordInv PROVE Record!ReplayIsFaithful
  OBVIOUS
<1>1. recordPhase # "refused" /\ recordAgain \in Seq(CallType) /\ DOMAIN recordAgain = 1..Len(recordAgain)
  BY DEF RecordInv, CallsInv, RecordTypes, Replays
<1>2. ASSUME NEW i \in 1..Len(recordAgain)
      PROVE  /\ Record!IsPrefix(recordAgain[i].seen, recordCalls[i].seen)
             /\ recordAgain[i].state = "ended" => Done(recordCalls[i], recordAgain[i])
  <2>1. Len(recordAgain) <= Len(recordCalls) /\ Len(recordCalls) \in Nat /\ Len(recordAgain) \in Nat /\ recordCalls \in Seq(CallType)
    BY DEF RecordInv, CallsInv, RecordTypes, Replays
  <2>2. i \in 1..Len(recordCalls)
    BY <2>1
  <2> DEFINE seen == recordAgain[i].seen
             all == recordCalls[i].seen
  <2>3. seen \in Seq(Chunks) /\ all \in Seq(Chunks)
    <3>1. recordAgain[i] \in CallType /\ recordCalls[i] \in CallType
      BY <1>1, <2>1, <2>2
    <3> QED
      BY <3>1 DEF CallType
  <2>4. \/ Done(recordCalls[i], recordAgain[i])
        \/ Going(recordCalls[i], recordAgain[i], recordAt)
    BY DEF RecordInv, Replays
  <2>5. Len(seen) <= Len(all) /\ \A k \in 1..Len(seen) : seen[k] = all[k]
    BY <2>3, <2>4 DEF Done, Going
  <2>6. recordAgain[i].state = "ended" => Done(recordCalls[i], recordAgain[i])
    BY <2>4 DEF Going
  <2> HIDE DEF seen, all
  <2>7. SubSeq(seen, 1, Len(seen)) = seen /\ SubSeq(all, 1, Len(seen)) = seen
    <3>1. SubSeq(all, 1, Len(seen)) \in Seq(Chunks) /\ Len(SubSeq(all, 1, Len(seen))) = Len(seen)
      BY <2>3, <2>5
    <3>2. \A k \in 1..Len(seen) : SubSeq(all, 1, Len(seen))[k] = seen[k]
      BY <2>3, <2>5
    <3>3. SubSeq(all, 1, Len(seen)) = seen
      BY <2>3, <3>1, <3>2
    <3> QED
      BY <2>3, <3>3
  <2>8. Record!IsPrefix(seen, all)
    BY <2>5, <2>7 DEF Record!IsPrefix
  <2> QED
    BY <2>6, <2>8 DEF seen, all
<1> QED
  BY <1>1, <1>2 DEF Record!ReplayIsFaithful, Done

-----------------------------------------------------------------------------
(* The output of a command.                                                *)
CONSTANTS Commands, ExitCodes   \* see ProcessRun

VARIABLES processCommand, processPc, exitCode, aborted, killed, arrived,
  processKept, counted, truncated, processOutcome

Process == INSTANCE ProcessRun WITH
  command <- processCommand, pc <- processPc, kept <- processKept,
  outcome <- processOutcome, MaxOutput <- Bound.process.output,
  MaxChunk <- Bound.process.chunk, MaxArrived <- Bound.process.arrived

processVars == <<processCommand, processPc, exitCode, aborted, killed,
  arrived, processKept, counted, truncated, processOutcome>>

ProcessBound == Bound.process.output \in Nat /\ Bound.process.chunk \in Nat

ChunkType == [to : Process!Streams, bytes : Nat]

(* What a chunk adds to the bytes of these streams.                        *)
Weight(chunk, streams) == IF chunk.to \in streams THEN chunk.bytes ELSE 0

(* f sums the first 0, 1, ..., n chunks.                                   *)
Sums(chunks, streams, n, f) ==
  f = [i \in 0..n |-> IF i = 0 THEN 0 ELSE f[i - 1] + Weight(chunks[i], streams)]

LEMMA WeightType ==
  ASSUME NEW chunk \in ChunkType, NEW streams
  PROVE  Weight(chunk, streams) \in Nat /\ (streams = Process!Streams => Weight(chunk, streams) = chunk.bytes)
  BY DEF Weight, ChunkType

LEMMA SumsUpto ==
  ASSUME NEW chunks, NEW other, NEW streams, NEW n \in Nat, NEW f, Sums(chunks, streams, n + 1, f),
         \A i \in 1..n : other[i] = chunks[i]
  PROVE  Sums(other, streams, n, [i \in 0..n |-> f[i]])
<1>1. \A i \in 0..n : f[i] = IF i = 0 THEN 0 ELSE f[i - 1] + Weight(chunks[i], streams)
  BY DEF Sums
<1>2. \A i \in 0..n : i # 0 => i - 1 \in 0..n /\ i \in 1..n
  OBVIOUS
<1> QED
  BY <1>1, <1>2 DEF Sums

LEMMA SumsExist ==
  ASSUME NEW chunks, NEW streams, NEW n \in Nat
  PROVE  /\ \E f : Sums(chunks, streams, n, f)
         /\ \A f, g : Sums(chunks, streams, n, f) /\ Sums(chunks, streams, n, g) => f = g
<1> DEFINE P == {m \in Nat : /\ \E f : Sums(chunks, streams, m, f)
                             /\ \A f, g : Sums(chunks, streams, m, f) /\ Sums(chunks, streams, m, g) => f = g}
<1>1. 0 \in P
  <2>1. \A f : Sums(chunks, streams, 0, f) <=> f = [i \in 0..0 |-> 0]
    <3>1. \A i \in 0..0 : i = 0
      OBVIOUS
    <3> QED
      BY <3>1 DEF Sums
  <2> DEFINE zero == [i \in 0..0 |-> 0]
  <2>2. \E f : f = zero
    OBVIOUS
  <2> HIDE DEF zero
  <2> QED
    BY <2>1, <2>2 DEF zero
<1>2. ASSUME NEW m \in P PROVE m + 1 \in P
  <2>1. m \in Nat /\ \A f, g : Sums(chunks, streams, m, f) /\ Sums(chunks, streams, m, g) => f = g
    OBVIOUS
  <2>2. PICK f : Sums(chunks, streams, m, f)
    OBVIOUS
  <2> DEFINE At(i) == IF i = 0 THEN 0 ELSE f[i - 1] + Weight(chunks[i], streams)
             g == [i \in 0..(m + 1) |-> At(i)]
  <2>3. \A i \in 0..m : g[i] = f[i]
    <3>1. \A i \in 0..m : f[i] = At(i) /\ i \in 0..(m + 1)
      BY <2>1, <2>2 DEF Sums
    <3> QED
      BY <3>1
  <2>4. \A i \in 0..(m + 1) : i # 0 => i - 1 \in 0..m
    BY <2>1
  <2>5. Sums(chunks, streams, m + 1, g)
    <3>1. \A i \in 0..(m + 1) : i # 0 => g[i - 1] = f[i - 1]
      BY <2>3, <2>4
    <3> HIDE DEF g
    <3> QED
      BY <3>1 DEF Sums, g
  <2>6. ASSUME NEW h, Sums(chunks, streams, m + 1, h) PROVE h = g
    <3>1. [i \in 0..m |-> h[i]] = f
      <4>1. Sums(chunks, streams, m, [i \in 0..m |-> h[i]])
        BY <2>1, <2>6, SumsUpto
      <4> QED
        BY <2>1, <2>2, <4>1
    <3>2. \A i \in 0..(m + 1) : i # 0 => h[i - 1] = f[i - 1]
      BY <3>1, <2>4
    <3>3. \A i \in 0..(m + 1) : (IF i = 0 THEN 0 ELSE h[i - 1] + Weight(chunks[i], streams)) = At(i)
      BY <3>2
    <3> QED
      BY <2>6, <3>3 DEF Sums
  <2> HIDE DEF g
  <2> QED
    BY <2>1, <2>5, <2>6
<1> HIDE DEF P
<1>3. P = Nat
  BY <1>1, <1>2, SetInduction DEF P
<1> QED
  BY <1>3 DEF P

LEMMA PrintedSums ==
  ASSUME NEW streams, Len(arrived) \in Nat
  PROVE  Sums(arrived, streams, Len(arrived), Process!Printed(streams))
<1>1. Process!Printed(streams) = CHOOSE f : Sums(arrived, streams, Len(arrived), f)
  BY DEF Process!Printed, Sums, Weight
<1>2. \E f : Sums(arrived, streams, Len(arrived), f)
  BY SumsExist
<1> QED
  BY <1>1, <1>2

(* A chunk more leaves the sums as they were, and adds its own.            *)
LEMMA PrintedGrows ==
  ASSUME NEW streams, arrived \in Seq(ChunkType), NEW chunk \in ChunkType, arrived' = Append(arrived, chunk)
  PROVE  /\ \A k \in 0..Len(arrived) : Process!Printed(streams)'[k] = Process!Printed(streams)[k]
         /\ Process!Printed(streams)'[Len(arrived) + 1] = Process!Printed(streams)[Len(arrived)] + Weight(chunk, streams)
<1>1. PICK n \in Nat : n = Len(arrived)
  OBVIOUS
<1>2. PICK f : f = Process!Printed(streams)
  OBVIOUS
<1>3. PICK g : g = Process!Printed(streams)'
  OBVIOUS
<1>4. PICK new : new = arrived'
  OBVIOUS
<1>5. /\ Len(new) = n + 1 /\ new[n + 1] = chunk /\ \A i \in 1..n : arrived[i] = new[i]
  BY <1>1, <1>4
<1>6. Sums(arrived, streams, n, f)
  BY <1>1, <1>2, PrintedSums
<1>7. Sums(new, streams, n + 1, g)
  <2>1. g = CHOOSE h : Sums(new, streams, n + 1, h)
    BY <1>3, <1>4, <1>5 DEF Process!Printed, Sums, Weight
  <2>2. \E h : Sums(new, streams, n + 1, h)
    BY SumsExist
  <2> QED
    BY <2>1, <2>2
<1>8. [i \in 0..n |-> g[i]] = f
  <2>1. Sums(arrived, streams, n, [i \in 0..n |-> g[i]])
    BY <1>5, <1>7, SumsUpto
  <2> QED
    BY <1>6, <2>1, SumsExist
<1>9. \A k \in 0..n : g[k] = f[k]
  BY <1>8
<1>10. g[n + 1] = g[n] + Weight(new[n + 1], streams)
  BY <1>7 DEF Sums
<1> QED
  BY <1>1, <1>2, <1>3, <1>5, <1>9, <1>10

(* All bytes that were printed, and the ones that were kept.               *)
All == Process!Printed(Process!Streams)[Len(arrived)]

ProcessTypes ==
  /\ arrived \in Seq(ChunkType) /\ counted \in Nat /\ truncated \in BOOLEAN
  /\ processKept \in [Process!Streams -> Nat]
  /\ \A streams \in SUBSET Process!Streams, k \in 0..Len(arrived) : Process!Printed(streams)[k] \in Nat

(* Until the output is cut what is counted is what was printed, and each   *)
(* stream has all that it brought.                                         *)
Whole ==
  /\ counted = All /\ Process!Total = All /\ All <= Bound.process.output
  /\ \A s \in Process!Streams : processKept[s] = Process!Printed({s})[Len(arrived)]

Cut == Process!Total = Bound.process.output /\ Bound.process.output < All

(* What fits stays.                                                        *)
Fitting(k) ==
  Process!Printed(Process!Streams)[k] <= Bound.process.output =>
    \A s \in Process!Streams : Process!Printed({s})[k] <= processKept[s]

ProcessInv ==
  /\ ProcessTypes
  /\ IF truncated THEN Cut ELSE Whole
  /\ \A k \in 0..Len(arrived) : Fitting(k)

LEMMA ProcessStarts == ASSUME ProcessBound, Process!Init PROVE ProcessInv
<1>1. arrived = <<>> /\ processKept = [s \in Process!Streams |-> 0] /\ counted = 0 /\ truncated = FALSE
  BY DEF Process!Init
<1>2. arrived \in Seq(ChunkType) /\ Len(arrived) = 0 /\ \A k \in 0..0 : k = 0
  BY <1>1
<1>3. \A streams : Process!Printed(streams)[0] = 0
  <2> TAKE streams
  <2>1. PICK f : f = Process!Printed(streams)
    OBVIOUS
  <2>2. Sums(arrived, streams, 0, f)
    BY <1>2, <2>1, PrintedSums
  <2>3. f[0] = 0
    BY <2>2 DEF Sums
  <2> QED
    BY <2>1, <2>3
<1>4. \A s \in Process!Streams : processKept[s] = 0
  BY <1>1
<1>5. ProcessTypes
  <2>1. processKept \in [Process!Streams -> Nat] /\ counted \in Nat /\ truncated \in BOOLEAN
    BY <1>1
  <2>2. \A k \in 0..Len(arrived) : k = 0
    BY <1>2
  <2> QED
    BY <1>2, <1>3, <2>1, <2>2 DEF ProcessTypes
<1>6. Process!Total = 0
  BY <1>4 DEF Process!Total, Process!Streams
<1>7. Whole
  BY <1>1, <1>2, <1>3, <1>4, <1>6 DEF Whole, All, ProcessBound
<1>8. \A k \in 0..Len(arrived) : Fitting(k)
  BY <1>2, <1>3, <1>4 DEF Fitting
<1> QED
  BY <1>1, <1>5, <1>7, <1>8 DEF ProcessInv

LEMMA ChunkComes ==
  ASSUME ProcessBound, ProcessInv, NEW stream \in Process!Streams, NEW bytes \in 1..Bound.process.chunk, Process!Output(stream, bytes)
  PROVE  ProcessInv'
<1>1. PICK n \in Nat : n = Len(arrived)
  BY DEF ProcessInv, ProcessTypes
<1>2. PICK chunk \in ChunkType : chunk = [to |-> stream, bytes |-> bytes]
  <2>1. bytes \in Nat
    BY DEF ProcessBound
  <2>2. [to |-> stream, bytes |-> bytes] \in ChunkType
    BY <2>1 DEF ChunkType
  <2> QED
    BY <2>2
<1>3. bytes \in Nat /\ bytes > 0 /\ chunk.to = stream /\ chunk.bytes = bytes
  BY <1>2 DEF ProcessBound
<1>4. arrived' = Append(arrived, chunk)
  BY <1>2 DEF Process!Output
<1>5. PICK left \in Int : left = Bound.process.output - counted
  BY DEF ProcessInv, ProcessTypes, ProcessBound
<1>6. \/ truncated /\ processKept' = processKept /\ counted' = counted /\ truncated' = truncated
      \/ /\ ~truncated /\ bytes > left
         /\ processKept' = [processKept EXCEPT ![stream] = processKept[stream] + left]
         /\ truncated' = TRUE /\ counted' = counted
      \/ /\ ~truncated /\ bytes <= left
         /\ processKept' = [processKept EXCEPT ![stream] = processKept[stream] + bytes]
         /\ truncated' = truncated /\ counted' = counted + bytes
  BY <1>3, <1>5 DEF Process!Output, Process!Remaining
<1>7. arrived \in Seq(ChunkType) /\ arrived' \in Seq(ChunkType) /\ Len(arrived') = n + 1
  BY <1>1, <1>4 DEF ProcessInv, ProcessTypes
<1>8. \A streams : /\ \A k \in 0..n : Process!Printed(streams)'[k] = Process!Printed(streams)[k]
                   /\ Process!Printed(streams)'[n + 1] = Process!Printed(streams)[n] + Weight(chunk, streams)
  BY <1>1, <1>4, <1>7, PrintedGrows
<1>9. \A streams \in SUBSET Process!Streams, k \in 0..n : Process!Printed(streams)[k] \in Nat
  BY <1>1 DEF ProcessInv, ProcessTypes
<1>10. \A k \in 0..(n + 1) : k \in 0..n \/ k = n + 1
  OBVIOUS
<1>11. \A streams \in SUBSET Process!Streams, k \in 0..(n + 1) : Process!Printed(streams)'[k] \in Nat
  <2> TAKE streams \in SUBSET Process!Streams, k \in 0..(n + 1)
  <2>1. CASE k \in 0..n
    BY <1>8, <1>9, <2>1
  <2>2. CASE k = n + 1
    <3>1. Process!Printed(streams)[n] \in Nat /\ Weight(chunk, streams) \in Nat
      BY <1>9, WeightType
    <3> QED
      BY <1>8, <2>2, <3>1
  <2> QED
    BY <1>10, <2>1, <2>2
<1>12. All \in Nat /\ All' = All + bytes
  <2>1. Weight(chunk, Process!Streams) = bytes
    BY <1>3, WeightType
  <2>2. Process!Streams' = Process!Streams
    BY DEF Process!Streams
  <2> QED
    BY <1>1, <1>7, <1>8, <1>9, <2>1 DEF All
<1>13. /\ processKept \in [Process!Streams -> Nat] /\ counted \in Nat /\ truncated \in BOOLEAN
       /\ Process!Streams = {"stdout", "stderr"} /\ Bound.process.output \in Nat
  BY DEF ProcessInv, ProcessTypes, Process!Streams, ProcessBound
<1>14. ~truncated => Whole
  BY DEF ProcessInv
<1>15. \A k \in 0..n : Fitting(k)
  BY <1>1 DEF ProcessInv
<1>16. (\A s \in Process!Streams : processKept[s] <= processKept'[s] /\ processKept'[s] \in Nat) =>
         \A k \in 0..n : Fitting(k)'
  <2> HAVE \A s \in Process!Streams : processKept[s] <= processKept'[s] /\ processKept'[s] \in Nat
  <2> TAKE k \in 0..n
  <2>1. \A s \in Process!Streams : Process!Printed({s})[k] \in Nat /\ processKept[s] \in Nat
    BY <1>9, <1>13
  <2>2. Process!Printed(Process!Streams)'[k] = Process!Printed(Process!Streams)[k]
    BY <1>8
  <2>3. \A s \in Process!Streams : Process!Printed({s})'[k] = Process!Printed({s})[k]
    BY <1>8
  <2>4. ASSUME Process!Printed(Process!Streams)[k] <= Bound.process.output, NEW s \in Process!Streams
        PROVE  Process!Printed({s})[k] <= processKept'[s]
    <3>1. Process!Printed({s})[k] <= processKept[s]
      BY <1>15, <2>4 DEF Fitting
    <3> QED
      BY <2>1, <3>1
  <2> QED
    BY <2>2, <2>3, <2>4 DEF Fitting, Process!Streams
<1>17. bytes > left /\ ~truncated => All' > Bound.process.output /\ left >= 0
  BY <1>3, <1>5, <1>12, <1>13, <1>14 DEF Whole
<1>18. CASE truncated /\ processKept' = processKept /\ counted' = counted /\ truncated' = truncated
  <2>1. Cut
    BY <1>18 DEF ProcessInv
  <2>2. Process!Total' = Process!Total
    BY <1>18 DEF Process!Total
  <2>3. Bound.process.output < All'
    BY <1>3, <1>12, <1>13, <2>1 DEF Cut
  <2>4. Cut'
    BY <2>1, <2>2, <2>3 DEF Cut
  <2>5. \A k \in 0..n : Fitting(k)'
    BY <1>13, <1>16, <1>18
  <2>6. Fitting(n + 1)'
    BY <1>7, <1>12, <1>13, <2>3 DEF Fitting, All
  <2>7. ProcessTypes'
    BY <1>7, <1>11, <1>13, <1>18 DEF ProcessTypes, Process!Streams, ChunkType
  <2> QED
    BY <1>7, <1>10, <1>18, <2>4, <2>5, <2>6, <2>7 DEF ProcessInv
<1>19. CASE /\ ~truncated /\ bytes > left
            /\ processKept' = [processKept EXCEPT ![stream] = processKept[stream] + left]
            /\ truncated' = TRUE /\ counted' = counted
  <2>1. left \in Nat /\ Bound.process.output < All' /\ left = Bound.process.output - All /\ Process!Total = All
    BY <1>5, <1>12, <1>13, <1>14, <1>17, <1>19 DEF Whole
  <2>2. /\ processKept' \in [Process!Streams -> Nat] /\ processKept'[stream] = processKept[stream] + left
        /\ \A s \in Process!Streams \ {stream} : processKept'[s] = processKept[s]
    BY <1>13, <1>19, <2>1
  <2>3. Process!Total' = Process!Total + left
    BY <1>13, <2>1, <2>2 DEF Process!Total
  <2>4. Cut'
    BY <1>12, <1>13, <2>1, <2>3 DEF Cut
  <2>5. \A s \in Process!Streams : processKept[s] <= processKept'[s] /\ processKept'[s] \in Nat
    BY <1>13, <2>1, <2>2
  <2>6. Fitting(n + 1)'
    BY <1>7, <1>12, <1>13, <2>1 DEF Fitting, All
  <2>7. ProcessTypes'
    BY <1>7, <1>11, <1>13, <1>19, <2>2 DEF ProcessTypes, Process!Streams, ChunkType
  <2> QED
    BY <1>7, <1>10, <1>16, <1>19, <2>4, <2>5, <2>6, <2>7 DEF ProcessInv
<1>20. CASE /\ ~truncated /\ bytes <= left
            /\ processKept' = [processKept EXCEPT ![stream] = processKept[stream] + bytes]
            /\ truncated' = truncated /\ counted' = counted + bytes
  <2>1. /\ processKept' \in [Process!Streams -> Nat] /\ processKept'[stream] = processKept[stream] + bytes
        /\ \A s \in Process!Streams \ {stream} : processKept'[s] = processKept[s]
    BY <1>3, <1>13, <1>20
  <2>2. Process!Total' = Process!Total + bytes
    BY <1>3, <1>13, <2>1 DEF Process!Total
  <2>3. /\ counted = All /\ Process!Total = All
        /\ \A s \in Process!Streams : processKept[s] = Process!Printed({s})[n]
    BY <1>1, <1>14, <1>20 DEF Whole
  <2>4. counted' = All' /\ Process!Total' = All' /\ All' <= Bound.process.output
    BY <1>3, <1>5, <1>12, <1>13, <1>20, <2>2, <2>3
  <2>5. \A s \in Process!Streams : processKept'[s] = Process!Printed({s})'[n + 1]
    <3> TAKE s \in Process!Streams
    <3>1. Process!Printed({s})'[n + 1] = Process!Printed({s})[n] + Weight(chunk, {s})
      BY <1>8
    <3>2. Weight(chunk, {s}) = IF s = stream THEN bytes ELSE 0
      BY <1>3 DEF Weight
    <3>3. processKept[s] \in Nat /\ processKept[s] = Process!Printed({s})[n]
      BY <1>13, <2>3
    <3> QED
      BY <1>3, <2>1, <3>1, <3>2, <3>3
  <2>6. Whole'
    BY <1>7, <2>4, <2>5 DEF Whole, Process!Streams
  <2>7. \A s \in Process!Streams : processKept[s] <= processKept'[s] /\ processKept'[s] \in Nat
    BY <1>3, <1>13, <2>1
  <2>8. Fitting(n + 1)'
    BY <2>5, <2>7 DEF Fitting, Process!Streams
  <2>9. ProcessTypes'
    <3>1. counted' \in Nat /\ truncated' \in BOOLEAN
      BY <1>3, <1>13, <1>20
    <3> QED
      BY <1>7, <1>11, <2>1, <3>1 DEF ProcessTypes, Process!Streams, ChunkType
  <2> QED
    BY <1>7, <1>10, <1>16, <1>20, <2>6, <2>7, <2>8, <2>9 DEF ProcessInv
<1> QED
  BY <1>6, <1>18, <1>19, <1>20

LEMMA ProcessStep == ASSUME ProcessBound, ProcessInv, [Process!Next]_processVars PROVE ProcessInv'
<1>1. CASE \E stream \in Process!Streams, bytes \in 1..Bound.process.chunk : Process!Output(stream, bytes)
  BY <1>1, ChunkComes
<1>2. ASSUME UNCHANGED <<arrived, processKept, counted, truncated>> PROVE ProcessInv'
  <2>1. \A streams : Process!Printed(streams)' = Process!Printed(streams)
    BY <1>2 DEF Process!Printed
  <2>2. All' = All /\ Process!Total' = Process!Total
    BY <1>2, <2>1 DEF All, Process!Total, Process!Streams
  <2>3. ProcessTypes'
    BY <1>2, <2>1 DEF ProcessInv, ProcessTypes, Process!Streams, ChunkType
  <2>4. (IF truncated THEN Cut ELSE Whole)'
    BY <1>2, <2>1, <2>2 DEF ProcessInv, Cut, Whole, Process!Streams
  <2>5. \A k : Fitting(k) => Fitting(k)'
    BY <1>2, <2>1 DEF Fitting, Process!Streams
  <2> QED
    BY <1>2, <2>3, <2>4, <2>5 DEF ProcessInv
<1>3. CASE UNCHANGED processVars
  BY <1>2, <1>3 DEF processVars
<1>4. CASE Process!Execute \/ Process!Spawn \/ Process!Abort \/ Process!Exit \/ Process!Close \/ Process!SpawnFails
  BY <1>2, <1>4 DEF Process!Execute, Process!Spawn, Process!Abort, Process!Exit, Process!Close, Process!SpawnFails, Process!output
<1> QED
  BY <1>1, <1>3, <1>4 DEF Process!Next

LEMMA ProcessHolds == ASSUME ProcessBound, ProcessInv PROVE Process!OutputIsAllOrCut
<1>1. PICK n \in Nat : n = Len(arrived)
  BY DEF ProcessInv, ProcessTypes
<1>2. All \in Nat /\ Bound.process.output \in Nat /\ truncated \in BOOLEAN
  <2>1. n \in 0..n
    OBVIOUS
  <2> QED
    BY <1>1, <2>1 DEF ProcessInv, ProcessTypes, All, ProcessBound
<1>3. truncated <=> All > Bound.process.output
  BY <1>2 DEF ProcessInv, Cut, Whole
<1>4. Process!Total = IF truncated THEN Bound.process.output ELSE All
  BY <1>2 DEF ProcessInv, Cut, Whole
<1>5. ASSUME NEW s \in Process!Streams, NEW k \in 0..Len(arrived), Process!Printed(Process!Streams)[k] <= Bound.process.output
      PROVE  processKept[s] >= Process!Printed({s})[k]
  <2>1. Process!Printed({s})[k] <= processKept[s]
    BY <1>5 DEF ProcessInv, Fitting
  <2>2. Process!Printed({s})[k] \in Nat /\ processKept[s] \in Nat
    BY DEF ProcessInv, ProcessTypes
  <2> QED
    BY <2>1, <2>2
<1> QED
  BY <1>3, <1>4, <1>5 DEF Process!OutputIsAllOrCut, All
=============================================================================
