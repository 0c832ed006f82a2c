---------------------------- MODULE Schemes_proofs ----------------------------
(***************************************************************************)
(* What overlapping passes can do to a scheme, for any number of workers   *)
(* and schemes: its steps stay below a bound, and those of a scheme that   *)
(* one pass has in hand at a time are numbered without a gap.              *)
(***************************************************************************)
EXTENDS Schemes, FiniteSetTheorems, TLAPS

-----------------------------------------------------------------------------
\* Types, and that a pass reads fewer steps than there may be.

SeenInv == \A w \in Workers : \A s \in InHand(w) : job[w].seen[s] < MaxSteps

TInv == TypeOK /\ SeenInv

LEMMA PassType ==
    ASSUME NEW step \in {"idle", "advance", "mark", "broken"},
           NEW batch \in SUBSET Schemes, NEW seen \in [Schemes -> Nat]
    PROVE  /\ Pass(step, batch, seen) \in Job
           /\ Pass(step, batch, seen).at = step
           /\ Pass(step, batch, seen).todo = batch
           /\ Pass(step, batch, seen).seen = seen
BY DEF Pass, Job

LEMMA ZeroType == Zero \in [Schemes -> Nat]
BY DEF Zero

LEMMA IdleType ==
    /\ Idle \in Job /\ Broken \in Job
    /\ Idle.at = "idle" /\ Broken.at = "broken"
BY PassType, ZeroType DEF Idle, Broken

LEMMA HandType ==
    ASSUME TypeOK, NEW w \in Workers
    PROVE  InHand(w) \subseteq job[w].todo /\ InHand(w) \subseteq Schemes /\ job[w] \in Job
BY DEF TypeOK, InHand, Job

\* What one worker's new pass means for what is in hand.
Hand(j) == IF j.at = "advance" THEN j.todo ELSE {}

LEMMA HandMoves ==
    ASSUME TypeOK, NEW w \in Workers, NEW j, job' = [job EXCEPT ![w] = j]
    PROVE  /\ job'[w] = j /\ InHand(w)' = Hand(j)
           /\ \A v \in Workers \ {w} : job'[v] = job[v] /\ InHand(v)' = InHand(v)
BY DEF TypeOK, InHand, Hand, At

LEMMA RestHand ==
    ASSUME TypeOK, NEW w \in Workers, NEW s \in job[w].todo
    PROVE  /\ Rest(w, s) \in Job
           /\ Hand(Rest(w, s)) = InHand(w) \ {s}
           /\ \A t \in InHand(w) \ {s} : Rest(w, s).seen[t] = job[w].seen[t]
<1> DEFINE j == job[w]
<1>1. j \in Job /\ s \in Schemes
  BY HandType DEF Job
<1>2. CASE j.todo = {s}
  <2>1. Rest(w, s) = Idle
    BY <1>2 DEF Rest
  <2>2. InHand(w) \ {s} = {}
    BY <1>2 DEF InHand
  <2>3. QED
    BY <2>1, <2>2, IdleType DEF Hand
<1>3. CASE j.todo # {s}
  <2> DEFINE r == [j EXCEPT !.todo = @ \ {s}, !.seen[s] = 0]
  <2>1. Rest(w, s) = r
    BY <1>3 DEF Rest
  <2>2. r \in Job /\ r.at = j.at /\ r.todo = j.todo \ {s} /\ r.seen = [j.seen EXCEPT ![s] = 0]
    BY <1>1 DEF Job
  <2>3. Hand(r) = InHand(w) \ {s}
    BY <2>2 DEF Hand, InHand, At
  <2>4. \A t \in Schemes \ {s} : r.seen[t] = j.seen[t]
    BY <1>1, <2>2 DEF Job
  <2>5. QED
    BY <2>1, <2>2, <2>3, <2>4, HandType
<1>4. QED
  BY <1>2, <1>3

\* The three facts in one, for the steps that cite them.
RestOf(w, s) ==
    /\ Rest(w, s) \in Job
    /\ Hand(Rest(w, s)) \subseteq InHand(w) \ {s}
    /\ \A t \in Hand(Rest(w, s)) : Rest(w, s).seen[t] = job[w].seen[t]

-----------------------------------------------------------------------------
\* Every step is one of these, as far as counts and what is in hand go.

\* A pass takes in a batch.
Takes(w, b) ==
    /\ InHand(w) = {}
    /\ b \subseteq Eligible
    /\ job' = [job EXCEPT ![w] =
                 Pass("advance", b, [s \in Schemes |-> IF s \in b THEN count[s] ELSE 0])]
    /\ crossed' = crossed \cup {s \in b : \E v \in Workers : s \in InHand(v)}
    /\ UNCHANGED <<status, count, orders, placed, late>>

\* A pass writes a step, and has it no more in hand.
Writes(w, s) ==
    /\ AddStep(w, s)
    /\ \E j \in Job : /\ job' = [job EXCEPT ![w] = j]
                      /\ Hand(j) \subseteq InHand(w) \ {s}
                      /\ \A t \in Hand(j) : j.seen[t] = job[w].seen[t]

\* A pass drops something, or ends.
Drops(w) ==
    /\ \E j \in Job : /\ job' = [job EXCEPT ![w] = j]
                      /\ Hand(j) \subseteq InHand(w)
                      /\ \A t \in Hand(j) : j.seen[t] = job[w].seen[t]
    /\ UNCHANGED <<count, orders, placed, crossed, late>>
    /\ \/ status' = status
       \/ \E s \in Schemes : /\ InHand(w) = {}
                             /\ status' = [status EXCEPT ![s] = IF @ = "active" THEN "discovered"
                                                                ELSE @]

\* Nobody's pass moves.
Outside ==
    /\ UNCHANGED <<count, orders, job, crossed, late>>
    /\ placed' \subseteq placed \cup Schemes
    /\ \/ status' = status
       \/ \E s \in Schemes : status[s] = "none" /\ status' = [status EXCEPT ![s] = "active"]

LEMMA StepKinds ==
    ASSUME TypeOK, [Next]_vars
    PROVE  \/ Outside
           \/ \E w \in Workers : \/ Drops(w)
                                 \/ \E b : Takes(w, b)
                                 \/ \E s \in Schemes : Writes(w, s)
<1>0. CASE UNCHANGED vars
  BY <1>0 DEF vars, Outside
<1>1. ASSUME NEW s \in Schemes, UpsertScheme(s) \/ UpdateLocation(s)
      PROVE  Outside
  BY <1>1 DEF UpsertScheme, UpdateLocation, Outside
<1>2. ASSUME NEW w \in Workers, ReadActive(w)
      PROVE  \E b : Takes(w, b)
  <2>1. InHand(w) = {}
    BY <1>2 DEF ReadActive, InHand, At
  <2>2. PICK b \in Batches \ {{}} :
          /\ job' = [job EXCEPT ![w] =
                       Pass("advance", b, [s \in Schemes |-> IF s \in b THEN count[s] ELSE 0])]
          /\ crossed' = crossed \cup {s \in b : \E v \in Workers : s \in InHand(v)}
    BY <1>2 DEF ReadActive
  <2>3. b \subseteq Eligible
    BY DEF Batches
  <2>4. Takes(w, b)
    BY <1>2, <2>1, <2>2, <2>3 DEF ReadActive, Takes
  <2>5. QED
    BY <2>4
<1>3. ASSUME NEW w \in Workers, ReadDiscoverable(w)
      PROVE  Drops(w)
  <2>1. PICK found \in SUBSET Schemes : job' = [job EXCEPT ![w] = Pass("mark", found, Zero)]
    BY <1>3 DEF ReadDiscoverable
  <2>2. Pass("mark", found, Zero) \in Job /\ Hand(Pass("mark", found, Zero)) = {}
    BY PassType, ZeroType DEF Hand
  <2>3. QED
    BY <1>3, <2>1, <2>2 DEF ReadDiscoverable, Drops
<1>4. ASSUME NEW w \in Workers, NEW s \in Schemes, SkipScheme(w, s)
      PROVE  Drops(w)
  <2>1. s \in job[w].todo
    BY <1>4, HandType DEF SkipScheme
  <2>2. RestOf(w, s)
    BY <2>1, RestHand DEF RestOf
  <2>3. QED
    BY <1>4, <2>2 DEF SkipScheme, Drops, RestOf
<1>5. ASSUME NEW w \in Workers, NEW s \in Schemes, EmitStep(w, s)
      PROVE  Writes(w, s)
  <2>1. s \in job[w].todo
    BY <1>5, HandType DEF EmitStep, AddStep
  <2>2. RestOf(w, s)
    BY <2>1, RestHand DEF RestOf
  <2>3. QED
    BY <1>5, <2>2 DEF EmitStep, Writes, RestOf
<1>6. ASSUME NEW w \in Workers, NEW s \in Schemes, AnswerLost(w, s)
      PROVE  Writes(w, s)
  BY <1>6, IdleType DEF AnswerLost, Writes, Hand
<1>7. ASSUME NEW w \in Workers, NEW s \in Schemes, MarkDiscovered(w, s)
      PROVE  Drops(w)
  <2>1. InHand(w) = {} /\ s \in job[w].todo
    BY <1>7 DEF MarkDiscovered, InHand, At
  <2>2. RestOf(w, s)
    BY <2>1, RestHand DEF RestOf
  <2>3. QED
    BY <1>7, <2>1, <2>2 DEF MarkDiscovered, Drops, RestOf
<1>8. ASSUME NEW w \in Workers, PassFails(w) \/ Resume(w)
      PROVE  Drops(w)
  BY <1>8, IdleType DEF PassFails, Resume, Drops, Hand
<1>9. QED
  BY <1>0, <1>1, <1>2, <1>3, <1>4, <1>5, <1>6, <1>7, <1>8 DEF Next, Handle

-----------------------------------------------------------------------------
LEMMA TypeInit == Init => TInv
<1> SUFFICES ASSUME Init PROVE TInv
  OBVIOUS
<1>1. job \in [Workers -> Job] /\ \A w \in Workers : InHand(w) = {}
  BY IdleType DEF Init, InHand, At
<1>2. placed \subseteq Schemes
  BY SchemeAssumption DEF Init
<1>3. QED
  BY <1>1, <1>2 DEF Init, TInv, TypeOK, SeenInv

LEMMA TypeStep == TInv /\ [Next]_vars => TInv'
<1> SUFFICES ASSUME TInv, [Next]_vars PROVE TInv'
  OBVIOUS
<1>0. TypeOK /\ SeenInv
  BY DEF TInv
<1>1. CASE Outside
  <2>1. TypeOK'
    BY <1>0, <1>1 DEF TypeOK, Outside
  <2>2. SeenInv'
    BY <1>0, <1>1 DEF SeenInv, InHand, At, Outside
  <2>3. QED
    BY <2>1, <2>2 DEF TInv
<1>2. ASSUME NEW w \in Workers, NEW j \in Job, TypeOK, SeenInv,
             job' = [job EXCEPT ![w] = j],
             \A t \in Hand(j) : j.seen[t] < MaxSteps
      PROVE  job' \in [Workers -> Job] /\ SeenInv'
  <2>1. job' \in [Workers -> Job]
    BY <1>2 DEF TypeOK
  <2>2. \A v \in Workers : \A t \in InHand(v)' : job'[v].seen[t] < MaxSteps
    <3> SUFFICES ASSUME NEW v \in Workers, NEW t \in InHand(v)'
                 PROVE  job'[v].seen[t] < MaxSteps
      OBVIOUS
    <3>1. CASE v = w
      <4>1. job'[w] = j /\ InHand(w)' = Hand(j)
        BY <1>2, HandMoves
      <4>2. QED
        BY <1>2, <3>1, <4>1
    <3>2. CASE v # w
      BY <1>2, <3>2, HandMoves DEF SeenInv
    <3>3. QED
      BY <3>1, <3>2
  <2>3. QED
    BY <2>1, <2>2 DEF SeenInv
<1>3. ASSUME NEW w \in Workers, Drops(w)
      PROVE  TInv'
  <2>1. PICK j \in Job : /\ job' = [job EXCEPT ![w] = j]
                         /\ Hand(j) \subseteq InHand(w)
                         /\ \A t \in Hand(j) : j.seen[t] = job[w].seen[t]
    BY <1>3 DEF Drops
  <2>2. \A t \in Hand(j) : j.seen[t] < MaxSteps
    BY <1>0, <2>1 DEF SeenInv
  <2>3. job' \in [Workers -> Job] /\ SeenInv'
    BY <1>0, <1>2, <2>1, <2>2
  <2>4. status' \in [Schemes -> {"none", "active", "discovered"}]
    BY <1>0, <1>3 DEF Drops, TypeOK
  <2>5. QED
    BY <1>0, <1>3, <2>3, <2>4 DEF Drops, TypeOK, TInv
<1>4. ASSUME NEW w \in Workers, NEW b, Takes(w, b)
      PROVE  TInv'
  <2> DEFINE seen == [s \in Schemes |-> IF s \in b THEN count[s] ELSE 0]
             j == Pass("advance", b, seen)
  <2>1. b \subseteq Schemes /\ \A s \in b : count[s] < MaxSteps
    BY <1>4 DEF Takes, Eligible
  <2>2. seen \in [Schemes -> Nat] /\ \A s \in b : seen[s] = count[s]
    BY <1>0, <2>1 DEF TypeOK
  <2>3. j \in Job /\ Hand(j) = b /\ j.seen = seen
    BY <2>1, <2>2, PassType DEF Hand
  <2>4. job' \in [Workers -> Job] /\ SeenInv'
    <3> HIDE DEF seen, j
    <3>1. job' = [job EXCEPT ![w] = j]
      BY <1>4 DEF Takes, j, seen
    <3>2. \A t \in Hand(j) : j.seen[t] < MaxSteps
      BY <2>1, <2>2, <2>3
    <3>3. QED
      BY <1>0, <1>2, <2>3, <3>1, <3>2
  <2>5. QED
    BY <1>0, <1>4, <2>1, <2>4 DEF Takes, TypeOK, TInv
<1>5. ASSUME NEW w \in Workers, NEW s \in Schemes, Writes(w, s)
      PROVE  TInv'
  <2>1. PICK j \in Job : /\ job' = [job EXCEPT ![w] = j]
                         /\ Hand(j) \subseteq InHand(w) \ {s}
                         /\ \A t \in Hand(j) : j.seen[t] = job[w].seen[t]
    BY <1>5 DEF Writes
  <2>2. \A t \in Hand(j) : j.seen[t] < MaxSteps
    BY <1>0, <2>1 DEF SeenInv
  <2>3. job' \in [Workers -> Job] /\ SeenInv'
    BY <1>0, <1>2, <2>1, <2>2
  <2>4. AddStep(w, s) /\ s \in InHand(w)
    BY <1>5 DEF Writes, AddStep
  <2>5. job[w].seen[s] \in Nat /\ job[w].seen[s] < MaxSteps
    BY <1>0, <2>4, HandType DEF SeenInv, Job
  <2>6. job[w].seen[s] + 1 \in 1..MaxSteps
    BY <2>5, SchemeAssumption
  <2>7. orders' \in [Schemes -> SUBSET (1..MaxSteps)]
    BY <1>0, <2>4, <2>6 DEF AddStep, TypeOK
  <2>8. count' \in [Schemes -> Nat] /\ late' \in [Schemes -> Nat]
    BY <1>0, <2>4 DEF AddStep, TypeOK
  <2>9. QED
    BY <1>0, <2>3, <2>4, <2>7, <2>8 DEF AddStep, TypeOK, TInv
<1>6. QED
  BY <1>0, <1>1, <1>3, <1>4, <1>5, StepKinds

LEMMA TInvHolds == Spec => []TInv
BY TypeInit, TypeStep, PTL DEF Spec

\* The schemes' variables keep their types, and no step is numbered above
\* MAX_SCHEME_STEPS (SchemeAdvanceTick.run_tick).
THEOREM TypeCorrect == Spec => []TypeOK
<1>1. TInv => TypeOK
  BY DEF TInv
<1>2. QED
  BY <1>1, TInvHolds, PTL

-----------------------------------------------------------------------------
\* Who has a scheme in hand.

Holders(s) == {w \in Workers : s \in InHand(w)}

LEMMA HoldersFinite ==
    ASSUME NEW s
    PROVE  /\ IsFiniteSet(Holders(s)) /\ Cardinality(Holders(s)) \in Nat
           /\ Cardinality(Workers) \in Nat
           /\ Cardinality(Holders(s)) <= Cardinality(Workers)
<1>1. Holders(s) \subseteq Workers
  BY DEF Holders
<1>2. QED
  BY <1>1, SchemeAssumption, FS_Subset, FS_CardinalityType

\* When a pass lets go of something, nobody takes it.
LEMMA HoldersShrink ==
    ASSUME TypeOK, NEW w \in Workers, NEW j, job' = [job EXCEPT ![w] = j],
           Hand(j) \subseteq InHand(w)
    PROVE  \A t : /\ Holders(t)' \subseteq Holders(t)
                  /\ Cardinality(Holders(t)') \in Nat
                  /\ Cardinality(Holders(t)') <= Cardinality(Holders(t))
<1> SUFFICES ASSUME NEW t
             PROVE  /\ Holders(t)' \subseteq Holders(t)
                    /\ Cardinality(Holders(t)') \in Nat
                    /\ Cardinality(Holders(t)') <= Cardinality(Holders(t))
  OBVIOUS
<1>1. InHand(w)' = Hand(j) /\ \A v \in Workers \ {w} : InHand(v)' = InHand(v)
  BY HandMoves
<1>2. Holders(t)' \subseteq Holders(t)
  BY <1>1 DEF Holders
<1>3. QED
  BY <1>2, HoldersFinite, FS_Subset, FS_CardinalityType

\* A pass that has written a step is one holder less.
LEMMA HoldersLess ==
    ASSUME TypeOK, NEW w \in Workers, NEW s \in InHand(w), NEW j,
           job' = [job EXCEPT ![w] = j], Hand(j) \subseteq InHand(w) \ {s}
    PROVE  /\ Holders(s)' \subseteq Holders(s) \ {w}
           /\ Cardinality(Holders(s)') \in Nat
           /\ Cardinality(Holders(s)') <= Cardinality(Holders(s)) - 1
<1>1. InHand(w)' = Hand(j) /\ \A v \in Workers \ {w} : InHand(v)' = InHand(v)
  BY HandMoves
<1>2. Holders(s)' \subseteq Holders(s) \ {w} /\ w \in Holders(s)
  BY <1>1 DEF Holders
<1>3. IsFiniteSet(Holders(s))
  BY HoldersFinite
<1>4. /\ IsFiniteSet(Holders(s) \ {w})
      /\ Cardinality(Holders(s) \ {w}) = Cardinality(Holders(s)) - 1
  BY <1>2, <1>3, FS_RemoveElement
<1>5. QED
  BY <1>2, <1>4, FS_Subset, FS_CardinalityType

\* Only what is in the batch gets a holder.
LEMMA HoldersTake ==
    ASSUME TypeOK, NEW w \in Workers, NEW b, Takes(w, b)
    PROVE  /\ InHand(w)' = b
           /\ \A v \in Workers \ {w} : InHand(v)' = InHand(v)
           /\ \A t : t \notin b => Holders(t)' = Holders(t)
<1> DEFINE seen == [s \in Schemes |-> IF s \in b THEN count[s] ELSE 0]
           j == Pass("advance", b, seen)
<1>1. b \subseteq Schemes /\ seen \in [Schemes -> Nat]
  BY DEF Takes, Eligible, TypeOK
<1>2. Hand(j) = b
  BY <1>1, PassType DEF Hand
<1>3. job' = [job EXCEPT ![w] = j]
  BY DEF Takes
<1> HIDE DEF j, seen
<1>4. InHand(w)' = b /\ \A v \in Workers \ {w} : InHand(v)' = InHand(v)
  BY <1>2, <1>3, HandMoves
<1>5. InHand(w) = {}
  BY DEF Takes
<1>6. QED
  BY <1>4, <1>5 DEF Holders

-----------------------------------------------------------------------------
\* Every holder of a scheme read fewer than MaxSteps of its steps, and each
\* adds one at the most: what is in hand counts like a step already there.

BoundInv ==
    \A s \in Schemes :
      count[s] + Cardinality(Holders(s)) <= MaxSteps + Cardinality(Workers) - 1

LateInv ==
    \A s \in Schemes :
      IF status[s] = "discovered"
      THEN late[s] + Cardinality(Holders(s)) <= Cardinality(Workers) - 1
      ELSE late[s] = 0

BInv == TInv /\ BoundInv /\ LateInv

LEMMA WorkersPositive == Cardinality(Workers) \in Nat /\ Cardinality(Workers) >= 1
BY SchemeAssumption, FS_CardinalityType, FS_EmptySet

LEMMA BoundInit == Init => BInv
<1> SUFFICES ASSUME Init PROVE BInv
  OBVIOUS
<1>1. TInv
  BY TypeInit
<1>2. \A s : Holders(s) = {}
  BY IdleType DEF Init, Holders, InHand, At
<1>3. \A s : Cardinality(Holders(s)) = 0
  BY <1>2, FS_EmptySet
<1>4. QED
  BY <1>1, <1>3, WorkersPositive, SchemeAssumption DEF Init, BInv, BoundInv, LateInv

LEMMA BoundStep == BInv /\ [Next]_vars => BInv'
<1> SUFFICES ASSUME BInv, [Next]_vars PROVE BInv'
  OBVIOUS
<1>0. TInv /\ TypeOK /\ BoundInv /\ LateInv /\ TInv'
  BY TypeStep DEF BInv, TInv
<1>1. CASE Outside
  <2>1. \A s : Holders(s)' = Holders(s)
    BY <1>1 DEF Outside, Holders, InHand, At
  <2>2. BoundInv'
    BY <1>0, <1>1, <2>1 DEF BoundInv, Outside
  <2>3. LateInv'
    <3> SUFFICES ASSUME NEW s \in Schemes
                 PROVE  IF status'[s] = "discovered"
                        THEN late'[s] + Cardinality(Holders(s)') <= Cardinality(Workers) - 1
                        ELSE late'[s] = 0
      BY DEF LateInv
    <3>1. late' = late /\ Holders(s)' = Holders(s)
      BY <1>1, <2>1 DEF Outside
    <3>2. CASE status' = status
      BY <1>0, <3>1, <3>2 DEF LateInv
    <3>3. ASSUME NEW t \in Schemes, status[t] = "none",
                 status' = [status EXCEPT ![t] = "active"]
          PROVE  IF status'[s] = "discovered"
                 THEN late'[s] + Cardinality(Holders(s)') <= Cardinality(Workers) - 1
                 ELSE late'[s] = 0
      <4>1. status \in [Schemes -> {"none", "active", "discovered"}]
        BY <1>0 DEF TypeOK
      <4>2. CASE s = t
        <5>1. status[s] = "none" /\ status'[s] = "active"
          BY <3>3, <4>1, <4>2
        <5>2. late[s] = 0
          BY <1>0, <5>1 DEF LateInv
        <5>3. QED
          BY <3>1, <5>1, <5>2
      <4>3. CASE s # t
        <5>1. status'[s] = status[s]
          BY <3>3, <4>1, <4>3
        <5>2. QED
          BY <1>0, <3>1, <5>1 DEF LateInv
      <4>4. QED
        BY <4>2, <4>3
    <3>4. QED
      BY <1>1, <3>2, <3>3 DEF Outside
  <2>4. QED
    BY <1>0, <2>2, <2>3 DEF BInv
<1>2. ASSUME NEW w \in Workers, Drops(w)
      PROVE  BInv'
  <2>1. PICK j \in Job : job' = [job EXCEPT ![w] = j] /\ Hand(j) \subseteq InHand(w)
    BY <1>2 DEF Drops
  <2>2. \A t : /\ Cardinality(Holders(t)') \in Nat
               /\ Cardinality(Holders(t)') <= Cardinality(Holders(t))
    BY <1>0, <2>1, HoldersShrink
  <2>3. BoundInv'
    <3> SUFFICES ASSUME NEW s \in Schemes
                 PROVE  count'[s] + Cardinality(Holders(s)')
                          <= MaxSteps + Cardinality(Workers) - 1
      BY DEF BoundInv
    <3>1. count'[s] = count[s] /\ count[s] \in Nat
      BY <1>0, <1>2 DEF Drops, TypeOK
    <3>2. count[s] + Cardinality(Holders(s)) <= MaxSteps + Cardinality(Workers) - 1
      BY <1>0 DEF BoundInv
    <3>3. QED
      BY <2>2, <3>1, <3>2, HoldersFinite, SchemeAssumption
  <2>4. LateInv'
    <3> SUFFICES ASSUME NEW s \in Schemes
                 PROVE  IF status'[s] = "discovered"
                        THEN late'[s] + Cardinality(Holders(s)') <= Cardinality(Workers) - 1
                        ELSE late'[s] = 0
      BY DEF LateInv
    <3>1. late'[s] = late[s] /\ late[s] \in Nat
      BY <1>0, <1>2 DEF Drops, TypeOK
    <3>2. IF status[s] = "discovered"
          THEN late[s] + Cardinality(Holders(s)) <= Cardinality(Workers) - 1
          ELSE late[s] = 0
      BY <1>0 DEF LateInv
    <3>3. CASE status'[s] = status[s]
      BY <2>2, <3>1, <3>2, <3>3, HoldersFinite
    <3>4. CASE InHand(w) = {} /\ status[s] = "active"
      <4>1. Holders(s)' \subseteq Workers \ {w}
        <5>1. InHand(w)' \subseteq InHand(w)
          BY <1>0, <2>1, HandMoves
        <5>2. QED
          BY <3>4, <5>1 DEF Holders
      <4>2. /\ IsFiniteSet(Workers \ {w})
            /\ Cardinality(Workers \ {w}) = Cardinality(Workers) - 1
        BY SchemeAssumption, FS_RemoveElement
      <4>3. Cardinality(Holders(s)') <= Cardinality(Workers) - 1
        BY <4>1, <4>2, FS_Subset, FS_CardinalityType
      <4>4. QED
        BY <2>2, <3>1, <3>2, <3>4, <4>3, WorkersPositive
    <3>5. CASE status' = status
      BY <3>3, <3>5
    <3>6. ASSUME NEW t \in Schemes, InHand(w) = {},
                 status' = [status EXCEPT ![t] = IF @ = "active" THEN "discovered" ELSE @]
          PROVE  status'[s] = status[s] \/ (InHand(w) = {} /\ status[s] = "active")
      <4>1. status \in [Schemes -> {"none", "active", "discovered"}]
        BY <1>0 DEF TypeOK
      <4>2. CASE s = t
        BY <3>6, <4>1, <4>2
      <4>3. CASE s # t
        BY <3>6, <4>1, <4>3
      <4>4. QED
        BY <4>2, <4>3
    <3>7. QED
      BY <1>2, <3>3, <3>4, <3>5, <3>6 DEF Drops
  <2>5. QED
    BY <1>0, <2>3, <2>4 DEF BInv
<1>3. ASSUME NEW w \in Workers, NEW b, Takes(w, b)
      PROVE  BInv'
  <2>1. \A t : t \notin b => Holders(t)' = Holders(t)
    BY <1>0, <1>3, HoldersTake
  <2>2. \A s \in b : s \in Schemes /\ status[s] = "active" /\ count[s] < MaxSteps
    BY <1>3 DEF Takes, Eligible
  <2>3. count' = count /\ status' = status /\ late' = late
    BY <1>3 DEF Takes
  <2>4. \A t : Cardinality(Holders(t)') \in Nat /\ Cardinality(Holders(t)') <= Cardinality(Workers)
    <3> SUFFICES ASSUME NEW t
                 PROVE  /\ Cardinality(Holders(t)') \in Nat
                        /\ Cardinality(Holders(t)') <= Cardinality(Workers)
      OBVIOUS
    <3>1. Holders(t)' \subseteq Workers
      BY DEF Holders
    <3>2. QED
      BY <3>1, SchemeAssumption, FS_Subset, FS_CardinalityType
  <2>5. BoundInv'
    <3> SUFFICES ASSUME NEW s \in Schemes
                 PROVE  count'[s] + Cardinality(Holders(s)')
                          <= MaxSteps + Cardinality(Workers) - 1
      BY DEF BoundInv
    <3>1. count[s] \in Nat
      BY <1>0 DEF TypeOK
    <3>2. CASE s \in b
      BY <2>2, <2>3, <2>4, <3>1, <3>2, WorkersPositive, SchemeAssumption
    <3>3. CASE s \notin b
      BY <1>0, <2>1, <2>3, <3>3 DEF BoundInv
    <3>4. QED
      BY <3>2, <3>3
  <2>6. LateInv'
    <3> SUFFICES ASSUME NEW s \in Schemes
                 PROVE  IF status'[s] = "discovered"
                        THEN late'[s] + Cardinality(Holders(s)') <= Cardinality(Workers) - 1
                        ELSE late'[s] = 0
      BY DEF LateInv
    <3>1. CASE s \in b
      BY <1>0, <2>2, <2>3, <3>1 DEF LateInv
    <3>2. CASE s \notin b
      BY <1>0, <2>1, <2>3, <3>2 DEF LateInv
    <3>3. QED
      BY <3>1, <3>2
  <2>7. QED
    BY <1>0, <2>5, <2>6 DEF BInv
<1>4. ASSUME NEW w \in Workers, NEW s \in Schemes, Writes(w, s)
      PROVE  BInv'
  <2>1. PICK j \in Job : job' = [job EXCEPT ![w] = j] /\ Hand(j) \subseteq InHand(w) \ {s}
    BY <1>4 DEF Writes
  <2>2. s \in InHand(w) /\ Hand(j) \subseteq InHand(w)
    BY <1>4, <2>1 DEF Writes, AddStep
  <2>3. /\ Cardinality(Holders(s)') \in Nat
        /\ Cardinality(Holders(s)') <= Cardinality(Holders(s)) - 1
    BY <1>0, <2>1, <2>2, HoldersLess
  <2>4. \A t : /\ Cardinality(Holders(t)') \in Nat
               /\ Cardinality(Holders(t)') <= Cardinality(Holders(t))
    BY <1>0, <2>1, <2>2, HoldersShrink
  <2>5. /\ count'[s] = count[s] + 1
        /\ \A t \in Schemes \ {s} : count'[t] = count[t] /\ late'[t] = late[t]
        /\ late'[s] = IF status[s] = "discovered" THEN late[s] + 1 ELSE late[s]
        /\ status' = status
    BY <1>0, <1>4 DEF Writes, AddStep, TypeOK
  <2>6. BoundInv'
    <3> SUFFICES ASSUME NEW t \in Schemes
                 PROVE  count'[t] + Cardinality(Holders(t)')
                          <= MaxSteps + Cardinality(Workers) - 1
      BY DEF BoundInv
    <3>1. count[t] \in Nat /\ count[t] + Cardinality(Holders(t)) <= MaxSteps + Cardinality(Workers) - 1
      BY <1>0 DEF TypeOK, BoundInv
    <3>2. CASE t = s
      BY <2>3, <2>5, <3>1, <3>2, HoldersFinite, SchemeAssumption
    <3>3. CASE t # s
      BY <2>4, <2>5, <3>1, <3>3, HoldersFinite, SchemeAssumption
    <3>4. QED
      BY <3>2, <3>3
  <2>7. LateInv'
    <3> SUFFICES ASSUME NEW t \in Schemes
                 PROVE  IF status'[t] = "discovered"
                        THEN late'[t] + Cardinality(Holders(t)') <= Cardinality(Workers) - 1
                        ELSE late'[t] = 0
      BY DEF LateInv
    <3>1. /\ late[t] \in Nat
          /\ IF status[t] = "discovered"
             THEN late[t] + Cardinality(Holders(t)) <= Cardinality(Workers) - 1
             ELSE late[t] = 0
      BY <1>0 DEF TypeOK, LateInv
    <3>2. CASE t = s
      BY <2>3, <2>5, <3>1, <3>2, HoldersFinite
    <3>3. CASE t # s
      BY <2>4, <2>5, <3>1, <3>3, HoldersFinite
    <3>4. QED
      BY <3>2, <3>3
  <2>8. QED
    BY <1>0, <2>6, <2>7 DEF BInv
<1>5. QED
  BY <1>0, <1>1, <1>2, <1>3, <1>4, StepKinds

\* A scheme gets at most one step beyond MAX_SCHEME_STEPS for each worker but
\* one, and as many after its discovery (SchemeAdvanceTick.run_tick).
THEOREM StepsAreBounded == Spec => []StepsBounded
<1>1. BInv => StepsBounded
  <2> SUFFICES ASSUME BInv, NEW s \in Schemes
               PROVE  /\ count[s] <= MaxSteps + Cardinality(Workers) - 1
                      /\ late[s] <= Cardinality(Workers) - 1
    BY DEF StepsBounded
  <2>1. count[s] \in Nat /\ late[s] \in Nat
    BY DEF BInv, TInv, TypeOK
  <2>2. count[s] + Cardinality(Holders(s)) <= MaxSteps + Cardinality(Workers) - 1
    BY DEF BInv, BoundInv
  <2>3. late[s] + Cardinality(Holders(s)) <= Cardinality(Workers) - 1 \/ late[s] = 0
    BY DEF BInv, LateInv
  <2>4. QED
    BY <2>1, <2>2, <2>3, HoldersFinite, WorkersPositive, SchemeAssumption
<1>2. QED
  BY <1>1, BoundInit, BoundStep, PTL DEF Spec

-----------------------------------------------------------------------------
\* While one pass at a time has a scheme in hand, what it read of it is true.

Numbered(s) ==
    /\ orders[s] = 1..count[s] /\ count[s] <= MaxSteps
    /\ \A w \in Workers : s \in InHand(w) =>
         /\ job[w].seen[s] = count[s]
         /\ \A v \in Workers : s \in InHand(v) => v = w

NumInv == \A s \in Schemes \ crossed : Numbered(s)

NInv == TInv /\ NumInv

LEMMA NumberedInit == Init => NInv
<1> SUFFICES ASSUME Init PROVE NInv
  OBVIOUS
<1>1. \A w \in Workers : InHand(w) = {}
  BY IdleType DEF Init, InHand, At
<1>2. \A s \in Schemes : count[s] = 0
  BY DEF Init
<1>3. \A s \in Schemes : orders[s] = 1..count[s] /\ count[s] <= MaxSteps
  <2>1. orders = [s \in Schemes |-> {}] /\ 1..0 = {} /\ 0 <= MaxSteps
    BY SchemeAssumption DEF Init
  <2>2. QED
    BY <1>2, <2>1
<1>4. QED
  BY <1>1, <1>3, TypeInit DEF NInv, NumInv, Numbered

\* A scheme whose steps do not change, and that nobody takes, stays numbered.
LEMMA NumberedKept ==
    ASSUME TypeOK, NEW w \in Workers, NEW j, NEW s \in Schemes, Numbered(s),
           job' = [job EXCEPT ![w] = j],
           s \in Hand(j) => s \in InHand(w) /\ j.seen[s] = job[w].seen[s],
           count'[s] = count[s], orders'[s] = orders[s]
    PROVE  Numbered(s)'
<1>1. /\ job'[w] = j /\ InHand(w)' = Hand(j)
      /\ \A v \in Workers \ {w} : job'[v] = job[v] /\ InHand(v)' = InHand(v)
  BY HandMoves
<1>2. \A v \in Workers : s \in InHand(v)' => s \in InHand(v) /\ job'[v].seen[s] = job[v].seen[s]
  <2> SUFFICES ASSUME NEW v \in Workers, s \in InHand(v)'
               PROVE  s \in InHand(v) /\ job'[v].seen[s] = job[v].seen[s]
    OBVIOUS
  <2>1. CASE v = w
    BY <1>1, <2>1
  <2>2. CASE v # w
    BY <1>1, <2>2
  <2>3. QED
    BY <2>1, <2>2
<1>3. QED
  BY <1>2 DEF Numbered

LEMMA NumberedStep == NInv /\ [Next]_vars => NInv'
<1> SUFFICES ASSUME NInv, [Next]_vars PROVE NInv'
  OBVIOUS
<1>0. TInv /\ TypeOK /\ SeenInv /\ NumInv /\ TInv'
  BY TypeStep DEF NInv, TInv
<1>1. CASE Outside
  <2>1. NumInv'
    BY <1>0, <1>1 DEF NumInv, Numbered, InHand, At, Outside
  <2>2. QED
    BY <1>0, <2>1 DEF NInv
<1>2. ASSUME NEW w \in Workers, Drops(w)
      PROVE  NInv'
  <2>1. PICK j \in Job : /\ job' = [job EXCEPT ![w] = j]
                         /\ Hand(j) \subseteq InHand(w)
                         /\ \A t \in Hand(j) : j.seen[t] = job[w].seen[t]
    BY <1>2 DEF Drops
  <2>2. crossed' = crossed /\ count' = count /\ orders' = orders
    BY <1>2 DEF Drops
  <2>3. ASSUME NEW s \in Schemes \ crossed'
        PROVE  Numbered(s)'
    <3>1. Numbered(s)
      BY <1>0, <2>2 DEF NumInv
    <3>2. QED
      BY <1>0, <2>1, <2>2, <3>1, NumberedKept
  <2>4. QED
    BY <1>0, <2>3 DEF NInv, NumInv
<1>3. ASSUME NEW w \in Workers, NEW b, Takes(w, b)
      PROVE  NInv'
  <2> DEFINE seen == [s \in Schemes |-> IF s \in b THEN count[s] ELSE 0]
             j == Pass("advance", b, seen)
  <2>1. /\ job' = [job EXCEPT ![w] = j] /\ InHand(w) = {} /\ b \subseteq Schemes
        /\ crossed' = crossed \cup {s \in b : \E v \in Workers : s \in InHand(v)}
        /\ count' = count /\ orders' = orders
    BY <1>3 DEF Takes, Eligible
  <2>2. seen \in [Schemes -> Nat] /\ \A s \in b : seen[s] = count[s]
    BY <1>0, <2>1 DEF TypeOK
  <2>3. Hand(j) = b /\ j.seen = seen
    BY <2>1, <2>2, PassType DEF Hand
  <2>4. ASSUME NEW s \in Schemes \ crossed'
        PROVE  Numbered(s)'
    <3> HIDE DEF j, seen
    <3>1. s \notin crossed /\ Numbered(s)
      BY <1>0, <2>1 DEF NumInv
    <3>2. CASE s \notin b
      BY <1>0, <2>1, <2>3, <3>1, <3>2, NumberedKept
    <3>3. CASE s \in b
      <4>1. \A v \in Workers : s \notin InHand(v)
        BY <2>1, <3>3
      <4>2. /\ job'[w] = j /\ InHand(w)' = b
            /\ \A v \in Workers \ {w} : InHand(v)' = InHand(v)
        BY <1>0, <2>1, <2>3, HandMoves
      <4>3. \A v \in Workers : s \in InHand(v)' => v = w
        BY <4>1, <4>2
      <4>4. job'[w].seen[s] = count'[s]
        BY <2>1, <2>2, <2>3, <3>3, <4>2
      <4>5. QED
        BY <2>1, <3>1, <4>3, <4>4 DEF Numbered
    <3>4. QED
      BY <3>2, <3>3
  <2>5. QED
    BY <1>0, <2>4 DEF NInv, NumInv
<1>4. ASSUME NEW w \in Workers, NEW s \in Schemes, Writes(w, s)
      PROVE  NInv'
  <2>1. PICK j \in Job : /\ job' = [job EXCEPT ![w] = j]
                         /\ Hand(j) \subseteq InHand(w) \ {s}
                         /\ \A t \in Hand(j) : j.seen[t] = job[w].seen[t]
    BY <1>4 DEF Writes
  <2>2. /\ s \in InHand(w) /\ crossed' = crossed
        /\ count' = [count EXCEPT ![s] = @ + 1]
        /\ orders' = [orders EXCEPT ![s] = @ \cup {job[w].seen[s] + 1}]
    BY <1>4 DEF Writes, AddStep
  <2>3. ASSUME NEW t \in Schemes \ crossed'
        PROVE  Numbered(t)'
    <3>1. Numbered(t)
      BY <1>0, <2>2 DEF NumInv
    <3>2. CASE t # s
      <4>1. count'[t] = count[t] /\ orders'[t] = orders[t]
        BY <1>0, <2>2, <3>2 DEF TypeOK
      <4>2. QED
        BY <1>0, <2>1, <3>1, <4>1, NumberedKept
    <3>3. CASE t = s
      <4>1. /\ job[w].seen[s] = count[s] /\ orders[s] = 1..count[s]
            /\ \A v \in Workers : s \in InHand(v) => v = w
        BY <2>2, <3>1, <3>3 DEF Numbered
      <4>2. count[s] \in Nat /\ count[s] < MaxSteps
        BY <1>0, <2>2, <4>1 DEF SeenInv, TypeOK
      <4>3. count'[s] = count[s] + 1 /\ orders'[s] = (1..count[s]) \cup {count[s] + 1}
        BY <1>0, <2>2, <4>1 DEF TypeOK
      <4>4. orders'[s] = 1..count'[s] /\ count'[s] <= MaxSteps
        BY <4>2, <4>3, SchemeAssumption
      <4>5. \A v \in Workers : s \notin InHand(v)'
        <5>1. InHand(w)' = Hand(j) /\ \A v \in Workers \ {w} : InHand(v)' = InHand(v)
          BY <1>0, <2>1, HandMoves
        <5>2. QED
          BY <2>1, <4>1, <5>1
      <4>6. QED
        BY <3>3, <4>4, <4>5 DEF Numbered
    <3>4. QED
      BY <3>2, <3>3
  <2>4. QED
    BY <1>0, <2>3 DEF NInv, NumInv
<1>5. QED
  BY <1>0, <1>1, <1>2, <1>3, <1>4, StepKinds

\* The steps of a scheme that no two advances had in hand at a time are
\* numbered 1, 2, ... without a gap, and are no more than MAX_SCHEME_STEPS
\* (SchemeAdvanceTick._advance_one and SchemingRepository.emit_scheme_step_atomic).
THEOREM StepsAreNumbered == Spec => []NumberedOnce
<1>1. NInv => NumberedOnce
  BY DEF NInv, NumInv, Numbered, NumberedOnce
<1>2. QED
  BY <1>1, NumberedInit, NumberedStep, PTL DEF Spec

=============================================================================
