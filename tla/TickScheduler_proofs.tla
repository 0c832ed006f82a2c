------------------------ MODULE TickScheduler_proofs ------------------------
(***************************************************************************)
(* Proofs about the tick loop and the world clock, for any number of       *)
(* workers, interval engines, ticks, intervals, faults and writers.        *)
(***************************************************************************)
EXTENDS TickScheduler, TickLease_proofs, WellFoundedInduction

\* NextDue passes over nothing that is due.
LEMMA NextDueFirst ==
    ASSUME NEW i \in 1..Len(EngineOrder) + 1, NEW t \in Nat
    PROVE  /\ NextDue(i, t) \in i..Len(EngineOrder) + 1
           /\ \A k \in i..NextDue(i, t) - 1 : ~Due(EngineOrder[k], t)
<1>. DEFINE T == {j \in i..Len(EngineOrder) + 1 : j <= Len(EngineOrder) => Due(EngineOrder[j], t)}
<1>1. Len(EngineOrder) \in Nat
  BY SchedulerAssumption
<1>2. Len(EngineOrder) + 1 \in T /\ T \subseteq Nat
  BY <1>1
<1>3. PICK j \in T : \A k \in T : ~(<<k, j>> \in OpToRel(<, Nat))
  <2>. HIDE DEF T
  <2>. QED
    BY <1>2, NatLessThanWellFounded, WFMin
<1>4. /\ j \in i..Len(EngineOrder) + 1
      /\ j <= Len(EngineOrder) => Due(EngineOrder[j], t)
  BY <1>3
<1>5. \A k \in i..j - 1 : ~Due(EngineOrder[k], t)
  <2> SUFFICES ASSUME NEW k \in i..j - 1, Due(EngineOrder[k], t) PROVE FALSE
    OBVIOUS
  <2>1. k < j /\ k \in i..Len(EngineOrder) + 1 /\ k \in Nat /\ j \in Nat
    <3>. HIDE DEF T
    <3>. QED
      BY <1>1, <1>4
  <2>2. k \in T
    BY <2>1, Zenon
  <2>. QED
    BY <1>3, <2>1, <2>2 DEF OpToRel
<1>. HIDE DEF T
<1>. QED
  BY <1>4, <1>5 DEF NextDue

LEMMA NextDueType ==
    ASSUME NEW i \in 1..Len(EngineOrder) + 1, NEW t \in Nat
    PROVE  NextDue(i, t) \in 1..Len(EngineOrder) + 1
<1>1. Len(EngineOrder) \in Nat
  BY SchedulerAssumption
<1>2. NextDue(i, t) \in i..Len(EngineOrder) + 1 /\ i \in 1..Len(EngineOrder) + 1
  BY NextDueFirst
<1>. QED
  BY <1>1, <1>2

-----------------------------------------------------------------------------
(* Types and the leases below.                                             *)

LEMMA LoopFacts ==
    ASSUME TypeOK, NEW w \in Workers
    PROVE  /\ loop[w] \in Loop /\ mem[w] \in 0..MaxTick /\ Len(EngineOrder) \in Nat
           /\ loop[w].tick \in 0..MaxTick /\ loop[w].end \in 0..MaxTick
           /\ loop[w].at \in 1..Len(EngineOrder) + 1 /\ loop[w].stuck \in BOOLEAN
           /\ MaxTick \in Nat
BY SchedulerAssumption DEF TypeOK, Loop

LEMMA CurrentIsSlot ==
    ASSUME TypeOK, LoopInRange, NEW w \in Workers, AtEngine(w)
    PROVE  Current(w) \in Slots
<1>1. loop[w].tick \in Ticks
  BY LoopFacts, SchedulerAssumption DEF AtEngine, LoopInRange
<1>2. EngineOrder[loop[w].at] \in Engines
  BY LoopFacts, SchedulerAssumption DEF AtEngine
<1>. QED
  BY <1>1, <1>2 DEF Current, Slots

\* Every step of the scheduler is a step of the leases, or none.
LEMMA LeasesMove ==
    ASSUME TypeOK, LoopInRange, [Next]_vars
    PROVE  [LeaseNext]_leaseVars
<1>1. ASSUME NEW w \in Workers, RunIntervalEngine(w) PROVE LeaseNext
  BY <1>1, CurrentIsSlot DEF RunIntervalEngine, LeaseNext, WorkerStep
<1>2. ASSUME NEW w \in Workers, Collect(w) \/ LeaseStep(w) \/ Dies(w) PROVE LeaseNext
  BY <1>2 DEF Collect, LeaseStep, Dies, LeaseNext, WorkerStep
<1>3. ASSUME NEW w \in Workers, \/ \E delta \in 1..MaxDelta : Begin(w, delta)
                                \/ EndOfTick(w) \/ Finalize(w) \/ PersistFails(w) \/ Boot(w)
      PROVE  UNCHANGED leaseVars
  BY <1>3 DEF Begin, EndOfTick, Finalize, PersistFails, Boot
<1>4. ASSUME NEW v \in Writers, ReadWorldState(v) \/ UpsertWorldState(v)
      PROVE  UNCHANGED leaseVars
  BY <1>4 DEF ReadWorldState, UpsertWorldState
<1>5. CASE WallClock
  BY <1>5 DEF WallClock, LeaseNext
<1>6. CASE UNCHANGED vars
  BY <1>6 DEF vars
<1>. QED
  BY <1>1, <1>2, <1>3, <1>4, <1>5, <1>6 DEF Next, SchedulerStep, LoopStep

LEMMA LaterType == ASSUME NEW t \in 0..MaxTick, stored \in 0..MaxTick PROVE Later(t) \in 0..MaxTick
BY DEF Later

LEMMA LoopTypeStep ==
    ASSUME TypeOK, LoopInRange, [Next]_vars
    PROVE  loop' \in [Workers -> Loop] /\ LoopInRange'
<1>. USE SchedulerAssumption
<1>0. loop \in [Workers -> Loop]
  BY DEF TypeOK
<1>1. ASSUME NEW w \in Workers, NEW new \in Loop, loop' = [loop EXCEPT ![w] = new],
             new.step = "tick" => 0 < new.tick /\ new.tick <= new.end
      PROVE  loop' \in [Workers -> Loop] /\ LoopInRange'
  BY <1>0, <1>1 DEF LoopInRange, InTick
<1>2. ASSUME UNCHANGED loop PROVE loop' \in [Workers -> Loop] /\ LoopInRange'
  BY <1>0, <1>2 DEF LoopInRange, InTick
<1>3. ASSUME NEW w \in Workers, NEW delta \in 1..MaxDelta, Begin(w, delta)
      PROVE  loop' \in [Workers -> Loop] /\ LoopInRange'
  <2>1. mem[w] + 1 \in 1..MaxTick /\ mem[w] + delta \in 1..MaxTick /\ mem[w] + 1 <= mem[w] + delta
    BY <1>3, LoopFacts DEF Begin
  <2>2. NextDue(1, mem[w] + 1) \in 1..Len(EngineOrder) + 1
    <3>1. 1 \in 1..Len(EngineOrder) + 1 /\ mem[w] + 1 \in Nat
      BY <2>1, LoopFacts
    <3>. QED
      BY <3>1, NextDueType
  <2>. DEFINE new == Running(mem[w] + 1, mem[w] + delta, NextDue(1, mem[w] + 1), FALSE)
  <2>3. new \in Loop /\ new.tick = mem[w] + 1 /\ new.end = mem[w] + delta
    BY <2>1, <2>2 DEF Running, Loop
  <2>4. loop' = [loop EXCEPT ![w] = new]
    BY <1>3 DEF Begin
  <2>5. new.step = "tick" => 0 < new.tick /\ new.tick <= new.end
    <3>. HIDE DEF new
    <3>. QED
      BY <2>1, <2>3, LoopFacts
  <2>. HIDE DEF new
  <2>. QED
    BY <1>1, <2>3, <2>4, <2>5
<1>4. ASSUME NEW w \in Workers, Collect(w) PROVE loop' \in [Workers -> Loop] /\ LoopInRange'
  <2>1. NextDue(loop[w].at + 1, loop[w].tick) \in 1..Len(EngineOrder) + 1
    <3>1. loop[w].at + 1 \in 1..Len(EngineOrder) + 1 /\ loop[w].tick \in Nat
      BY <1>4, LoopFacts DEF Collect, AtEngine
    <3>. QED
      BY <3>1, NextDueType
  <2>. DEFINE new == Running(loop[w].tick, loop[w].end, NextDue(loop[w].at + 1, loop[w].tick),
                             loop[w].stuck \/ job[w].result = "unresolved")
  <2>2. new \in Loop /\ new.tick = loop[w].tick /\ new.end = loop[w].end
    BY <2>1, LoopFacts DEF Running, Loop
  <2>3. loop' = [loop EXCEPT ![w] = new]
    BY <1>0, <1>4 DEF Collect
  <2>4. new.step = "tick" => 0 < new.tick /\ new.tick <= new.end
    BY <1>4, <2>2 DEF Collect, AtEngine, LoopInRange
  <2>. HIDE DEF new
  <2>. QED
    BY <1>1, <2>2, <2>3, <2>4
<1>5. ASSUME NEW w \in Workers, EndOfTick(w) PROVE loop' \in [Workers -> Loop] /\ LoopInRange'
  <2>1. 0 < loop[w].tick /\ loop[w].tick <= loop[w].end /\ loop[w] \in Loop
    BY <1>0, <1>5 DEF EndOfTick, LoopInRange
  <2>2. ASSUME NEW t \in 0..MaxTick, loop' = [loop EXCEPT ![w] = Reached(t)]
        PROVE  loop' \in [Workers -> Loop] /\ LoopInRange'
    <3>1. Reached(t) \in Loop /\ Reached(t).step # "tick"
      BY LoopFacts DEF Reached, Outside, Loop
    <3>. QED
      BY <1>1, <2>2, <3>1
  <2>3. CASE loop[w].stuck
    <3>1. loop' = [loop EXCEPT ![w] = Reached(loop[w].tick - 1)]
      BY <1>0, <1>5, <2>3 DEF EndOfTick
    <3>2. loop[w].tick - 1 \in 0..MaxTick
      BY <2>1, LoopFacts
    <3>. QED
      BY <2>2, <3>1, <3>2
  <2>4. CASE ~loop[w].stuck /\ loop[w].tick = loop[w].end
    <3>1. loop' = [loop EXCEPT ![w] = Reached(loop[w].tick)]
      BY <1>0, <1>5, <2>4 DEF EndOfTick
    <3>. QED
      BY <2>2, <3>1, LoopFacts
  <2>5. CASE ~loop[w].stuck /\ loop[w].tick # loop[w].end
    <3>1. loop[w].tick + 1 \in 1..MaxTick /\ loop[w].tick + 1 <= loop[w].end
      BY <2>1, <2>5, LoopFacts
    <3>2. NextDue(1, loop[w].tick + 1) \in 1..Len(EngineOrder) + 1
      <4>1. 1 \in 1..Len(EngineOrder) + 1 /\ loop[w].tick + 1 \in Nat
        BY <3>1, LoopFacts
      <4>. QED
        BY <4>1, NextDueType
    <3>. DEFINE new == Running(loop[w].tick + 1, loop[w].end, NextDue(1, loop[w].tick + 1), FALSE)
    <3>3. new \in Loop /\ new.tick = loop[w].tick + 1 /\ new.end = loop[w].end
      BY <3>1, <3>2, LoopFacts DEF Running, Loop
    <3>4. loop' = [loop EXCEPT ![w] = new]
      BY <1>0, <1>5, <2>5 DEF EndOfTick
    <3>5. new.step = "tick" => 0 < new.tick /\ new.tick <= new.end
      <4>. HIDE DEF new
      <4>. QED
        BY <3>1, <3>3, LoopFacts
    <3>. HIDE DEF new
    <3>. QED
      BY <1>1, <3>3, <3>4, <3>5
  <2>. QED
    BY <2>3, <2>4, <2>5
<1>6. ASSUME NEW w \in Workers, Finalize(w) \/ PersistFails(w) \/ Dies(w) \/ Boot(w)
      PROVE  loop' \in [Workers -> Loop] /\ LoopInRange'
  <2>1. Quiet("idle") \in Loop /\ Quiet("down") \in Loop
    BY LoopFacts DEF Quiet, Outside, Loop
  <2>. QED
    BY <1>1, <1>6, <2>1 DEF Finalize, PersistFails, Dies, Boot, Quiet, Outside
<1>. QED
  BY <1>2, <1>3, <1>4, <1>5, <1>6
  DEF Next, SchedulerStep, LoopStep, RunIntervalEngine, LeaseStep, ReadWorldState,
      UpsertWorldState, WallClock, schedVars, vars

LEMMA ClockTypeStep ==
    ASSUME TypeOK, LoopInRange, [Next]_vars
    PROVE  /\ mem' \in [Workers -> 0..MaxTick] /\ stored' \in 0..MaxTick
           /\ failed' \subseteq Slots /\ breaks' \in 0..MaxFaults
           /\ snapshot' \in [Writers -> (0..MaxTick) \cup {NoSnapshot}]
<1>1. ASSUME NEW w \in Workers, Finalize(w) \/ PersistFails(w)
      PROVE  mem' \in [Workers -> 0..MaxTick] /\ stored' \in 0..MaxTick
  <2>1. loop[w].tick \in 0..MaxTick /\ stored \in 0..MaxTick
    BY LoopFacts DEF TypeOK
  <2>2. Later(loop[w].tick) \in 0..MaxTick
    BY <2>1, LaterType
  <2>3. mem \in [Workers -> 0..MaxTick]
    BY DEF TypeOK
  <2>4. CASE Finalize(w)
    BY <2>1, <2>2, <2>3, <2>4 DEF Finalize
  <2>5. CASE PersistFails(w)
    BY <2>1, <2>2, <2>3, <2>5 DEF PersistFails
  <2>. QED
    BY <1>1, <2>4, <2>5
<1>2. ASSUME NEW w \in Workers, Dies(w) \/ Boot(w) PROVE mem' \in [Workers -> 0..MaxTick]
  <2>1. mem \in [Workers -> 0..MaxTick] /\ stored \in 0..MaxTick /\ 0 \in 0..MaxTick
    BY SchedulerAssumption DEF TypeOK
  <2>2. (IF mem[w] > stored THEN mem[w] ELSE stored) \in 0..MaxTick
    BY <2>1
  <2>3. CASE Dies(w)
    BY <2>1, <2>3 DEF Dies
  <2>4. CASE Boot(w)
    BY <2>1, <2>2, <2>4 DEF Boot
  <2>. QED
    BY <1>2, <2>3, <2>4
<1>3. ASSUME NEW w \in Workers, Collect(w) PROVE failed' \subseteq Slots
  BY <1>3, CurrentIsSlot DEF Collect, TypeOK
<1>4. ASSUME NEW w \in Workers, PersistFails(w) PROVE breaks' \in 0..MaxFaults
  BY <1>4, LeaseAssumption DEF PersistFails, TypeOK, LeaseTypeOK
<1>5. ASSUME NEW v \in Writers, ReadWorldState(v) \/ UpsertWorldState(v)
      PROVE  /\ snapshot' \in [Writers -> (0..MaxTick) \cup {NoSnapshot}]
             /\ stored' \in 0..MaxTick
  BY <1>5, LaterType DEF ReadWorldState, UpsertWorldState, TypeOK
<1>. QED
  BY <1>1, <1>2, <1>3, <1>4, <1>5
  DEF TypeOK, Next, SchedulerStep, LoopStep, Begin, RunIntervalEngine, Collect, EndOfTick,
      Finalize, LeaseStep, PersistFails, Dies, Boot, ReadWorldState, UpsertWorldState, WallClock,
      schedVars, vars

LEMMA TypeStep ==
    ASSUME TypeOK, LoopInRange, WritersMatched, [Next]_vars
    PROVE  TypeOK' /\ LoopInRange' /\ WritersMatched'
<1>1. LeaseTypeOK' /\ WritersMatched'
  BY LeasesMove, LeaseTypeStep, WritersMatchedStep DEF TypeOK
<1>. QED
  BY <1>1, LoopTypeStep, ClockTypeStep DEF TypeOK

LEMMA InitType == Init => TypeOK /\ LoopInRange /\ WritersMatched /\ LeaseInit
<1> SUFFICES ASSUME Init PROVE TypeOK /\ LoopInRange /\ WritersMatched
  BY DEF Init
<1>1. LeaseTypeOK
  BY LeaseAssumption DEF Init, LeaseInit, LeaseTypeOK, MaxCount, Rest, Job, Steps, Results, At
<1>2. Len(EngineOrder) \in Nat /\ MaxTick \in Nat /\ MaxFaults \in Nat
  BY SchedulerAssumption, LeaseAssumption
<1>3. Quiet("idle") \in Loop /\ Quiet("idle").step = "idle"
  BY <1>2 DEF Quiet, Outside, Loop
<1>. QED
  BY <1>1, <1>2, <1>3 DEF Init, TypeOK, LoopInRange, InTick, LeaseInit, WritersMatched, Rest

\* Every variable of the scheduler stays in its type, the leases included.
THEOREM TypeCorrect == Spec => []TypeOK
<1>. QED
  BY InitType, TypeStep, PTL DEF Spec

\* The scheduler uses the leases as their specification says: what is proved
\* of the leases holds in the scheduler.
THEOREM UsesLeases == Spec => LeaseSpec
<1>. QED
  BY InitType, TypeStep, LeasesMove, PTL DEF Spec, LeaseSpec

\* Failed writes of the clock, restarts of the loop and retries of a tick repeat
\* no engine tick: only a fault inside a lease does, or a query that overwrites
\* it, RerunsCostFaults (_finalize_advance, TRY_CLAIM).
THEOREM RetriesHarmless == Spec => []RerunsCostFaults
BY UsesLeases, RerunsAreForFaults, PTL

\* An engine tick none of whose attempts was cut short is run once at most, whatever
\* becomes of the clock and its loops: CleanTicksRunOnce (advance, TRY_CLAIM).
THEOREM CleanRetriesHarmless == Spec => []CleanTicksRunOnce
BY UsesLeases, CleanTicksAreRunOnce, PTL

-----------------------------------------------------------------------------
(* What the clocks know about the engine ticks behind them.                *)

LEMMA SettledStays ==
    ASSUME TypeOK, LoopInRange, [Next]_vars, NEW x \in Slots, Settled(x)
    PROVE  Settled(x)'
<1>1. CASE completed[x] > 0
  BY <1>1, LeasesMove, CompletedGrows DEF TypeOK, Settled
<1>2. CASE x \in failed
  <2>1. failed \subseteq failed'
    BY DEF Next, SchedulerStep, LoopStep, Begin, RunIntervalEngine, Collect, EndOfTick, Finalize,
       LeaseStep, PersistFails, Dies, Boot, ReadWorldState, UpsertWorldState, WallClock,
       schedVars, vars
  <2>. QED
    BY <1>2, <2>1 DEF Settled
<1>. QED
  BY <1>1, <1>2 DEF Settled

LEMMA SettledUpToStays ==
    ASSUME TypeOK, LoopInRange, [Next]_vars, NEW t \in Nat, t <= MaxTick, SettledUpTo(t)
    PROVE  SettledUpTo(t)'
<1> SUFFICES ASSUME NEW e \in Engines, NEW u \in 1..t, Due(e, u) PROVE Settled(<<e, u>>)'
  BY DEF SettledUpTo, Due
<1>1. <<e, u>> \in Slots
  BY SchedulerAssumption DEF Slots
<1>. QED
  BY <1>1, SettledStays DEF SettledUpTo

\* A step of the scheduler is about one worker, or about none.
LEMMA OneActs ==
    ASSUME TypeOK, LoopInRange, [Next]_vars, NEW w \in Workers
    PROVE  \/ loop'[w] = loop[w] /\ job'[w] = job[w] /\ mem'[w] = mem[w]
           \/ SchedulerStep(w)
<1>1. ASSUME NEW v \in Workers, v # w, SchedulerStep(v)
      PROVE  loop'[w] = loop[w] /\ job'[w] = job[w] /\ mem'[w] = mem[w]
  <2>1. job'[w] = job[w]
    <3>1. CASE RunIntervalEngine(v) \/ Collect(v) \/ LeaseStep(v) \/ Dies(v)
      <4>1. WorkerStep(v)
        BY <3>1, CurrentIsSlot DEF RunIntervalEngine, Collect, LeaseStep, Dies, WorkerStep
      <4>. QED
        BY <1>1, <4>1, WorkerMovesAlone DEF TypeOK
    <3>2. CASE \/ \E delta \in 1..MaxDelta : Begin(v, delta)
               \/ EndOfTick(v) \/ Finalize(v) \/ PersistFails(v) \/ Boot(v)
      BY <3>2 DEF Begin, EndOfTick, Finalize, PersistFails, Boot, leaseVars
    <3>. QED
      BY <1>1, <3>1, <3>2 DEF SchedulerStep, LoopStep
  <2>2. loop'[w] = loop[w] /\ mem'[w] = mem[w]
    BY <1>1 DEF TypeOK, SchedulerStep, LoopStep, Begin, RunIntervalEngine, Collect, EndOfTick,
       Finalize, LeaseStep, PersistFails, Dies, Boot, schedVars
  <2>. QED
    BY <2>1, <2>2
<1>2. CASE \/ \E v \in Writers : ReadWorldState(v) \/ UpsertWorldState(v)
           \/ WallClock \/ UNCHANGED vars
  BY <1>2 DEF ReadWorldState, UpsertWorldState, WallClock, TimePasses, schedVars, leaseVars, vars
<1>. QED
  BY <1>1, <1>2 DEF Next

LEMMA CurrentRunStays ==
    ASSUME TypeOK, LoopInRange, [Next]_vars, NEW w \in Workers, AtEngine(w),
           loop'[w] = loop[w], completed[Current(w)] > 0
    PROVE  (completed[Current(w)] > 0)'
<1>1. Current(w)' = Current(w)
  BY DEF Current
<1>2. completed'[Current(w)] > 0
  BY CurrentIsSlot, LeasesMove, CompletedGrows DEF TypeOK
<1>. QED
  BY <1>1, <1>2

\* What a job that is under way becomes.
LEMMA JobProgress ==
    ASSUME TypeOK, LoopInRange, JobsOfLoops, ReportsFollowRuns, NEW w \in Workers, LeaseStep(w)
    PROVE  /\ AtEngine(w) /\ loop' = loop
           /\ \/ job'[w].slot = Current(w) /\ job'[w].result = "none"
              \/ job'[w].step = "idle" /\ job'[w].result \in {"unresolved", "error"}
              \/ /\ job'[w].step = "idle" /\ job'[w].result \in {"ran", "resolved"}
                 /\ (completed[Current(w)] > 0)'
<1>1. AtEngine(w) /\ job[w].slot = Current(w) /\ job[w].result = "none" /\ loop' = loop
  BY DEF LeaseStep, JobStep, TryClaim, WriteClaim, StartEngine, EngineReturns, EngineFails, MarkDone,
     RecordDone, CheckMarked, MarkFailed, ExpireLease, CheckDenied, QueryFails, JobsOfLoops, At, schedVars
<1>2. Current(w)' = Current(w) /\ Current(w) \in Slots
  BY <1>1, CurrentIsSlot DEF Current
<1>3. job[w] \in Job /\ job \in [Workers -> Job] /\ LeaseTypeOK
  BY DEF TypeOK, LeaseTypeOK
<1>4. CASE TryClaim(w) \/ WriteClaim(w) \/ StartEngine(w) \/ EngineReturns(w) \/ EngineFails(w)
           \/ MarkDone(w)
  BY <1>1, <1>3, <1>4
  DEF TryClaim, WriteClaim, StartEngine, EngineReturns, EngineFails, MarkDone, Goto, Job
<1>5. CASE RecordDone(w)
  <2>1. completed[Current(w)] > 0 /\ completed' = completed
    BY <1>1, <1>5 DEF RecordDone, At, ReportsFollowRuns
  <2>. QED
    BY <1>1, <1>2, <1>3, <1>5, <2>1 DEF RecordDone, Finish, Rest
<1>6. CASE CheckMarked(w) \/ CheckDenied(w)
  <2>1. IsDone(Current(w)) => completed[Current(w)] > 0
    BY <1>2 DEF ReportsFollowRuns
  <2>2. completed' = completed
    BY <1>6 DEF CheckMarked, CheckDenied
  <2>. QED
    BY <1>1, <1>2, <1>3, <1>6, <2>1, <2>2 DEF CheckMarked, CheckDenied, Finish, Rest
<1>7. CASE MarkFailed(w) \/ ExpireLease(w) \/ QueryFails(w)
  BY <1>1, <1>3, <1>7 DEF MarkFailed, ExpireLease, QueryFails, Goto, Finish, Rest, Job
<1>. QED
  BY <1>1, <1>4, <1>5, <1>6, <1>7 DEF LeaseStep, JobStep

LEMMA JobsOfLoopsStep ==
    ASSUME TypeOK, LoopInRange, JobsOfLoops, ReportsFollowRuns, [Next]_vars
    PROVE  JobsOfLoops'
<1> SUFFICES ASSUME NEW w \in Workers
    PROVE  /\ ~At(w, "idle")' => /\ AtEngine(w)' /\ job'[w].slot = Current(w)'
                                 /\ job'[w].result = "none"
           /\ job'[w].result # "none" => AtEngine(w)'
           /\ job'[w].result \in {"ran", "resolved"} => (completed[Current(w)] > 0)'
  BY DEF JobsOfLoops
<1>0. /\ job \in [Workers -> Job] /\ loop \in [Workers -> Loop]
      /\ ~At(w, "idle") => /\ AtEngine(w) /\ job[w].slot = Current(w)
                           /\ job[w].result = "none"
      /\ job[w].result # "none" => AtEngine(w)
      /\ job[w].result \in {"ran", "resolved"} => completed[Current(w)] > 0
  BY DEF JobsOfLoops, TypeOK, LeaseTypeOK
<1>1. CASE loop'[w] = loop[w] /\ job'[w] = job[w]
  <2>1. (AtEngine(w)' <=> AtEngine(w)) /\ Current(w)' = Current(w)
    BY <1>1 DEF AtEngine, InTick, Current
  <2>. QED
    BY <1>0, <1>1, <2>1, CurrentRunStays DEF At
<1>2. CASE RunIntervalEngine(w)
  <2>1. (AtEngine(w)' <=> AtEngine(w)) /\ Current(w)' = Current(w)
    BY <1>2 DEF RunIntervalEngine, schedVars, AtEngine, InTick, Current
  <2>. QED
    BY <1>0, <1>2, <2>1 DEF RunIntervalEngine, Ask
<1>3. CASE Collect(w) \/ Dies(w)
  BY <1>0, <1>3 DEF Collect, Dies, Deliver, WorkerDies, Finish, Rest, At
<1>4. CASE \/ \E delta \in 1..MaxDelta : Begin(w, delta)
           \/ EndOfTick(w) \/ Finalize(w) \/ PersistFails(w) \/ Boot(w)
  <2>1. ~AtEngine(w)
    <3>1. CASE EndOfTick(w)
      BY <3>1, LoopFacts DEF AtEngine, EndOfTick
    <3>2. CASE \/ \E delta \in 1..MaxDelta : Begin(w, delta)
               \/ Finalize(w) \/ PersistFails(w) \/ Boot(w)
      BY <3>2 DEF AtEngine, InTick, Begin, Finalize, PersistFails, Boot
    <3>. QED
      BY <1>4, <3>1, <3>2
  <2>2. job' = job
    BY <1>4 DEF Begin, EndOfTick, Finalize, PersistFails, Boot, leaseVars
  <2>. QED
    BY <1>0, <2>1, <2>2 DEF At
<1>5. CASE LeaseStep(w)
  <2>1. (AtEngine(w)' <=> AtEngine(w)) /\ Current(w)' = Current(w)
    BY <1>5, JobProgress DEF AtEngine, InTick, Current
  <2>. QED
    BY <1>5, <2>1, JobProgress DEF At
<1>. QED
  BY <1>1, <1>2, <1>3, <1>4, <1>5, OneActs DEF SchedulerStep, LoopStep

LEMMA DueIsSlot ==
    ASSUME NEW r \in Loop, r.tick > 0, NEW i \in 1..Len(EngineOrder)
    PROVE  <<EngineOrder[i], r.tick>> \in Slots
<1>1. EngineOrder[i] \in Engines /\ r.tick \in Ticks
  BY SchedulerAssumption DEF Loop
<1>. QED
  BY <1>1 DEF Slots

LEMMA RecordFacts ==
    ASSUME NEW r \in Loop
    PROVE  /\ r.tick \in Nat /\ r.tick <= MaxTick /\ Len(EngineOrder) \in Nat
           /\ r.at \in 1..Len(EngineOrder) + 1
BY SchedulerAssumption DEF Loop

LEMMA ConsistentStays ==
    ASSUME TypeOK, LoopInRange, [Next]_vars, NEW r \in Loop, r.step = "tick" => r.tick > 0,
           Consistent(r)
    PROVE  Consistent(r)'
<1>1. r.step = "tick" => SettledUpTo(r.tick - 1)'
  <2>1. r.step = "tick" => r.tick - 1 \in Nat /\ r.tick - 1 <= MaxTick
    BY RecordFacts, SchedulerAssumption
  <2>. QED
    BY <2>1, SettledUpToStays DEF Consistent
<1>2. r.step = "persist" => SettledUpTo(r.tick)'
  BY RecordFacts, SettledUpToStays DEF Consistent
<1>3. ASSUME r.step = "tick", ~r.stuck, NEW i \in 1..r.at - 1, Due(EngineOrder[i], r.tick)
      PROVE  Settled(<<EngineOrder[i], r.tick>>)'
  <2>1. i \in 1..Len(EngineOrder)
    BY RecordFacts
  <2>. QED
    BY <1>3, <2>1, DueIsSlot, SettledStays DEF Consistent
<1>. QED
  BY <1>1, <1>2, <1>3 DEF Consistent, Due

\* A tick whose engines have all been settled is settled.
LEMMA TickSettled ==
    ASSUME NEW r \in Loop, r.step = "tick", r.tick > 0, ~r.stuck, r.at > Len(EngineOrder),
           Consistent(r)
    PROVE  SettledUpTo(r.tick)
<1> SUFFICES ASSUME NEW e \in Engines, NEW u \in 1..r.tick, Due(e, u) PROVE Settled(<<e, u>>)
  BY DEF SettledUpTo
<1>1. CASE u = r.tick
  <2>1. PICK i \in 1..Len(EngineOrder) : e = EngineOrder[i]
    BY SchedulerAssumption
  <2>2. i \in 1..r.at - 1
    BY RecordFacts
  <2>. QED
    BY <1>1, <2>1, <2>2 DEF Consistent
<1>2. CASE u # r.tick
  <2>1. u \in 1..r.tick - 1
    BY <1>2, RecordFacts
  <2>. QED
    BY <2>1 DEF Consistent, SettledUpTo
<1>. QED
  BY <1>1, <1>2

\* A tick that has just been begun, with everything before it settled.
LEMMA TickBegun ==
    ASSUME NEW t \in 1..MaxTick, NEW end, SettledUpTo(t - 1)
    PROVE  Consistent(Running(t, end, NextDue(1, t), FALSE))
<1>1. 1 \in 1..Len(EngineOrder) + 1 /\ t \in Nat
  BY SchedulerAssumption
<1>2. \A k \in 1..NextDue(1, t) - 1 : ~Due(EngineOrder[k], t)
  BY <1>1, NextDueFirst
<1>. QED
  BY <1>2 DEF Consistent, Running

LEMMA ConsistentThere ==
    ASSUME NEW w \in Workers, NEW r, loop'[w] = r, Consistent(r)'
    PROVE  Consistent(loop[w])'
BY DEF Consistent, SettledUpTo, Settled, Due

LEMMA LoopSettledStep ==
    ASSUME TypeOK, ClockInv, [Next]_vars
    PROVE  LoopSettled'
<1>. USE DEF ClockInv
<1> SUFFICES ASSUME NEW w \in Workers PROVE Consistent(loop[w])'
  BY DEF LoopSettled
<1>0. /\ loop \in [Workers -> Loop] /\ loop[w] \in Loop /\ mem[w] \in 0..MaxTick
      /\ MaxTick \in Nat /\ stored \in 0..MaxTick
      /\ InTick(w) => 0 < loop[w].tick /\ loop[w].tick <= loop[w].end
      /\ Consistent(loop[w])
  BY LoopFacts DEF TypeOK, LoopInRange, LoopSettled
<1>1. ASSUME NEW r \in Loop, loop'[w] = r, r.step = "tick" => r.tick > 0, Consistent(r)
      PROVE  Consistent(loop[w])'
  BY <1>1, ConsistentStays, ConsistentThere
<1>2. CASE loop'[w] = loop[w]
  <2>1. loop[w].step = "tick" => loop[w].tick > 0
    BY <1>0, LoopFacts DEF InTick
  <2>. QED
    BY <1>0, <1>1, <1>2, <2>1
<1>3. ASSUME NEW t \in 0..MaxTick, SettledUpTo(t), loop'[w] = Reached(t)
      PROVE  Consistent(loop[w])'
  <2>1. Reached(t) \in Loop /\ Reached(t).step # "tick" /\ Consistent(Reached(t))
    BY <1>3, LoopFacts DEF Reached, Outside, Loop, Consistent
  <2>. QED
    BY <1>1, <1>3, <2>1
<1>4. ASSUME NEW t \in 1..MaxTick, NEW end \in 0..MaxTick, SettledUpTo(t - 1),
             loop'[w] = Running(t, end, NextDue(1, t), FALSE)
      PROVE  Consistent(loop[w])'
  <2>. DEFINE r == Running(t, end, NextDue(1, t), FALSE)
  <2>1. NextDue(1, t) \in 1..Len(EngineOrder) + 1
    <3>1. 1 \in 1..Len(EngineOrder) + 1 /\ t \in Nat
      BY SchedulerAssumption
    <3>. QED
      BY <3>1, NextDueType
  <2>2. r \in Loop /\ r.tick = t
    BY <1>0, <2>1 DEF Running, Loop
  <2>3. Consistent(r) /\ loop'[w] = r
    BY <1>4, TickBegun
  <2>. HIDE DEF r
  <2>. QED
    BY <1>1, <2>2, <2>3
<1>5. ASSUME NEW delta \in 1..MaxDelta, Begin(w, delta) PROVE Consistent(loop[w])'
  <2>1. mem[w] + 1 \in 1..MaxTick /\ mem[w] + delta \in 0..MaxTick
    BY <1>0, <1>5, SchedulerAssumption DEF Begin
  <2>2. SettledUpTo((mem[w] + 1) - 1)
    <3>1. mem[w] <= stored /\ (mem[w] + 1) - 1 = mem[w]
      BY <1>0 DEF MemoryNeverAhead
    <3>. QED
      BY <1>0, <3>1 DEF SettledUpTo
  <2>3. loop'[w] = Running(mem[w] + 1, mem[w] + delta, NextDue(1, mem[w] + 1), FALSE)
    BY <1>0, <1>5 DEF Begin
  <2>. QED
    BY <1>4, <2>1, <2>2, <2>3
<1>6. ASSUME EndOfTick(w) PROVE Consistent(loop[w])'
  <2>1. /\ InTick(w) /\ loop[w].tick \in 1..MaxTick /\ loop[w].end \in 0..MaxTick
        /\ loop[w].tick <= loop[w].end /\ loop[w].at > Len(EngineOrder)
    BY <1>0, <1>6, LoopFacts DEF EndOfTick
  <2>2. CASE loop[w].stuck
    <3>1. SettledUpTo(loop[w].tick - 1) /\ loop[w].tick - 1 \in 0..MaxTick
      BY <1>0, <2>1 DEF Consistent, InTick
    <3>2. loop'[w] = Reached(loop[w].tick - 1)
      BY <1>0, <1>6, <2>2 DEF EndOfTick
    <3>. QED
      BY <1>3, <3>1, <3>2
  <2>3. CASE ~loop[w].stuck
    <3>1. SettledUpTo(loop[w].tick)
      BY <1>0, <2>1, <2>3, TickSettled DEF InTick
    <3>2. CASE loop[w].tick = loop[w].end
      <4>1. loop'[w] = Reached(loop[w].tick)
        BY <1>0, <1>6, <2>3, <3>2 DEF EndOfTick
      <4>. QED
        BY <1>3, <2>1, <3>1, <4>1
    <3>3. CASE loop[w].tick # loop[w].end
      <4>1. loop[w].tick + 1 \in 1..MaxTick /\ (loop[w].tick + 1) - 1 = loop[w].tick
        BY <1>0, <2>1, <3>3
      <4>2. loop'[w] = Running(loop[w].tick + 1, loop[w].end, NextDue(1, loop[w].tick + 1), FALSE)
        BY <1>0, <1>6, <2>3, <3>3 DEF EndOfTick
      <4>. QED
        BY <1>4, <2>1, <3>1, <4>1, <4>2
    <3>. QED
      BY <3>2, <3>3
  <2>. QED
    BY <2>2, <2>3
<1>7. ASSUME Collect(w) PROVE Consistent(loop[w])'
  <2>1. /\ InTick(w) /\ loop[w].at \in 1..Len(EngineOrder) /\ Len(EngineOrder) \in Nat
        /\ loop[w].tick \in 1..MaxTick /\ job[w].result \in Results \ {"none"}
    <3>1. AtEngine(w) /\ Deliver(w)
      BY <1>7 DEF Collect
    <3>2. job[w].result \in Results \ {"none"}
      BY <3>1 DEF Deliver, TypeOK, LeaseTypeOK, Job
    <3>. QED
      BY <1>0, <3>1, <3>2, LoopFacts DEF AtEngine
  <2>2. PICK r \in Loop : loop'[w] = r
    BY LoopTypeStep
  <2>3. /\ r.step = "tick" /\ r.tick = loop[w].tick
        /\ r.at = NextDue(loop[w].at + 1, loop[w].tick)
        /\ ~r.stuck => ~loop[w].stuck /\ job[w].result # "unresolved"
    <3>1. PICK stuck : stuck = (loop[w].stuck \/ job[w].result = "unresolved")
      OBVIOUS
    <3>2. r = Running(loop[w].tick, loop[w].end, NextDue(loop[w].at + 1, loop[w].tick), stuck)
      <4>1. loop'[w] = Running(loop[w].tick, loop[w].end, NextDue(loop[w].at + 1, loop[w].tick),
                               loop[w].stuck \/ job[w].result = "unresolved")
        BY <1>0, <1>7 DEF Collect
      <4>. QED
        BY <2>2, <3>1, <4>1, Zenon
    <3>3. r.step = "tick" /\ r.tick = loop[w].tick /\ r.stuck = stuck
          /\ r.at = NextDue(loop[w].at + 1, loop[w].tick)
      BY <3>2 DEF Running
    <3>. QED
      BY <3>1, <3>3, Zenon
  <2>4. PICK t \in 1..MaxTick : t = loop[w].tick
    BY <2>1
  <2>5. SettledUpTo(t - 1)'
    <3>1. SettledUpTo(t - 1) /\ t - 1 \in Nat /\ t - 1 <= MaxTick
      BY <1>0, <2>1, <2>4 DEF Consistent, InTick
    <3>. QED
      BY <3>1, SettledUpToStays
  <2>6. ASSUME ~r.stuck, NEW i \in 1..r.at - 1, Due(EngineOrder[i], t)
        PROVE  Settled(<<EngineOrder[i], t>>)'
    <3>1. /\ loop[w].at + 1 \in 1..Len(EngineOrder) + 1 /\ t \in Nat
          /\ r.at \in 1..Len(EngineOrder) + 1
      <4>1. loop[w].at + 1 \in 1..Len(EngineOrder) + 1 /\ t \in Nat
        BY <2>1
      <4>. QED
        BY <2>3, <2>4, <4>1, NextDueType
    <3>2. i \in 1..Len(EngineOrder)
      BY <2>1, <3>1
    <3>3. <<EngineOrder[i], t>> \in Slots
      BY <1>0, <2>1, <2>4, <3>2, DueIsSlot
    <3>4. CASE i < loop[w].at
      <4>1. i \in 1..loop[w].at - 1
        BY <2>1, <3>2, <3>4
      <4>. QED
        BY <1>0, <2>1, <2>3, <2>4, <2>6, <3>3, <4>1, SettledStays DEF Consistent, InTick
    <3>5. CASE i = loop[w].at
      <4>1. Current(w) = <<EngineOrder[i], t>>
        BY <2>4, <3>5 DEF Current
      <4>2. CASE job[w].result = "error"
        BY <1>7, <4>1, <4>2 DEF Collect, Settled
      <4>3. CASE job[w].result \in {"ran", "resolved"}
        <5>1. Settled(<<EngineOrder[i], t>>)
          BY <4>1, <4>3 DEF JobsOfLoops, Settled
        <5>. QED
          BY <3>3, <5>1, SettledStays
      <4>. QED
        BY <2>1, <2>3, <2>6, <4>2, <4>3 DEF Results
    <3>6. CASE i > loop[w].at
      <4>1. \A k \in loop[w].at + 1..r.at - 1 : ~Due(EngineOrder[k], t)
        BY <2>3, <2>4, <3>1, NextDueFirst
      <4>2. i \in loop[w].at + 1..r.at - 1
        BY <2>1, <3>1, <3>2, <3>6
      <4>. QED
        BY <2>6, <4>1, <4>2
    <3>. QED
      BY <2>1, <3>2, <3>4, <3>5, <3>6
  <2>7. Consistent(r)'
    BY <2>3, <2>4, <2>5, <2>6 DEF Consistent, Due
  <2>. QED
    BY <2>2, <2>7, ConsistentThere
<1>8. CASE Finalize(w) \/ PersistFails(w) \/ Dies(w) \/ Boot(w)
  <2>1. loop'[w].step \in {"idle", "down"}
    BY <1>0, <1>8 DEF Finalize, PersistFails, Dies, Boot, Quiet, Outside
  <2>. QED
    BY <2>1 DEF Consistent
<1>9. CASE RunIntervalEngine(w) \/ LeaseStep(w)
  BY <1>2, <1>9 DEF RunIntervalEngine, LeaseStep, schedVars
<1>. QED
  BY <1>2, <1>5, <1>6, <1>7, <1>8, <1>9, OneActs DEF SchedulerStep, LoopStep

LEMMA StoredStep ==
    ASSUME TypeOK, ClockInv, [Next]_vars
    PROVE  /\ stored' >= stored /\ SettledUpTo(stored)' /\ MemoryNeverAhead'
           /\ \A v \in Writers : snapshot'[v] # NoSnapshot => snapshot'[v] <= stored'
<1>. USE DEF ClockInv
<1>0. /\ stored \in 0..MaxTick /\ stored' \in 0..MaxTick /\ MaxTick \in Nat
      /\ mem \in [Workers -> 0..MaxTick] /\ mem' \in [Workers -> 0..MaxTick]
      /\ snapshot \in [Writers -> (0..MaxTick) \cup {NoSnapshot}]
  BY TypeStep, SchedulerAssumption DEF TypeOK
<1>1. ASSUME NEW t \in 0..MaxTick, SettledUpTo(t), stored' = t PROVE SettledUpTo(stored)'
  <2>1. SettledUpTo(t)'
    BY <1>0, <1>1, SettledUpToStays
  <2>. QED
    BY <1>1, <2>1 DEF SettledUpTo, Settled, Due
<1>2. ASSUME NEW w \in Workers, Finalize(w) \/ PersistFails(w)
      PROVE  stored' >= stored /\ SettledUpTo(stored)' /\ MemoryNeverAhead' /\ snapshot' = snapshot
  <2>1. loop[w].tick \in 0..MaxTick /\ SettledUpTo(loop[w].tick)
    BY <1>2, LoopFacts DEF Finalize, PersistFails, LoopSettled, Consistent
  <2>2. /\ stored' \in {stored, loop[w].tick} /\ stored' >= stored
        /\ Finalize(w) => stored' >= loop[w].tick
    BY <1>0, <1>2, <2>1 DEF Finalize, PersistFails, Later
  <2>3. SettledUpTo(stored)'
    BY <1>0, <1>1, <2>1, <2>2
  <2>4. MemoryNeverAhead'
    BY <1>0, <1>2, <2>1, <2>2 DEF Finalize, PersistFails, MemoryNeverAhead
  <2>. QED
    BY <1>2, <2>2, <2>3, <2>4 DEF Finalize, PersistFails
<1>3. ASSUME NEW v \in Writers, ReadWorldState(v) \/ UpsertWorldState(v)
      PROVE  /\ stored' = stored /\ mem' = mem
             /\ \A u \in Writers : snapshot'[u] # NoSnapshot => snapshot'[u] <= stored'
  BY <1>0, <1>3 DEF ReadWorldState, UpsertWorldState, Later
<1>4. ASSUME NEW w \in Workers, Dies(w) \/ Boot(w)
      PROVE  stored' = stored /\ MemoryNeverAhead' /\ snapshot' = snapshot
  BY <1>0, <1>4 DEF Dies, Boot, MemoryNeverAhead
<1>6. ASSUME stored' = stored PROVE stored' >= stored /\ SettledUpTo(stored)'
  BY <1>0, <1>1, <1>6
<1>7. ASSUME stored' = stored, mem' = mem PROVE MemoryNeverAhead'
  BY <1>7 DEF MemoryNeverAhead
<1>8. ASSUME stored' >= stored, snapshot' = snapshot
      PROVE  \A v \in Writers : snapshot'[v] # NoSnapshot => snapshot'[v] <= stored'
  BY <1>0, <1>8
<1>9. CASE stored' = stored /\ mem' = mem /\ snapshot' = snapshot
  BY <1>6, <1>7, <1>8, <1>9
<1>10. CASE \/ \E w \in Workers : \/ \E delta \in 1..MaxDelta : Begin(w, delta)
                                \/ RunIntervalEngine(w) \/ Collect(w) \/ EndOfTick(w)
                                \/ LeaseStep(w)
           \/ WallClock \/ UNCHANGED vars
  BY <1>9, <1>10 DEF Begin, RunIntervalEngine, Collect, EndOfTick, LeaseStep, WallClock, schedVars, vars
<1>. QED
  BY <1>0, <1>2, <1>3, <1>4, <1>6, <1>7, <1>8, <1>10 DEF Next, SchedulerStep, LoopStep

LEMMA ClockInvStep == TypeOK /\ ClockInv /\ [Next]_vars => ClockInv'
<1> SUFFICES ASSUME TypeOK, ClockInv, [Next]_vars PROVE ClockInv'
  OBVIOUS
<1>1. ReportsFollowRuns'
  BY LeasesMove, ReportsFollowRunsStep DEF ClockInv, TypeOK
<1>. QED
  BY <1>1, TypeStep, StoredStep, LoopSettledStep, JobsOfLoopsStep DEF ClockInv

LEMMA ClockInvInit == Init => ClockInv
<1> SUFFICES ASSUME Init PROVE ClockInv
  OBVIOUS
<1>1. \A w \in Workers : /\ loop[w].step = "idle" /\ mem[w] = 0 /\ At(w, "idle")
                        /\ job[w].result = "none"
  BY DEF Init, LeaseInit, Quiet, Outside, Rest, At
<1>2. SettledUpTo(stored)
  BY DEF Init, SettledUpTo
<1>3. stored = 0 /\ \A v \in Writers : snapshot[v] = NoSnapshot
  BY DEF Init
<1>4. WritersMatched /\ ReportsFollowRuns
  BY DEF Init, LeaseInit, WritersMatched, ReportsFollowRuns, IsDone, Rest
<1>. QED
  BY <1>1, <1>2, <1>3, <1>4 DEF ClockInv, MemoryNeverAhead, LoopInRange, LoopSettled, Consistent,
     JobsOfLoops, InTick

LEMMA ClockInvAlways == Spec => [](TypeOK /\ ClockInv)
<1>1. Init => TypeOK /\ ClockInv
  BY InitType, ClockInvInit
<1>2. TypeOK /\ ClockInv /\ [Next]_vars => (TypeOK /\ ClockInv)'
  BY TypeStep, ClockInvStep DEF ClockInv
<1>. QED
  BY <1>1, <1>2, PTL DEF Spec

\* A clock in memory never runs ahead of WorldState: MemoryNeverAhead
\* (_finalize_advance, restore, _CLOCK_MONOTONIC_SET).
THEOREM ClocksBehind == Spec => []MemoryNeverAhead
<1>1. ClockInv => MemoryNeverAhead
  BY DEF ClockInv
<1>. QED
  BY <1>1, ClockInvAlways, PTL

\* No due engine tick is passed by unless it was run or its failure logged:
\* NoTickSilentlySkipped (_run_interval_engine, advance).
THEOREM NothingSkipped == Spec => []NoTickSilentlySkipped
<1>1. ClockInv => NoTickSilentlySkipped
  BY DEF ClockInv, NoTickSilentlySkipped, SettledUpTo, Settled
<1>. QED
  BY <1>1, ClockInvAlways, PTL

=============================================================================
