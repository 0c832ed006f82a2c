--------------------------- MODULE TickScheduler ---------------------------
(***************************************************************************)
(* The tick loop and the world clock, over the tick leases.                *)
(*                                                                         *)
(* Every worker process has a GameClock in memory, restored from the       *)
(* WorldState node when the process starts.  TickScheduler.advance         *)
(* (scheduler/tick_scheduler.py) goes through the ticks after that clock,  *)
(* asks the leases for each interval engine that is due, stops at a tick   *)
(* that another worker has not finished, writes the tick it reached to     *)
(* WorldState, and only then moves the clock in memory.  The autopilot     *)
(* (scheduler/tick_autopilot.py) and POST /v1/clock/advance call it again  *)
(* and again, whatever came of the last call.                              *)
(***************************************************************************)
EXTENDS TickLease, Sequences

CONSTANTS
    EngineOrder,   \* gossip before event, as _run_tick_body calls them
    Interval,      \* GOSSIP_INTERVAL_TICKS and EVENT_INTERVAL_TICKS
    MaxTick,       \* bound on the world clock
    MaxDelta,      \* MAX_DELTA_TICKS
    Writers,       \* who else writes WorldState: story pacing, event emission, the clock route
    NoSnapshot     \* a writer that has not read WorldState

ASSUME SchedulerAssumption ==
    /\ MaxTick \in Nat /\ MaxDelta \in Nat \ {0}
    /\ Ticks = 1..MaxTick
    /\ EngineOrder \in Seq(Engines) /\ Engines = {EngineOrder[i] : i \in DOMAIN EngineOrder}
    /\ Interval \in [Engines -> Nat \ {0}]
    /\ NoSnapshot \notin 0..MaxTick

VARIABLES
    mem,         \* GameClock._tick_id of each worker
    stored,      \* WorldState.tick_id in the graph
    loop,        \* how far each worker's advance() has come
    failed,      \* engine ticks whose failure was logged as tick_engine_error (history)
    breaks,      \* how often the clock could not be persisted
    snapshot     \* tick_id of the WorldState that a writer is about to write back whole

schedVars == <<mem, stored, loop, failed, breaks, snapshot>>
vars == <<leaseVars, schedVars>>

-----------------------------------------------------------------------------
\* idle: outside advance(); tick: inside _run_tick_body; persist: inside
\* _finalize_advance; down: no process.  tick is the tick being run, then the
\* tick reached; at is the next interval engine that is due; stuck is
\* gossip_unresolved or event_unresolved.
Loop == [step : {"idle", "tick", "persist", "down"},
         tick : 0..MaxTick, end : 0..MaxTick,
         at : 1..Len(EngineOrder) + 1, stuck : BOOLEAN]

Running(tick, end, at, stuck) ==
    [step |-> "tick", tick |-> tick, end |-> end, at |-> at, stuck |-> stuck]

Outside(step, tick) == [step |-> step, tick |-> tick, end |-> 0, at |-> 1, stuck |-> FALSE]

Quiet(step) == Outside(step, 0)

Reached(tick) == Outside("persist", tick)

Init ==
    /\ LeaseInit
    /\ mem = [w \in Workers |-> 0]
    /\ stored = 0
    /\ loop = [w \in Workers |-> Quiet("idle")]
    /\ failed = {}
    /\ breaks = 0
    /\ snapshot = [v \in Writers |-> NoSnapshot]

\* Mutant: the clock is set, as every other field of WorldState is.
LaterMutant(t) == t

\* The CASE of _CLOCK_MONOTONIC_SET.
Later(t) == IF stored > t THEN stored ELSE t

Due(e, t) == t % Interval[e] = 0

\* The first interval engine at place i or later that is due at tick t.
NextDue(i, t) ==
    CHOOSE j \in i..Len(EngineOrder) + 1 :
        /\ j <= Len(EngineOrder) => Due(EngineOrder[j], t)
        /\ \A k \in i..j - 1 : ~Due(EngineOrder[k], t)

InTick(w) == loop[w].step = "tick"

\* The engine tick that the loop of w has come to.
Current(w) == <<EngineOrder[loop[w].at], loop[w].tick>>

AtEngine(w) == InTick(w) /\ loop[w].at <= Len(EngineOrder)

-----------------------------------------------------------------------------
\* advance() takes the scheduler's lock and reads the clock in memory.
Begin(w, delta) ==
    /\ loop[w].step = "idle"
    /\ mem[w] + delta <= MaxTick
    /\ loop' = [loop EXCEPT ![w] = Running(mem[w] + 1, mem[w] + delta,
                                           NextDue(1, mem[w] + 1), FALSE)]
    /\ UNCHANGED <<leaseVars, mem, stored, failed, breaks, snapshot>>

RunIntervalEngine(w) ==
    /\ AtEngine(w)
    /\ Ask(w, Current(w))
    /\ UNCHANGED schedVars

\* Mutant: the last engine decides whether the tick is resolved.
CollectMutant(w) ==
    /\ AtEngine(w)
    /\ Deliver(w)
    /\ failed' = IF job[w].result = "error" THEN failed \cup {Current(w)} ELSE failed
    /\ loop' = [loop EXCEPT ![w] =
         Running(@.tick, @.end, NextDue(@.at + 1, @.tick), job[w].result = "unresolved")]
    /\ UNCHANGED <<mem, stored, breaks, snapshot>>

\* _run_distributed_interval: an exception is logged and counts as resolved.
Collect(w) ==
    /\ AtEngine(w)
    /\ Deliver(w)
    /\ failed' = IF job[w].result = "error" THEN failed \cup {Current(w)} ELSE failed
    /\ loop' = [loop EXCEPT ![w] =
         Running(@.tick, @.end, NextDue(@.at + 1, @.tick),
                 @.stuck \/ job[w].result = "unresolved")]
    /\ UNCHANGED <<mem, stored, breaks, snapshot>>

\* Mutants: the loop makes one round too many; an unresolved tick is counted.
EndOfTickTooFar(w) ==
    /\ InTick(w) /\ loop[w].at > Len(EngineOrder)
    /\ loop' = [loop EXCEPT ![w] =
         IF @.stuck THEN Reached(@.tick - 1)
         ELSE IF @.tick > @.end THEN Reached(@.tick)
         ELSE Running(@.tick + 1, @.end, NextDue(1, @.tick + 1), FALSE)]
    /\ UNCHANGED <<leaseVars, mem, stored, failed, breaks, snapshot>>

EndOfTickCounted(w) ==
    /\ InTick(w) /\ loop[w].at > Len(EngineOrder)
    /\ loop' = [loop EXCEPT ![w] =
         IF @.stuck \/ @.tick = @.end THEN Reached(@.tick)
         ELSE Running(@.tick + 1, @.end, NextDue(1, @.tick + 1), FALSE)]
    /\ UNCHANGED <<leaseVars, mem, stored, failed, breaks, snapshot>>

\* The engines that run at every tick have run as well; their failures are
\* logged and change nothing here.  An unresolved tick is not counted.
EndOfTick(w) ==
    /\ InTick(w) /\ loop[w].at > Len(EngineOrder)
    /\ loop' = [loop EXCEPT ![w] =
         IF @.stuck THEN Reached(@.tick - 1)
         ELSE IF @.tick = @.end THEN Reached(@.tick)
         ELSE Running(@.tick + 1, @.end, NextDue(1, @.tick + 1), FALSE)]
    /\ UNCHANGED <<leaseVars, mem, stored, failed, breaks, snapshot>>

\* persist_clock_state, then GameClock.advance in memory, which nobody else
\* looks at in between; memory consolidation follows and touches no clock.
Finalize(w) ==
    /\ loop[w].step = "persist"
    /\ stored' = Later(loop[w].tick)
    /\ mem' = [mem EXCEPT ![w] = loop[w].tick]
    /\ loop' = [loop EXCEPT ![w] = Quiet("idle")]
    /\ UNCHANGED <<leaseVars, failed, breaks, snapshot>>

\* The write raises, before or after it took effect: advance() is left and the
\* clock in memory stays.
PersistFails(w) ==
    /\ loop[w].step = "persist"
    /\ faults + breaks < MaxFaults
    /\ breaks' = breaks + 1
    /\ stored' \in {stored, Later(loop[w].tick)}
    /\ loop' = [loop EXCEPT ![w] = Quiet("idle")]
    /\ UNCHANGED <<leaseVars, mem, failed, snapshot>>

\* The process dies wherever it is.
Dies(w) ==
    /\ loop[w].step # "down"
    /\ faults + breaks < MaxFaults
    /\ WorkerDies(w)
    /\ mem' = [mem EXCEPT ![w] = 0]
    /\ loop' = [loop EXCEPT ![w] = Quiet("down")]
    /\ UNCHANGED <<stored, failed, breaks, snapshot>>

\* lifespan: get_world_state, then GameClock.restore.
Boot(w) ==
    /\ loop[w].step = "down"
    /\ mem' = [mem EXCEPT ![w] = IF @ > stored THEN @ ELSE stored]
    /\ loop' = [loop EXCEPT ![w] = Quiet("idle")]
    /\ UNCHANGED <<leaseVars, stored, failed, breaks, snapshot>>

\* A writer reads WorldState, copies it with some other field changed, and
\* writes all of the copy back later.
ReadWorldState(v) ==
    /\ snapshot[v] = NoSnapshot
    /\ snapshot' = [snapshot EXCEPT ![v] = stored]
    /\ UNCHANGED <<leaseVars, mem, stored, loop, failed, breaks>>

UpsertWorldState(v) ==
    /\ snapshot[v] # NoSnapshot
    /\ stored' = Later(snapshot[v])
    /\ snapshot' = [snapshot EXCEPT ![v] = NoSnapshot]
    /\ UNCHANGED <<leaseVars, mem, loop, failed, breaks>>

\* The lease protocol goes on below the loop.
LeaseStep(w) ==
    /\ JobStep(w)
    /\ faults' # faults => faults + breaks < MaxFaults
    /\ UNCHANGED schedVars

WallClock == TimePasses /\ UNCHANGED schedVars

LoopStep(w) ==
    RunIntervalEngine(w) \/ Collect(w) \/ EndOfTick(w) \/ Finalize(w)

SchedulerStep(w) ==
    \/ \E delta \in 1..MaxDelta : Begin(w, delta)
    \/ LoopStep(w)
    \/ LeaseStep(w)
    \/ PersistFails(w)
    \/ Dies(w)
    \/ Boot(w)

Next ==
    \/ \E w \in Workers : SchedulerStep(w)
    \/ \E v \in Writers : ReadWorldState(v) \/ UpsertWorldState(v)
    \/ WallClock

Spec == Init /\ [][Next]_vars

\* Time goes on however busy the workers are, the event loop runs every task
\* that can run, the autopilot calls advance() for ever, wait_for ends every
\* engine, a dead process is started again, and an engine that is run again
\* and again does not fail every time: two workers whose engines do can keep
\* each other at one tick, each in the other's way.
Fairness ==
    /\ \A w \in Workers :
         /\ WF_vars(\E delta \in 1..MaxDelta : Begin(w, delta))
         /\ WF_vars(LoopStep(w))
         /\ WF_vars(LeaseStep(w) /\ faults' = faults)
         /\ SF_vars(LeaseStep(w) /\ EngineReturns(w))
         /\ WF_vars(Boot(w))
    /\ SF_vars(WallClock)

FairSpec == Spec /\ Fairness

-----------------------------------------------------------------------------
TypeOK ==
    /\ LeaseTypeOK
    /\ mem \in [Workers -> 0..MaxTick]
    /\ stored \in 0..MaxTick
    /\ loop \in [Workers -> Loop]
    /\ failed \subseteq Slots
    /\ breaks \in 0..MaxFaults
    /\ snapshot \in [Writers -> (0..MaxTick) \cup {NoSnapshot}]

\* No worker is ahead of the graph, so a restart never runs a tick again that
\* the process had counted: a failed write, a stale WorldState written back
\* and a slower worker's write all leave the stored clock where it was or
\* further (_finalize_advance, _CLOCK_MONOTONIC_SET).
MemoryNeverAhead == \A w \in Workers : mem[w] <= stored

\* The stored clock passes an engine tick only when somebody has run it to its
\* end, or its failure has been logged: a worker that finds the tick in another's
\* hands stops there (_run_interval_engine, advance).
NoTickSilentlySkipped ==
    \A e \in Engines, t \in 1..stored :
        Due(e, t) => completed[<<e, t>>] > 0 \/ <<e, t>> \in failed

\* Crashes, store errors and leases left behind delay the world, they do not
\* stop it: in the end every worker's clock is at the last tick.
EveryClockArrives == <>[](\A w \in Workers : mem[w] = MaxTick)

-----------------------------------------------------------------------------
(***************************************************************************)
(* The inductive invariant behind NoTickSilentlySkipped and                *)
(* MemoryNeverAhead.                                                       *)
(***************************************************************************)
Settled(x) == completed[x] > 0 \/ x \in failed

\* Everything due up to tick t has been dealt with.
SettledUpTo(t) == \A e \in Engines, u \in 1..t : Due(e, u) => Settled(<<e, u>>)

LoopInRange ==
    \A w \in Workers : InTick(w) => 0 < loop[w].tick /\ loop[w].tick <= loop[w].end

\* What a loop that has come to r relies on.
Consistent(r) ==
    /\ r.step = "tick" => SettledUpTo(r.tick - 1)
    /\ r.step = "tick" /\ ~r.stuck =>
         \A i \in 1..r.at - 1 : Due(EngineOrder[i], r.tick) => Settled(<<EngineOrder[i], r.tick>>)
    /\ r.step = "persist" => SettledUpTo(r.tick)

LoopSettled == \A w \in Workers : Consistent(loop[w])

\* A job is about the engine tick the loop has come to, and its result is true.
JobsOfLoops ==
    \A w \in Workers :
        /\ ~At(w, "idle") => /\ AtEngine(w) /\ job[w].slot = Current(w)
                             /\ job[w].result = "none"
        /\ job[w].result # "none" => AtEngine(w)
        /\ job[w].result \in {"ran", "resolved"} => completed[Current(w)] > 0

ClockInv ==
    /\ SettledUpTo(stored)
    /\ \A v \in Writers : snapshot[v] # NoSnapshot => snapshot[v] <= stored
    /\ MemoryNeverAhead /\ LoopInRange /\ LoopSettled /\ JobsOfLoops
    /\ WritersMatched /\ ReportsFollowRuns

=============================================================================
