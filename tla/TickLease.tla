----------------------------- MODULE TickLease -----------------------------
(***************************************************************************)
(* One engine tick, once, among several scheduler workers.                 *)
(*                                                                         *)
(* TickScheduler._run_distributed_engine_tick (scheduler/tick_scheduler.py)*)
(* claims the TickLease node of (engine, tick) in Neo4j, runs the engine   *)
(* under a timeout one second shorter than the lease, and marks the node   *)
(* done or failed (graph/scheduling/tick_lease_queries.py).                *)
(*                                                                         *)
(* The store is at Neo4j's default isolation, read committed.  A query     *)
(* tests the node it has matched and takes the node's write lock only at   *)
(* its SET, where nothing is tested again, so match and write are steps of *)
(* their own; only the creation of an absent node is one step, under the   *)
(* uniqueness constraint tick_lease_key.  A query of a dead process has    *)
(* taken effect or never will.  Time is counted in whole seconds.          *)
(***************************************************************************)
EXTENDS Integers, FiniteSets

CONSTANTS
    Workers,     \* owner ids: hostname-pid of each process
    Engines,     \* the engines that run at an interval: gossip and event
    Ticks,       \* tick ids
    NoLease,     \* no TickLease node
    NoSlot,      \* the slot of a worker that has no job
    TTL,         \* TICK_LEASE_TTL_SECONDS, at least 1
    MaxTime,     \* bound on the wall clock
    MaxFaults,   \* bound on crashes and store errors
    Prompt       \* TRUE: queries take no time and timeouts fire on time

ASSUME LeaseAssumption ==
    /\ TTL \in Nat \ {0} /\ MaxTime \in Nat /\ MaxFaults \in Nat
    /\ Prompt \in BOOLEAN

Slots == Engines \X Ticks

\* The bound on what is counted: more than can come of MaxFaults faults.
MaxCount == MaxFaults + 2

Lease == [owner : Workers, until : Nat, status : {"claimed", "done"}]

ASSUME LeaseNullAssumption == NoLease \notin Lease /\ NoSlot \notin Slots

VARIABLES
    now,         \* wall clock
    lease,       \* the TickLease nodes
    job,         \* what each worker is doing about an engine tick
    completed,   \* how often an engine tick has run to its end, up to MaxCount (history)
    faults,      \* how many crashes and store errors there were
    stale,       \* leases written by a query whose test no longer held (history)
    broken       \* engine ticks of which an attempt has been cut short (history)

leaseVars == <<now, lease, job, completed, faults, stale, broken>>

-----------------------------------------------------------------------------
\* ask: now_ms is read; claim: TRY_CLAIM has matched a node it may claim;
\* granted: claimed, engine not started; run: inside the engine; mark, fail:
\* about to report to the lease; record, expire: MARK_DONE, MARK_FAILED has
\* matched; check, denied: about to query is_done.  The result of the last job
\* is what its caller got: ran = (False, row), resolved = (False, None),
\* unresolved = (True, None), error = an exception.
Steps   == {"idle", "ask", "claim", "granted", "run", "mark", "record", "check",
            "fail", "expire", "denied"}
Results == {"none", "ran", "resolved", "unresolved", "error"}

Job == [step : Steps, slot : Slots \cup {NoSlot}, seen : Nat, deadline : Nat,
        result : Results]

Rest(result) == [step |-> "idle", slot |-> NoSlot, seen |-> 0, deadline |-> 0,
                 result |-> result]

LeaseInit ==
    /\ now = 0
    /\ lease = [x \in Slots |-> NoLease]
    /\ job = [w \in Workers |-> Rest("none")]
    /\ completed = [x \in Slots |-> 0]
    /\ faults = 0
    /\ stale = {} /\ broken = {}

\* Mutant: the engine may run as long as the lease.
RunLimitMutant == TTL

\* _run_with_lease_timeout.
RunLimit == IF TTL - 1 > 1 THEN TTL - 1 ELSE 1

IsDone(x) == lease[x] # NoLease /\ lease[x].status = "done"

\* The WHERE of MARK_DONE and MARK_FAILED.
Holds(w, x) == lease[x] # NoLease /\ lease[x].owner = w /\ lease[x].status = "claimed"

At(w, step) == job[w].step = step

Goto(w, step) == job' = [job EXCEPT ![w].step = step]

Finish(w, result) == job' = [job EXCEPT ![w] = Rest(result)]

\* The SET of a query that has matched x, whether its test still holds or not.
Overwrite(x, new, holds) ==
    /\ lease' = [lease EXCEPT ![x] = new]
    /\ stale' = IF holds THEN stale ELSE stale \cup {x}

-----------------------------------------------------------------------------
\* try_claim reads the worker's own clock before it sends the query.
Ask(w, x) ==
    /\ At(w, "idle") /\ job[w].result = "none"
    /\ job' = [job EXCEPT ![w] = [step |-> "ask", slot |-> x, seen |-> now,
                                  deadline |-> 0, result |-> "none"]]
    /\ UNCHANGED <<now, lease, completed, faults, stale, broken>>

\* Mutants: a done tick can be claimed again; own leases skip the test of the
\* status; an abandoned lease is never taken over; a lease ends a second early.
ClaimableWhenDone(w, x) ==
    lease[x].owner = w \/ lease[x].until <= job[w].seen

ClaimableWhenOwn(w, x) ==
    \/ lease[x].owner = w
    \/ lease[x].status # "done" /\ lease[x].until <= job[w].seen

ClaimableForEver(w, x) ==
    lease[x].status # "done" /\ lease[x].owner = w

ClaimableEarly(w, x) ==
    /\ lease[x].status # "done"
    /\ lease[x].owner = w \/ lease[x].until <= job[w].seen + 1

\* should_claim: the node is not done, and it is the worker's own or expired.
Claimable(w, x) ==
    /\ lease[x].status # "done"
    /\ lease[x].owner = w \/ lease[x].until <= job[w].seen

Claim(w) == [owner |-> w, until |-> job[w].seen + TTL, status |-> "claimed"]

\* MERGE creates an absent node; of an existing one it decides should_claim.
TryClaim(w) ==
    LET x == job[w].slot IN
    /\ At(w, "ask")
    /\ IF lease[x] = NoLease
       THEN /\ lease' = [lease EXCEPT ![x] = Claim(w)]
            /\ Goto(w, "granted")
       ELSE /\ Goto(w, IF Claimable(w, x) THEN "claim" ELSE "denied")
            /\ UNCHANGED lease
    /\ UNCHANGED <<now, completed, faults, stale, broken>>

\* The FOREACH ... SET of TRY_CLAIM.
WriteClaim(w) ==
    LET x == job[w].slot IN
    /\ At(w, "claim")
    /\ Overwrite(x, Claim(w), Claimable(w, x))
    /\ Goto(w, "granted")
    /\ UNCHANGED <<now, completed, faults, broken>>

StartEngine(w) ==
    /\ At(w, "granted")
    /\ job' = [job EXCEPT ![w].step = "run", ![w].deadline = now + RunLimit]
    /\ UNCHANGED <<now, lease, completed, faults, stale, broken>>

EngineReturns(w) ==
    LET x == job[w].slot IN
    /\ At(w, "run")
    /\ Goto(w, "mark")
    /\ completed' = [completed EXCEPT ![x] = IF @ < MaxCount THEN @ + 1 ELSE @]
    /\ UNCHANGED <<now, lease, faults, stale, broken>>

\* The engine raises, or asyncio.wait_for cancels it at its deadline.
EngineFails(w) ==
    /\ At(w, "run")
    /\ Goto(w, "fail")
    /\ broken' = broken \cup {job[w].slot}
    /\ UNCHANGED <<now, lease, completed, faults, stale>>

\* MARK_DONE matches the worker's own claim, or nothing.
MarkDone(w) ==
    /\ At(w, "mark")
    /\ Goto(w, IF Holds(w, job[w].slot) THEN "record" ELSE "check")
    /\ UNCHANGED <<now, lease, completed, faults, stale, broken>>

\* The SET of MARK_DONE: the owner is not among what it sets.
WriteDone(w) ==
    LET x == job[w].slot IN
    Overwrite(x, [lease[x] EXCEPT !.status = "done", !.until = 0], Holds(w, x))

RecordDone(w) ==
    /\ At(w, "record")
    /\ WriteDone(w)
    /\ Finish(w, "ran")
    /\ UNCHANGED <<now, completed, faults, broken>>

\* Somebody else's mark_done is as good; otherwise a RuntimeError.
CheckMarked(w) ==
    /\ At(w, "check")
    /\ Finish(w, IF IsDone(job[w].slot) THEN "ran" ELSE "error")
    /\ UNCHANGED <<now, lease, completed, faults, stale, broken>>

\* MARK_FAILED matches the worker's own claim, or nothing; then the engine's
\* exception is raised again.
MarkFailed(w) ==
    /\ At(w, "fail")
    /\ IF Holds(w, job[w].slot) THEN Goto(w, "expire") ELSE Finish(w, "error")
    /\ UNCHANGED <<now, lease, completed, faults, stale, broken>>

\* Mutant: the lease is expired relative to the clock.
ExpireLeaseMutant(w) ==
    LET x == job[w].slot IN
    /\ At(w, "expire")
    /\ Overwrite(x, [lease[x] EXCEPT !.until = now - 1], Holds(w, x))
    /\ Finish(w, "error")
    /\ UNCHANGED <<now, completed, faults, broken>>

\* The SET of MARK_FAILED.
ExpireLease(w) ==
    LET x == job[w].slot IN
    /\ At(w, "expire")
    /\ Overwrite(x, [lease[x] EXCEPT !.until = 0], Holds(w, x))
    /\ Finish(w, "error")
    /\ UNCHANGED <<now, completed, faults, broken>>

\* The claim was refused: done by somebody else, or not done yet.
CheckDenied(w) ==
    /\ At(w, "denied")
    /\ Finish(w, IF IsDone(job[w].slot) THEN "resolved" ELSE "unresolved")
    /\ UNCHANGED <<now, lease, completed, faults, stale, broken>>

\* The caller goes on with the result.
Deliver(w) ==
    /\ At(w, "idle") /\ job[w].result # "none"
    /\ Finish(w, "none")
    /\ UNCHANGED <<now, lease, completed, faults, stale, broken>>

\* A fault leaves a lease behind that is good for TTL more seconds; the bound
\* keeps enough time on the clock for it to expire.
Fault ==
    /\ faults < MaxFaults
    /\ now + TTL <= MaxTime
    /\ faults' = faults + 1

\* A lease query raises, and the exception goes to the caller.  What it has
\* written stays written: the claim of a worker at granted whose answer is lost,
\* the done of one at record.
QueryFails(w) ==
    /\ job[w].step \in Steps \ {"idle", "run"}
    /\ Fault
    /\ \/ UNCHANGED <<lease, stale>>
       \/ At(w, "record") /\ WriteDone(w)
    /\ Finish(w, "error")
    /\ broken' = broken \cup {job[w].slot}
    /\ UNCHANGED <<now, completed>>

\* The process dies and its job with it.  A process that comes back may have
\* the same hostname and pid, hence the same owner id.
WorkerDies(w) ==
    /\ Fault
    /\ Finish(w, "none")
    /\ broken' = IF At(w, "idle") THEN broken ELSE broken \cup {job[w].slot}
    /\ UNCHANGED <<now, lease, completed, stale>>

\* Prompt workers spend time in the engine only, and stop at their deadline.
TimePasses ==
    /\ now < MaxTime
    /\ Prompt => \A w \in Workers :
                    /\ job[w].step \notin {"ask", "claim", "granted", "mark", "record", "expire"}
                    /\ At(w, "run") => now < job[w].deadline
    /\ now' = now + 1
    /\ UNCHANGED <<lease, job, completed, faults, stale, broken>>

\* What a worker does about the job it has.
JobStep(w) ==
    \/ TryClaim(w) \/ WriteClaim(w) \/ CheckDenied(w)
    \/ StartEngine(w) \/ EngineReturns(w) \/ EngineFails(w)
    \/ MarkDone(w) \/ RecordDone(w) \/ CheckMarked(w)
    \/ MarkFailed(w) \/ ExpireLease(w)
    \/ QueryFails(w)

WorkerStep(w) ==
    \/ \E x \in Slots : Ask(w, x)
    \/ JobStep(w)
    \/ Deliver(w)
    \/ WorkerDies(w)

LeaseNext == (\E w \in Workers : WorkerStep(w)) \/ TimePasses

LeaseSpec == LeaseInit /\ [][LeaseNext]_leaseVars

-----------------------------------------------------------------------------
LeaseTypeOK ==
    /\ now \in 0..MaxTime
    /\ lease \in [Slots -> Lease \cup {NoLease}]
    /\ job \in [Workers -> Job]
    /\ \A w \in Workers : At(w, "idle") \/ job[w].slot \in Slots
    /\ completed \in [Slots -> 0..MaxCount]
    /\ faults \in 0..MaxFaults
    /\ stale \subseteq Slots /\ broken \subseteq Slots

\* Leases outlast the engine's timeout (_run_with_lease_timeout keeps one second
\* between the two, unless TTL is 1), and queries take no time.
InTime == Prompt /\ TTL > 1

\* No two workers are inside the same engine tick at once, if queries are
\* prompt, the lease is longer than the shortest timeout wait_for is given,
\* and no query has written the lease after its test had ceased to hold
\* (TRY_CLAIM, _run_with_lease_timeout).
ExclusiveRun ==
    InTime =>
        \A w, v \in Workers :
            /\ At(w, "run") /\ At(v, "run") /\ job[w].slot = job[v].slot
            /\ job[w].slot \notin stale
            => w = v

\* Whatever is claimed, taken over or asked for again, an engine tick runs to its
\* end a second time only if a crash or a store error has kept the first run off
\* the record, and once more for each such fault, if queries are prompt and none
\* has written the lease after its test had ceased to hold (TRY_CLAIM, MARK_DONE,
\* _run_with_lease_timeout).
RerunsCostFaults ==
    InTime => \A x \in Slots \ stale : completed[x] <= 1 + faults

\* While every attempt at an engine tick has gone through, prompt workers have
\* run it once at most and no query has written its lease on a test that no
\* longer held: overlapping claims need an expired lease, and a lease expires
\* when an attempt was cut short (TRY_CLAIM, MARK_FAILED, _run_with_lease_timeout).
CleanTicksRunOnce ==
    InTime => \A x \in Slots \ broken : x \notin stale /\ completed[x] <= 1

\* A done engine tick stays done: it is not claimed again, nor expired by a
\* worker that finds out late that its own attempt has failed, except by a query
\* that had matched the lease before it was done (TRY_CLAIM, MARK_FAILED).
DoneIsFinal ==
    [][\A x \in Slots : IsDone(x) => lease'[x] = lease[x] \/ x \in stale']_leaseVars

-----------------------------------------------------------------------------
(***************************************************************************)
(* The inductive invariants behind the properties above.                   *)
(***************************************************************************)
\* A worker that reports has run its engine tick to the end, and so has whoever
\* left a lease done.
ReportsFollowRuns ==
    /\ \A w \in Workers : job[w].step \in {"mark", "record"} => completed[job[w].slot] > 0
    /\ \A x \in Slots : IsDone(x) => completed[x] > 0

\* A query that writes has matched a node.
WritersMatched ==
    \A w \in Workers : job[w].step \in {"claim", "record", "expire"} => lease[job[w].slot] # NoLease

\* While a prompt worker is about to run or runs an engine tick, its claim
\* is good for longer than the run can take.
ClaimCoversRun ==
    InTime =>
        \A w \in Workers :
            LET x == job[w].slot IN
            /\ job[w].step \in {"ask", "claim"} => job[w].seen = now
            /\ x \notin stale =>
                 /\ At(w, "granted") => Holds(w, x) /\ lease[x].until = now + TTL
                 /\ At(w, "run") => /\ Holds(w, x)
                                    /\ job[w].deadline < lease[x].until
                                    /\ now <= job[w].deadline

\* What a prompt worker has run to the end is on record, or about to be.
Recorded(x) ==
    \/ IsDone(x)
    \/ \E w \in Workers : /\ job[w].step \in {"mark", "record"} /\ job[w].slot = x
                          /\ Holds(w, x) /\ lease[x].until > now

\* All runs to the end but the one on record have cost a fault.
RerunsPaid ==
    InTime => \A x \in Slots \ stale : completed[x] <= faults + (IF Recorded(x) THEN 1 ELSE 0)

\* An engine tick that a worker looks at without having claimed it.
Watches(w, x) == job[w].slot = x => job[w].step \in {"ask", "denied"}

\* The one claim of an engine tick while nothing went wrong.
SoleClaim(w, x) ==
    /\ job[w].slot = x /\ Holds(w, x) /\ lease[x].until > now
    /\ \/ job[w].step \in {"granted", "run"} /\ completed[x] = 0
       \/ job[w].step \in {"mark", "record"} /\ completed[x] = 1

\* While no attempt at it was cut short, an engine tick is not begun, in the
\* hands of one worker, or done.
Untroubled(x) ==
    /\ x \notin stale
    /\ \/ /\ \A w \in Workers : Watches(w, x)
          /\ \/ lease[x] = NoLease /\ completed[x] = 0
             \/ IsDone(x) /\ completed[x] = 1
       \/ \E w \in Workers :
             /\ SoleClaim(w, x)
             /\ \A v \in Workers \ {w} : Watches(v, x)

CleanTicksUntroubled == InTime => \A x \in Slots \ broken : Untroubled(x)

=============================================================================
