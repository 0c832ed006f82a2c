-------------------------- MODULE TickLease_proofs --------------------------
(***************************************************************************)
(* Proofs about the tick leases, for any number of workers, engines and    *)
(* ticks, any lease time and any number of faults.                         *)
(***************************************************************************)
EXTENDS TickLease, TLAPS

LEMMA ClaimTyped ==
    ASSUME LeaseTypeOK, NEW w \in Workers
    PROVE  Claim(w) \in Lease /\ Claim(w) # NoLease
<1>1. job[w].seen + TTL \in Nat
  BY LeaseAssumption DEF LeaseTypeOK, Job
<1>2. Claim(w) \in Lease
  BY <1>1 DEF Claim, Lease
<1>. QED
  BY <1>2, LeaseNullAssumption

\* What a report makes of the lease it has matched.
LEMMA ReportTyped ==
    ASSUME LeaseTypeOK, WritersMatched, NEW w \in Workers, job[w].step \in {"record", "expire"}
    PROVE  LET x == job[w].slot IN
           /\ x \in Slots /\ lease[x] \in Lease
           /\ [lease[x] EXCEPT !.status = "done", !.until = 0] \in Lease
           /\ [lease[x] EXCEPT !.until = 0] \in Lease
<1>1. job[w].slot \in Slots /\ lease[job[w].slot] \in Lease
  BY DEF LeaseTypeOK, WritersMatched, At
<1>. QED
  BY <1>1 DEF Lease

LEMMA LeaseTypeStep ==
    ASSUME LeaseTypeOK, WritersMatched, [LeaseNext]_leaseVars PROVE LeaseTypeOK'
<1>. USE LeaseAssumption DEF LeaseTypeOK, At
<1>1. ASSUME NEW w \in Workers, NEW x \in Slots, Ask(w, x) PROVE LeaseTypeOK'
  BY <1>1 DEF Ask, Job, Steps, Results
<1>2. ASSUME NEW w \in Workers, TryClaim(w) PROVE LeaseTypeOK'
  <2>1. job[w].slot \in Slots
    BY <1>2 DEF TryClaim
  <2>2. Claim(w) \in Lease
    BY ClaimTyped
  <2>3. lease' \in [Slots -> Lease \cup {NoLease}]
    BY <1>2, <2>1, <2>2 DEF TryClaim
  <2>4. job' \in [Workers -> Job] /\ job'[w].slot = job[w].slot
    BY <1>2 DEF TryClaim, Goto, Job, Steps
  <2>5. \A v \in Workers \ {w} : job'[v] = job[v]
    BY <1>2 DEF TryClaim, Goto
  <2>. QED
    BY <1>2, <2>1, <2>3, <2>4, <2>5 DEF TryClaim
<1>13. ASSUME NEW w \in Workers, WriteClaim(w) PROVE LeaseTypeOK'
  <2>1. job[w].slot \in Slots
    BY <1>13 DEF WriteClaim
  <2>2. Claim(w) \in Lease
    BY ClaimTyped
  <2>. QED
    BY <1>13, <2>1, <2>2 DEF WriteClaim, Overwrite, Goto, Job, Steps, Results
<1>3. ASSUME NEW w \in Workers, StartEngine(w) PROVE LeaseTypeOK'
  <2>1. now + RunLimit \in Nat
    BY DEF RunLimit
  <2>2. ASSUME NEW d \in Nat PROVE [job[w] EXCEPT !.step = "run", !.deadline = d] \in Job
    <3>1. job[w] \in Job /\ "run" \in Steps
      BY DEF Steps
    <3>. QED
      BY <3>1 DEF Job
  <2>3. job' \in [Workers -> Job]
    BY <1>3, <2>1, <2>2 DEF StartEngine
  <2>. QED
    BY <1>3, <2>3 DEF StartEngine, Job
<1>4. ASSUME NEW w \in Workers, EngineReturns(w) PROVE LeaseTypeOK'
  <2>1. completed' \in [Slots -> 0..MaxCount]
    BY <1>4, LeaseAssumption DEF EngineReturns, MaxCount
  <2>. QED
    BY <1>4, <2>1 DEF EngineReturns, Goto, Job, Steps
<1>5. ASSUME NEW w \in Workers, EngineFails(w) PROVE LeaseTypeOK'
  BY <1>5 DEF EngineFails, Goto, Job, Steps
<1>6. ASSUME NEW w \in Workers, MarkDone(w) PROVE LeaseTypeOK'
  BY <1>6 DEF MarkDone, Goto, Job, Steps
<1>14. ASSUME NEW w \in Workers, RecordDone(w) PROVE LeaseTypeOK'
  BY <1>14, ReportTyped DEF RecordDone, WriteDone, Overwrite, Finish, Rest, Job, Steps, Results
<1>7. ASSUME NEW w \in Workers, CheckMarked(w) \/ CheckDenied(w) PROVE LeaseTypeOK'
  BY <1>7 DEF CheckMarked, CheckDenied, Finish, Rest, Job, Steps, Results
<1>8. ASSUME NEW w \in Workers, MarkFailed(w) PROVE LeaseTypeOK'
  BY <1>8 DEF MarkFailed, Goto, Finish, Rest, Job, Steps, Results
<1>15. ASSUME NEW w \in Workers, ExpireLease(w) PROVE LeaseTypeOK'
  BY <1>15, ReportTyped DEF ExpireLease, Overwrite, Finish, Rest, Job, Steps, Results
<1>9. ASSUME NEW w \in Workers, QueryFails(w) PROVE LeaseTypeOK'
  <2>1. lease' \in [Slots -> Lease \cup {NoLease}] /\ stale' \subseteq Slots
    BY <1>9, ReportTyped DEF QueryFails, WriteDone, Overwrite
  <2>2. job[w].slot \in Slots
    BY <1>9 DEF QueryFails, Steps
  <2>. QED
    BY <1>9, <2>1, <2>2 DEF QueryFails, Fault, Finish, Rest, Job, Steps, Results
<1>16. ASSUME NEW w \in Workers, WorkerDies(w) PROVE LeaseTypeOK'
  BY <1>16 DEF WorkerDies, Fault, Finish, Rest, Job, Steps, Results
<1>10. CASE TimePasses
  BY <1>10 DEF TimePasses
<1>11. ASSUME NEW w \in Workers, Deliver(w) PROVE LeaseTypeOK'
  BY <1>11 DEF Deliver, Finish, Rest, Job, Steps, Results
<1>12. CASE UNCHANGED leaseVars
  BY <1>12 DEF leaseVars
<1>. QED
  BY <1>1, <1>2, <1>3, <1>4, <1>5, <1>6, <1>7, <1>8, <1>9, <1>10, <1>11, <1>12, <1>13, <1>14,
     <1>15, <1>16
  DEF LeaseNext, WorkerStep, JobStep

-----------------------------------------------------------------------------
(* What a step does to a lease.                                            *)

Created(w, x) ==
    TryClaim(w) /\ job[w].slot = x /\ lease[x] = NoLease /\ lease'[x] = Claim(w)

Reclaimed(w, x) ==
    /\ WriteClaim(w) /\ job[w].slot = x /\ lease'[x] = Claim(w)
    /\ Claimable(w, x) \/ x \in stale'

Completed(w, x) ==
    /\ RecordDone(w) \/ QueryFails(w)
    /\ At(w, "record") /\ job[w].slot = x
    /\ lease'[x] = [lease[x] EXCEPT !.status = "done", !.until = 0]
    /\ Holds(w, x) \/ x \in stale'

Released(w, x) ==
    /\ ExpireLease(w) /\ job[w].slot = x
    /\ lease'[x] = [lease[x] EXCEPT !.until = 0]
    /\ Holds(w, x) \/ x \in stale'

LEMMA LeaseChanges ==
    ASSUME LeaseTypeOK, WritersMatched, [LeaseNext]_leaseVars, NEW x \in Slots
    PROVE  \/ lease'[x] = lease[x]
           \/ \E w \in Workers : \/ Created(w, x) \/ Reclaimed(w, x)
                                 \/ Completed(w, x) \/ Released(w, x)
<1>1. ASSUME NEW w \in Workers, TryClaim(w) PROVE lease'[x] = lease[x] \/ Created(w, x)
  BY <1>1 DEF TryClaim, Created, LeaseTypeOK
<1>2. ASSUME NEW w \in Workers, WriteClaim(w) PROVE lease'[x] = lease[x] \/ Reclaimed(w, x)
  BY <1>2 DEF WriteClaim, Overwrite, Reclaimed, LeaseTypeOK
<1>3. ASSUME NEW w \in Workers, RecordDone(w) PROVE lease'[x] = lease[x] \/ Completed(w, x)
  BY <1>3 DEF RecordDone, WriteDone, Overwrite, Completed, LeaseTypeOK
<1>4. ASSUME NEW w \in Workers, ExpireLease(w) PROVE lease'[x] = lease[x] \/ Released(w, x)
  BY <1>4 DEF ExpireLease, Overwrite, Released, LeaseTypeOK
<1>5. ASSUME NEW w \in Workers, QueryFails(w) PROVE lease'[x] = lease[x] \/ Completed(w, x)
  <2>1. CASE lease' = lease
    BY <2>1
  <2>2. CASE At(w, "record") /\ WriteDone(w)
    BY <1>5, <2>2 DEF WriteDone, Overwrite, Completed, LeaseTypeOK
  <2>. QED
    BY <1>5, <2>1, <2>2 DEF QueryFails
<1>. QED
  BY <1>1, <1>2, <1>3, <1>4, <1>5
  DEF LeaseNext, WorkerStep, JobStep, Ask, Deliver, StartEngine, EngineReturns, EngineFails,
      MarkDone, CheckMarked, MarkFailed, CheckDenied, WorkerDies, TimePasses, leaseVars

\* Histories only grow.
LEMMA HistoryGrows ==
    ASSUME [LeaseNext]_leaseVars
    PROVE  stale \subseteq stale' /\ broken \subseteq broken'
<1>1. ASSUME NEW w \in Workers, QueryFails(w)
      PROVE  stale \subseteq stale' /\ broken \subseteq broken'
  BY <1>1 DEF QueryFails, WriteDone, Overwrite
<1>2. ASSUME NEW w \in Workers, WriteClaim(w) \/ RecordDone(w) \/ ExpireLease(w)
      PROVE  stale \subseteq stale' /\ broken \subseteq broken'
  BY <1>2 DEF WriteClaim, RecordDone, ExpireLease, WriteDone, Overwrite
<1>. QED
  BY <1>1, <1>2
  DEF LeaseNext, WorkerStep, JobStep, Ask, Deliver, TryClaim, StartEngine, EngineReturns,
      EngineFails, MarkDone, CheckMarked, MarkFailed, CheckDenied, WorkerDies, TimePasses, leaseVars

LEMMA WorkerMovesAlone ==
    ASSUME LeaseTypeOK, NEW v \in Workers, NEW w \in Workers, WorkerStep(v)
    PROVE  now' = now /\ (v # w => job'[w] = job[w])
<1>1. CASE (\E x \in Slots : Ask(v, x)) \/ Deliver(v)
  BY <1>1 DEF Ask, Deliver, Finish, LeaseTypeOK
<1>2. CASE TryClaim(v) \/ WriteClaim(v) \/ StartEngine(v) \/ EngineReturns(v) \/ EngineFails(v)
  BY <1>2 DEF TryClaim, WriteClaim, StartEngine, EngineReturns, EngineFails, Goto, LeaseTypeOK
<1>3. CASE MarkDone(v) \/ RecordDone(v) \/ CheckMarked(v) \/ MarkFailed(v) \/ ExpireLease(v)
  BY <1>3 DEF MarkDone, RecordDone, CheckMarked, MarkFailed, ExpireLease, Goto, Finish, LeaseTypeOK
<1>4. CASE CheckDenied(v) \/ QueryFails(v) \/ WorkerDies(v)
  BY <1>4 DEF CheckDenied, QueryFails, WorkerDies, Finish, LeaseTypeOK
<1>. QED
  BY <1>1, <1>2, <1>3, <1>4 DEF WorkerStep, JobStep

\* A step moves one worker, or none and the clock.
LEMMA OneMoves ==
    ASSUME LeaseTypeOK, [LeaseNext]_leaseVars, NEW w \in Workers
    PROVE  \/ job'[w] = job[w] /\ (now' = now \/ TimePasses)
           \/ now' = now /\ WorkerStep(w)
<1>1. CASE TimePasses
  BY <1>1 DEF TimePasses
<1>2. CASE UNCHANGED leaseVars
  BY <1>2 DEF leaseVars
<1>3. CASE \E v \in Workers : WorkerStep(v)
  BY <1>3, WorkerMovesAlone
<1>. QED
  BY <1>1, <1>2, <1>3 DEF LeaseNext

\* A node that is there stays there.
LEMMA NodesStay ==
    ASSUME LeaseTypeOK, WritersMatched, [LeaseNext]_leaseVars, NEW x \in Slots, lease[x] # NoLease
    PROVE  lease'[x] # NoLease
<1>1. ASSUME NEW w \in Workers, Completed(w, x) \/ Released(w, x) PROVE lease'[x] # NoLease
  BY <1>1, ReportTyped, LeaseNullAssumption DEF Completed, Released, ExpireLease, At
<1>2. ASSUME NEW w \in Workers, Reclaimed(w, x) PROVE lease'[x] # NoLease
  BY <1>2, ClaimTyped DEF Reclaimed
<1>. QED
  BY <1>1, <1>2, LeaseChanges DEF Created

LEMMA WritersMatchedStep ==
    ASSUME LeaseTypeOK, WritersMatched, [LeaseNext]_leaseVars PROVE WritersMatched'
<1>1. SUFFICES ASSUME NEW w \in Workers, job'[w].step \in {"claim", "record", "expire"}
      PROVE  lease'[job'[w].slot] # NoLease
  BY DEF WritersMatched
<1>2. CASE job'[w] = job[w]
  <2>1. job[w].slot \in Slots /\ lease[job[w].slot] # NoLease
    BY <1>1, <1>2 DEF WritersMatched, LeaseTypeOK, At
  <2>. QED
    BY <1>2, <2>1, NodesStay
<1>3. CASE WorkerStep(w)
  <2>1. TryClaim(w) \/ MarkDone(w) \/ MarkFailed(w)
    BY <1>1, <1>3 DEF WorkerStep, JobStep, Ask, Deliver, WriteClaim, StartEngine, EngineReturns,
       EngineFails, RecordDone, CheckMarked, ExpireLease, CheckDenied, QueryFails, WorkerDies,
       Goto, Finish, Rest, LeaseTypeOK, Job
  <2>2. job'[w].slot = job[w].slot /\ job[w].slot \in Slots
    BY <1>1, <2>1 DEF TryClaim, MarkDone, MarkFailed, Goto, Finish, Rest, At, LeaseTypeOK, Job
  <2>3. lease[job[w].slot] # NoLease
    BY <1>1, <2>1 DEF TryClaim, MarkDone, MarkFailed, Goto, Finish, Rest, Holds, LeaseTypeOK, Job
  <2>. QED
    BY <2>2, <2>3, NodesStay
<1>. QED
  BY <1>2, <1>3, OneMoves

\* Every variable stays in its type (TickLease nodes and worker state), and a
\* query writes only what it has matched.
THEOREM LeaseTypeCorrect == LeaseSpec => [](LeaseTypeOK /\ WritersMatched)
<1>1. LeaseInit => LeaseTypeOK /\ WritersMatched
  BY LeaseAssumption
  DEF LeaseInit, LeaseTypeOK, WritersMatched, MaxCount, Rest, Job, Steps, Results, At
<1>. QED
  BY <1>1, LeaseTypeStep, WritersMatchedStep, PTL DEF LeaseSpec

-----------------------------------------------------------------------------
(* A done lease is final, but for a query that matched it before.          *)

LEMMA DoneStays ==
    ASSUME LeaseTypeOK, WritersMatched, [LeaseNext]_leaseVars, NEW x \in Slots, IsDone(x)
    PROVE  lease'[x] = lease[x] \/ x \in stale'
<1>1. ASSUME NEW w \in Workers PROVE ~Claimable(w, x) /\ ~Holds(w, x) /\ lease[x] # NoLease
  BY DEF Claimable, Holds, IsDone
<1>. QED
  BY <1>1, LeaseChanges DEF Created, Reclaimed, Completed, Released

\* A done engine tick stays done, except for a query that had matched its lease
\* before: DoneIsFinal (TRY_CLAIM, MARK_FAILED).
THEOREM DoneFinal == LeaseSpec => DoneIsFinal
<1>1. LeaseTypeOK /\ WritersMatched /\ [LeaseNext]_leaseVars
        => [\A x \in Slots : IsDone(x) => lease'[x] = lease[x] \/ x \in stale']_leaseVars
  BY DoneStays
<1>. QED
  BY <1>1, LeaseTypeCorrect, PTL DEF LeaseSpec, DoneIsFinal

-----------------------------------------------------------------------------
(* Prompt workers do not run an engine tick together.                      *)

\* Only its holder changes a lease that has not expired, or a stale query.
LEMMA OthersKeepLease ==
    ASSUME LeaseTypeOK, WritersMatched, ClaimCoversRun, InTime, [LeaseNext]_leaseVars,
           NEW w \in Workers, NEW x \in Slots, Holds(w, x), lease[x].until > now,
           job'[w] = job[w], x \notin stale'
    PROVE  lease'[x] = lease[x]
<1>1. ASSUME NEW v \in Workers, v # w, Reclaimed(v, x) PROVE FALSE
  <2>1. job[v].seen = now /\ now \in Nat /\ lease[x] \in Lease
    BY <1>1 DEF Reclaimed, WriteClaim, At, ClaimCoversRun, LeaseTypeOK, Holds
  <2>. QED
    BY <1>1, <2>1 DEF Reclaimed, Claimable, Holds, Lease
<1>2. ASSUME NEW v \in Workers, v # w PROVE ~Created(v, x) /\ ~Completed(v, x) /\ ~Released(v, x)
  BY <1>2 DEF Created, Completed, Released, Holds
<1>3. ~Created(w, x) /\ ~Reclaimed(w, x) /\ ~Completed(w, x) /\ ~Released(w, x)
  BY DEF Created, Reclaimed, Completed, Released, TryClaim, WriteClaim, RecordDone, QueryFails,
     ExpireLease, Goto, Finish, Rest, At, LeaseTypeOK, Job
<1>. QED
  BY <1>1, <1>2, <1>3, LeaseChanges

LEMMA ClaimCoversRunStep ==
    ASSUME LeaseTypeOK, WritersMatched, ClaimCoversRun, [LeaseNext]_leaseVars
    PROVE  ClaimCoversRun'
<1>. USE LeaseAssumption
<1>1. SUFFICES ASSUME InTime, NEW w \in Workers
      PROVE  /\ job'[w].step \in {"ask", "claim"} => job'[w].seen = now'
             /\ job'[w].slot \notin stale' =>
                  /\ At(w, "granted")' => /\ Holds(w, job[w].slot)'
                                          /\ lease'[job'[w].slot].until = now' + TTL
                  /\ At(w, "run")' => /\ Holds(w, job[w].slot)'
                                      /\ job'[w].deadline < lease'[job'[w].slot].until
                                      /\ now' <= job'[w].deadline
  BY DEF ClaimCoversRun, InTime
<1>2. now \in Nat /\ job[w] \in Job
  BY DEF LeaseTypeOK
<1>3. CASE job'[w] = job[w] /\ (now' = now \/ TimePasses)
  <2>1. ASSUME At(w, "granted") \/ At(w, "run"), job[w].slot \notin stale'
        PROVE  job[w].slot \notin stale /\ lease'[job[w].slot] = lease[job[w].slot]
    <3>1. job[w].slot \in Slots /\ job[w].slot \notin stale
      BY <2>1, HistoryGrows DEF LeaseTypeOK, At
    <3>2. Holds(w, job[w].slot) /\ lease[job[w].slot] \in Lease
      BY <1>1, <2>1, <3>1 DEF LeaseTypeOK, ClaimCoversRun, Holds
    <3>3. lease[job[w].slot].until > now
      BY <1>1, <1>2, <2>1, <3>1, <3>2 DEF ClaimCoversRun, Lease, Job
    <3>. QED
      BY <1>1, <1>3, <2>1, <3>1, <3>2, <3>3, OthersKeepLease
  <2>2. CASE now' = now
    BY <1>1, <1>3, <2>1, <2>2 DEF ClaimCoversRun, At, Holds
  <2>3. CASE TimePasses
    BY <1>1, <1>2, <1>3, <2>1, <2>3 DEF TimePasses, InTime, ClaimCoversRun, At, Holds, Job
  <2>. QED
    BY <1>3, <2>2, <2>3
<1>4. CASE now' = now /\ \E x \in Slots : Ask(w, x)
  BY <1>4 DEF Ask, At, LeaseTypeOK
<1>5. CASE now' = now /\ (TryClaim(w) \/ WriteClaim(w))
  <2>1. job[w].seen = now /\ job[w].slot \in Slots
    BY <1>1, <1>5 DEF TryClaim, WriteClaim, ClaimCoversRun, LeaseTypeOK, At
  <2>2. job'[w].slot = job[w].slot /\ job'[w].seen = job[w].seen
    BY <1>2, <1>5 DEF TryClaim, WriteClaim, Goto, LeaseTypeOK, Job
  <2>3. CASE job'[w].step = "granted"
    <3>1. lease'[job[w].slot] = Claim(w)
      BY <1>2, <1>5, <2>1, <2>3
      DEF TryClaim, WriteClaim, Overwrite, Goto, LeaseTypeOK, Job
    <3>2. Claim(w) # NoLease
      BY ClaimTyped
    <3>. QED
      BY <1>5, <2>1, <2>2, <2>3, <3>1, <3>2 DEF At, Holds, Claim
  <2>4. CASE job'[w].step # "granted"
    <3>1. job'[w].step \in {"claim", "denied"}
      BY <1>2, <1>5, <2>4 DEF TryClaim, WriteClaim, Goto, LeaseTypeOK, Job
    <3>. QED
      BY <1>5, <2>1, <2>2, <3>1 DEF At
  <2>. QED
    BY <2>3, <2>4
<1>6. CASE now' = now /\ StartEngine(w)
  <2>1. /\ job'[w].step = "run" /\ job'[w].slot = job[w].slot
        /\ job'[w].deadline = now + RunLimit /\ lease' = lease /\ stale' = stale
    BY <1>2, <1>6 DEF StartEngine, LeaseTypeOK, Job
  <2>2. job[w].slot \notin stale => Holds(w, job[w].slot) /\ lease[job[w].slot].until = now + TTL
    BY <1>1, <1>6 DEF StartEngine, ClaimCoversRun
  <2>3. RunLimit \in Nat /\ RunLimit < TTL
    BY <1>1 DEF RunLimit, InTime
  <2>. QED
    BY <1>2, <1>6, <2>1, <2>2, <2>3 DEF At, Holds
<1>7. CASE now' = now /\ (EngineReturns(w) \/ EngineFails(w) \/ MarkDone(w) \/ RecordDone(w)
                          \/ CheckMarked(w) \/ MarkFailed(w) \/ ExpireLease(w) \/ CheckDenied(w)
                          \/ QueryFails(w) \/ WorkerDies(w) \/ Deliver(w))
  <2>1. job'[w].step \in {"mark", "fail", "record", "check", "expire", "idle"}
    BY <1>2, <1>7 DEF Deliver, EngineReturns, EngineFails, MarkDone, RecordDone, CheckMarked,
       MarkFailed, ExpireLease, CheckDenied, QueryFails, WorkerDies, Goto, Finish, Rest,
       LeaseTypeOK, Job
  <2>. QED
    BY <2>1 DEF At
<1>. QED
  BY <1>3, <1>4, <1>5, <1>6, <1>7, OneMoves DEF WorkerStep, JobStep

\* Prompt workers never run one engine tick at the same time, unless a query has
\* overwritten its lease: ExclusiveRun (TRY_CLAIM and the timeout of
\* _run_with_lease_timeout).
THEOREM RunIsExclusive == LeaseSpec => []ExclusiveRun
<1>1. LeaseInit => ClaimCoversRun
  BY DEF LeaseInit, ClaimCoversRun, At, Rest
<1>2. LeaseTypeOK /\ WritersMatched /\ ClaimCoversRun /\ [LeaseNext]_leaseVars => ClaimCoversRun'
  BY ClaimCoversRunStep
<1>3. ClaimCoversRun => ExclusiveRun
  BY DEF ClaimCoversRun, ExclusiveRun, Holds
<1>. QED
  BY <1>1, <1>2, <1>3, LeaseTypeCorrect, PTL DEF LeaseSpec

-----------------------------------------------------------------------------
(* What is done has run.                                                   *)

\* Runs are counted, never forgotten.
LEMMA CompletedGrows ==
    ASSUME LeaseTypeOK, [LeaseNext]_leaseVars, NEW x \in Slots
    PROVE  /\ completed[x] \in Nat /\ completed'[x] \in Nat /\ completed'[x] >= completed[x]
           /\ completed'[x] <= completed[x] + 1
           /\ (~\E w \in Workers : EngineReturns(w) /\ job[w].slot = x)
                => completed'[x] = completed[x]
<1>1. ASSUME NEW w \in Workers, EngineReturns(w)
      PROVE  /\ completed'[x] \in Nat /\ completed'[x] >= completed[x]
             /\ completed'[x] <= completed[x] + 1
             /\ job[w].slot # x => completed'[x] = completed[x]
  BY <1>1 DEF EngineReturns, LeaseTypeOK
<1>2. CASE \A w \in Workers : ~EngineReturns(w)
  <2>1. completed' = completed
    BY <1>2 DEF LeaseNext, WorkerStep, JobStep, Ask, Deliver, TryClaim, WriteClaim, StartEngine,
       EngineFails, MarkDone, RecordDone, CheckMarked, MarkFailed, ExpireLease, CheckDenied,
       QueryFails, WorkerDies, TimePasses, leaseVars
  <2>. QED
    BY <2>1 DEF LeaseTypeOK
<1>. QED
  BY <1>1, <1>2 DEF LeaseTypeOK

\* Faults are counted.
LEMMA FaultsGrow ==
    ASSUME LeaseTypeOK, [LeaseNext]_leaseVars
    PROVE  /\ faults \in Nat /\ faults' \in Nat /\ faults' >= faults
           /\ (\E v \in Workers : QueryFails(v) \/ WorkerDies(v)) => faults' = faults + 1
<1>1. faults \in Nat
  BY LeaseAssumption DEF LeaseTypeOK
<1>2. ASSUME NEW v \in Workers, QueryFails(v) \/ WorkerDies(v) PROVE faults' = faults + 1
  BY <1>2 DEF QueryFails, WorkerDies, Fault
<1>3. CASE ~\E v \in Workers : QueryFails(v) \/ WorkerDies(v)
  <2>1. faults' = faults
    BY <1>3 DEF LeaseNext, WorkerStep, JobStep, Ask, Deliver, TryClaim, WriteClaim, StartEngine,
       EngineReturns, EngineFails, MarkDone, RecordDone, CheckMarked, MarkFailed, ExpireLease,
       CheckDenied, TimePasses, leaseVars
  <2>. QED
    BY <1>1, <1>3, <2>1
<1>. QED
  BY <1>1, <1>2, <1>3

LEMMA MarkersRan ==
    ASSUME LeaseTypeOK, ReportsFollowRuns, [LeaseNext]_leaseVars, NEW w \in Workers,
           job'[w].step \in {"mark", "record"}
    PROVE  (completed[job[w].slot] > 0)'
<1>1. CASE job'[w] = job[w]
  <2>1. job[w].slot \in Slots /\ completed[job[w].slot] > 0
    BY <1>1 DEF ReportsFollowRuns, At, LeaseTypeOK
  <2>. QED
    BY <1>1, <2>1, CompletedGrows
<1>2. CASE WorkerStep(w)
  <2>1. EngineReturns(w) \/ MarkDone(w)
    BY <1>2 DEF WorkerStep, JobStep, Ask, Deliver, TryClaim, WriteClaim, StartEngine, EngineFails,
       RecordDone, CheckMarked, MarkFailed, ExpireLease, CheckDenied, QueryFails, WorkerDies, Goto,
       Finish, Rest, LeaseTypeOK, Job
  <2>2. job'[w].slot = job[w].slot /\ job[w].slot \in Slots
    BY <2>1 DEF EngineReturns, MarkDone, Goto, At, LeaseTypeOK, Job
  <2>3. CASE EngineReturns(w)
    BY <2>2, <2>3, LeaseAssumption DEF EngineReturns, LeaseTypeOK, MaxCount
  <2>4. CASE MarkDone(w)
    BY <2>2, <2>4, CompletedGrows DEF MarkDone, At, ReportsFollowRuns
  <2>. QED
    BY <2>1, <2>3, <2>4
<1>. QED
  BY <1>1, <1>2, OneMoves

LEMMA ReportsFollowRunsStep ==
    ASSUME LeaseTypeOK, WritersMatched, ReportsFollowRuns, [LeaseNext]_leaseVars
    PROVE  ReportsFollowRuns'
<1>1. ASSUME NEW x \in Slots, IsDone(x)' PROVE completed'[x] > 0
  <2>1. completed[x] > 0 => completed'[x] > 0
    BY CompletedGrows
  <2>2. CASE IsDone(x)
    BY <2>1, <2>2 DEF ReportsFollowRuns
  <2>3. CASE ~IsDone(x)
    <3>1. PICK w \in Workers : \/ Created(w, x) \/ Reclaimed(w, x)
                               \/ Completed(w, x) \/ Released(w, x)
      BY <1>1, <2>3, LeaseChanges DEF IsDone
    <3>2. CASE Created(w, x) \/ Reclaimed(w, x)
      BY <1>1, <3>2 DEF Created, Reclaimed, IsDone, Claim
    <3>3. CASE Completed(w, x)
      BY <2>1, <3>3 DEF Completed, At, ReportsFollowRuns
    <3>4. CASE Released(w, x)
      <4>1. lease[x] \in Lease
        BY <3>4, ReportTyped DEF Released, ExpireLease, At
      <4>2. lease[x].status = "done" /\ lease[x] # NoLease
        BY <1>1, <3>4, <4>1, LeaseNullAssumption DEF Released, IsDone, Lease
      <4>. QED
        BY <2>3, <4>2 DEF IsDone
    <3>. QED
      BY <3>1, <3>2, <3>3, <3>4
  <2>. QED
    BY <2>2, <2>3
<1>. QED
  BY <1>1, MarkersRan DEF ReportsFollowRuns

\* Who reports has run the engine tick to its end, and a done engine tick has
\* been run to its end (mark_done is what follows the engine's return, and
\* nothing else writes that status).
THEOREM DoneHasRun == LeaseSpec => []ReportsFollowRuns
<1>1. LeaseInit => ReportsFollowRuns
  BY DEF LeaseInit, ReportsFollowRuns, IsDone, Rest
<1>2. LeaseTypeOK /\ WritersMatched /\ ReportsFollowRuns /\ [LeaseNext]_leaseVars
        => ReportsFollowRuns'
  BY ReportsFollowRunsStep
<1>. QED
  BY <1>1, <1>2, LeaseTypeCorrect, PTL DEF LeaseSpec

-----------------------------------------------------------------------------
(* What is done runs again only for a fault.                               *)

LEMMA DoneLease ==
    ASSUME LeaseTypeOK, WritersMatched, NEW w \in Workers, NEW x \in Slots, RecordDone(w),
           job[w].slot = x
    PROVE  IsDone(x)'
<1>1. /\ lease' = [lease EXCEPT ![x] = [lease[x] EXCEPT !.status = "done", !.until = 0]]
      /\ lease[x] \in Lease /\ x \in Slots
  BY ReportTyped DEF RecordDone, WriteDone, Overwrite, At
<1>2. lease'[x] \in Lease /\ lease'[x].status = "done"
  BY <1>1 DEF Lease, LeaseTypeOK
<1>. QED
  BY <1>2, LeaseNullAssumption DEF IsDone

\* Only a fault or a stale query takes a run off the record, or keeps it from
\* getting there.
LEMMA RecordedStays ==
    ASSUME LeaseTypeOK, WritersMatched, ClaimCoversRun, InTime, [LeaseNext]_leaseVars,
           \A v \in Workers : ~QueryFails(v) /\ ~WorkerDies(v),
           NEW x \in Slots, x \notin stale', Recorded(x)
    PROVE  Recorded(x)'
<1>1. CASE IsDone(x)
  BY <1>1, DoneStays DEF IsDone, Recorded
<1>2. ASSUME NEW w \in Workers, job[w].step \in {"mark", "record"}, job[w].slot = x, Holds(w, x),
             lease[x].until > now
      PROVE  \/ IsDone(x)'
             \/ /\ job'[w].step \in {"mark", "record"} /\ job'[w].slot = x
                /\ Holds(w, x)' /\ lease'[x].until > now'
  <2>1. CASE job'[w] = job[w] /\ (now' = now \/ TimePasses)
    <3>1. now' = now
      BY <1>2, <2>1 DEF TimePasses, InTime
    <3>2. lease'[x] = lease[x]
      BY <1>2, <2>1, OthersKeepLease
    <3>. QED
      BY <1>2, <2>1, <3>1, <3>2 DEF Holds
  <2>2. CASE now' = now /\ WorkerStep(w)
    <3>1. MarkDone(w) \/ RecordDone(w)
      BY <1>2, <2>2 DEF WorkerStep, JobStep, Ask, Deliver, TryClaim, WriteClaim, StartEngine,
         EngineReturns, EngineFails, CheckMarked, MarkFailed, ExpireLease, CheckDenied, At
    <3>2. CASE RecordDone(w)
      BY <1>2, <3>2, DoneLease
    <3>3. CASE MarkDone(w)
      <4>1. job'[w].step = "record" /\ job'[w].slot = x /\ lease' = lease
        BY <1>2, <3>3 DEF MarkDone, Goto, LeaseTypeOK, Job
      <4>. QED
        BY <1>2, <2>2, <4>1 DEF Holds
    <3>. QED
      BY <3>1, <3>2, <3>3
  <2>. QED
    BY <2>1, <2>2, OneMoves
<1>. QED
  BY <1>1, <1>2 DEF Recorded

\* An engine that returns was not on record before, and is now.
LEMMA ReturnIsRecorded ==
    ASSUME LeaseTypeOK, ClaimCoversRun, InTime, NEW w \in Workers, EngineReturns(w),
           NEW x \in Slots, job[w].slot = x, x \notin stale
    PROVE  ~Recorded(x) /\ Recorded(x)'
<1>1. At(w, "run")
  BY DEF EngineReturns
<1>2. Holds(w, x) /\ job[w].deadline < lease[x].until /\ now <= job[w].deadline
  BY <1>1 DEF ClaimCoversRun
<1>3. now \in Nat /\ job[w].deadline \in Nat /\ lease[x].until \in Nat
  BY <1>1, <1>2 DEF LeaseTypeOK, Job, Lease, Holds
<1>4. lease' = lease /\ now' = now /\ job'[w].step = "mark" /\ job'[w].slot = x
  BY DEF EngineReturns, Goto, LeaseTypeOK, Job
<1>5. Recorded(x)'
  BY <1>2, <1>3, <1>4 DEF Recorded, Holds
<1>6. ~Recorded(x)
  BY <1>1, <1>2 DEF Recorded, IsDone, Holds, At
<1>. QED
  BY <1>4, <1>5, <1>6

LEMMA RerunsPaidStep ==
    ASSUME LeaseTypeOK, WritersMatched, ClaimCoversRun, RerunsPaid, [LeaseNext]_leaseVars
    PROVE  RerunsPaid'
<1>1. ASSUME InTime, NEW x \in Slots, x \notin stale'
      PROVE  completed'[x] <= faults' + (IF Recorded(x)' THEN 1 ELSE 0)
  <2>1. /\ completed[x] \in Nat /\ completed'[x] \in Nat /\ x \notin stale
        /\ completed[x] <= faults + (IF Recorded(x) THEN 1 ELSE 0)
    BY <1>1, CompletedGrows, HistoryGrows DEF RerunsPaid
  <2>2. faults \in Nat /\ faults' \in Nat /\ faults' >= faults
    BY FaultsGrow
  <2>3. CASE \E w \in Workers : QueryFails(w) \/ WorkerDies(w)
    <3>1. completed' = completed /\ faults' = faults + 1
      BY <2>3, FaultsGrow DEF QueryFails, WorkerDies
    <3>. QED
      BY <2>1, <2>2, <3>1
  <2>4. CASE \E w \in Workers : EngineReturns(w) /\ job[w].slot = x
    <3>1. PICK w \in Workers : EngineReturns(w) /\ job[w].slot = x
      BY <2>4
    <3>2. ~Recorded(x) /\ Recorded(x)'
      BY <1>1, <2>1, <3>1, ReturnIsRecorded
    <3>3. completed'[x] <= completed[x] + 1
      BY CompletedGrows
    <3>. QED
      BY <2>1, <2>2, <3>2, <3>3
  <2>5. CASE /\ \A w \in Workers : ~QueryFails(w) /\ ~WorkerDies(w)
             /\ ~\E w \in Workers : EngineReturns(w) /\ job[w].slot = x
    <3>1. completed'[x] = completed[x]
      BY <2>5, CompletedGrows
    <3>2. Recorded(x) => Recorded(x)'
      BY <1>1, <2>5, RecordedStays
    <3>. QED
      BY <2>1, <2>2, <3>1, <3>2
  <2>. QED
    BY <2>3, <2>4, <2>5
<1>. QED
  BY <1>1 DEF RerunsPaid, InTime

\* Prompt workers run an engine tick to its end once, and once more for each
\* crash and store error at most, unless a query has overwritten its lease:
\* RerunsCostFaults (TRY_CLAIM, MARK_DONE, and the second between the engine's
\* timeout and the end of its lease).
THEOREM RerunsAreForFaults == LeaseSpec => []RerunsCostFaults
<1>1. LeaseInit => ClaimCoversRun /\ RerunsPaid
  BY DEF LeaseInit, ClaimCoversRun, RerunsPaid, At, Rest
<1>2. LeaseTypeOK /\ WritersMatched /\ ClaimCoversRun /\ RerunsPaid /\ [LeaseNext]_leaseVars
        => (ClaimCoversRun /\ RerunsPaid)'
  BY ClaimCoversRunStep, RerunsPaidStep
<1>3. LeaseTypeOK /\ RerunsPaid => RerunsCostFaults
  <2>. SUFFICES ASSUME LeaseTypeOK, RerunsPaid, InTime, NEW x \in Slots \ stale
                PROVE  completed[x] <= 1 + faults
    BY DEF RerunsCostFaults
  <2>1. completed[x] \in Nat /\ faults \in Nat
    BY LeaseAssumption DEF LeaseTypeOK, MaxCount
  <2>. QED
    BY <2>1 DEF RerunsPaid
<1>. QED
  BY <1>1, <1>2, <1>3, LeaseTypeCorrect, PTL DEF LeaseSpec

-----------------------------------------------------------------------------
(* While nothing is cut short, an engine tick is run once.                 *)

\* A worker that watches an engine tick leaves it alone, or claims it.
LEMMA WatcherSteps ==
    ASSUME LeaseTypeOK, WritersMatched, NEW v \in Workers, NEW x \in Slots, WorkerStep(v),
           Watches(v, x), x \notin broken'
    PROVE  \/ /\ lease'[x] = lease[x] /\ completed'[x] = completed[x]
              /\ x \in stale' => x \in stale
              /\ Watches(v, x)'
           \/ TryClaim(v) /\ job[v].slot = x /\ (lease[x] = NoLease \/ Claimable(v, x))
<1>. USE DEF Watches
<1>1. job[v] \in Job /\ (job[v].step = "idle" \/ job[v].slot \in Slots)
  BY DEF LeaseTypeOK, At
<1>2. CASE job[v].slot # x
  <2>1. lease'[x] = lease[x] /\ (x \in stale' => x \in stale)
    BY <1>2 DEF WorkerStep, JobStep, Ask, Deliver, TryClaim, WriteClaim, StartEngine, EngineReturns,
       EngineFails, MarkDone, RecordDone, CheckMarked, MarkFailed, ExpireLease, CheckDenied,
       QueryFails, WorkerDies, WriteDone, Overwrite, LeaseTypeOK
  <2>2. completed'[x] = completed[x]
    BY <1>2 DEF WorkerStep, JobStep, Ask, Deliver, TryClaim, WriteClaim, StartEngine, EngineReturns,
       EngineFails, MarkDone, RecordDone, CheckMarked, MarkFailed, ExpireLease, CheckDenied,
       QueryFails, WorkerDies, LeaseTypeOK
  <2>3. job'[v].slot = job[v].slot \/ job'[v].slot = NoSlot \/ job'[v].step = "ask"
    BY <1>1 DEF WorkerStep, JobStep, Ask, Deliver, TryClaim, WriteClaim, StartEngine, EngineReturns,
       EngineFails, MarkDone, RecordDone, CheckMarked, MarkFailed, ExpireLease, CheckDenied,
       QueryFails, WorkerDies, Goto, Finish, Rest, LeaseTypeOK, Job
  <2>. QED
    BY <1>2, <2>1, <2>2, <2>3, LeaseNullAssumption
<1>3. CASE job[v].slot = x /\ job[v].step = "ask"
  <2>1. TryClaim(v)
    BY <1>3 DEF WorkerStep, JobStep, Ask, Deliver, WriteClaim, StartEngine, EngineReturns,
       EngineFails, MarkDone, RecordDone, CheckMarked, MarkFailed, ExpireLease, CheckDenied,
       QueryFails, WorkerDies, At
  <2>. QED
    BY <1>1, <1>3, <2>1 DEF TryClaim, Goto, LeaseTypeOK, Job
<1>4. CASE job[v].slot = x /\ job[v].step = "denied"
  <2>1. CheckDenied(v)
    BY <1>4 DEF WorkerStep, JobStep, Ask, Deliver, TryClaim, WriteClaim, StartEngine, EngineReturns,
       EngineFails, MarkDone, RecordDone, CheckMarked, MarkFailed, ExpireLease, QueryFails,
       WorkerDies, At
  <2>. QED
    BY <1>1, <1>4, <2>1, LeaseNullAssumption DEF CheckDenied, Finish, Rest, LeaseTypeOK, Job
<1>. QED
  BY <1>2, <1>3, <1>4

LEMMA FirstClaim ==
    ASSUME LeaseTypeOK, ClaimCoversRun, InTime, NEW v \in Workers, NEW x \in Slots, TryClaim(v),
           job[v].slot = x, lease[x] = NoLease, completed[x] = 0
    PROVE  SoleClaim(v, x)' /\ stale' = stale
<1>1. job[v].seen = now /\ now \in Nat /\ job[v] \in Job
  BY DEF TryClaim, At, ClaimCoversRun, LeaseTypeOK
<1>2. lease'[x] = Claim(v) /\ job'[v].step = "granted" /\ job'[v].slot = x
      /\ completed'[x] = 0 /\ now' = now /\ stale' = stale
  BY <1>1 DEF TryClaim, Goto, LeaseTypeOK, Job
<1>3. Claim(v) # NoLease /\ Claim(v).owner = v /\ Claim(v).status = "claimed"
      /\ Claim(v).until = now + TTL
  BY <1>1, ClaimTyped DEF Claim
<1>. QED
  BY <1>1, <1>2, <1>3, LeaseAssumption DEF SoleClaim, Holds

\* The one worker at an engine tick goes on with it, or is done with it.
LEMMA ClaimantSteps ==
    ASSUME LeaseTypeOK, WritersMatched, NEW w \in Workers, NEW x \in Slots, WorkerStep(w),
           SoleClaim(w, x), x \notin broken', x \notin stale
    PROVE  /\ x \notin stale'
           /\ \/ SoleClaim(w, x)'
              \/ Watches(w, x)' /\ IsDone(x)' /\ completed'[x] = 1
<1>1. /\ job[w] \in Job /\ job[w].slot = x /\ Holds(w, x) /\ lease[x].until > now
      /\ job[w].step \in {"granted", "run", "mark", "record"}
  BY DEF LeaseTypeOK, SoleClaim
<1>2. now' = now
  BY WorkerMovesAlone
<1>3. StartEngine(w) \/ EngineReturns(w) \/ MarkDone(w) \/ RecordDone(w)
  BY <1>1 DEF WorkerStep, JobStep, Ask, Deliver, TryClaim, WriteClaim, EngineFails, CheckMarked,
     MarkFailed, ExpireLease, CheckDenied, QueryFails, WorkerDies, At
<1>4. CASE StartEngine(w)
  <2>1. /\ job'[w].step = "run" /\ job'[w].slot = x /\ lease' = lease /\ stale' = stale
        /\ completed' = completed /\ completed[x] = 0
    BY <1>1, <1>4 DEF StartEngine, SoleClaim, At, LeaseTypeOK, Job
  <2>. QED
    BY <1>1, <1>2, <2>1 DEF SoleClaim, Holds
<1>5. CASE EngineReturns(w)
  <2>1. /\ job'[w].step = "mark" /\ job'[w].slot = x /\ lease' = lease /\ stale' = stale
        /\ completed[x] = 0
    BY <1>1, <1>5 DEF EngineReturns, SoleClaim, Goto, At, LeaseTypeOK, Job
  <2>2. completed'[x] = 1
    BY <1>1, <1>5, <2>1, LeaseAssumption DEF EngineReturns, MaxCount, LeaseTypeOK
  <2>. QED
    BY <1>1, <1>2, <2>1, <2>2 DEF SoleClaim, Holds
<1>6. CASE MarkDone(w)
  <2>1. /\ job'[w].step = "record" /\ job'[w].slot = x /\ lease' = lease /\ stale' = stale
        /\ completed' = completed /\ completed[x] = 1
    BY <1>1, <1>6 DEF MarkDone, SoleClaim, Goto, At, LeaseTypeOK, Job
  <2>. QED
    BY <1>1, <1>2, <2>1 DEF SoleClaim, Holds
<1>7. CASE RecordDone(w)
  <2>1. /\ job'[w].slot = NoSlot /\ stale' = stale /\ completed' = completed /\ completed[x] = 1
    BY <1>1, <1>7 DEF RecordDone, WriteDone, Overwrite, SoleClaim, Finish, Rest, At, LeaseTypeOK
  <2>. QED
    BY <1>1, <1>7, <2>1, DoneLease, LeaseNullAssumption DEF Watches
<1>. QED
  BY <1>3, <1>4, <1>5, <1>6, <1>7

LEMMA UntroubledStep ==
    ASSUME LeaseTypeOK, WritersMatched, ClaimCoversRun, InTime, [LeaseNext]_leaseVars,
           NEW x \in Slots, x \notin broken', Untroubled(x)
    PROVE  Untroubled(x)'
<1>1. CASE UNCHANGED leaseVars
  <2>1. /\ job' = job /\ lease' = lease /\ completed' = completed /\ stale' = stale /\ now' = now
    BY <1>1 DEF leaseVars
  <2>2. Untroubled(x)' = Untroubled(x)
    BY <2>1 DEF Untroubled, SoleClaim, Watches, IsDone, Holds
  <2>. QED
    BY <2>2
<1>2. CASE TimePasses
  <2>1. job' = job /\ lease' = lease /\ completed' = completed /\ stale' = stale /\ now' = now + 1
    BY <1>2 DEF TimePasses
  <2>2. \A v \in Workers : Watches(v, x) => Watches(v, x)'
    BY <2>1 DEF Watches
  <2>3. ASSUME NEW w \in Workers, SoleClaim(w, x), x \notin stale PROVE SoleClaim(w, x)'
    <3>1. At(w, "run") /\ job[w].slot = x /\ now < job[w].deadline
      BY <1>2, <2>3 DEF TimePasses, InTime, SoleClaim, At
    <3>2. job[w].deadline < lease[x].until
      BY <2>3, <3>1 DEF ClaimCoversRun
    <3>3. now \in Nat /\ job[w].deadline \in Nat /\ lease[x].until \in Nat
      BY <2>3 DEF LeaseTypeOK, Job, Lease, SoleClaim, Holds
    <3>4. lease'[x].until > now'
      BY <2>1, <3>1, <3>2, <3>3
    <3>. QED
      BY <2>1, <2>3, <3>4 DEF SoleClaim, Holds
  <2>. QED
    BY <2>1, <2>2, <2>3 DEF Untroubled, IsDone
<1>3. ASSUME NEW v \in Workers, WorkerStep(v) PROVE Untroubled(x)'
  <2>1. now' = now /\ \A w \in Workers \ {v} : job'[w] = job[w]
    BY <1>3, WorkerMovesAlone
  <2>2. \A w \in Workers \ {v} : Watches(w, x) => Watches(w, x)'
    BY <2>1 DEF Watches
  <2>3. CASE \A w \in Workers : Watches(w, x)
    <3>1. CASE /\ lease'[x] = lease[x] /\ completed'[x] = completed[x]
               /\ x \in stale' => x \in stale
               /\ Watches(v, x)'
      <4>1. \A w \in Workers : Watches(w, x)'
        BY <2>2, <2>3, <3>1
      <4>2. \A w \in Workers : ~SoleClaim(w, x)
        BY <2>3 DEF SoleClaim, Watches
      <4>. QED
        BY <3>1, <4>1, <4>2 DEF Untroubled, IsDone
    <3>2. CASE TryClaim(v) /\ job[v].slot = x /\ (lease[x] = NoLease \/ Claimable(v, x))
      <4>1. lease[x] = NoLease /\ completed[x] = 0 /\ x \notin stale
        BY <2>3, <3>2 DEF Untroubled, SoleClaim, Watches, Claimable, IsDone
      <4>2. SoleClaim(v, x)' /\ stale' = stale
        BY <3>2, <4>1, FirstClaim
      <4>. QED
        BY <2>2, <2>3, <4>1, <4>2 DEF Untroubled
    <3>. QED
      BY <1>3, <2>3, <3>1, <3>2, WatcherSteps
  <2>4. ASSUME NEW w \in Workers, SoleClaim(w, x), \A u \in Workers \ {w} : Watches(u, x)
        PROVE  Untroubled(x)'
    <3>1. x \notin stale
      BY DEF Untroubled
    <3>2. CASE v = w
      <4>1. /\ x \notin stale'
            /\ \/ SoleClaim(w, x)'
               \/ Watches(w, x)' /\ IsDone(x)' /\ completed'[x] = 1
        BY <1>3, <2>4, <3>1, <3>2, ClaimantSteps
      <4>. QED
        BY <2>2, <2>4, <3>2, <4>1 DEF Untroubled
    <3>3. CASE v # w
      <4>1. job'[w] = job[w]
        BY <2>1, <3>3
      <4>2. ASSUME TryClaim(v), job[v].slot = x, lease[x] = NoLease \/ Claimable(v, x) PROVE FALSE
        <5>1. job[v].seen = now /\ now \in Nat /\ lease[x] \in Lease
          BY <2>4, <4>2 DEF TryClaim, At, ClaimCoversRun, LeaseTypeOK, SoleClaim, Holds
        <5>. QED
          BY <2>4, <3>3, <4>2, <5>1 DEF Claimable, SoleClaim, Holds, Lease
      <4>3. /\ lease'[x] = lease[x] /\ completed'[x] = completed[x] /\ x \notin stale'
            /\ Watches(v, x)'
        BY <1>3, <2>4, <3>1, <3>3, <4>2, WatcherSteps
      <4>4. SoleClaim(w, x)'
        BY <2>1, <2>4, <4>1, <4>3 DEF SoleClaim, Holds
      <4>. QED
        BY <2>2, <2>4, <4>3, <4>4 DEF Untroubled
    <3>. QED
      BY <3>2, <3>3
  <2>. QED
    BY <2>3, <2>4 DEF Untroubled
<1>. QED
  BY <1>1, <1>2, <1>3 DEF LeaseNext

\* While no attempt at it was cut short, prompt workers run an engine tick once at
\* most and overwrite no lease: CleanTicksRunOnce (TRY_CLAIM, MARK_DONE,
\* MARK_FAILED, _run_with_lease_timeout).
THEOREM CleanTicksAreRunOnce == LeaseSpec => []CleanTicksRunOnce
<1>1. LeaseInit => ClaimCoversRun /\ CleanTicksUntroubled
  BY LeaseNullAssumption
  DEF LeaseInit, ClaimCoversRun, CleanTicksUntroubled, Untroubled, Watches, At, Rest
<1>2. LeaseTypeOK /\ WritersMatched /\ ClaimCoversRun /\ CleanTicksUntroubled
        /\ [LeaseNext]_leaseVars => (ClaimCoversRun /\ CleanTicksUntroubled)'
  <2>. SUFFICES ASSUME LeaseTypeOK, WritersMatched, ClaimCoversRun, CleanTicksUntroubled,
                       [LeaseNext]_leaseVars, InTime, NEW x \in Slots, x \notin broken'
                PROVE  Untroubled(x)'
    BY ClaimCoversRunStep DEF CleanTicksUntroubled, InTime
  <2>1. Untroubled(x)
    BY HistoryGrows DEF CleanTicksUntroubled
  <2>. QED
    BY <2>1, UntroubledStep
<1>3. CleanTicksUntroubled => CleanTicksRunOnce
  BY DEF CleanTicksUntroubled, CleanTicksRunOnce, Untroubled, SoleClaim
<1>. QED
  BY <1>1, <1>2, <1>3, LeaseTypeCorrect, PTL DEF LeaseSpec

=============================================================================
