------------------------------- MODULE Schemes -------------------------------
(***************************************************************************)
(* Covert schemes, advanced and discovered by two engines of every tick.   *)
(*                                                                         *)
(* The advance engine (engines/scheming/scheme_advance_tick.py) reads all  *)
(* schemes with the number of their steps, then adds a step to one after   *)
(* the other, each in a transaction of its own; the detection engine       *)
(* (engines/investigation/scheme_detection_tick.py) reads what can be      *)
(* discovered and marks it.  Engines of every tick have no lease: every    *)
(* worker runs them, and once more when it repeats a tick; within a worker *)
(* they run one after the other.                                           *)
(***************************************************************************)
EXTENDS Integers, FiniteSets

CONSTANTS
    Workers,      \* processes that run ticks
    Schemes,
    Residents,    \* those whose owners are always somewhere
    MaxSteps,     \* MAX_SCHEME_STEPS
    MaxPerTick,   \* SCHEME_ADVANCE_MAX_PER_TICK
    MinSteps      \* SCHEME_DISCOVERY_MIN_STEPS

ASSUME SchemeAssumption ==
    /\ IsFiniteSet(Workers) /\ Workers # {}
    /\ MaxSteps \in Nat \ {0} /\ MaxPerTick \in Nat \ {0} /\ MinSteps \in Nat \ {0}
    /\ Residents \subseteq Schemes

VARIABLES
    status,    \* of each Scheme node
    count,     \* how many SCHEME_STEP edges it has
    orders,    \* the step_order values on them
    placed,    \* schemes whose owner has a LOCATED_AT edge
    job,       \* the pass each worker is in
    crossed,   \* schemes two advances had in hand at a time (history)
    late       \* how many steps were added after the discovery (history)

vars == <<status, count, orders, placed, job, crossed, late>>

-----------------------------------------------------------------------------
\* todo is what a pass has still to handle, seen the step counts it read.
Job == [at : {"idle", "advance", "mark", "broken"}, todo : SUBSET Schemes,
        seen : [Schemes -> Nat]]

Pass(step, batch, seen) == [at |-> step, todo |-> batch, seen |-> seen]

Zero   == [s \in Schemes |-> 0]
Idle   == Pass("idle", {}, Zero)
Broken == Pass("broken", {}, Zero)

At(w, step) == job[w].at = step

InHand(w) == IF At(w, "advance") THEN job[w].todo ELSE {}

\* What is left of a pass when it is through with s.
Rest(w, s) ==
    IF job[w].todo = {s} THEN Idle
    ELSE [job[w] EXCEPT !.todo = @ \ {s}, !.seen[s] = 0]

Init ==
    /\ status = [s \in Schemes |-> "none"]
    /\ count = [s \in Schemes |-> 0]
    /\ orders = [s \in Schemes |-> {}]
    /\ placed \in {Residents \cup moved : moved \in SUBSET (Schemes \ Residents)}
    /\ job = [w \in Workers |-> Idle]
    /\ crossed = {}
    /\ late = [s \in Schemes |-> 0]

-----------------------------------------------------------------------------
\* A scheme is written with a new id.
UpsertScheme(s) ==
    /\ status[s] = "none"
    /\ status' = [status EXCEPT ![s] = "active"]
    /\ UNCHANGED <<count, orders, placed, job, crossed, late>>

\* The owner of a scheme is moved: to a location that exists, or to one that
\* does not, for then the old edge is deleted and none created.
UpdateLocation(s) ==
    /\ s \notin Residents
    /\ placed' \in {placed \cup {s}, placed \ {s}}
    /\ placed' # placed
    /\ UNCHANGED <<status, count, orders, job, crossed, late>>

-----------------------------------------------------------------------------
\* Mutant: the status is not asked for.
EligibleMutant == {s \in Schemes : status[s] # "none" /\ count[s] < MaxSteps}

\* Mutant: a scheme with all its steps gets one more.
EligibleBoundMutant == {s \in Schemes : status[s] = "active" /\ count[s] <= MaxSteps}

Eligible == {s \in Schemes : status[s] = "active" /\ count[s] < MaxSteps}

\* Mutant: the batch is one short.
BatchesMutant ==
    {b \in SUBSET Eligible : Cardinality(b) < MaxPerTick}

\* The first MaxPerTick of them, in the order of a query that asks for none.
Batches ==
    {b \in SUBSET Eligible : \/ Cardinality(b) = MaxPerTick
                             \/ b = Eligible /\ Cardinality(b) < MaxPerTick}

ReadActive(w) ==
    /\ At(w, "idle")
    /\ \E b \in Batches \ {{}} :
         /\ job' = [job EXCEPT ![w] =
                      Pass("advance", b, [s \in Schemes |-> IF s \in b THEN count[s] ELSE 0])]
         /\ crossed' = crossed \cup {s \in b : \E v \in Workers : s \in InHand(v)}
    /\ UNCHANGED <<status, count, orders, placed, late>>

\* A scheme whose owner is nowhere is skipped; it has used up its place.  The
\* location is read in a query of its own; what is written does not depend on
\* where the owner is by then, so reading and writing are one action.
SkipScheme(w, s) ==
    /\ s \in InHand(w) \ placed
    /\ job' = [job EXCEPT ![w] = Rest(w, s)]
    /\ UNCHANGED <<status, count, orders, placed, crossed, late>>

\* The event of the step and the edge to it, in one transaction that looks at
\* neither status nor count.
AddStep(w, s) ==
    /\ s \in InHand(w) \cap placed
    /\ count' = [count EXCEPT ![s] = @ + 1]
    /\ orders' = [orders EXCEPT ![s] = @ \cup {job[w].seen[s] + 1}]
    /\ late' = [late EXCEPT ![s] = IF status[s] = "discovered" THEN @ + 1 ELSE @]
    /\ UNCHANGED <<status, placed, crossed>>

\* Mutant: a step is written again, as if its answer had been lost.
EmitStepMutant(w, s) == AddStep(w, s) /\ job' \in {job, [job EXCEPT ![w] = Rest(w, s)]}

EmitStep(w, s) == AddStep(w, s) /\ job' = [job EXCEPT ![w] = Rest(w, s)]

AnswerLost(w, s) == AddStep(w, s) /\ job' = [job EXCEPT ![w] = Broken]

\* Schemes with enough steps whose owners are not alone, wherever they are.
ReadDiscoverable(w) ==
    /\ At(w, "idle")
    /\ \E found \in SUBSET {s \in Schemes : status[s] = "active" /\ count[s] >= MinSteps} :
         /\ found # {}
         /\ job' = [job EXCEPT ![w] = Pass("mark", found, Zero)]
    /\ UNCHANGED <<status, count, orders, placed, crossed, late>>

MarkDiscovered(w, s) ==
    /\ At(w, "mark") /\ s \in job[w].todo
    /\ status' = [status EXCEPT ![s] = IF @ = "active" THEN "discovered" ELSE @]
    /\ job' = [job EXCEPT ![w] = Rest(w, s)]
    /\ UNCHANGED <<count, orders, placed, crossed, late>>

\* A query fails, or the process dies; the next tick comes, or the next process.
PassFails(w) ==
    /\ job[w].at \notin {"idle", "broken"}
    /\ job' = [job EXCEPT ![w] = Broken]
    /\ UNCHANGED <<status, count, orders, placed, crossed, late>>

Resume(w) ==
    /\ At(w, "broken")
    /\ job' = [job EXCEPT ![w] = Idle]
    /\ UNCHANGED <<status, count, orders, placed, crossed, late>>

Handle(w, s) == SkipScheme(w, s) \/ EmitStep(w, s) \/ MarkDiscovered(w, s)

Next ==
    \/ \E s \in Schemes : UpsertScheme(s) \/ UpdateLocation(s)
    \/ \E w \in Workers :
         \/ ReadActive(w) \/ ReadDiscoverable(w)
         \/ \E s \in Schemes : Handle(w, s) \/ AnswerLost(w, s)
         \/ PassFails(w) \/ Resume(w)

Spec == Init /\ [][Next]_vars

\* Every worker runs due ticks for ever, with both engines.
Proceed(w) == ReadActive(w) \/ Resume(w) \/ \E s \in Schemes : Handle(w, s)

Fairness == \A w \in Workers : WF_vars(Proceed(w))

FairSpec == Spec /\ Fairness

-----------------------------------------------------------------------------
TypeOK ==
    /\ status \in [Schemes -> {"none", "active", "discovered"}]
    /\ count \in [Schemes -> Nat]
    /\ orders \in [Schemes -> SUBSET (1..MaxSteps)]
    /\ placed \subseteq Schemes
    /\ job \in [Workers -> Job]
    /\ crossed \subseteq Schemes
    /\ late \in [Schemes -> Nat]

\* However often workers repeat a tick, a scheme gets at most one step beyond
\* MAX_SCHEME_STEPS for each worker but one, and as many after its discovery
\* (run_tick reads the count, emit_scheme_step_atomic does not ask again).
StepsBounded ==
    \A s \in Schemes :
      /\ count[s] <= MaxSteps + Cardinality(Workers) - 1
      /\ late[s] <= Cardinality(Workers) - 1

\* The steps of a scheme that no two advances had in hand at a time are
\* numbered 1, 2, ... without a gap, and are no more than MAX_SCHEME_STEPS,
\* whatever failed or was repeated (step_order is one more than the count).
NumberedOnce ==
    \A s \in Schemes \ crossed :
      orders[s] = 1..count[s] /\ count[s] <= MaxSteps

\* Once no pass fails any more, schemes end: from some time on none is active
\* with steps missing, if its owner is always somewhere and the others do not
\* fill the batch.  For an owner without a location uses up a place of it at
\* every tick (run_tick cuts the list before _advance_one asks for the location).
SchemesEnd ==
    (/\ Cardinality(Schemes \ Residents) < MaxPerTick
     /\ <>[](\A w \in Workers : ~At(w, "broken")))
      => <>[](\A s \in Residents : status[s] = "active" => count[s] >= MaxSteps)

=============================================================================
