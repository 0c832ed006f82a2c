-------------------------- MODULE ConversationIntents --------------------------
(***************************************************************************)
(* The queue of things NPCs want to say to players.                        *)
(*                                                                         *)
(* An engine of every tick (engines/agenda/intent_formation_engine.py)     *)
(* scores what an NPC could say to a player beside it and puts it in the   *)
(* queue of PendingIntent nodes, which holds MAX_PENDING_INTENTS_PER_NPC   *)
(* for each NPC (graph/intent); the route GET /dialogue/pending hands the  *)
(* best to the player's client and marks them, one after the other.  The   *)
(* engine has no lease: every worker runs it at every tick, and again when *)
(* it repeats the tick.                                                    *)
(*                                                                         *)
(* Every query is a transaction of its own that reads what is committed    *)
(* and locks a node when it changes it.  No constraint makes the ids of    *)
(* the nodes unique (schema_bootstrap.py), so MERGE is two steps: it looks *)
(* for a node, and creates one though another was created meanwhile.  The  *)
(* other queries change whatever has the id and test nothing, or set       *)
(* "expired" where "delivered" serves as well, for no query tells the two  *)
(* apart: each is one step.                                                *)
(*                                                                         *)
(* What an NPC wants to say at a tick, and how much (the scores of needs,  *)
(* events and goals), may be anything.                                     *)
(***************************************************************************)
EXTENDS Integers, FiniteSets

CONSTANTS
    Npcs, Players, Triggers,
    Workers,      \* processes that run ticks
    Polls,        \* calls of the route under way at a time
    MaxTick,      \* ticks are 1..MaxTick
    Lag,          \* how far a worker may be behind the others
    MaxScore,     \* scores are 1..MaxScore, in steps instead of 0.3 to 1.0
    Cap,          \* MAX_PENDING_INTENTS_PER_NPC
    Limit,        \* MAX_PENDING_INTENTS_PER_PLAYER
    Expiry,       \* INTENT_EXPIRY_TICKS
    MaxPasses,    \* bound on how often an engine runs
    MaxFaults,    \* bound on failures
    Nobody

Ticks == 1..MaxTick

\* enqueue_intent's id: npc, player, tick, trigger.
Ids == Npcs \X Players \X Ticks \X Triggers

\* The first node of an id, and the one that a worker created beside others.
\* A worker creates only when it has found none, so it has no other.
Nodes == Ids \X (Workers \cup {Nobody})

ASSUME IntentAssumption ==
    /\ IsFiniteSet(Nodes)
    /\ {MaxTick, MaxScore, Cap, Limit, Expiry} \subseteq Nat \ {0}
    /\ {Lag, MaxPasses, MaxFaults} \subseteq Nat
    /\ Nobody \notin Ids \cup Nodes \cup Players \cup Workers

VARIABLES
    node,      \* the PendingIntent nodes
    tick,      \* the last tick a worker has begun
    pass,      \* what each worker's engine is doing
    poll,      \* what each call of the route is doing
    got,       \* intents a client has been given (history)
    twice,     \* those it has been given more than once (history)
    evicted,   \* the highest score evicted from each NPC's intents (history)
    passes, faults,
    twinned,   \* ids that had two nodes at a time (history)
    strayed    \* what has gone wrong (history)

bounds == <<passes, faults>>
vars   == <<node, tick, pass, poll, got, twice, evicted, twinned, strayed, bounds>>

-----------------------------------------------------------------------------
Score == 0..MaxScore

\* "past" is delivered or expired.
Node == [status : {"none", "pending", "past"}, score : Score]

Absent == [status |-> "none", score |-> 0]

\* left is what a pass may still put in the queue; hand and score are the
\* intent it is about, victim the one to make room for it.
Pass == [at : {"idle", "next", "lowest", "evict", "merge", "create"},
         tick : Nat, left : SUBSET Ids,
         hand : Ids \cup {Nobody}, score : Score, victim : Nodes \cup {Nobody}]

Poll == [at : {"idle", "mark"}, player : Players \cup {Nobody},
         batch : SUBSET Nodes, taken : SUBSET Nodes]

Queueing(t, left) ==
    [at |-> "next", tick |-> t, left |-> left, hand |-> Nobody, score |-> 0, victim |-> Nobody]

NoPass == [Queueing(0, {}) EXCEPT !.at = "idle"]
NoPoll == [at |-> "idle", player |-> Nobody, batch |-> {}, taken |-> {}]

Present(x) == node[x].status # "none"

Copies(i) == {x \in Nodes : x[1] = i}

Exists(i) == \E x \in Copies(i) : Present(x)

Waiting == {x \in Nodes : node[x].status = "pending"}

Pending(n)    == {x \in Waiting : x[1][1] = n}
PendingFor(p) == {x \in Waiting : x[1][2] = p}

LargerOf(a, b) == IF a < b THEN b ELSE a

At(w, step) == pass[w].at = step

\* The pass is about to queue the intent in its hand.
Queues(w) == pass[w].at \in {"merge", "create"}

Init ==
    /\ node = [x \in Nodes |-> Absent]
    /\ tick = 0
    /\ pass = [w \in Workers |-> NoPass]
    /\ poll = [q \in Polls |-> NoPoll]
    /\ got = {}
    /\ twice = {}
    /\ evicted = [n \in Npcs |-> 0]
    /\ twinned = {} /\ strayed = {}
    /\ passes = 0 /\ faults = 0

-----------------------------------------------------------------------------
\* The engine of a worker comes to a tick: a new one, one that others have
\* begun, or its last one again, when the clock could not be stored.  It scores
\* all pairs before it queues anything; as the scores may be anything, they are
\* chosen one by one.
StartPass(w) ==
    /\ At(w, "idle") /\ passes < MaxPasses
    /\ passes' = passes + 1
    /\ \E t \in ((tick - Lag)..(tick + 1)) \cap Ticks :
         /\ tick' = LargerOf(tick, t)
         /\ pass' = [pass EXCEPT ![w] = Queueing(t, {i \in Ids : i[3] = t})]
    /\ strayed' = IF \E v \in Workers : ~At(v, "idle") THEN strayed \cup {"pass"} ELSE strayed
    /\ UNCHANGED <<node, poll, got, twice, evicted, twinned, faults>>

\* Mutant: the cap is one too high.
HasRoomMutant(n) == Cardinality(Pending(n)) <= Cap

HasRoom(n) == Cardinality(Pending(n)) < Cap

\* How many are pending is asked before anybody knows whether the intent is in
\* the queue already.
CountPending(w, i) ==
    /\ At(w, "next")
    /\ \E score \in 1..MaxScore :
         pass' = [pass EXCEPT ![w] =
           [pass[w] EXCEPT !.at = IF HasRoom(i[1]) THEN "merge" ELSE "lowest",
                           !.left = pass[w].left \ {i}, !.hand = i, !.score = score]]
    /\ strayed' = IF Exists(i) THEN strayed \cup {"waste"} ELSE strayed
    /\ UNCHANGED <<node, tick, poll, got, twice, evicted, twinned, bounds>>

\* Mutant: the hand is not emptied.
ThroughMutant(w) == [pass EXCEPT ![w].at = "next"]

\* The pass is through with the intent in its hand.
Through(w) == [pass EXCEPT ![w] = Queueing(@.tick, @.left)]

Lowest(n) == {v \in Pending(n) : \A x \in Pending(n) : node[v].score <= node[x].score}

\* Mutant: the scores are not compared.
VictimsMutant(n, score) == Lowest(n)

\* A lowest one, if it is worse than the new one.
Victims(n, score) == {v \in Lowest(n) : node[v].score < score}

PickLowest(w) ==
    /\ At(w, "lowest")
    /\ LET i == pass[w].hand
           found == Victims(i[1], pass[w].score)
       IN  \/ /\ found = {}
              /\ pass' = Through(w)
           \/ \E v \in found :
                pass' = [pass EXCEPT ![w].at = "evict", ![w].victim = v]
    /\ UNCHANGED <<node, tick, poll, got, twice, evicted, twinned, strayed, bounds>>

\* A poll that has read an intent, or has marked it.
Polled(i) == \E q \in Polls, x \in Copies(i) : x \in poll[q].batch \cup poll[q].taken

\* Whatever has the id of the victim is deleted, and whatever has become of it.
Evict(w) ==
    /\ At(w, "evict")
    /\ LET v == pass[w].victim
           n == v[1][1]
       IN  /\ node' = [x \in Nodes |-> IF x \in Copies(v[1]) THEN Absent ELSE node[x]]
           /\ evicted' = [evicted EXCEPT ![n] = LargerOf(@, node[v].score)]
           /\ strayed' = strayed
                \cup (IF Polled(v[1]) \/ \E x \in Copies(v[1]) : node[x].status = "past"
                      THEN {"redo"} ELSE {})
                \cup (IF HasRoom(n) THEN {"waste"} ELSE {})
    /\ pass' = [pass EXCEPT ![w].at = "merge", ![w].victim = Nobody]
    /\ UNCHANGED <<tick, poll, got, twice, twinned, bounds>>

\* Mutant: SET where the code has ON CREATE SET.
MergeMutant(w) ==
    /\ At(w, "merge")
    /\ pass' = IF Exists(pass[w].hand) THEN Through(w) ELSE [pass EXCEPT ![w].at = "create"]
    /\ node' = [x \in Nodes |-> IF x \in Copies(pass[w].hand) /\ Present(x)
                                THEN [node[x] EXCEPT !.status = "pending"] ELSE node[x]]
    /\ UNCHANGED <<tick, poll, got, twice, evicted, twinned, strayed, bounds>>

\* MERGE on the id: a node that exists, with whatever status, stays as it is.
Merge(w) ==
    /\ At(w, "merge")
    /\ pass' = IF Exists(pass[w].hand) THEN Through(w) ELSE [pass EXCEPT ![w].at = "create"]
    /\ UNCHANGED <<node, tick, poll, got, twice, evicted, twinned, strayed, bounds>>

\* Its ON CREATE part, whatever another worker has created since.
Create(w) ==
    /\ At(w, "create")
    /\ LET i == pass[w].hand
           x == IF Exists(i) THEN <<i, w>> ELSE <<i, Nobody>>
       IN  /\ node' = [node EXCEPT ![x] = [status |-> "pending", score |-> pass[w].score]]
           /\ twinned' = IF Exists(i) THEN twinned \cup {i} ELSE twinned
    /\ pass' = Through(w)
    /\ UNCHANGED <<tick, poll, got, twice, evicted, strayed, bounds>>

\* After the last intent.
ExpireOld(w) ==
    /\ At(w, "next")
    /\ node' = [x \in Nodes |-> IF x \in Waiting /\ x[1][3] < pass[w].tick - Expiry
                                THEN [node[x] EXCEPT !.status = "past"] ELSE node[x]]
    /\ pass' = [pass EXCEPT ![w] = NoPass]
    /\ UNCHANGED <<tick, poll, got, twice, evicted, twinned, strayed, bounds>>

\* A query fails or times out, and the scheduler goes on; or the process dies.
PassFails(w) ==
    /\ ~At(w, "idle") /\ faults < MaxFaults
    /\ faults' = faults + 1
    /\ pass' = [pass EXCEPT ![w] = NoPass]
    /\ strayed' = IF Queues(w) THEN strayed \cup {"waste"} ELSE strayed
    /\ UNCHANGED <<node, tick, poll, got, twice, evicted, twinned, passes>>

-----------------------------------------------------------------------------
\* Mutant: fewer than the limit are not handed out.
BestMutant(p) ==
    {b \in SUBSET PendingFor(p) :
       /\ Cardinality(b) = Limit
       /\ \A x \in b, y \in PendingFor(p) \ b : node[x].score >= node[y].score}

\* The Limit best of what waits for a player, with ties in any order.
Best(p) ==
    {b \in SUBSET PendingFor(p) :
       /\ Cardinality(b) = Limit \/ (Cardinality(b) < Limit /\ b = PendingFor(p))
       /\ \A x \in b, y \in PendingFor(p) \ b : node[x].score >= node[y].score}

\* A client that was answered, or gave up waiting, asks again; where nothing
\* waits it is answered with nothing, which changes nothing.
ReadPending(q, p) ==
    /\ poll[q].at = "idle"
    /\ \E b \in Best(p) \ {{}} :
         poll' = [poll EXCEPT ![q] = [at |-> "mark", player |-> p, batch |-> b, taken |-> {}]]
    /\ strayed' = IF \E r \in Polls : poll[r].player = p THEN strayed \cup {"redo"} ELSE strayed
    /\ UNCHANGED <<node, tick, pass, got, twice, evicted, twinned, bounds>>

\* Whatever has the id of the row, and whatever has become of it since; the
\* order within a batch is left open.
MarkDelivered(q, row) ==
    /\ poll' = [poll EXCEPT ![q].batch = @ \ {row}, ![q].taken = @ \cup {row}]
    /\ node' = [x \in Nodes |-> IF x \in Copies(row[1]) /\ Present(x)
                                THEN [node[x] EXCEPT !.status = "past"] ELSE node[x]]
    /\ UNCHANGED <<tick, pass, got, twice, evicted, twinned, strayed, bounds>>

Answer(q) ==
    /\ poll[q].at = "mark" /\ poll[q].batch = {}
    /\ poll' = [poll EXCEPT ![q] = NoPoll]
    /\ got' = got \cup {x[1] : x \in poll[q].taken}
    /\ twice' = twice \cup {i \in Ids : \E x, y \in poll[q].taken \cap Copies(i) :
                                          i \in got \/ x # y}
    /\ UNCHANGED <<node, tick, pass, evicted, twinned, strayed, bounds>>

\* A query fails, the process dies, or the answer does not arrive.
PollFails(q) ==
    /\ poll[q].at = "mark" /\ faults < MaxFaults
    /\ faults' = faults + 1
    /\ poll' = [poll EXCEPT ![q] = NoPoll]
    /\ UNCHANGED <<node, tick, pass, got, twice, evicted, twinned, strayed, passes>>

-----------------------------------------------------------------------------
Engine(w) ==
    \/ StartPass(w) \/ PickLowest(w) \/ Evict(w) \/ Merge(w) \/ Create(w)
    \/ ExpireOld(w) \/ PassFails(w)
    \/ \E i \in pass[w].left : CountPending(w, i)

Route(q) ==
    \/ \E p \in Players : ReadPending(q, p)
    \/ \E row \in poll[q].batch : MarkDelivered(q, row)
    \/ Answer(q)

Next ==
    \/ \E w \in Workers : Engine(w)
    \/ \E q \in Polls : Route(q) \/ PollFails(q)

Spec == Init /\ [][Next]_vars

\* A client polls for ever (NpcInitiativePoller, which swallows errors).
FairSpec == Spec /\ WF_vars(\E q \in Polls : Route(q))

-----------------------------------------------------------------------------
TypeOK ==
    /\ node \in [Nodes -> Node]
    /\ tick \in 0..MaxTick
    /\ pass \in [Workers -> Pass]
    /\ \A w \in Workers :
         /\ pass[w].hand = Nobody <=> At(w, "idle") \/ At(w, "next")
         /\ pass[w].victim # Nobody <=> At(w, "evict")
    /\ poll \in [Polls -> Poll]
    /\ got \subseteq Ids /\ twice \subseteq got
    /\ evicted \in [Npcs -> Score]
    /\ twinned \subseteq Ids
    /\ strayed \subseteq {"pass", "waste", "redo"}
    /\ passes \in 0..MaxPasses /\ faults \in 0..MaxFaults

\* No NPC has more intents pending than its cap, whatever is delivered, expires
\* or is repeated meanwhile, unless two passes overlapped (_apply_cap_enforcement).
CapKept ==
    "pass" \notin strayed => \A n \in Npcs : Cardinality(Pending(n)) <= Cap

\* A client is given an intent once, though ticks are repeated and polls fail,
\* unless two polls of a player overlapped, a pass evicted an intent that a poll
\* was handing out or had handed out (then a repeated tick forms it anew), or
\* two workers created a node for this very intent (MERGE without a constraint).
DeliveredOnce == "redo" \notin strayed => twice \subseteq twinned

\* An intent is evicted for Cap others that are no worse, unless passes
\* overlapped or an eviction was wasted: the new intent was in the queue already
\* (a repeated tick), was never queued (a failure), or had room by then.
EvictedForBetter ==
    strayed \cap {"pass", "waste"} = {} =>
      \A n \in Npcs : evicted[n] > 0 =>
        Cardinality({x \in Nodes :
           /\ x[1][1] = n
           /\ \/ Present(x) /\ node[x].score >= evicted[n]
              \/ \E w \in Workers :
                   Queues(w) /\ x = <<pass[w].hand, Nobody>> /\ pass[w].score >= evicted[n]}) >= Cap

\* However many intents a tick leaves, and whichever were marked when a poll
\* failed, nothing waits for ever: when ticks stand still and failures stop
\* (MaxPasses, MaxFaults), the polls drain the queue, Limit at a time.
AllDelivered == <>[](Waiting = {})

=============================================================================
