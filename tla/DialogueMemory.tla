--------------------------- MODULE DialogueMemory ---------------------------
(***************************************************************************)
(* What one NPC keeps of its conversations.                                *)
(*                                                                         *)
(* A dialogue call (engines/dialogue/dialogue_handler.py) moves the        *)
(* relation to the player, the NPC's mood and, last, the session store.    *)
(* Consolidation summarises the stored turns into a memory                 *)
(* (engines/memory_consolidation/memory_consolidation_engine.py).  The     *)
(* store is saved to the graph at shutdown and loaded at start; the mood   *)
(* is written through to the graph after every change.                     *)
(*                                                                         *)
(* A turn is the exchange of one call, named by the call; the relation to  *)
(* a player and the mood are the sets of events they have taken in.        *)
(* A step of this module is what runs between two awaits of the event      *)
(* loop.  The server ends the requests in progress before it shuts down.   *)
(***************************************************************************)
EXTENDS Integers, FiniteSets, SequencesExt

CONSTANTS
    Players,
    Events,        \* dialogue calls and severe rumours, each once
    Jobs,          \* consolidations that may be under way: tick, admin route
    MaxTurns,      \* DIALOGUE_SESSION_TURNS, in exchanges
    MaxPersisted,  \* MAX_PERSISTED_SESSION_TURNS, in exchanges
    Threshold,     \* CONSOLIDATION_TURN_THRESHOLD, in exchanges
    ClearAfter,    \* CONSOLIDATION_CLEAR_TURNS
    MaxOpen,       \* bound on the calls and shocks in progress at a time
    Nobody

ASSUME DialogueAssumption ==
    /\ MaxTurns \in Nat \ {0} /\ MaxPersisted \in Nat \ {0} /\ Threshold \in Nat \ {0}
    /\ MaxOpen \in Nat
    /\ ClearAfter \in BOOLEAN
    /\ Nobody \notin Players

VARIABLES
    phase,      \* of the process: up, saving its sessions, or down
    store,      \* session store: the turns kept for each player
    live,       \* players whose session has not expired
    mood,       \* emotion store
    summary,    \* each consolidation: where it is, the turns it read and,
                \* as history, those stored since it read
    job,        \* each event
    unsaved,    \* shutdown: players whose session has still to be saved
    wiped,      \* shutdown: the player whose saved turns were just deleted
    graph,      \* saved turns (DialogueTurn nodes)
    graphMood,  \* mood saved on the Character node
    relation,   \* RELATES_TO values, by player
    memory,     \* in how many Memory nodes a turn was summarised, up to 2
    strayed     \* what has overlapped so far (history)

process == <<phase, unsaved, wiped>>
session == <<store, live>>
vars    == <<phase, store, live, mood, summary, job, unsaved, wiped, graph,
             graphMood, relation, memory, strayed>>

Steps == {"new", "relate", "set", "feel", "through", "append", "shaken", "done", "broken"}

Job == [at : Steps, player : Players \cup {Nobody}, seen : SUBSET Events]

Summary == [at : {"idle", "summing", "clear"}, turns : SUBSET Events, late : SUBSET Events]

Unborn == [at |-> "new", player |-> Nobody, seen |-> {}]

Idle == [at |-> "idle", turns |-> {}, late |-> {}]

\* The last n elements of s: Python's s[-n:] for n > 0.
Newest(s, n) == SubSeq(s, IF Len(s) > n THEN Len(s) - n + 1 ELSE 1, Len(s))

At(a, step) == job[a].at = step

InProgress(a) == job[a].at \notin {"new", "done", "broken"}

Room == Cardinality({a \in Events : InProgress(a)}) < MaxOpen

Under(j) == summary[j].at # "idle"

Reach(a, step, seen) ==
    job' = [job EXCEPT ![a] = [at |-> step, player |-> job[a].player, seen |-> seen]]

Goto(a, step) == Reach(a, step, {})

End(a, how) == job' = [job EXCEPT ![a] = [Unborn EXCEPT !.at = how]]

Init ==
    /\ phase = "up"
    /\ store = [p \in Players |-> <<>>]
    /\ live = {}
    /\ mood = {}
    /\ summary = [j \in Jobs |-> Idle]
    /\ job = [a \in Events |-> Unborn]
    /\ unsaved = {}
    /\ wiped = Nobody
    /\ graph = [p \in Players |-> <<>>]
    /\ graphMood = {}
    /\ relation = [p \in Players |-> {}]
    /\ memory = [c \in Events |-> 0]
    /\ strayed = {}

-----------------------------------------------------------------------------
\* The turns get_turns returns; it forgets a session that has expired.
Current(p) == IF p \in live THEN store[p] ELSE <<>>

\* A player speaks: the session is read and the answer, of the model or
\* canned, is on its way.
Ask(c, p, canned) ==
    /\ phase = "up"
    /\ At(c, "new") /\ Room
    /\ store' = [store EXCEPT ![p] = Current(p)]
    /\ job' = [job EXCEPT ![c] = [at |-> IF canned THEN "feel" ELSE "relate",
                                  player |-> p, seen |-> {}]]
    /\ UNCHANGED <<process, live, mood, summary, graph, graphMood, relation, memory, strayed>>

\* apply_relation_delta reads the values without a lock and sets them later
\* in the same transaction.
ReadRelation(c) ==
    /\ At(c, "relate")
    /\ Reach(c, "set", relation[job[c].player])
    /\ strayed' = IF \E d \in Events : At(d, "set") /\ job[d].player = job[c].player
                  THEN strayed \cup {"relation"} ELSE strayed
    /\ UNCHANGED <<process, session, mood, summary, graph, graphMood, relation, memory>>

\* Mutant: the deltas are written in place of the sum.
SetRelationMutant(c) ==
    /\ At(c, "set")
    /\ relation' = [relation EXCEPT ![job[c].player] = {c}]
    /\ Goto(c, "feel")
    /\ UNCHANGED <<process, session, mood, summary, graph, graphMood, memory, strayed>>

SetRelation(c) ==
    /\ At(c, "set")
    /\ relation' = [relation EXCEPT ![job[c].player] = job[c].seen \cup {c}]
    /\ Goto(c, "feel")
    /\ UNCHANGED <<process, session, mood, summary, graph, graphMood, memory, strayed>>

\* The emotion updater reads and sets the store without a suspension between;
\* its write to the graph comes later.
Feel(e, step) ==
    /\ mood' = mood \cup {e}
    /\ Reach(e, step, mood')
    /\ strayed' = IF \E f \in Events : At(f, "through") \/ At(f, "shaken")
                  THEN strayed \cup {"mood"} ELSE strayed
    /\ UNCHANGED <<process, session, summary, graph, graphMood, relation, memory>>

FeelDialogue(c) == At(c, "feel") /\ Feel(c, "through")

\* Gossip brings a severe rumour.
Shock(e) == phase = "up" /\ At(e, "new") /\ Room /\ Feel(e, "shaken")

WriteMood(e) ==
    /\ \/ At(e, "through") /\ Goto(e, "append")
       \/ At(e, "shaken") /\ End(e, "done")
    /\ graphMood' = job[e].seen
    /\ UNCHANGED <<process, session, mood, summary, graph, relation, memory, strayed>>

\* Mutant: the merged turns are not trimmed.
AppendTurnsMutant(c) ==
    /\ At(c, "append")
    /\ LET p == job[c].player IN
       /\ store' = [store EXCEPT ![p] = Append(Current(p), c)]
       /\ live' = live \cup {p}
    /\ summary' = [j \in Jobs |-> IF Under(j) THEN [summary[j] EXCEPT !.late = @ \cup {c}]
                                  ELSE Idle]
    /\ End(c, "done")
    /\ UNCHANGED <<process, mood, graph, graphMood, relation, memory, strayed>>

AppendTurns(c) ==
    /\ At(c, "append")
    /\ LET p == job[c].player IN
       /\ store' = [store EXCEPT ![p] = Newest(Append(Current(p), c), MaxTurns)]
       /\ live' = live \cup {p}
    /\ summary' = [j \in Jobs |-> IF Under(j) THEN [summary[j] EXCEPT !.late = @ \cup {c}]
                                  ELSE Idle]
    /\ End(c, "done")
    /\ UNCHANGED <<process, mood, graph, graphMood, relation, memory, strayed>>

\* A query of the call fails, or its client goes away.
Broken(a) ==
    /\ InProgress(a)
    /\ End(a, "broken")
    /\ UNCHANGED <<process, session, mood, summary, graph, graphMood, relation, memory, strayed>>

Expire(p) ==
    /\ phase = "up"
    /\ p \in live
    /\ live' = live \ {p}
    /\ UNCHANGED <<process, store, mood, summary, job, graph, graphMood, relation, memory, strayed>>

-----------------------------------------------------------------------------
\* Consolidation: the turns of all the NPC's sessions are read ...
Gathered == UNION {ToSet(store[p]) : p \in live}

Gather(j) ==
    /\ phase = "up"
    /\ ~Under(j)
    /\ Cardinality(Gathered) >= Threshold
    /\ summary' = [summary EXCEPT ![j] = [at |-> "summing", turns |-> Gathered, late |-> {}]]
    /\ strayed' = IF \E i \in Jobs : Under(i) THEN strayed \cup {"summary"} ELSE strayed
    /\ UNCHANGED <<process, session, mood, job, graph, graphMood, relation, memory>>

\* Mutant: the sessions are cleared although there is no summary.
SummaryFailsMutant(j) ==
    /\ summary[j].at = "summing"
    /\ summary' = [summary EXCEPT ![j].at = "clear", ![j].turns = {}]
    /\ UNCHANGED <<process, session, mood, job, graph, graphMood, relation, memory, strayed>>

\* ... the model's summary fails, or a query does, or the answer to the one
\* that stored the memory is lost, and nothing more happens ...
SummaryFails(j) ==
    /\ Under(j)
    /\ summary' = [summary EXCEPT ![j] = Idle]
    /\ strayed' = IF summary[j].at = "clear" THEN strayed \cup {"answer"} ELSE strayed
    /\ UNCHANGED <<process, session, mood, job, graph, graphMood, relation, memory>>

\* ... or it becomes a memory ...
Remember(j) ==
    /\ summary[j].at = "summing"
    /\ memory' = [c \in Events |-> IF c \in summary[j].turns /\ memory[c] < 2
                                  THEN memory[c] + 1 ELSE memory[c]]
    /\ summary' = [summary EXCEPT ![j] =
                     IF ClearAfter THEN [at |-> "clear", turns |-> {}, late |-> summary[j].late]
                     ELSE Idle]
    /\ UNCHANGED <<process, session, mood, job, graph, graphMood, relation, strayed>>

\* Mutant: nothing is cleared.
ClearMutant(j) ==
    /\ summary[j].at = "clear"
    /\ summary' = [summary EXCEPT ![j] = Idle]
    /\ UNCHANGED <<process, session, mood, job, graph, graphMood, relation, memory, strayed>>

\* ... and every session of the NPC is dropped, whatever it holds by now.
Clear(j) ==
    /\ summary[j].at = "clear"
    /\ store' = [p \in Players |-> <<>>]
    /\ live' = {}
    /\ summary' = [summary EXCEPT ![j] = Idle]
    /\ UNCHANGED <<process, mood, job, graph, graphMood, relation, memory, strayed>>

-----------------------------------------------------------------------------
\* Requests are over, background tasks are cancelled, then every session in the store is saved,
\* expired ones too, each with a delete and a create in queries of their own;
\* an error skips to the next session.
Cut == job' = [a \in Events |-> IF InProgress(a)
                                THEN [Unborn EXCEPT !.at = "broken"]
                                ELSE job[a]]

Shutdown ==
    /\ phase = "up"
    /\ \A e \in Events : InProgress(e) => At(e, "shaken")
    /\ phase' = "saving"
    /\ unsaved' = {p \in Players : store[p] # <<>>}
    /\ summary' = [j \in Jobs |-> Idle]
    /\ Cut
    /\ UNCHANGED <<session, mood, wiped, graph, graphMood, relation, memory, strayed>>

\* Mutant: the turns saved before stay.
DeleteTurnsMutant(p) ==
    /\ wiped = Nobody /\ p \in unsaved
    /\ wiped' = p
    /\ UNCHANGED <<phase, unsaved, session, mood, summary, job, graph, graphMood, relation, memory,
                   strayed>>

DeleteTurns(p) ==
    /\ wiped = Nobody /\ p \in unsaved
    /\ graph' = [graph EXCEPT ![p] = <<>>]
    /\ wiped' = p
    /\ UNCHANGED <<phase, unsaved, session, mood, summary, job, graphMood, relation, memory,
                   strayed>>

CreateTurns(p) ==
    /\ wiped = p
    /\ graph' = [graph EXCEPT ![p] = @ \o Newest(store[p], MaxPersisted)]
    /\ wiped' = Nobody
    /\ unsaved' = unsaved \ {p}
    /\ UNCHANGED <<phase, session, mood, summary, job, graphMood, relation, memory, strayed>>

SaveFails(p) ==
    /\ p \in unsaved /\ wiped \in {p, Nobody}
    /\ wiped' = Nobody
    /\ unsaved' = unsaved \ {p}
    /\ UNCHANGED <<phase, session, mood, summary, job, graph, graphMood, relation, memory, strayed>>

\* The process ends, when all is saved or at any time, and its memory with it.
Stop ==
    /\ phase' = "down"
    /\ store' = [p \in Players |-> <<>>]
    /\ live' = {}
    /\ mood' = {}
    /\ summary' = [j \in Jobs |-> Idle]
    /\ unsaved' = {}
    /\ wiped' = Nobody
    /\ Cut
    /\ UNCHANGED <<graph, graphMood, relation, memory, strayed>>

Exit  == phase = "saving" /\ unsaved = {} /\ Stop

Crash == phase # "down" /\ Stop

\* Mutant: moods are not loaded.
BootMutant ==
    /\ phase = "down"
    /\ phase' = "up"
    /\ store' = [p \in Players |-> Newest(graph[p], MaxTurns)]
    /\ live' = {p \in Players : graph[p] # <<>>}
    /\ UNCHANGED <<unsaved, wiped, mood, summary, job, graph, graphMood, relation, memory, strayed>>

\* Start: moods are loaded, saved turns appended to the empty store.
Boot ==
    /\ phase = "down"
    /\ phase' = "up"
    /\ mood' = graphMood
    /\ store' = [p \in Players |-> Newest(graph[p], MaxTurns)]
    /\ live' = {p \in Players : graph[p] # <<>>}
    /\ strayed' = IF \E p \in Players : \E c \in ToSet(graph[p]) : memory[c] > 0
                  THEN strayed \cup {"restart"} ELSE strayed
    /\ UNCHANGED <<unsaved, wiped, summary, job, graph, graphMood, relation, memory>>

-----------------------------------------------------------------------------
Call(c) ==
    \/ \E p \in Players, canned \in BOOLEAN : Ask(c, p, canned)
    \/ ReadRelation(c)
    \/ SetRelation(c)
    \/ FeelDialogue(c)
    \/ WriteMood(c)
    \/ AppendTurns(c)
    \/ Broken(c)

Consolidation(j) == Gather(j) \/ SummaryFails(j) \/ Remember(j) \/ Clear(j)

Session(p) == Expire(p) \/ DeleteTurns(p) \/ CreateTurns(p) \/ SaveFails(p)

Next ==
    \/ \E e \in Events : Call(e) \/ Shock(e)
    \/ \E j \in Jobs : Consolidation(j)
    \/ \E p \in Players : Session(p)
    \/ Shutdown \/ Exit \/ Crash \/ Boot

Spec == Init /\ [][Next]_vars

-----------------------------------------------------------------------------
\* Every value has its type; a session never holds more than MaxTurns, nor
\* the graph more than MaxPersisted (append_turns, save_to_graph).
TypeOK ==
    /\ phase \in {"up", "saving", "down"}
    /\ store \in [Players -> Seq(Events)]
    /\ graph \in [Players -> Seq(Events)]
    /\ \A p \in Players : Len(store[p]) <= MaxTurns /\ Len(graph[p]) <= MaxPersisted
    /\ live \subseteq Players
    /\ mood \subseteq Events /\ graphMood \subseteq Events
    /\ summary \in [Jobs -> Summary]
    /\ job \in [Events -> Job]
    /\ \A c \in Events : InProgress(c) /\ ~At(c, "shaken") => job[c].player \in Players
    /\ unsaved \subseteq Players
    /\ wiped \in Players \cup {Nobody}
    /\ relation \in [Players -> SUBSET Events]
    /\ memory \in [Events -> 0..2]
    /\ strayed \subseteq {"relation", "mood", "summary", "answer", "restart"}

SameOrder(s, t) ==
    \A i, j \in DOMAIN s : \A k, l \in DOMAIN t :
      (s[i] = t[k] /\ s[j] = t[l] /\ i < j) => k < l

Holding(p) == ToSet(store[p]) \cup ToSet(graph[p])

\* Through saves, failed saves, crashes and loads, no turn is twice in a
\* session or in the graph, none is in the session of two players, and turns
\* that both have stand in the same order (write_session_turns deletes, then
\* creates; load_from_graph appends to an empty store).
TurnsOnce ==
    /\ \A p \in Players : IsInjective(store[p]) /\ IsInjective(graph[p])
    /\ \A p, q \in Players : p # q => Holding(p) \cap Holding(q) = {}
    /\ \A p \in Players : SameOrder(store[p], graph[p])

\* With ClearAfter, a turn is summarised twice only after two consolidations
\* overlapped, the answer that a memory was stored was lost, or a start loaded
\* a turn that was summarised before: the saved turns of a session that was
\* cleared are never deleted (save_to_graph).
SummarisedOnce ==
    (ClearAfter /\ strayed \cap {"summary", "answer", "restart"} = {})
      => \A c \in Events : memory[c] <= 1

\* While the process is up, the store forgets a turn only when its session
\* expired, when MaxTurns newer ones push it out, when it was summarised, or
\* when a consolidation clears what was stored since it read the sessions
\* (clear_all_turns_for_npc).
ForgetsOnlyRemembered ==
    [][phase = "up" /\ phase' = "up" =>
         \A p \in Players : \A c \in ToSet(store[p]) \ ToSet(store'[p]) :
           \/ p \notin live
           \/ Len(store'[p]) = MaxTurns
           \/ memory[c] > 0
           \/ \E j \in Jobs : c \in summary[j].late /\ summary'[j] = Idle]_vars

\* Unless two write-throughs of the mood were pending at once, what the NPC
\* has felt and written survives restarts; in particular every call whose
\* turn was stored (apply_dialogue_mood, EmotionBootstrapper).
MoodKept ==
    ("mood" \notin strayed /\ phase = "up") =>
      \A a \in Events : job[a].at \in {"append", "done"} => a \in mood

\* Unless two transactions on the relation of one player cross, the relation
\* loses nothing it has taken in, whoever crashes or restarts
\* (_apply_relation_delta_tx).
RelationKept ==
    [][ "relation" \notin strayed =>
          \A p \in Players : relation[p] \subseteq relation'[p] ]_vars

=============================================================================
