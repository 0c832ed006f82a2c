---------------------- MODULE ConversationIntents_proofs ----------------------
(***************************************************************************)
(* What the queue of intents keeps to for any number of NPCs, players,     *)
(* workers and polls, and any cap: its cap while passes do not overlap,    *)
(* one delivery of each intent while polls do not, and evictions only for  *)
(* something better.                                                       *)
(***************************************************************************)
EXTENDS ConversationIntents, FiniteSetTheorems, TLAPS

-----------------------------------------------------------------------------
\* Types.

USE DEF bounds

\* The parts of an id and of a node.
LEMMA IdParts ==
    /\ \A i \in Ids : i[1] \in Npcs /\ i[2] \in Players /\ i[3] \in Ticks
    /\ \A x \in Nodes : x[1] \in Ids /\ x[2] \in Workers \cup {Nobody} /\ x = <<x[1], x[2]>>
    /\ \A i \in Ids, w \in Workers \cup {Nobody} :
          <<i, w>> \in Nodes /\ <<i, w>>[1] = i /\ <<i, w>>[2] = w
BY DEF Ids, Nodes

LEMMA WaitingNodes ==
    /\ Waiting \subseteq Nodes
    /\ \A n : Pending(n) \subseteq Waiting /\ \A x \in Pending(n) : x[1][1] = n
    /\ \A p : PendingFor(p) \subseteq Waiting /\ \A x \in PendingFor(p) : x[1][2] = p
BY DEF Waiting, Pending, PendingFor

\* A pass that goes on to its next intent, and one that ends.
LEMMA QueueingType ==
    ASSUME NEW t \in Nat, NEW left \in SUBSET Ids
    PROVE  /\ Queueing(t, left) \in Pass
           /\ Queueing(t, left).at = "next"
           /\ Queueing(t, left).hand = Nobody /\ Queueing(t, left).victim = Nobody
BY IntentAssumption DEF Queueing, Pass, Score

LEMMA NoPassType == NoPass \in Pass /\ NoPass.at = "idle" /\ NoPass.hand = Nobody /\ NoPass.victim = Nobody
BY IntentAssumption DEF NoPass, Queueing, Pass, Score

LEMMA NoPollType == NoPoll \in Poll /\ NoPoll.batch = {} /\ NoPoll.taken = {} /\ NoPoll.player = Nobody
BY DEF NoPoll, Poll

\* What TypeOK says of one pass.
PassOK(j) ==
    /\ j \in Pass
    /\ j.hand = Nobody <=> j.at \in {"idle", "next"}
    /\ j.victim # Nobody <=> j.at = "evict"

LEMMA PassesOK ==
    /\ TypeOK => pass \in [Workers -> Pass] /\ \A w \in Workers : PassOK(pass[w])
    /\ pass \in [Workers -> Pass] /\ (\A w \in Workers : PassOK(pass[w]))
         => \A w \in Workers : /\ pass[w].hand = Nobody <=> At(w, "idle") \/ At(w, "next")
                               /\ pass[w].victim # Nobody <=> At(w, "evict")
BY DEF TypeOK, PassOK, At

\* The types are kept when one pass moves to another state of a pass.
LEMMA PassMoves ==
    ASSUME TypeOK, NEW w \in Workers, NEW j, PassOK(j), pass' = [pass EXCEPT ![w] = j]
    PROVE  /\ pass' \in [Workers -> Pass]
           /\ \A v \in Workers :
                /\ pass'[v].hand = Nobody <=> At(v, "idle")' \/ At(v, "next")'
                /\ pass'[v].victim # Nobody <=> At(v, "evict")'
<1>1. pass' \in [Workers -> Pass]
  BY DEF TypeOK, PassOK
<1>2. \A v \in Workers : PassOK(pass'[v])
  BY PassesOK DEF TypeOK
<1>3. QED
  BY <1>1, <1>2 DEF PassOK, At

\* The intent in hand where there is one.
LEMMA HandType ==
    ASSUME TypeOK, NEW w \in Workers
    PROVE  /\ pass[w] \in Pass
           /\ At(w, "lowest") \/ At(w, "evict") \/ Queues(w) => pass[w].hand \in Ids
           /\ At(w, "evict") => pass[w].victim \in Nodes
BY DEF TypeOK, Pass, At, Queues

LEMMA ThroughMoves ==
    ASSUME TypeOK, NEW w \in Workers
    PROVE  /\ Through(w) = [pass EXCEPT ![w] = Queueing(pass[w].tick, pass[w].left)]
           /\ PassOK(Queueing(pass[w].tick, pass[w].left))
<1>1. pass[w] \in Pass
  BY HandType
<1>2. QED
  BY <1>1, QueueingType DEF Through, PassOK, Pass, TypeOK

LEMMA LargerType == \A a, b \in Score : LargerOf(a, b) \in {a, b} /\ a <= LargerOf(a, b) /\ b <= LargerOf(a, b)
BY IntentAssumption DEF LargerOf, Score

LEMMA TypeStep ==
    ASSUME TypeOK, [Next]_vars
    PROVE  TypeOK'
<1> USE IntentAssumption
<1>1. ASSUME NEW w \in Workers, StartPass(w)
      PROVE  TypeOK'
  <2>1. PICK t \in Ticks : /\ tick' = LargerOf(tick, t)
                            /\ pass' = [pass EXCEPT ![w] = Queueing(t, {i \in Ids : i[3] = t})]
    BY <1>1 DEF StartPass
  <2>2. PassOK(Queueing(t, {i \in Ids : i[3] = t}))
    BY QueueingType DEF PassOK, Ticks
  <2>3. tick' \in 0..MaxTick
    BY <2>1 DEF TypeOK, LargerOf, Ticks
  <2>4. /\ strayed' \subseteq {"pass", "waste", "redo"}
        /\ passes' \in 0..MaxPasses
    BY <1>1 DEF StartPass, TypeOK
  <2>5. QED
    BY <1>1, <2>1, <2>2, <2>3, <2>4, PassMoves DEF StartPass, TypeOK
<1>2. ASSUME NEW w \in Workers, NEW i \in pass[w].left, CountPending(w, i)
      PROVE  TypeOK'
  <2>1. PICK score \in 1..MaxScore :
          pass' = [pass EXCEPT ![w] =
            [pass[w] EXCEPT !.at = IF HasRoom(i[1]) THEN "merge" ELSE "lowest",
                            !.left = pass[w].left \ {i}, !.hand = i, !.score = score]]
    BY <1>2 DEF CountPending, TypeOK
  <2>2. PassOK([pass[w] EXCEPT !.at = IF HasRoom(i[1]) THEN "merge" ELSE "lowest",
                               !.left = pass[w].left \ {i}, !.hand = i, !.score = score])
    <3>1. /\ PassOK(pass[w]) /\ pass[w] \in Pass /\ pass[w].at = "next"
          /\ pass[w].victim = Nobody /\ i \in Ids /\ i # Nobody
      BY <1>2, HandType, PassesOK DEF PassOK, CountPending, At, Pass
    <3>2. score \in Score
      BY DEF Score
    <3>3. QED
      BY <3>1, <3>2 DEF PassOK, Pass
  <2>3. strayed' \subseteq {"pass", "waste", "redo"}
    BY <1>2 DEF CountPending, TypeOK
  <2>4. QED
    BY <1>2, <2>1, <2>2, <2>3, PassMoves DEF CountPending, TypeOK
<1>3. ASSUME NEW w \in Workers, PickLowest(w)
      PROVE  TypeOK'
  <2>1. CASE pass' = Through(w)
    BY <1>3, <2>1, ThroughMoves, PassMoves DEF PickLowest, TypeOK
  <2>2. CASE \E v \in Victims(pass[w].hand[1], pass[w].score) :
               pass' = [pass EXCEPT ![w].at = "evict", ![w].victim = v]
    <3>1. PICK v \in Nodes : pass' = [pass EXCEPT ![w].at = "evict", ![w].victim = v]
      BY <2>2, WaitingNodes DEF Victims, Lowest
    <3>2. PassOK([pass[w] EXCEPT !.at = "evict", !.victim = v])
      BY <1>3, HandType, PassesOK DEF PickLowest, PassOK, Pass, At
    <3>3. pass' = [pass EXCEPT ![w] = [pass[w] EXCEPT !.at = "evict", !.victim = v]]
      BY <3>1 DEF TypeOK
    <3>4. QED
      BY <1>3, <3>2, <3>3, PassMoves DEF PickLowest, TypeOK
  <2>3. QED
    BY <1>3, <2>1, <2>2 DEF PickLowest
<1>4. ASSUME NEW w \in Workers, Evict(w)
      PROVE  TypeOK'
  <2> DEFINE v == pass[w].victim
  <2>1. v \in Nodes /\ v[1][1] \in Npcs
    BY <1>4, HandType, IdParts DEF Evict
  <2>2. node' \in [Nodes -> Node]
    BY <1>4 DEF Evict, TypeOK, Absent, Node, Score
  <2>3. node[v].score \in Score /\ evicted[v[1][1]] \in Score
    BY <2>1 DEF TypeOK, Node
  <2>4. evicted' \in [Npcs -> Score]
    BY <1>4, <2>1, <2>3, LargerType DEF Evict, TypeOK
  <2>5. strayed' \subseteq {"pass", "waste", "redo"}
    BY <1>4 DEF Evict, TypeOK
  <2>6. PassOK([pass[w] EXCEPT !.at = "merge", !.victim = Nobody])
    BY <1>4, HandType, PassesOK DEF Evict, PassOK, Pass, At
  <2>7. pass' = [pass EXCEPT ![w] = [pass[w] EXCEPT !.at = "merge", !.victim = Nobody]]
    BY <1>4 DEF Evict, TypeOK
  <2>8. QED
    BY <1>4, <2>2, <2>4, <2>5, <2>6, <2>7, PassMoves DEF Evict, TypeOK, bounds
<1>5. ASSUME NEW w \in Workers, Merge(w)
      PROVE  TypeOK'
  <2>1. CASE pass' = Through(w)
    BY <1>5, <2>1, ThroughMoves, PassMoves DEF Merge, TypeOK, bounds
  <2>2. CASE pass' = [pass EXCEPT ![w].at = "create"]
    <3>1. PassOK([pass[w] EXCEPT !.at = "create"])
      BY <1>5, HandType, PassesOK DEF Merge, PassOK, Pass, At
    <3>2. pass' = [pass EXCEPT ![w] = [pass[w] EXCEPT !.at = "create"]]
      BY <2>2 DEF TypeOK
    <3>3. QED
      BY <1>5, <3>1, <3>2, PassMoves DEF Merge, TypeOK, bounds
  <2>3. QED
    BY <1>5, <2>1, <2>2 DEF Merge
<1>5a. ASSUME NEW w \in Workers, Create(w)
       PROVE  TypeOK'
  <2>1. pass[w].hand \in Ids /\ pass[w].score \in Score
    BY <1>5a, HandType DEF Create, Pass, Queues, At
  <2>2. node' \in [Nodes -> Node] /\ twinned' \subseteq Ids
    BY <1>5a, <2>1 DEF Create, TypeOK, Node
  <2>3. QED
    BY <1>5a, <2>2, ThroughMoves, PassMoves DEF Create, TypeOK, bounds
<1>6. ASSUME NEW w \in Workers, ExpireOld(w)
      PROVE  TypeOK'
  <2>1. node' \in [Nodes -> Node]
    BY <1>6 DEF ExpireOld, TypeOK, Node
  <2>2. PassOK(NoPass)
    BY NoPassType DEF PassOK
  <2>3. QED
    BY <1>6, <2>1, <2>2, PassMoves DEF ExpireOld, TypeOK
<1>7. ASSUME NEW w \in Workers, PassFails(w)
      PROVE  TypeOK'
  <2>1. PassOK(NoPass)
    BY NoPassType DEF PassOK
  <2>2. faults' \in 0..MaxFaults /\ strayed' \subseteq {"pass", "waste", "redo"}
    BY <1>7 DEF PassFails, TypeOK
  <2>3. QED
    BY <1>7, <2>1, <2>2, PassMoves DEF PassFails, TypeOK
<1>8. ASSUME NEW q \in Polls, NEW p \in Players, ReadPending(q, p)
      PROVE  TypeOK'
  <2>1. PICK b \in Best(p) \ {{}} :
          poll' = [poll EXCEPT ![q] = [at |-> "mark", player |-> p, batch |-> b, taken |-> {}]]
    BY <1>8 DEF ReadPending
  <2>2. b \subseteq Nodes
    BY WaitingNodes DEF Best
  <2>3. poll' \in [Polls -> Poll]
    BY <2>1, <2>2 DEF TypeOK, Poll
  <2>4. strayed' \subseteq {"pass", "waste", "redo"}
    BY <1>8 DEF ReadPending, TypeOK
  <2>5. QED
    BY <1>8, <2>3, <2>4 DEF ReadPending, TypeOK, At
<1>9. ASSUME NEW q \in Polls, NEW row \in poll[q].batch, MarkDelivered(q, row)
      PROVE  TypeOK'
  <2>1. node' \in [Nodes -> Node]
    BY <1>9 DEF MarkDelivered, TypeOK, Node
  <2>2. poll' \in [Polls -> Poll]
    <3>1. poll' = [poll EXCEPT ![q] = [poll[q] EXCEPT !.batch = poll[q].batch \ {row},
                                                      !.taken = poll[q].taken \cup {row}]]
      BY <1>9 DEF MarkDelivered, TypeOK
    <3>2. poll[q] \in Poll
      BY DEF TypeOK
    <3>3. [poll[q] EXCEPT !.batch = poll[q].batch \ {row}, !.taken = poll[q].taken \cup {row}] \in Poll
      BY <3>2 DEF Poll
    <3>4. QED
      BY <3>1, <3>3 DEF TypeOK
  <2>3. QED
    BY <1>9, <2>1, <2>2 DEF MarkDelivered, TypeOK, At
<1>10. ASSUME NEW q \in Polls, Answer(q)
       PROVE  TypeOK'
  <2>1. poll' \in [Polls -> Poll] /\ poll[q].taken \subseteq Nodes
    BY <1>10, NoPollType DEF Answer, TypeOK, Poll
  <2>2. got' \subseteq Ids /\ twice' \subseteq got'
    BY <1>10, <2>1, IdParts DEF Answer, TypeOK, Copies
  <2>3. QED
    BY <1>10, <2>1, <2>2 DEF Answer, TypeOK, At, bounds
<1>11. ASSUME NEW q \in Polls, PollFails(q)
       PROVE  TypeOK'
  <2>1. poll' \in [Polls -> Poll] /\ faults' \in 0..MaxFaults
    BY <1>11, NoPollType DEF PollFails, TypeOK
  <2>2. QED
    BY <1>11, <2>1 DEF PollFails, TypeOK, At
<1>12. CASE UNCHANGED vars
  BY <1>12 DEF vars, TypeOK, At
<1>13. QED
  BY <1>1, <1>2, <1>3, <1>4, <1>5, <1>5a, <1>6, <1>7, <1>8, <1>9, <1>10, <1>11, <1>12
     DEF Next, Engine, Route

LEMMA TypeInit == Init => TypeOK
<1> USE IntentAssumption
<1> SUFFICES ASSUME Init PROVE TypeOK
  OBVIOUS
<1>1. node \in [Nodes -> Node]
  BY DEF Init, Absent, Node, Score
<1>2. pass \in [Workers -> Pass] /\ \A w \in Workers : PassOK(pass[w])
  BY NoPassType DEF Init, PassOK
<1>3. poll \in [Polls -> Poll] /\ evicted \in [Npcs -> Score]
  BY NoPollType DEF Init, Score
<1>4. QED
  BY <1>1, <1>2, <1>3, PassesOK DEF Init, TypeOK

\* The variables have their types, and a pass has an intent in hand, and a
\* victim, exactly where it uses one.
THEOREM TypeCorrect == Spec => []TypeOK
BY TypeInit, TypeStep, PTL DEF Spec

-----------------------------------------------------------------------------
\* One delivery of each intent.

\* An id that never had two nodes has at most its first one.
Untwinned == \A x \in Nodes : Present(x) /\ x[1] \notin twinned => x[2] = Nobody

Past(x) == node[x].status = "past"

\* What a client has been given stays marked; what a poll has in hand is in the
\* queue, and marked once taken; and no two polls have intents of one player.
HandedOutOnce ==
    /\ twice \subseteq twinned
    /\ \A i \in got \ twinned : Past(<<i, Nobody>>)
    /\ \A q \in Polls : \A x \in poll[q].batch \cup poll[q].taken :
         /\ poll[q].player # Nobody /\ x[1][2] = poll[q].player
         /\ x[1] \notin twinned =>
              x[2] = Nobody /\ Present(x) /\ x[1] \notin got /\ (x \in poll[q].taken => Past(x))
    /\ \A q, r \in Polls : q # r /\ poll[q].player = poll[r].player => poll[q].player = Nobody

OnceInv == Untwinned /\ ("redo" \notin strayed => HandedOutOnce)

LEMMA FirstNode == ASSUME NEW x \in Nodes, x[2] = Nobody PROVE x = <<x[1], Nobody>>
BY IdParts

LEMMA PollNodes ==
    TypeOK => /\ got \subseteq Ids
              /\ \A q \in Polls : poll[q].batch \subseteq Nodes /\ poll[q].taken \subseteq Nodes
BY DEF TypeOK, Poll

\* Only Create gives an id a node, and it gives it a second one only once the id
\* counts as twinned.
LEMMA UntwinnedStep ==
    ASSUME TypeOK, Untwinned, [Next]_vars
    PROVE  Untwinned' /\ twinned \subseteq twinned'
<1>1. CASE twinned' = twinned /\ \A x \in Nodes : Present(x)' => Present(x)
  BY <1>1 DEF Untwinned
<1>2. ASSUME NEW w \in Workers, Create(w)
      PROVE  Untwinned' /\ twinned \subseteq twinned'
  <2>1. PICK i, x : i = pass[w].hand /\ x = IF Exists(i) THEN <<i, w>> ELSE <<i, Nobody>>
    OBVIOUS
  <2>2. i \in Ids /\ x \in Nodes /\ x[1] = i
    BY <1>2, <2>1, HandType, IdParts DEF Create, Queues, At
  <2>3. \A y \in Nodes : y # x => node'[y] = node[y]
    BY <1>2, <2>1, <2>2 DEF Create, TypeOK
  <2>4. twinned' = IF Exists(i) THEN twinned \cup {i} ELSE twinned
    BY <1>2, <2>1 DEF Create
  <2>5. x[1] \notin twinned' => x[2] = Nobody
    BY <2>1, <2>2, <2>4, IdParts
  <2>6. QED
    BY <2>3, <2>4, <2>5 DEF Untwinned, Present
<1>3. ASSUME NEW w \in Workers, Evict(w)
      PROVE  twinned' = twinned /\ \A x \in Nodes : Present(x)' => Present(x)
  BY <1>3 DEF Evict, Present, Absent
<1>4. ASSUME NEW w \in Workers, ExpireOld(w)
      PROVE  twinned' = twinned /\ \A x \in Nodes : Present(x)' => Present(x)
  BY <1>4 DEF ExpireOld, Present, Waiting
<1>5. ASSUME NEW q \in Polls, NEW row \in poll[q].batch, MarkDelivered(q, row)
      PROVE  twinned' = twinned /\ \A x \in Nodes : Present(x)' => Present(x)
  BY <1>5 DEF MarkDelivered, Present
<1>6. CASE UNCHANGED <<node, twinned>>
  BY <1>1, <1>6 DEF Present
<1>7. QED
  BY <1>1, <1>2, <1>3, <1>4, <1>5, <1>6
     DEF Next, Engine, Route, StartPass, CountPending, PickLowest, Merge, PassFails, ReadPending,
         Answer, PollFails, vars

\* The polls do not notice a change of other nodes, nor one that leaves a node
\* there, and marked if it was.
LEMMA NodesChange ==
    ASSUME HandedOutOnce, UNCHANGED <<poll, got, twice>>, twinned \subseteq twinned', TypeOK,
           \A x \in Nodes : /\ x[1] \in got \/ Polled(x[1])
                            /\ x[1] \notin twinned'
                            /\ Present(x)
                            => Present(x)' /\ (Past(x) => Past(x)')
    PROVE  HandedOutOnce'
<1>1. \A x \in Nodes : Past(x) => Present(x)
  BY DEF Past, Present
<1>2. ASSUME NEW i \in got \ twinned'
      PROVE  Past(<<i, Nobody>>)'
  <2>1. <<i, Nobody>> \in Nodes /\ <<i, Nobody>>[1] = i
    BY IdParts, PollNodes
  <2>2. Past(<<i, Nobody>>)
    BY DEF HandedOutOnce
  <2>3. QED
    BY <1>1, <2>1, <2>2
<1>3. ASSUME NEW q \in Polls, NEW x \in poll[q].batch \cup poll[q].taken, x[1] \notin twinned'
      PROVE  Present(x)' /\ (x \in poll[q].taken => Past(x)')
  <2>1. x \in Nodes /\ Polled(x[1])
    BY PollNodes DEF Polled, Copies
  <2>2. Present(x) /\ (x \in poll[q].taken => Past(x))
    BY <1>3 DEF HandedOutOnce
  <2>3. QED
    BY <1>3, <2>1, <2>2
<1>4. twice' \subseteq twinned'
  BY DEF HandedOutOnce
<1>5. QED
  BY <1>2, <1>3, <1>4 DEF HandedOutOnce

LEMMA OnceStep ==
    ASSUME TypeOK, OnceInv, [Next]_vars
    PROVE  OnceInv'
<1> USE IntentAssumption
<1>u. Untwinned /\ Untwinned' /\ twinned \subseteq twinned'
  BY UntwinnedStep DEF OnceInv
<1> SUFFICES ASSUME "redo" \notin strayed'
             PROVE  HandedOutOnce'
  BY <1>u DEF OnceInv
<1>0. strayed \subseteq strayed'
  BY DEF Next, Engine, Route, StartPass, CountPending, PickLowest, Evict, Merge, Create, ExpireOld,
         PassFails, ReadPending, MarkDelivered, Answer, PollFails, vars
<1>a. HandedOutOnce
  BY <1>0 DEF OnceInv
<1>1. CASE UNCHANGED <<node, poll, got, twice>>
  BY <1>a, <1>u, <1>1, NodesChange DEF Past, Present
<1>2. ASSUME NEW w \in Workers, Evict(w)
      PROVE  HandedOutOnce'
  <2>1. PICK i : i = pass[w].victim[1]
    OBVIOUS
  <2>2. /\ i \in Ids /\ UNCHANGED <<poll, got, twice>>
        /\ \A x \in Nodes : x[1] # i => node'[x] = node[x]
    BY <1>2, <2>1, HandType, IdParts DEF Evict, Copies
  <2>3. ~Polled(i) /\ \A x \in Copies(i) : ~Past(x)
    BY <1>2, <2>1 DEF Evict, Past
  <2>4. i \in twinned \/ i \notin got
    <3>1. <<i, Nobody>> \in Copies(i)
      BY <2>2, IdParts DEF Copies
    <3>2. QED
      BY <1>a, <2>3, <3>1 DEF HandedOutOnce
  <2>5. \A x \in Nodes : (x[1] \in got \/ Polled(x[1])) /\ x[1] \notin twinned' => node'[x] = node[x]
    BY <1>u, <2>2, <2>3, <2>4
  <2>6. QED
    BY <1>a, <1>u, <2>2, <2>5, NodesChange DEF Past, Present
<1>3. ASSUME NEW w \in Workers, Create(w)
      PROVE  HandedOutOnce'
  <2>1. PICK i, x : i = pass[w].hand /\ x = IF Exists(i) THEN <<i, w>> ELSE <<i, Nobody>>
    OBVIOUS
  <2>2. i \in Ids /\ x \in Nodes /\ x[1] = i
    BY <1>3, <2>1, HandType, IdParts DEF Create, Queues, At
  <2>3. \A y \in Nodes : y # x => node'[y] = node[y]
    BY <1>3, <2>1, <2>2 DEF Create, TypeOK
  <2>4. i \in twinned' \/ ~Present(x)
    BY <1>3, <2>1, <2>2 DEF Create, Exists, Copies
  <2>5. UNCHANGED <<poll, got, twice>>
    BY <1>3 DEF Create
  <2>6. QED
    BY <1>a, <1>u, <2>2, <2>3, <2>4, <2>5, NodesChange DEF Past, Present
<1>4. ASSUME NEW w \in Workers, ExpireOld(w)
      PROVE  HandedOutOnce'
  <2>1. \A x \in Nodes : node'[x] = node[x] \/ (node[x].status = "pending" /\ node'[x].status = "past")
    BY <1>4 DEF ExpireOld, Waiting, TypeOK, Node
  <2>2. UNCHANGED <<poll, got, twice>>
    BY <1>4 DEF ExpireOld
  <2>3. QED
    BY <1>a, <1>u, <2>1, <2>2, NodesChange DEF Past, Present
<1>5. ASSUME NEW q \in Polls, NEW p \in Players, ReadPending(q, p)
      PROVE  HandedOutOnce'
  <2>1. PICK b \in Best(p) \ {{}} :
          poll' = [poll EXCEPT ![q] = [at |-> "mark", player |-> p, batch |-> b, taken |-> {}]]
    BY <1>5 DEF ReadPending
  <2>2. \A x \in b : x \in Nodes /\ node[x].status = "pending" /\ x[1][2] = p
    BY WaitingNodes DEF Best, Waiting
  <2>3. \A x \in b : x[1] \notin twinned => x[2] = Nobody /\ Present(x) /\ x[1] \notin got
    <3>1. SUFFICES ASSUME NEW x \in b, x[1] \notin twinned
                   PROVE  x[2] = Nobody /\ Present(x) /\ x[1] \notin got
      OBVIOUS
    <3>2. Present(x) /\ x[2] = Nobody
      BY <1>u, <2>2, <3>1 DEF Untwinned, Present
    <3>3. x = <<x[1], Nobody>> /\ ~Past(x)
      BY <2>2, <3>2, FirstNode DEF Past
    <3>4. QED
      BY <1>a, <3>1, <3>2, <3>3 DEF HandedOutOnce
  <2>4. \A r \in Polls : poll[r].player # p
    BY <1>5 DEF ReadPending
  <2>5. /\ \A r \in Polls : r # q => poll'[r] = poll[r]
        /\ poll'[q] = [at |-> "mark", player |-> p, batch |-> b, taken |-> {}]
    BY <2>1 DEF TypeOK
  <2>6. UNCHANGED <<node, got, twice, twinned>>
    BY <1>5 DEF ReadPending
  <2>7. \A r \in Polls : \A x \in poll'[r].batch \cup poll'[r].taken :
          /\ poll'[r].player # Nobody /\ x[1][2] = poll'[r].player
          /\ x[1] \notin twinned =>
               x[2] = Nobody /\ Present(x) /\ x[1] \notin got /\ (x \in poll'[r].taken => Past(x))
    BY <1>a, <2>2, <2>3, <2>5 DEF HandedOutOnce
  <2>8. \A r, t \in Polls : r # t /\ poll'[r].player = poll'[t].player => poll'[r].player = Nobody
    BY <1>a, <2>4, <2>5 DEF HandedOutOnce
  <2>9. QED
    BY <1>a, <2>6, <2>7, <2>8 DEF HandedOutOnce, Past, Present
<1>6. ASSUME NEW q \in Polls, NEW row \in poll[q].batch, MarkDelivered(q, row)
      PROVE  HandedOutOnce'
  <2>1. row \in Nodes /\ UNCHANGED <<got, twice, twinned>>
    BY <1>6, PollNodes DEF MarkDelivered
  <2>2. \A x \in Nodes : IF x[1] = row[1] /\ Present(x) THEN Past(x)' ELSE node'[x] = node[x]
    BY <1>6 DEF MarkDelivered, Copies, Past, Present, TypeOK, Node
  <2>3. \A x \in Nodes : (Present(x) => Present(x)') /\ (Past(x) => Past(x)')
    BY <2>2 DEF Present, Past
  <2>4. /\ \A r \in Polls : r # q => poll'[r] = poll[r]
        /\ poll'[q].batch = poll[q].batch \ {row}
        /\ poll'[q].taken = poll[q].taken \cup {row}
        /\ poll'[q].player = poll[q].player
    BY <1>6 DEF MarkDelivered, TypeOK, Poll
  <2>5. ASSUME NEW i \in got \ twinned
        PROVE  Past(<<i, Nobody>>)'
    BY <1>a, <2>3, IdParts, PollNodes DEF HandedOutOnce
  <2>6. ASSUME NEW r \in Polls, NEW x \in poll'[r].batch \cup poll'[r].taken
        PROVE  /\ poll[r].player # Nobody /\ x[1][2] = poll[r].player
               /\ x[1] \notin twinned =>
                    x[2] = Nobody /\ Present(x)' /\ x[1] \notin got /\ (x \in poll'[r].taken => Past(x)')
    <3>1. x \in poll[r].batch \cup poll[r].taken /\ x \in Nodes
      BY <2>1, <2>4, PollNodes
    <3>2. x \in poll'[r].taken => x \in poll[r].taken \/ x = row
      BY <2>4
    <3>3. x = row /\ Present(x) => Past(x)'
      BY <2>1, <2>2
    <3>4. QED
      BY <1>a, <2>3, <3>1, <3>2, <3>3 DEF HandedOutOnce
  <2>7. \A r, t \in Polls : r # t /\ poll'[r].player = poll'[t].player => poll'[r].player = Nobody
    BY <1>a, <2>4 DEF HandedOutOnce
  <2>8. \A r \in Polls : poll'[r].player = poll[r].player
    BY <2>4
  <2>9. QED
    BY <1>a, <2>1, <2>5, <2>6, <2>7, <2>8 DEF HandedOutOnce
<1>7. ASSUME NEW q \in Polls, Answer(q)
      PROVE  HandedOutOnce'
  <2>1. \A x \in poll[q].taken : /\ x \in Nodes
                                 /\ x[1] \notin twinned =>
                                      x[1] \notin got /\ x = <<x[1], Nobody>> /\ Past(x)
    BY <1>a, PollNodes, FirstNode DEF HandedOutOnce
  <2>2. /\ twice' = twice \cup {i \in Ids : \E x, y \in poll[q].taken \cap Copies(i) :
                                                i \in got \/ x # y}
        /\ got' = got \cup {x[1] : x \in poll[q].taken}
        /\ UNCHANGED <<node, twinned>>
    BY <1>7 DEF Answer
  <2>3. twice' \subseteq twinned
    <3>1. SUFFICES ASSUME NEW i \in Ids, i \notin twinned,
                          NEW x \in poll[q].taken \cap Copies(i),
                          NEW y \in poll[q].taken \cap Copies(i), i \in got \/ x # y
                   PROVE  FALSE
      BY <1>a, <2>2 DEF HandedOutOnce
    <3>2. x[1] = i /\ y[1] = i
      BY DEF Copies
    <3>3. QED
      BY <2>1, <3>1, <3>2
  <2>4. /\ \A r \in Polls : r # q => poll'[r] = poll[r]
        /\ poll'[q] = NoPoll
    BY <1>7 DEF Answer, TypeOK
  <2>5. ASSUME NEW r \in Polls, r # q, NEW x \in poll[r].batch \cup poll[r].taken
        PROVE  x[1] \notin {y[1] : y \in poll[q].taken}
    <3>1. SUFFICES ASSUME NEW y \in poll[q].taken, y[1] = x[1]
                   PROVE  FALSE
      OBVIOUS
    <3>2. poll[r].player = x[1][2] /\ poll[q].player = y[1][2] /\ poll[q].player # Nobody
      BY <1>a, <2>5 DEF HandedOutOnce
    <3>3. QED
      BY <1>a, <2>5, <3>1, <3>2 DEF HandedOutOnce
  <2>6. \A i \in got' \ twinned : Past(<<i, Nobody>>)
    BY <1>a, <2>1, <2>2 DEF HandedOutOnce
  <2>7. ASSUME NEW r \in Polls, NEW x \in poll'[r].batch \cup poll'[r].taken
        PROVE  /\ poll'[r].player # Nobody /\ x[1][2] = poll'[r].player
               /\ x[1] \notin twinned =>
                    x[2] = Nobody /\ Present(x) /\ x[1] \notin got' /\ (x \in poll'[r].taken => Past(x))
    <3>1. r # q /\ poll'[r] = poll[r]
      BY <2>4, <2>7, NoPollType
    <3>2. QED
      BY <1>a, <2>2, <2>5, <2>7, <3>1 DEF HandedOutOnce
  <2>8. \A r, t \in Polls : r # t /\ poll'[r].player = poll'[t].player => poll'[r].player = Nobody
    BY <1>a, <2>4, NoPollType DEF HandedOutOnce
  <2>9. QED
    BY <2>2, <2>3, <2>6, <2>7, <2>8 DEF HandedOutOnce, Past, Present
<1>8. ASSUME NEW q \in Polls, PollFails(q)
      PROVE  HandedOutOnce'
  <2>1. /\ \A r \in Polls : r # q => poll'[r] = poll[r]
        /\ poll'[q] = NoPoll
        /\ UNCHANGED <<node, got, twice, twinned>>
    BY <1>8 DEF PollFails, TypeOK
  <2>2. QED
    BY <1>a, <2>1, NoPollType DEF HandedOutOnce, Past, Present
<1>9. QED
  BY <1>1, <1>2, <1>3, <1>4, <1>5, <1>6, <1>7, <1>8
     DEF Next, Engine, Route, StartPass, CountPending, PickLowest, Merge, PassFails, vars

LEMMA OnceInit == Init => OnceInv
BY NoPollType DEF Init, OnceInv, Untwinned, HandedOutOnce, Present, Absent

\* A client is given an intent once, unless two polls of a player overlapped, a
\* pass evicted what a poll was handing out or had handed out, or two workers
\* created a node for this intent.
THEOREM DeliveriesAreOnce == Spec => []DeliveredOnce
<1>1. TypeOK /\ OnceInv => DeliveredOnce
  BY DEF OnceInv, HandedOutOnce, DeliveredOnce
<1>2. TypeOK /\ OnceInv /\ [Next]_vars => TypeOK' /\ OnceInv'
  BY TypeStep, OnceStep
<1>3. QED
  BY <1>1, <1>2, TypeInit, OnceInit, PTL DEF Spec

-----------------------------------------------------------------------------
\* The cap, while passes do not overlap.

OnePass == \A v, w \in Workers : v # w => At(v, "idle") \/ At(w, "idle")

WithinCap == \A n \in Npcs : Cardinality(Pending(n)) <= Cap

\* A pass that is about to queue an intent has a place for it; one that is about
\* to evict another has a place but for that one, whatever has become of it.
PlaceFor(w) ==
    /\ Queues(w) => HasRoom(pass[w].hand[1])
    /\ At(w, "evict") =>
         /\ pass[w].victim[1][1] = pass[w].hand[1]
         /\ Cardinality(Pending(pass[w].hand[1]) \ Copies(pass[w].victim[1])) < Cap

Capped == OnePass /\ WithinCap /\ \A w \in Workers : PlaceFor(w)

CapInv == "pass" \notin strayed => Capped

LEMMA CapType == Cap \in Nat /\ Cap > 0
BY IntentAssumption

LEMMA Finite ==
    /\ IsFiniteSet(Waiting)
    /\ \A n : IsFiniteSet(Pending(n)) /\ Cardinality(Pending(n)) \in Nat
    /\ \A n, X : IsFiniteSet(Pending(n) \ X) /\ Cardinality(Pending(n) \ X) \in Nat
    /\ \A n, x : x \in Pending(n) => Cardinality(Pending(n) \ {x}) = Cardinality(Pending(n)) - 1
<1>1. IsFiniteSet(Waiting)
  BY IntentAssumption, WaitingNodes, FS_Subset
<1>2. \A n : IsFiniteSet(Pending(n))
  BY <1>1, WaitingNodes, FS_Subset
<1>3. \A n, X : IsFiniteSet(Pending(n) \ X)
  BY <1>2, FS_Subset
<1>4. QED
  BY <1>1, <1>2, <1>3, FS_CardinalityType, FS_RemoveElement

LEMMA FiniteNext == \A n : IsFiniteSet(Pending(n)') /\ Cardinality(Pending(n)') \in Nat
<1>1. \A n : Pending(n)' \subseteq Nodes
  BY DEF Pending, Waiting
<1>2. QED
  BY <1>1, IntentAssumption, FS_Subset, FS_CardinalityType

LEMMA FewerWithout ==
    ASSUME NEW m, NEW X, Pending(m)' \subseteq Pending(m)
    PROVE  /\ Cardinality(Pending(m)' \ X) \in Nat
           /\ Cardinality(Pending(m)' \ X) <= Cardinality(Pending(m) \ X)
<1>1. IsFiniteSet(Pending(m) \ X)
  BY Finite
<1>2. Pending(m)' \ X \in SUBSET (Pending(m) \ X)
  OBVIOUS
<1>3. QED
  BY <1>1, <1>2, FS_Subset, FS_CardinalityType

\* A pass about to act is unaffected when intents leave the queue.
LEMMA FewerPending ==
    ASSUME \A n : Pending(n)' \subseteq Pending(n)
    PROVE  /\ WithinCap => WithinCap'
           /\ \A w \in Workers : pass'[w] = pass[w] /\ PlaceFor(w) => PlaceFor(w)'
<1> USE CapType, Finite
<1>1. \A n : Cardinality(Pending(n)') \in Nat /\ Cardinality(Pending(n)') <= Cardinality(Pending(n))
  BY FS_Subset, FiniteNext
<1>2. WithinCap => WithinCap'
  BY <1>1 DEF WithinCap
<1>3. ASSUME NEW w \in Workers, pass'[w] = pass[w], PlaceFor(w)
      PROVE  PlaceFor(w)'
  <2>0. PICK n, v, X : n = pass[w].hand[1] /\ v = pass[w].victim /\ X = Copies(v[1])
    OBVIOUS
  <2>1. Queues(w)' => HasRoom(n)'
    BY <1>1, <1>3, <2>0 DEF PlaceFor, Queues, HasRoom
  <2>2. Cardinality(Pending(n)' \ X) \in Nat
        /\ Cardinality(Pending(n)' \ X) <= Cardinality(Pending(n) \ X)
    BY FewerWithout
  <2>3. At(w, "evict")' => v[1][1] = n /\ Cardinality(Pending(n)' \ X) < Cap
    <3>1. At(w, "evict")' => v[1][1] = n /\ Cardinality(Pending(n) \ X) < Cap
      BY <1>3, <2>0 DEF PlaceFor, At
    <3>2. Cardinality(Pending(n) \ X) \in Nat
      BY Finite
    <3>3. QED
      BY <2>2, <3>1, <3>2
  <2>4. QED
    BY <1>3, <2>0, <2>1, <2>3 DEF PlaceFor, At, Queues, Copies
<1>4. QED
  BY <1>2, <1>3

\* Nor by passes that give up what they were about to do.
LEMMA CapShrinks ==
    ASSUME Capped, \A n : Pending(n)' \subseteq Pending(n),
           \A w \in Workers : \/ pass'[w] = pass[w]
                              \/ pass'[w].at \in {"next", "lowest"} /\ ~At(w, "idle")
                              \/ pass'[w].at = "idle"
    PROVE  Capped'
<1>1. OnePass'
  BY DEF Capped, OnePass, At
<1>2. WithinCap' /\ \A w \in Workers : pass'[w] = pass[w] => PlaceFor(w)'
  BY FewerPending DEF Capped
<1>3. \A w \in Workers : pass'[w].at \in {"next", "lowest", "idle"} => PlaceFor(w)'
  BY DEF PlaceFor, At, Queues
<1>4. QED
  BY <1>1, <1>2, <1>3 DEF Capped

\* What only one pass does.
LEMMA OthersIdle ==
    ASSUME TypeOK, OnePass, NEW w \in Workers, ~At(w, "idle"), NEW j,
           pass' = [pass EXCEPT ![w] = j]
    PROVE  /\ OnePass'
           /\ pass'[w] = j
           /\ PlaceFor(w)' => \A v \in Workers : PlaceFor(v)'
<1>1. pass'[w] = j /\ \A v \in Workers : v # w => pass'[v] = pass[v] /\ At(v, "idle")
  BY DEF TypeOK, OnePass
<1>2. \A v \in Workers : v # w => At(v, "idle")' /\ PlaceFor(v)'
  BY <1>1 DEF At, Queues, PlaceFor
<1>3. QED
  BY <1>1, <1>2 DEF OnePass

LEMMA SameNodes == node' = node => \A n : Pending(n)' = Pending(n)
BY DEF Pending, Waiting

LEMMA CapStep ==
    ASSUME TypeOK, CapInv, [Next]_vars
    PROVE  CapInv'
<1> USE IntentAssumption
<1> SUFFICES ASSUME "pass" \notin strayed'
             PROVE  Capped'
  BY DEF CapInv
<1>0. strayed \subseteq strayed'
  BY DEF Next, Engine, Route, StartPass, CountPending, PickLowest, Evict, Merge, Create, ExpireOld,
         PassFails, ReadPending, MarkDelivered, Answer, PollFails, vars
<1>a. Capped
  BY <1>0 DEF CapInv
<1>b. OnePass /\ WithinCap /\ \A w \in Workers : PlaceFor(w)
  BY <1>a DEF Capped
<1>1. ASSUME NEW w \in Workers, StartPass(w)
      PROVE  Capped'
  <2>1. PICK t \in Ticks : pass' = [pass EXCEPT ![w] = Queueing(t, {i \in Ids : i[3] = t})]
    BY <1>1 DEF StartPass
  <2>2. \A v \in Workers : At(v, "idle")
    BY <1>1 DEF StartPass
  <2>3. pass'[w].at = "next" /\ \A v \in Workers : v # w => At(v, "idle")'
    BY <2>1, <2>2 DEF TypeOK, At, Queueing
  <2>4. \A n : Pending(n)' = Pending(n)
    BY <1>1, SameNodes DEF StartPass
  <2>5. \A v \in Workers : PlaceFor(v)'
    BY <2>3 DEF PlaceFor, At, Queues
  <2>6. QED
    BY <1>b, <2>3, <2>4, <2>5 DEF Capped, OnePass, WithinCap
<1>2. ASSUME NEW w \in Workers, NEW i \in pass[w].left, CountPending(w, i)
      PROVE  Capped'
  <2>1. PICK score \in 1..MaxScore :
          pass' = [pass EXCEPT ![w] =
            [pass[w] EXCEPT !.at = IF HasRoom(i[1]) THEN "merge" ELSE "lowest",
                            !.left = pass[w].left \ {i}, !.hand = i, !.score = score]]
    BY <1>2 DEF CountPending
  <2> DEFINE j == [pass[w] EXCEPT !.at = IF HasRoom(i[1]) THEN "merge" ELSE "lowest",
                                  !.left = pass[w].left \ {i}, !.hand = i, !.score = score]
  <2>2. /\ j.at = IF HasRoom(i[1]) THEN "merge" ELSE "lowest"
        /\ j.hand = i
    BY HandType DEF Pass
  <2>3. ~At(w, "idle")
    BY <1>2 DEF CountPending, At
  <2>4. \A n : Pending(n)' = Pending(n)
    BY <1>2, SameNodes DEF CountPending
  <2> HIDE DEF j
  <2>5. pass' = [pass EXCEPT ![w] = j]
    BY <2>1 DEF j
  <2>6. pass'[w] = j
    BY <1>b, <2>3, <2>5, OthersIdle
  <2>7. PlaceFor(w)'
    BY <2>2, <2>4, <2>6 DEF PlaceFor, At, Queues, HasRoom
  <2>8. OnePass' /\ \A v \in Workers : PlaceFor(v)'
    BY <1>b, <2>3, <2>5, <2>7, OthersIdle
  <2>9. QED
    BY <1>b, <2>4, <2>8 DEF Capped, WithinCap
<1>3. ASSUME NEW w \in Workers, PickLowest(w)
      PROVE  Capped'
  <2>1. ~At(w, "idle") /\ At(w, "lowest") /\ \A n : Pending(n)' = Pending(n)
    BY <1>3, SameNodes DEF PickLowest, At
  <2>2. CASE pass' = Through(w)
    <3>1. pass'[w].at = "next" /\ \A v \in Workers : v # w => pass'[v] = pass[v]
      BY <2>2 DEF Through, Queueing, TypeOK
    <3>2. QED
      BY <1>a, <2>1, <3>1, CapShrinks
  <2>3. CASE \E v \in Victims(pass[w].hand[1], pass[w].score) :
               pass' = [pass EXCEPT ![w].at = "evict", ![w].victim = v]
    <3> DEFINE n == pass[w].hand[1]
    <3>1. PICK v \in Pending(n) : pass' = [pass EXCEPT ![w].at = "evict", ![w].victim = v]
      BY <2>3 DEF Victims, Lowest
    <3>2. v[1][1] = n /\ n \in Npcs /\ v \in Copies(v[1])
      BY <2>1, HandType, IdParts, WaitingNodes DEF Copies
    <3>3. Cardinality(Pending(n) \ Copies(v[1])) < Cap
      <4> HIDE DEF n
      <4>1. Cardinality(Pending(n)) <= Cap /\ Cardinality(Pending(n)) \in Nat
        BY <1>b, <3>2, Finite DEF WithinCap
      <4>2. Cardinality(Pending(n) \ {v}) = Cardinality(Pending(n)) - 1
        BY Finite
      <4>3. /\ Cardinality(Pending(n) \ Copies(v[1])) <= Cardinality(Pending(n) \ {v})
            /\ Cardinality(Pending(n) \ Copies(v[1])) \in Nat
        <5>1. Pending(n) \ Copies(v[1]) \in SUBSET (Pending(n) \ {v})
          BY <3>2
        <5>2. QED
          BY <5>1, Finite, FS_Subset
      <4>4. QED
        BY <4>1, <4>2, <4>3, CapType
    <3>4. pass' = [pass EXCEPT ![w] = [pass[w] EXCEPT !.at = "evict", !.victim = v]]
      BY <3>1 DEF TypeOK
    <3>5. pass'[w] = [pass[w] EXCEPT !.at = "evict", !.victim = v] /\ pass[w] \in Pass
      BY <3>4, HandType DEF TypeOK
    <3>6. pass'[w].at = "evict" /\ pass'[w].victim = v /\ pass'[w].hand = pass[w].hand
      BY <3>5 DEF Pass
    <3>7. PlaceFor(w)'
      BY <2>1, <3>2, <3>3, <3>6 DEF PlaceFor, At, Queues, Copies, Pending, Waiting
    <3>8. OnePass' /\ \A u \in Workers : PlaceFor(u)'
      BY <1>b, <2>1, <3>4, <3>7, OthersIdle
    <3>9. QED
      BY <1>b, <2>1, <3>8 DEF Capped, WithinCap
  <2>4. QED
    BY <1>3, <2>2, <2>3 DEF PickLowest
<1>4. ASSUME NEW w \in Workers, Evict(w)
      PROVE  Capped'
  <2>0. PICK n, i, X : n = pass[w].hand[1] /\ i = pass[w].victim[1] /\ X = Copies(i)
    OBVIOUS
  <2>1. pass[w] \in Pass /\ At(w, "evict") /\ ~At(w, "idle")
    BY <1>4, HandType DEF Evict, At
  <2>2. \A m : Pending(m)' \subseteq Pending(m) \ X
    BY <1>4, <2>0 DEF Evict, Pending, Waiting, Absent
  <2>3. Cardinality(Pending(n) \ X) < Cap
    BY <1>b, <2>0, <2>1 DEF PlaceFor
  <2>4. \A m : Cardinality(Pending(m)') <= Cardinality(Pending(m) \ X)
    <3>1. SUFFICES ASSUME NEW m
                   PROVE  Cardinality(Pending(m)') <= Cardinality(Pending(m) \ X)
      OBVIOUS
    <3>2. Pending(m)' \in SUBSET (Pending(m) \ X) /\ IsFiniteSet(Pending(m) \ X)
      BY <2>2, Finite
    <3>3. QED
      BY <3>2, FS_Subset
  <2>5. HasRoom(n)'
    <3>1. /\ Cardinality(Pending(n)') \in Nat
          /\ Cardinality(Pending(n) \ X) \in Nat
          /\ Cardinality(Pending(n)') <= Cardinality(Pending(n) \ X)
      BY <2>4, Finite, FiniteNext
    <3>2. QED
      BY <2>3, <3>1, CapType DEF HasRoom
  <2>6. pass' = [pass EXCEPT ![w] = [pass[w] EXCEPT !.at = "merge", !.victim = Nobody]]
    BY <1>4 DEF Evict, TypeOK
  <2>7. pass'[w].at = "merge" /\ pass'[w].hand = pass[w].hand
    BY <2>1, <2>6 DEF TypeOK, Pass
  <2>8. PlaceFor(w)'
    BY <2>0, <2>5, <2>7 DEF PlaceFor, At, Queues
  <2>9. OnePass' /\ \A u \in Workers : PlaceFor(u)'
    BY <1>b, <2>1, <2>6, <2>8, OthersIdle
  <2>10. WithinCap'
    BY <1>b, <2>2, FewerPending
  <2>11. QED
    BY <2>9, <2>10 DEF Capped
<1>5. ASSUME NEW w \in Workers, Merge(w)
      PROVE  Capped'
  <2>1. At(w, "merge") /\ ~At(w, "idle") /\ \A n : Pending(n)' = Pending(n)
    BY <1>5, SameNodes DEF Merge, At
  <2>2. CASE pass' = Through(w)
    <3>1. pass'[w].at = "next" /\ \A v \in Workers : v # w => pass'[v] = pass[v]
      BY <2>2 DEF Through, Queueing, TypeOK
    <3>2. QED
      BY <1>a, <2>1, <3>1, CapShrinks
  <2>3. CASE pass' = [pass EXCEPT ![w].at = "create"]
    <3>1. pass' = [pass EXCEPT ![w] = [pass[w] EXCEPT !.at = "create"]]
      BY <2>3 DEF TypeOK
    <3>2. pass'[w].at = "create" /\ pass'[w].hand = pass[w].hand
      BY <3>1, HandType DEF TypeOK, Pass
    <3>3. PlaceFor(w)'
      BY <1>b, <2>1, <3>2 DEF PlaceFor, At, Queues, HasRoom
    <3>4. OnePass' /\ \A v \in Workers : PlaceFor(v)'
      BY <1>b, <2>1, <3>1, <3>3, OthersIdle
    <3>5. QED
      BY <1>b, <2>1, <3>4 DEF Capped, WithinCap
  <2>4. QED
    BY <1>5, <2>2, <2>3 DEF Merge
<1>5a. ASSUME NEW w \in Workers, Create(w)
      PROVE  Capped'
  <2>0. PICK h, x : h = pass[w].hand /\ x = IF Exists(h) THEN <<h, w>> ELSE <<h, Nobody>>
    OBVIOUS
  <2>1. h \in Ids /\ x \in Nodes /\ x[1] = h /\ Queues(w) /\ ~At(w, "idle")
    BY <1>5a, <2>0, HandType, IdParts DEF Create, At, Queues
  <2>2. /\ \A m : m # h[1] => Pending(m)' \subseteq Pending(m)
        /\ Pending(h[1])' \subseteq Pending(h[1]) \cup {x}
    <3>1. \A y \in Nodes : y # x => node'[y] = node[y]
      BY <1>5a, <2>0, <2>1 DEF Create, TypeOK
    <3>2. Waiting' \subseteq Waiting \cup {x}
      BY <3>1 DEF Waiting
    <3>3. QED
      BY <2>1, <3>2 DEF Pending
  <2>3. Cardinality(Pending(h[1]) \cup {x}) <= Cap /\ IsFiniteSet(Pending(h[1]) \cup {x})
    <3>1. HasRoom(h[1])
      BY <1>b, <2>0, <2>1 DEF PlaceFor
    <3>2. Cardinality(Pending(h[1])) \in Nat /\ Cardinality(Pending(h[1])) < Cap
      BY <3>1, Finite DEF HasRoom
    <3>3. IsFiniteSet(Pending(h[1]))
      BY Finite
    <3>4. /\ IsFiniteSet(Pending(h[1]) \cup {x})
          /\ \/ Cardinality(Pending(h[1]) \cup {x}) = Cardinality(Pending(h[1]))
             \/ Cardinality(Pending(h[1]) \cup {x}) = Cardinality(Pending(h[1])) + 1
      BY <3>3, FS_AddElement
    <3>5. QED
      BY <3>2, <3>4, CapType
  <2>4. Cardinality(Pending(h[1])') <= Cap
    <3>1. Cardinality(Pending(h[1])') <= Cardinality(Pending(h[1]) \cup {x})
      BY <2>2, <2>3, FS_Subset
    <3>2. QED
      BY <2>3, <3>1, FiniteNext, FS_CardinalityType, CapType
  <2>5. ASSUME NEW m \in Npcs, m # h[1]
        PROVE  Cardinality(Pending(m)') <= Cap
    <3>1. Cardinality(Pending(m)') <= Cardinality(Pending(m))
      BY <2>2, <2>5, Finite, FS_Subset
    <3>2. Cardinality(Pending(m)) <= Cap /\ Cardinality(Pending(m)) \in Nat
      BY <1>b, <2>5, Finite DEF WithinCap
    <3>3. Cardinality(Pending(m)') \in Nat
      BY FiniteNext
    <3>4. QED
      BY <3>1, <3>2, <3>3, CapType
  <2>6. WithinCap'
    BY <2>4, <2>5 DEF WithinCap
  <2>7. pass' = [pass EXCEPT ![w] = Queueing(pass[w].tick, pass[w].left)]
    BY <1>5a, ThroughMoves DEF Create
  <2>8. PlaceFor(w)'
    BY <2>7 DEF PlaceFor, At, Queues, Queueing, TypeOK
  <2>9. QED
    BY <1>b, <2>1, <2>6, <2>7, <2>8, OthersIdle DEF Capped
<1>6. ASSUME NEW w \in Workers, ExpireOld(w)
      PROVE  Capped'
  <2>1. \A n : Pending(n)' \subseteq Pending(n)
    BY <1>6 DEF ExpireOld, Pending, Waiting, TypeOK, Node
  <2>2. pass' = [pass EXCEPT ![w] = NoPass]
    BY <1>6 DEF ExpireOld
  <2>3. pass'[w].at = "idle" /\ \A v \in Workers : v # w => pass'[v] = pass[v]
    BY <2>2, NoPassType DEF TypeOK
  <2>4. QED
    BY <1>a, <2>1, <2>3, CapShrinks
<1>7. ASSUME NEW w \in Workers, PassFails(w)
      PROVE  Capped'
  <2>1. \A n : Pending(n)' = Pending(n)
    BY <1>7, SameNodes DEF PassFails
  <2>2. pass'[w].at = "idle" /\ \A v \in Workers : v # w => pass'[v] = pass[v]
    BY <1>7, NoPassType DEF PassFails, TypeOK
  <2>3. QED
    BY <1>a, <2>1, <2>2, CapShrinks
<1>8. ASSUME NEW q \in Polls, NEW row \in poll[q].batch, MarkDelivered(q, row)
      PROVE  Capped'
  <2>1. \A n : Pending(n)' \subseteq Pending(n)
    BY <1>8 DEF MarkDelivered, Pending, Waiting, TypeOK, Node
  <2>2. UNCHANGED pass
    BY <1>8 DEF MarkDelivered
  <2>3. QED
    BY <1>a, <2>1, <2>2, CapShrinks
<1>9. CASE UNCHANGED <<node, pass>>
  BY <1>a, <1>9, SameNodes, CapShrinks
<1>10. QED
  BY <1>1, <1>2, <1>3, <1>4, <1>5, <1>5a, <1>6, <1>7, <1>8, <1>9
     DEF Next, Engine, Route, ReadPending, Answer, PollFails, vars

LEMMA CapInit == Init => CapInv
<1> SUFFICES ASSUME Init PROVE Capped
  BY DEF CapInv
<1>1. \A n : Pending(n) = {}
  BY DEF Init, Pending, Waiting, Absent
<1>2. WithinCap
  BY <1>1, FS_EmptySet, CapType DEF WithinCap
<1>3. QED
  BY <1>2, NoPassType DEF Init, Capped, OnePass, PlaceFor, At, Queues

\* No NPC has more intents pending than its cap, unless two passes overlapped.
THEOREM CapIsKept == Spec => []CapKept
<1>1. CapInv => CapKept
  BY DEF CapInv, Capped, WithinCap, CapKept
<1>2. TypeOK /\ CapInv /\ [Next]_vars => TypeOK' /\ CapInv'
  BY TypeStep, CapStep
<1>3. QED
  BY <1>1, <1>2, TypeInit, CapInit, PTL DEF Spec

-----------------------------------------------------------------------------
\* Evictions, while passes do not overlap and none is wasted.

\* The intents that are no worse than a score: formed, or about to be queued.
NoWorse(n, e) ==
    {x \in Nodes :
       /\ x[1][1] = n
       /\ \/ Present(x) /\ node[x].score >= e
          \/ \E w \in Workers :
               Queues(w) /\ x = <<pass[w].hand, Nobody>> /\ pass[w].score >= e}

Replaced == \A n \in Npcs : evicted[n] > 0 => Cardinality(NoWorse(n, evicted[n])) >= Cap

\* The intent in hand is new; and its victim is worse, and no better than any
\* other that still waits.
Aim(w) ==
    /\ pass[w].at \in {"lowest", "evict", "merge", "create"} => ~Exists(pass[w].hand)
    /\ At(w, "evict") =>
         /\ pass[w].victim[2] = Nobody
         /\ node[pass[w].victim].score < pass[w].score
         /\ \A x \in Pending(pass[w].hand[1]) : node[pass[w].victim].score <= node[x].score

BetterInv ==
    strayed \cap {"pass", "waste"} = {} =>
      twinned = {} /\ Replaced /\ \A w \in Workers : Aim(w)

LEMMA ScoreType ==
    TypeOK => /\ \A x \in Nodes : node[x].score \in Int
              /\ \A w \in Workers : pass[w].score \in Int
              /\ \A n \in Npcs : evicted[n] \in Int
BY DEF TypeOK, Node, Pass, Score

LEMMA MoreNoWorse ==
    ASSUME NEW n, NEW e, NEW f, NoWorse(n, e) \subseteq NoWorse(n, f)'
    PROVE  Cardinality(NoWorse(n, e)) >= Cap => Cardinality(NoWorse(n, f)') >= Cap
<1>1. NoWorse(n, e) \subseteq Nodes /\ NoWorse(n, f)' \subseteq Nodes
  BY DEF NoWorse
<1>2. IsFiniteSet(NoWorse(n, e)) /\ IsFiniteSet(NoWorse(n, f)')
  BY <1>1, IntentAssumption, FS_Subset
<1>3. Cardinality(NoWorse(n, e)) <= Cardinality(NoWorse(n, f)')
  BY <1>2, FS_Subset
<1>4. Cardinality(NoWorse(n, e)) \in Nat /\ Cardinality(NoWorse(n, f)') \in Nat
  BY <1>2, FS_CardinalityType
<1>5. QED
  BY <1>3, <1>4, CapType

\* Evictions stay justified when nothing is evicted: intents keep their scores,
\* and one that was about to be queued still is, or is queued.
LEMMA StillReplaced ==
    ASSUME TypeOK, Replaced, UNCHANGED evicted,
           \A x \in Nodes : Present(x) => Present(x)' /\ node'[x].score = node[x].score,
           \A w \in Workers : Queues(w) =>
             \/ /\ Queues(w)'
                /\ pass'[w].hand = pass[w].hand /\ pass'[w].score = pass[w].score
             \/ /\ node'[<<pass[w].hand, Nobody>>].status # "none"
                /\ node'[<<pass[w].hand, Nobody>>].score = pass[w].score
    PROVE  Replaced'
<1>1. SUFFICES ASSUME NEW n \in Npcs, evicted[n] > 0
               PROVE  Cardinality(NoWorse(n, evicted[n])') >= Cap
  BY DEF Replaced
<1>2. PICK e : e = evicted[n]
  OBVIOUS
<1>3. ASSUME NEW x \in NoWorse(n, e)
      PROVE  x \in NoWorse(n, e)'
  <2>1. x \in Nodes /\ x[1][1] = n
    BY <1>3 DEF NoWorse
  <2>2. CASE Present(x) /\ node[x].score >= e
    BY <2>1, <2>2 DEF NoWorse
  <2>3. CASE \E w \in Workers :
               Queues(w) /\ x = <<pass[w].hand, Nobody>> /\ pass[w].score >= e
    <3>1. PICK w \in Workers : Queues(w) /\ x = <<pass[w].hand, Nobody>> /\ pass[w].score >= e
      BY <2>3
    <3>2. CASE Queues(w)' /\ pass'[w].hand = pass[w].hand /\ pass'[w].score = pass[w].score
      BY <2>1, <3>1, <3>2 DEF NoWorse
    <3>3. CASE /\ node'[<<pass[w].hand, Nobody>>].status # "none"
               /\ node'[<<pass[w].hand, Nobody>>].score = pass[w].score
      <4>1. Present(x)' /\ node'[x].score >= e
        BY <3>1, <3>3 DEF Present
      <4>2. QED
        BY <2>1, <4>1 DEF NoWorse
    <3>4. QED
      BY <3>1, <3>2, <3>3
  <2>4. QED
    BY <1>3, <2>2, <2>3 DEF NoWorse
<1>4. Cardinality(NoWorse(n, e)) >= Cap => Cardinality(NoWorse(n, e)') >= Cap
  BY <1>3, MoreNoWorse
<1>5. QED
  BY <1>1, <1>2, <1>4 DEF Replaced

\* The aim of a pass stays right when intents leave the queue.
LEMMA StillAimed ==
    ASSUME \A x \in Nodes : (Present(x)' => Present(x)) /\ node'[x].score = node[x].score,
           \A n : Pending(n)' \subseteq Pending(n), TypeOK,
           NEW w \in Workers, Aim(w),
           pass'[w] = pass[w] \/ pass'[w].at \in {"idle", "next"}
    PROVE  Aim(w)'
<1>1. CASE pass'[w].at \in {"idle", "next"}
  BY <1>1 DEF Aim, At
<1>2. CASE pass'[w] = pass[w]
  <2>1. At(w, "evict") => pass[w].victim \in Nodes
    BY HandType
  <2>2. \A i : Exists(i)' => Exists(i)
    BY DEF Exists, Copies
  <2>3. \A n : Pending(n) \subseteq Nodes
    BY WaitingNodes
  <2>4. pass'[w].at \in {"lowest", "evict", "merge", "create"} => ~Exists(pass[w].hand)'
    BY <1>2, <2>2 DEF Aim
  <2>5. At(w, "evict")' =>
          /\ pass[w].victim[2] = Nobody
          /\ node'[pass[w].victim].score < pass[w].score
          /\ \A x \in Pending(pass[w].hand[1])' : node'[pass[w].victim].score <= node'[x].score
    BY <1>2, <2>1, <2>3 DEF Aim, At
  <2>6. QED
    BY <1>2, <2>4, <2>5 DEF Aim, At
<1>3. QED
  BY <1>1, <1>2

\* What only one pass does.
LEMMA OthersAimed ==
    ASSUME TypeOK, OnePass, NEW w \in Workers, ~At(w, "idle"), NEW j,
           pass' = [pass EXCEPT ![w] = j], Aim(w)'
    PROVE  \A v \in Workers : Aim(v)'
<1>1. \A v \in Workers : v # w => pass'[v] = pass[v] /\ pass[v].at = "idle"
  BY DEF TypeOK, OnePass, At
<1>2. QED
  BY <1>1 DEF Aim, At

LEMMA BetterStep ==
    ASSUME TypeOK, CapInv, Untwinned, BetterInv, [Next]_vars
    PROVE  BetterInv'
<1> USE IntentAssumption
<1> SUFFICES ASSUME strayed' \cap {"pass", "waste"} = {}
             PROVE  twinned' = {} /\ Replaced' /\ \A w \in Workers : Aim(w)'
  BY DEF BetterInv
<1>0. strayed \subseteq strayed'
  BY DEF Next, Engine, Route, StartPass, CountPending, PickLowest, Evict, Merge, Create, ExpireOld,
         PassFails, ReadPending, MarkDelivered, Answer, PollFails, vars
<1>a. twinned = {} /\ Replaced /\ \A w \in Workers : Aim(w)
  BY <1>0 DEF BetterInv
<1>b. Capped /\ OnePass
  BY <1>0 DEF CapInv, Capped
<1>1. ASSUME UNCHANGED <<node, evicted, twinned>>,
             \A w \in Workers : \/ pass'[w] = pass[w]
                                \/ pass'[w].at \in {"idle", "next"} /\ ~Queues(w)
      PROVE  twinned' = {} /\ Replaced' /\ \A w \in Workers : Aim(w)'
  <2>1. \A x \in Nodes : (Present(x)' <=> Present(x)) /\ node'[x].score = node[x].score
    BY <1>1 DEF Present
  <2>q. \A w \in Workers : Queues(w) =>
          Queues(w)' /\ pass'[w].hand = pass[w].hand /\ pass'[w].score = pass[w].score
    BY <1>1 DEF Queues
  <2>2. Replaced'
    BY <1>1, <1>a, <2>1, <2>q, StillReplaced
  <2>3. \A n : Pending(n)' \subseteq Pending(n)
    BY <1>1, SameNodes
  <2>4. QED
    BY <1>1, <1>a, <2>1, <2>2, <2>3, StillAimed
<1>2. ASSUME NEW w \in Workers, StartPass(w)
      PROVE  twinned' = {} /\ Replaced' /\ \A v \in Workers : Aim(v)'
  <2>1. \A v \in Workers : v # w => pass'[v] = pass[v]
    BY <1>2 DEF StartPass, TypeOK
  <2>2. pass'[w].at = "next" /\ ~Queues(w) /\ UNCHANGED <<node, evicted, twinned>>
    BY <1>2 DEF StartPass, Queueing, TypeOK, At, Queues
  <2>3. QED
    BY <1>1, <2>1, <2>2
<1>3. ASSUME NEW w \in Workers, NEW i \in pass[w].left, CountPending(w, i)
      PROVE  twinned' = {} /\ Replaced' /\ \A v \in Workers : Aim(v)'
  <2>1. PICK score \in 1..MaxScore :
          pass' = [pass EXCEPT ![w] =
            [pass[w] EXCEPT !.at = IF HasRoom(i[1]) THEN "merge" ELSE "lowest",
                            !.left = pass[w].left \ {i}, !.hand = i, !.score = score]]
    BY <1>3 DEF CountPending
  <2>2. PICK j : j = [pass[w] EXCEPT !.at = IF HasRoom(i[1]) THEN "merge" ELSE "lowest",
                                     !.left = pass[w].left \ {i}, !.hand = i, !.score = score]
    OBVIOUS
  <2>3. j.hand = i /\ j.at \in {"merge", "lowest"}
    BY <2>2, HandType DEF Pass
  <2>4. pass' = [pass EXCEPT ![w] = j] /\ pass'[w] = j
    BY <2>1, <2>2 DEF TypeOK
  <2>5. ~At(w, "idle") /\ ~Queues(w) /\ UNCHANGED <<node, evicted, twinned>>
    BY <1>3 DEF CountPending, At, Queues
  <2>6. ~Exists(i)
    BY <1>3 DEF CountPending
  <2>7. Aim(w)'
    BY <2>3, <2>4, <2>5, <2>6 DEF Aim, At, Queues, Exists, Copies, Present
  <2>8. \A v \in Workers : Aim(v)'
    BY <1>b, <2>4, <2>5, <2>7, OthersAimed
  <2>9. \A v \in Workers : Queues(v) => pass'[v] = pass[v]
    BY <2>4, <2>5 DEF TypeOK
  <2>10. Replaced'
    BY <1>a, <2>5, <2>9, StillReplaced DEF Queues, Present
  <2>11. QED
    BY <1>a, <2>5, <2>8, <2>10
<1>4. ASSUME NEW w \in Workers, PickLowest(w)
      PROVE  twinned' = {} /\ Replaced' /\ \A v \in Workers : Aim(v)'
  <2>1. At(w, "lowest") /\ ~At(w, "idle") /\ ~Queues(w) /\ UNCHANGED <<node, evicted, twinned>>
    BY <1>4 DEF PickLowest, At, Queues
  <2>2. CASE pass' = Through(w)
    <3>1. pass'[w].at = "next" /\ \A v \in Workers : v # w => pass'[v] = pass[v]
      BY <2>2 DEF Through, Queueing, TypeOK
    <3>2. QED
      BY <1>1, <2>1, <3>1
  <2>3. CASE \E v \in Victims(pass[w].hand[1], pass[w].score) :
               pass' = [pass EXCEPT ![w].at = "evict", ![w].victim = v]
    <3>1. PICK v \in Victims(pass[w].hand[1], pass[w].score) :
             pass' = [pass EXCEPT ![w].at = "evict", ![w].victim = v]
      BY <2>3
    <3>2. /\ node[v].score < pass[w].score
          /\ \A x \in Pending(pass[w].hand[1]) : node[v].score <= node[x].score
          /\ v[2] = Nobody
      BY <1>a DEF Victims, Lowest, Pending, Waiting, Untwinned, Present
    <3>3. PICK j : j = [pass[w] EXCEPT !.at = "evict", !.victim = v]
      OBVIOUS
    <3>4. pass' = [pass EXCEPT ![w] = j] /\ pass'[w] = j
      BY <3>1, <3>3 DEF TypeOK
    <3>5. j.at = "evict" /\ j.victim = v /\ j.hand = pass[w].hand /\ j.score = pass[w].score
      BY <3>3, HandType DEF Pass
    <3>6. ~Exists(pass[w].hand)
      BY <1>a, <2>1 DEF Aim, At
    <3>7. \A n : Pending(n)' = Pending(n)
      BY <2>1, SameNodes
    <3>8. Aim(w)'
      BY <2>1, <3>2, <3>4, <3>5, <3>6, <3>7 DEF Aim, At, Queues, Exists, Copies, Present
    <3>9. \A u \in Workers : Aim(u)'
      BY <1>b, <2>1, <3>4, <3>8, OthersAimed
    <3>10. \A u \in Workers : Queues(u) => pass'[u] = pass[u]
      BY <2>1, <3>4 DEF TypeOK
    <3>11. Replaced'
      BY <1>a, <2>1, <3>10, StillReplaced DEF Queues, Present
    <3>12. QED
      BY <1>a, <2>1, <3>9, <3>11
  <2>4. QED
    BY <1>4, <2>2, <2>3 DEF PickLowest
<1>5. ASSUME NEW w \in Workers, Evict(w)
      PROVE  twinned' = {} /\ Replaced' /\ \A v \in Workers : Aim(v)'
  <2>0. PICK n, v, h, y : /\ n = pass[w].hand[1] /\ v = pass[w].victim
                          /\ h = pass[w].hand /\ y = <<h, Nobody>>
    OBVIOUS
  <2>1. /\ At(w, "evict") /\ ~At(w, "idle")
        /\ v \in Nodes /\ h \in Ids /\ n = h[1] /\ n \in Npcs /\ v[1][1] = n
        /\ y \in Nodes /\ y[1] = h
    BY <1>5, <1>b, <2>0, HandType, IdParts DEF Evict, At, Capped, PlaceFor
  <2>2. /\ ~Exists(h) /\ node[v].score < pass[w].score /\ v[2] = Nobody
        /\ \A x \in Pending(n) : node[v].score <= node[x].score
    BY <1>a, <2>0, <2>1 DEF Aim, At
  <2>a. \A x \in Nodes : Present(x) => x[2] = Nobody
    BY <1>a DEF Untwinned
  <2>b. \A x \in Copies(v[1]) : Present(x) => x = v
    BY <2>1, <2>2, <2>a, FirstNode DEF Copies
  <2>3. /\ node' = [x \in Nodes |-> IF x \in Copies(v[1]) THEN Absent ELSE node[x]]
        /\ evicted' = [evicted EXCEPT ![n] = LargerOf(evicted[n], node[v].score)]
        /\ ~HasRoom(n) /\ UNCHANGED twinned
    BY <1>5, <2>0, <2>1 DEF Evict
  <2>4. pass' = [pass EXCEPT ![w] = [pass[w] EXCEPT !.at = "merge", !.victim = Nobody]]
    BY <1>5 DEF Evict, TypeOK
  <2>5. pass'[w].at = "merge" /\ pass'[w].hand = h /\ pass'[w].score = pass[w].score
    BY <2>0, <2>4, HandType DEF TypeOK, Pass
  <2>6. v \in Pending(n) /\ y \notin Pending(n)
    <3>1. Cardinality(Pending(n)) \in Nat /\ Cardinality(Pending(n)) >= Cap
      BY <2>3, Finite, CapType DEF HasRoom
    <3>2. Cardinality(Pending(n) \ Copies(v[1])) < Cap
      BY <1>b, <2>0, <2>1 DEF Capped, PlaceFor
    <3>3. \E x \in Pending(n) : x \in Copies(v[1])
      <4>1. SUFFICES ASSUME \A x \in Pending(n) : x \notin Copies(v[1]) PROVE FALSE
        OBVIOUS
      <4>2. Pending(n) \ Copies(v[1]) = Pending(n)
        BY <4>1
      <4>3. QED
        BY <3>1, <3>2, <4>2, CapType
    <3>4. v \in Pending(n)
      BY <2>b, <3>3 DEF Pending, Waiting, Present
    <3>5. y \notin Pending(n)
      BY <2>1, <2>2 DEF Pending, Waiting, Exists, Copies, Present
    <3>6. QED
      BY <3>4, <3>5
  <2>7. Aim(w)'
    <3>1. \A x \in Nodes : Present(x)' => Present(x)
      BY <2>3 DEF Present, Absent
    <3>2. ~Exists(h)'
      BY <2>2, <3>1 DEF Exists, Copies
    <3>3. QED
      BY <2>5, <3>2 DEF Aim, At
  <2>8. \A u \in Workers : Aim(u)'
    BY <1>b, <2>1, <2>4, <2>7, OthersAimed
  <2>9. \A x \in Nodes : x # v /\ Present(x) => node'[x] = node[x]
    BY <2>3, <2>b
  <2>10. node[v].score \in Int /\ pass[w].score \in Int /\ \A m \in Npcs : evicted[m] \in Int
    BY <2>1, ScoreType
  <2>11. \A u \in Workers : ~Queues(u)
    BY <1>b, <2>1 DEF OnePass, At, Queues
  <2>12. ASSUME NEW m \in Npcs, m # n, evicted'[m] > 0
         PROVE  Cardinality(NoWorse(m, evicted[m])') >= Cap
    <3>1. PICK e : e = evicted[m]
      OBVIOUS
    <3>2. evicted'[m] = e
      BY <2>3, <2>12, <3>1 DEF TypeOK
    <3>3. NoWorse(m, e) \subseteq NoWorse(m, e)'
      BY <2>1, <2>9, <2>11, <2>12 DEF NoWorse, Present
    <3>4. Cardinality(NoWorse(m, e)) >= Cap
      BY <1>a, <2>12, <3>1, <3>2 DEF Replaced
    <3>5. Cardinality(NoWorse(m, e)') >= Cap
      BY <3>3, <3>4, MoreNoWorse
    <3>6. QED
      BY <3>2, <3>5
  <2>13. ASSUME evicted'[n] > 0
         PROVE  Cardinality(NoWorse(n, evicted[n])') >= Cap
    <3>1. PICK e, f : e = evicted[n] /\ f = evicted'[n]
      OBVIOUS
    <3>2. e \in Int /\ f = LargerOf(e, node[v].score)
      BY <2>1, <2>3, <2>10, <3>1 DEF TypeOK
    <3>3. CASE node[v].score < e
      <4>1. f = e
        BY <2>10, <3>2, <3>3 DEF LargerOf
      <4>2. NoWorse(n, e) \subseteq NoWorse(n, e)'
        <5>1. \A x \in NoWorse(n, e) : x \in Nodes /\ x[1][1] = n /\ Present(x) /\ node[x].score >= e
          BY <2>11 DEF NoWorse
        <5>2. \A x \in NoWorse(n, e) : x # v
          BY <2>10, <3>2, <3>3, <5>1
        <5>3. \A x \in NoWorse(n, e) : Present(x)' /\ node'[x].score >= e
          BY <2>9, <5>1, <5>2 DEF Present
        <5>4. QED
          BY <5>1, <5>3 DEF NoWorse
      <4>3. Cardinality(NoWorse(n, e)) >= Cap
        BY <1>a, <2>1, <2>13, <3>1, <4>1 DEF Replaced
      <4>4. Cardinality(NoWorse(n, e)') >= Cap
        BY <4>2, <4>3, MoreNoWorse
      <4>5. QED
        BY <3>1, <4>1, <4>4
    <3>4. CASE ~(node[v].score < e)
      <4>1. f = node[v].score
        BY <2>10, <3>2, <3>4 DEF LargerOf
      <4> DEFINE H == (Pending(n) \ {v}) \cup {y}
      <4>2. \A x \in Pending(n) \ {v} : x \in NoWorse(n, f)'
        <5>1. \A x \in Pending(n) \ {v} : /\ x \in Nodes /\ x[1][1] = n /\ node'[x] = node[x]
                                          /\ node[x].status = "pending"
                                          /\ node[x].score >= f
          BY <2>2, <2>9, <2>10, <4>1, ScoreType DEF Pending, Waiting, Present
        <5>2. QED
          BY <5>1 DEF NoWorse, Present
      <4>3. y \in NoWorse(n, f)'
        <5>1. Queues(w)' /\ y = <<pass'[w].hand, Nobody>> /\ pass'[w].score >= f
          BY <2>0, <2>2, <2>5, <2>10, <4>1 DEF Queues
        <5>2. QED
          BY <2>1, <5>1 DEF NoWorse
      <4>4. Cardinality(H) >= Cap
        <5>1. /\ IsFiniteSet(Pending(n) \ {v})
              /\ Cardinality(Pending(n) \ {v}) = Cardinality(Pending(n)) - 1
              /\ Cardinality(Pending(n)) \in Nat
          BY <2>6, Finite
        <5>2. Cardinality(H) = Cardinality(Pending(n) \ {v}) + 1
          BY <2>6, <5>1, FS_AddElement
        <5>3. QED
          BY <2>3, <5>1, <5>2, CapType DEF HasRoom
      <4>5. H \subseteq NoWorse(n, f)' /\ NoWorse(n, f)' \subseteq Nodes
        BY <4>2, <4>3 DEF NoWorse
      <4> HIDE DEF H
      <4>6. IsFiniteSet(NoWorse(n, f)') /\ IsFiniteSet(H)
        BY <4>5, FS_Subset
      <4>7. Cardinality(H) <= Cardinality(NoWorse(n, f)')
        BY <4>5, <4>6, FS_Subset
      <4>8. Cardinality(NoWorse(n, f)') \in Nat /\ Cardinality(H) \in Nat
        BY <4>6, FS_CardinalityType
      <4>9. Cardinality(NoWorse(n, f)') >= Cap
        BY <4>4, <4>7, <4>8, CapType
      <4>10. QED
        BY <3>1, <4>9
    <3>5. QED
      BY <3>3, <3>4
  <2>14. Replaced'
    BY <2>12, <2>13 DEF Replaced
  <2>15. QED
    BY <1>a, <2>3, <2>8, <2>14
<1>6. ASSUME NEW w \in Workers, Merge(w)
      PROVE  twinned' = {} /\ Replaced' /\ \A v \in Workers : Aim(v)'
  <2>1. /\ Queues(w) /\ ~At(w, "idle") /\ UNCHANGED <<node, evicted, twinned>>
        /\ ~Exists(pass[w].hand)
    BY <1>6, <1>a DEF Merge, Queues, At, Aim
  <2>2. pass' = [pass EXCEPT ![w] = [pass[w] EXCEPT !.at = "create"]]
    BY <1>6, <2>1 DEF Merge, TypeOK
  <2>3. /\ pass'[w].at = "create"
        /\ pass'[w].hand = pass[w].hand /\ pass'[w].score = pass[w].score
        /\ \A v \in Workers : v # w => pass'[v] = pass[v]
    BY <2>2, HandType DEF TypeOK, Pass
  <2>4. Replaced'
    BY <1>a, <2>1, <2>3, StillReplaced DEF Queues, Present
  <2>5. Aim(w)'
    BY <2>1, <2>3 DEF Aim, At, Exists, Copies, Present
  <2>6. QED
    BY <1>a, <1>b, <2>1, <2>2, <2>4, <2>5, OthersAimed
<1>6a. ASSUME NEW w \in Workers, Create(w)
       PROVE  twinned' = {} /\ Replaced' /\ \A v \in Workers : Aim(v)'
  <2>0. PICK h, x : h = pass[w].hand /\ x = <<h, Nobody>>
    OBVIOUS
  <2>1. h \in Ids /\ x \in Nodes /\ x[1] = h /\ Queues(w) /\ ~At(w, "idle") /\ UNCHANGED evicted
    BY <1>6a, <2>0, HandType, IdParts DEF Create, At, Queues
  <2>2. ~Exists(h)
    BY <1>6a, <1>a, <2>0 DEF Aim, At, Create
  <2>3. /\ node' = [node EXCEPT ![x] = [status |-> "pending", score |-> pass[w].score]]
        /\ UNCHANGED twinned
    BY <1>6a, <2>0, <2>2 DEF Create
  <2>4. \A y \in Nodes : Present(y) => Present(y)' /\ node'[y].score = node[y].score
    BY <2>1, <2>2, <2>3 DEF TypeOK, Exists, Copies, Present
  <2>5. Present(x)' /\ node'[x].score = pass[w].score
    BY <2>1, <2>3 DEF TypeOK, Present
  <2>6. pass' = [pass EXCEPT ![w] = Queueing(pass[w].tick, pass[w].left)]
    BY <1>6a, ThroughMoves DEF Create
  <2>7. \A v \in Workers : v # w => pass'[v] = pass[v]
    BY <2>6 DEF TypeOK
  <2>a. \A v \in Workers : Queues(v) =>
          \/ /\ Queues(v)'
             /\ pass'[v].hand = pass[v].hand /\ pass'[v].score = pass[v].score
          \/ /\ node'[<<pass[v].hand, Nobody>>].status # "none"
             /\ node'[<<pass[v].hand, Nobody>>].score = pass[v].score
    BY <2>0, <2>5, <2>7 DEF Queues, Present
  <2>8. Replaced'
    BY <1>a, <2>1, <2>4, <2>a, StillReplaced
  <2>9. Aim(w)'
    BY <2>6 DEF TypeOK, Queueing, Aim, At
  <2>10. QED
    BY <1>a, <1>b, <2>1, <2>3, <2>6, <2>8, <2>9, OthersAimed
<1>7. ASSUME NEW w \in Workers, ExpireOld(w)
      PROVE  twinned' = {} /\ Replaced' /\ \A v \in Workers : Aim(v)'
  <2>1. \A x \in Nodes : (Present(x)' <=> Present(x)) /\ node'[x].score = node[x].score
    BY <1>7 DEF ExpireOld, Present, Waiting, TypeOK, Node
  <2>2. \A n : Pending(n)' \subseteq Pending(n)
    BY <1>7 DEF ExpireOld, Pending, Waiting, TypeOK, Node
  <2>3. /\ \A v \in Workers : v # w => pass'[v] = pass[v]
        /\ pass'[w].at = "idle" /\ ~Queues(w) /\ UNCHANGED <<evicted, twinned>>
    BY <1>7, NoPassType DEF ExpireOld, TypeOK, At, Queues
  <2>4. \A v \in Workers : Aim(v)'
    BY <1>a, <2>1, <2>2, <2>3, StillAimed
  <2>5. Replaced'
    BY <1>a, <2>1, <2>3, StillReplaced DEF Queues
  <2>6. QED
    BY <1>a, <2>3, <2>4, <2>5
<1>8. ASSUME NEW w \in Workers, PassFails(w)
      PROVE  twinned' = {} /\ Replaced' /\ \A v \in Workers : Aim(v)'
  <2>1. /\ \A v \in Workers : v # w => pass'[v] = pass[v]
        /\ pass'[w].at = "idle" /\ UNCHANGED <<node, evicted, twinned>>
    BY <1>8, NoPassType DEF PassFails, TypeOK
  <2>2. ~Queues(w)
    BY <1>8 DEF PassFails
  <2>3. QED
    BY <1>1, <2>1, <2>2
<1>9. ASSUME NEW q \in Polls, NEW row \in poll[q].batch, MarkDelivered(q, row)
      PROVE  twinned' = {} /\ Replaced' /\ \A v \in Workers : Aim(v)'
  <2>1. \A x \in Nodes : (Present(x)' <=> Present(x)) /\ node'[x].score = node[x].score
    BY <1>9 DEF MarkDelivered, Present, TypeOK, Node
  <2>2. \A n : Pending(n)' \subseteq Pending(n)
    BY <1>9 DEF MarkDelivered, Pending, Waiting, TypeOK, Node
  <2>3. UNCHANGED <<pass, evicted, twinned>>
    BY <1>9 DEF MarkDelivered
  <2>4. \A v \in Workers : Aim(v)'
    BY <1>a, <2>1, <2>2, <2>3, StillAimed
  <2>5. Replaced'
    BY <1>a, <2>1, <2>3, StillReplaced DEF Queues
  <2>6. QED
    BY <1>a, <2>3, <2>4, <2>5
<1>10. CASE UNCHANGED <<node, evicted, twinned, pass>>
  BY <1>1, <1>10
<1>11. QED
  BY <1>2, <1>3, <1>4, <1>5, <1>6, <1>6a, <1>7, <1>8, <1>9, <1>10
     DEF Next, Engine, Route, ReadPending, Answer, PollFails, vars

LEMMA BetterInit == Init => BetterInv
BY NoPassType DEF Init, BetterInv, Replaced, Aim, At

\* An intent is evicted for Cap others that are no worse, unless passes
\* overlapped or an eviction was wasted.
THEOREM EvictionsAreForBetter == Spec => []EvictedForBetter
<1>1. BetterInv => EvictedForBetter
  BY DEF BetterInv, Replaced, NoWorse, EvictedForBetter
<1>2. TypeOK /\ CapInv /\ OnceInv /\ BetterInv /\ [Next]_vars
        => TypeOK' /\ CapInv' /\ OnceInv' /\ BetterInv'
  BY TypeStep, CapStep, OnceStep, BetterStep DEF OnceInv
<1>3. QED
  BY <1>1, <1>2, TypeInit, CapInit, OnceInit, BetterInit, PTL DEF Spec

=============================================================================
