----------------------- MODULE DialogueMemory_proofs -----------------------
(***************************************************************************)
(* Proofs about an NPC's dialogue memory, for any players, events and      *)
(* consolidations and any limits.                                          *)
(***************************************************************************)
EXTENDS DialogueMemory, SequenceTheorems, TLAPS

-----------------------------------------------------------------------------
(* The newest elements of a sequence.                                      *)

LEMMA NewestElements ==
    ASSUME NEW S, NEW s \in Seq(S), NEW n \in Nat \ {0}
    PROVE  /\ Newest(s, n) \in Seq(S)
           /\ Len(Newest(s, n)) = IF Len(s) > n THEN n ELSE Len(s)
           /\ \A i \in 1..Len(Newest(s, n)) :
                Newest(s, n)[i] = s[i + (Len(s) - Len(Newest(s, n)))]
<1>. DEFINE m == IF Len(s) > n THEN Len(s) - n + 1 ELSE 1
<1>1. Newest(s, n) = SubSeq(s, m, Len(s))
  BY DEF Newest
<1>2. Len(s) \in Nat /\ m \in 1..Len(s)+1 /\ \A i \in m..Len(s) : s[i] \in S
  BY ElementOfSeq, LenProperties
<1>. HIDE DEF m
<1>3. Len(SubSeq(s, m, Len(s))) = Len(s) - m + 1
  <2>1. Len(SubSeq(s, m, Len(s))) = IF m <= Len(s) THEN Len(s) - m + 1 ELSE 0
    BY <1>2, SubSeqProperties
  <2>. QED
    BY <1>2, <2>1
<1>4. \A i \in 1..(Len(s) - m + 1) : SubSeq(s, m, Len(s))[i] = s[m + i - 1]
  BY <1>2, SubSeqProperties
<1>5. SubSeq(s, m, Len(s)) \in Seq(S)
  BY <1>2, SubSeqProperties
<1>6. Len(Newest(s, n)) = IF Len(s) > n THEN n ELSE Len(s)
  <2>1. CASE Len(s) > n
    <3>1. m = Len(s) - n + 1
      BY <2>1 DEF m
    <3>. QED
      BY <1>1, <1>2, <1>3, <2>1, <3>1
  <2>2. CASE ~(Len(s) > n)
    <3>1. m = 1
      BY <2>2 DEF m
    <3>. QED
      BY <1>1, <1>2, <1>3, <2>2, <3>1
  <2>. QED
    BY <2>1, <2>2
<1>7. Len(s) - Len(Newest(s, n)) = m - 1
  BY <1>1, <1>2, <1>3
<1>8. ASSUME NEW i \in 1..Len(Newest(s, n))
      PROVE  Newest(s, n)[i] = s[i + (Len(s) - Len(Newest(s, n)))]
  <2>1. i \in 1..(Len(s) - m + 1) /\ m + i - 1 = i + (m - 1)
    BY <1>1, <1>2, <1>3
  <2>2. Newest(s, n)[i] = s[i + (m - 1)]
    BY <1>1, <1>4, <2>1
  <2>. QED
    BY <1>7, <2>2
<1>. QED
  BY <1>1, <1>5, <1>6, <1>8

LEMMA NewestType ==
    ASSUME NEW S, NEW s \in Seq(S), NEW n \in Nat \ {0}
    PROVE  Newest(s, n) \in Seq(S) /\ Len(Newest(s, n)) <= n
<1>1. Len(s) \in Nat
  BY LenProperties
<1>. QED
  BY <1>1, NewestElements

LEMMA NewestSet ==
    ASSUME NEW S, NEW s \in Seq(S), NEW n \in Nat \ {0}
    PROVE  ToSet(Newest(s, n)) \subseteq ToSet(s)
<1>. SUFFICES ASSUME NEW i \in 1..Len(Newest(s, n))
              PROVE  \E k \in 1..Len(s) : Newest(s, n)[i] = s[k]
  BY NewestElements DEF ToSet
<1>1. i + (Len(s) - Len(Newest(s, n))) \in 1..Len(s)
  BY NewestElements
<1>. QED
  BY <1>1, NewestElements

LEMMA NewestInjective ==
    ASSUME NEW S, NEW s \in Seq(S), NEW n \in Nat \ {0}, IsInjective(s)
    PROVE  IsInjective(Newest(s, n))
<1>. DEFINE t == Newest(s, n)
            k == Len(s) - Len(t)
<1>. SUFFICES ASSUME NEW i \in 1..Len(t), NEW j \in 1..Len(t), t[i] = t[j]
              PROVE  i = j
  BY NewestElements DEF IsInjective
<1>1. i + k \in 1..Len(s) /\ j + k \in 1..Len(s)
  BY NewestElements
<1>2. s[i + k] = s[j + k]
  BY NewestElements
<1>. QED
  BY <1>1, <1>2 DEF IsInjective

\* What is not among the newest was pushed out by n others.
LEMMA NewestLoses ==
    ASSUME NEW S, NEW s \in Seq(S), NEW n \in Nat \ {0},
           NEW e \in ToSet(s), e \notin ToSet(Newest(s, n))
    PROVE  Len(Newest(s, n)) = n
<1>. SUFFICES ASSUME Len(s) <= n
              PROVE  FALSE
  BY NewestElements
<1>1. PICK k \in 1..Len(s) : s[k] = e
  BY DEF ToSet
<1>2. k \in 1..Len(Newest(s, n)) /\ Newest(s, n)[k] = e
  BY <1>1, NewestElements
<1>. QED
  BY <1>2, NewestElements DEF ToSet

LEMMA AppendedSet ==
    ASSUME NEW S, NEW s \in Seq(S), NEW e \in S
    PROVE  /\ Append(s, e) \in Seq(S)
           /\ ToSet(Append(s, e)) = ToSet(s) \cup {e}
<1>1. Append(s, e) \in Seq(S) /\ Len(Append(s, e)) = Len(s) + 1
  BY AppendProperties
<1>2. \A i \in 1..Len(s) : Append(s, e)[i] = s[i]
  BY AppendProperties
<1>3. Append(s, e)[Len(s) + 1] = e
  BY AppendProperties
<1>4. 1..Len(s) + 1 = 1..Len(s) \cup {Len(s) + 1}
  OBVIOUS
<1>. QED
  BY <1>1, <1>2, <1>3, <1>4 DEF ToSet

LEMMA AppendedOnce ==
    ASSUME NEW S, NEW s \in Seq(S), NEW e \in S, IsInjective(s), e \notin ToSet(s)
    PROVE  IsInjective(Append(s, e))
<1>1. Append(s, e) \in Seq(S) /\ Len(Append(s, e)) = Len(s) + 1
  BY AppendProperties
<1>2. \A i \in 1..Len(s) : Append(s, e)[i] = s[i]
  BY AppendProperties
<1>3. Append(s, e)[Len(s) + 1] = e
  BY AppendProperties
<1>. QED
  BY <1>1, <1>2, <1>3 DEF IsInjective, ToSet

LEMMA EmptySet ==
    ToSet(<<>>) = {} /\ IsInjective(<<>>)
BY DEF ToSet, IsInjective

\* Dropping the oldest elements, or appending one that t has not, keeps two
\* sequences in the same order.
LEMMA OrderedItself ==
    ASSUME NEW S, NEW s \in Seq(S), IsInjective(s)
    PROVE  SameOrder(s, s)
BY DEF SameOrder, IsInjective

LEMMA OrderedNewest ==
    ASSUME NEW S, NEW s \in Seq(S), NEW t \in Seq(S), NEW n \in Nat \ {0}, SameOrder(s, t)
    PROVE  SameOrder(Newest(s, n), t) /\ SameOrder(s, Newest(t, n))
<1>1. SameOrder(Newest(s, n), t)
  <2>. DEFINE u == Newest(s, n)
              m == Len(s) - Len(u)
  <2>1. /\ u \in Seq(S) /\ Len(u) \in Nat /\ Len(s) \in Nat /\ Len(u) <= Len(s)
        /\ \A i \in 1..Len(u) : u[i] = s[i + m]
    BY NewestElements, LenProperties
  <2>. HIDE DEF u
  <2>. SUFFICES ASSUME NEW i \in DOMAIN u, NEW j \in DOMAIN u, NEW k \in DOMAIN t, NEW l \in DOMAIN t,
                       u[i] = t[k], u[j] = t[l], i < j
                PROVE  k < l
    BY DEF SameOrder, u
  <2>2. i \in 1..Len(u) /\ j \in 1..Len(u)
    BY <2>1, LenProperties
  <2>3. i + m \in 1..Len(s) /\ j + m \in 1..Len(s) /\ i + m < j + m
    BY <2>1, <2>2
  <2>4. s[i + m] = t[k] /\ s[j + m] = t[l] /\ DOMAIN s = 1..Len(s)
    BY <2>1, <2>2, LenProperties
  <2>. HIDE DEF m
  <2>. QED
    BY <2>3, <2>4 DEF SameOrder
<1>2. SameOrder(s, Newest(t, n))
  <2>. DEFINE u == Newest(t, n)
              m == Len(t) - Len(u)
  <2>1. /\ u \in Seq(S) /\ Len(u) \in Nat /\ Len(t) \in Nat /\ Len(u) <= Len(t)
        /\ \A i \in 1..Len(u) : u[i] = t[i + m]
    BY NewestElements, LenProperties
  <2>. HIDE DEF u
  <2>. SUFFICES ASSUME NEW i \in DOMAIN s, NEW j \in DOMAIN s, NEW k \in DOMAIN u, NEW l \in DOMAIN u,
                       s[i] = u[k], s[j] = u[l], i < j
                PROVE  k < l
    BY DEF SameOrder, u
  <2>2. k \in 1..Len(u) /\ l \in 1..Len(u)
    BY <2>1, LenProperties
  <2>3. k + m \in 1..Len(t) /\ l + m \in 1..Len(t)
    BY <2>1, <2>2
  <2>4. s[i] = t[k + m] /\ s[j] = t[l + m] /\ DOMAIN t = 1..Len(t)
    BY <2>1, <2>2, LenProperties
  <2>5. k + m < l + m
    <3>. HIDE DEF m
    <3>. QED
      BY <2>3, <2>4 DEF SameOrder
  <2>. QED
    BY <2>1, <2>2, <2>5
<1>. QED
  BY <1>1, <1>2

LEMMA OrderedAppended ==
    ASSUME NEW S, NEW s \in Seq(S), NEW t \in Seq(S), NEW e \in S, SameOrder(s, t),
           e \notin ToSet(t)
    PROVE  SameOrder(Append(s, e), t)
<1>. DEFINE u == Append(s, e)
<1>1. /\ u \in Seq(S) /\ Len(u) = Len(s) + 1 /\ Len(s) \in Nat
      /\ \A i \in 1..Len(s) : u[i] = s[i]
      /\ u[Len(s) + 1] = e
  BY AppendProperties, LenProperties
<1>. HIDE DEF u
<1>. SUFFICES ASSUME NEW i \in DOMAIN u, NEW j \in DOMAIN u, NEW k \in DOMAIN t, NEW l \in DOMAIN t,
                     u[i] = t[k], u[j] = t[l], i < j
              PROVE  k < l
  BY DEF SameOrder, u
<1>2. t[k] # e /\ t[l] # e
  BY DEF ToSet
<1>3. i \in 1..Len(s) /\ j \in 1..Len(s)
  BY <1>1, <1>2, LenProperties
<1>4. s[i] = t[k] /\ s[j] = t[l] /\ DOMAIN s = 1..Len(s)
  BY <1>1, <1>3, LenProperties
<1>. QED
  BY <1>3, <1>4 DEF SameOrder

LEMMA OrderedEmpty ==
    ASSUME NEW S, NEW s \in Seq(S)
    PROVE  SameOrder(<<>>, s) /\ SameOrder(s, <<>>)
BY DEF SameOrder

-----------------------------------------------------------------------------
(* What a step does to the events.                                         *)

LEMMA ReachJob ==
    ASSUME job \in [Events -> Job], NEW a \in Events, NEW step \in Steps,
           NEW seen \in SUBSET Events, Reach(a, step, seen)
    PROVE  /\ job' \in [Events -> Job]
           /\ job'[a].at = step /\ job'[a].player = job[a].player /\ job'[a].seen = seen
           /\ \A b \in Events : b # a => job'[b] = job[b]
<1>1. [at |-> step, player |-> job[a].player, seen |-> seen] \in Job
  BY DEF Job
<1>. QED
  BY <1>1 DEF Reach

LEMMA GotoJob ==
    ASSUME job \in [Events -> Job], NEW a \in Events, NEW step \in Steps, Goto(a, step)
    PROVE  /\ job' \in [Events -> Job]
           /\ job'[a].at = step /\ job'[a].player = job[a].player /\ job'[a].seen = {}
           /\ \A b \in Events : b # a => job'[b] = job[b]
BY ReachJob DEF Goto

LEMMA EndJob ==
    ASSUME job \in [Events -> Job], NEW a \in Events, NEW how \in Steps, End(a, how)
    PROVE  /\ job' \in [Events -> Job]
           /\ job'[a].at = how /\ job'[a].player = Nobody /\ job'[a].seen = {}
           /\ \A b \in Events : b # a => job'[b] = job[b]
<1>1. [Unborn EXCEPT !.at = how] = [at |-> how, player |-> Nobody, seen |-> {}]
  BY DEF Unborn
<1>. QED
  BY <1>1 DEF End, Job

LEMMA CutJob ==
    ASSUME job \in [Events -> Job], Cut
    PROVE  /\ job' \in [Events -> Job]
           /\ \A a \in Events : InProgress(a) => job'[a].at = "broken" /\ job'[a].seen = {}
           /\ \A a \in Events : ~InProgress(a) => job'[a] = job[a]
<1>1. [Unborn EXCEPT !.at = "broken"] = [at |-> "broken", player |-> Nobody, seen |-> {}]
  BY DEF Unborn
<1>2. [at |-> "broken", player |-> Nobody, seen |-> {}] \in Job
  BY DEF Job, Steps
<1>. QED
  BY <1>1, <1>2 DEF Cut

LEMMA FeelJob ==
    ASSUME job \in [Events -> Job], mood \subseteq Events,
           NEW e \in Events, NEW step \in Steps, Feel(e, step)
    PROVE  /\ mood' = mood \cup {e} /\ mood' \subseteq Events
           /\ job' \in [Events -> Job]
           /\ job'[e].at = step /\ job'[e].player = job[e].player /\ job'[e].seen = mood'
           /\ \A f \in Events : f # e => job'[f] = job[f]
<1>1. mood' = mood \cup {e} /\ mood' \subseteq Events
  BY DEF Feel
<1>2. Reach(e, step, mood')
  BY DEF Feel
<1>. QED
  BY <1>1, <1>2, ReachJob

LEMMA ReadJob ==
    ASSUME job \in [Events -> Job], relation \in [Players -> SUBSET Events],
           NEW c \in Events, job[c].player \in Players, ReadRelation(c)
    PROVE  /\ job' \in [Events -> Job]
           /\ job'[c].at = "set" /\ job'[c].player = job[c].player
           /\ job'[c].seen = relation[job[c].player]
           /\ \A d \in Events : d # c => job'[d] = job[d]
<1>1. relation[job[c].player] \in SUBSET Events /\ "set" \in Steps
  BY DEF Steps
<1>2. Reach(c, "set", relation[job[c].player])
  BY DEF ReadRelation
<1>. QED
  BY <1>1, <1>2, ReachJob

LEMMA AskJob ==
    ASSUME job \in [Events -> Job], NEW c \in Events, NEW p \in Players,
           NEW canned \in BOOLEAN, Ask(c, p, canned)
    PROVE  /\ job' \in [Events -> Job]
           /\ job'[c].at \in {"feel", "relate"} /\ job'[c].player = p /\ job'[c].seen = {}
           /\ \A d \in Events : d # c => job'[d] = job[d]
<1>1. [at |-> IF canned THEN "feel" ELSE "relate", player |-> p, seen |-> {}] \in Job
  BY DEF Job, Steps
<1>. QED
  BY <1>1 DEF Ask

-----------------------------------------------------------------------------
(* Types.                                                                  *)

LEMMA CurrentType ==
    ASSUME store \in [Players -> Seq(Events)], NEW p \in Players
    PROVE  /\ Current(p) \in Seq(Events)
           /\ ToSet(Current(p)) \subseteq ToSet(store[p])
           /\ Len(Current(p)) <= Len(store[p])
           /\ IsInjective(store[p]) => IsInjective(Current(p))
<1>1. Len(<<>>) = 0 /\ <<>> \in Seq(Events)
  BY EmptySeq
<1>2. Len(store[p]) \in Nat
  BY LenProperties
<1>. QED
  BY <1>1, <1>2, EmptySet DEF Current

\* What a call does to the session of its player when it stores its turn.
LEMMA AppendTurnsStore ==
    ASSUME TypeOK, NEW c \in Events, AppendTurns(c)
    PROVE  /\ job[c].player \in Players
           /\ store' \in [Players -> Seq(Events)]
           /\ store'[job[c].player] = Newest(Append(Current(job[c].player), c), MaxTurns)
           /\ \A q \in Players : q # job[c].player => store'[q] = store[q]
           /\ \A q \in Players : Len(store'[q]) <= MaxTurns
           /\ live' = live \cup {job[c].player}
<1>. DEFINE p == job[c].player
            new == Newest(Append(Current(p), c), MaxTurns)
<1>1. p \in Players
  BY DEF TypeOK, AppendTurns, At, InProgress
<1>2. Append(Current(p), c) \in Seq(Events)
  BY <1>1, CurrentType, AppendedSet DEF TypeOK
<1>3. new \in Seq(Events) /\ Len(new) <= MaxTurns
  <2>. DEFINE said == Append(Current(p), c)
  <2>. HIDE DEF said
  <2>1. Newest(said, MaxTurns) \in Seq(Events) /\ Len(Newest(said, MaxTurns)) <= MaxTurns
    BY <1>2, NewestType, DialogueAssumption DEF said
  <2>. QED
    BY <2>1 DEF said
<1>4. store' = [store EXCEPT ![p] = new] /\ live' = live \cup {p}
  BY DEF AppendTurns
<1>. HIDE DEF new
<1>5. store \in [Players -> Seq(Events)] /\ \A q \in Players : Len(store[q]) <= MaxTurns
  BY DEF TypeOK
<1>6. /\ store' \in [Players -> Seq(Events)] /\ store'[p] = new
      /\ \A q \in Players : q # p => store'[q] = store[q]
      /\ \A q \in Players : Len(store'[q]) <= MaxTurns
  BY <1>1, <1>3, <1>4, <1>5
<1>. QED
  BY <1>1, <1>4, <1>6 DEF new

\* What stopping and loading do to the sessions.
LEMMA NoSessions ==
    ASSUME store' = [p \in Players |-> <<>>]
    PROVE  /\ store' \in [Players -> Seq(Events)]
           /\ \A p \in Players : store'[p] = <<>> /\ Len(store'[p]) = 0
BY EmptySeq

LEMMA BootStore ==
    ASSUME TypeOK, Boot
    PROVE  /\ store' \in [Players -> Seq(Events)]
           /\ \A p \in Players : store'[p] = Newest(graph[p], MaxTurns)
           /\ \A p \in Players : Len(store'[p]) <= MaxTurns
<1>1. \A p \in Players : /\ Newest(graph[p], MaxTurns) \in Seq(Events)
                         /\ Len(Newest(graph[p], MaxTurns)) <= MaxTurns
  <2>. SUFFICES ASSUME NEW p \in Players
                PROVE  /\ Newest(graph[p], MaxTurns) \in Seq(Events)
                       /\ Len(Newest(graph[p], MaxTurns)) <= MaxTurns
    OBVIOUS
  <2>1. graph[p] \in Seq(Events)
    BY DEF TypeOK
  <2>. QED
    BY <2>1, NewestType, DialogueAssumption
<1>2. store' = [p \in Players |-> Newest(graph[p], MaxTurns)]
  BY DEF Boot
<1>. QED
  BY <1>1, <1>2

LEMMA Inits == Init => TypeOK
<1>. SUFFICES ASSUME Init
              PROVE  TypeOK
  OBVIOUS
<1>1. /\ store \in [Players -> Seq(Events)] /\ graph \in [Players -> Seq(Events)]
      /\ \A p \in Players : Len(store[p]) <= MaxTurns /\ Len(graph[p]) <= MaxPersisted
  BY EmptySeq, DialogueAssumption DEF Init
<1>2. /\ job \in [Events -> Job]
      /\ \A c \in Events : ~InProgress(c)
  BY DEF Init, Unborn, Job, Steps, InProgress
<1>3. summary \in [Jobs -> Summary]
  BY DEF Init, Idle, Summary
<1>. QED
  BY <1>1, <1>2, <1>3 DEF Init, TypeOK

\* A call that goes on still knows its player.
LEMMA PlayersKnown ==
    ASSUME TypeOK, NEW c \in Events, \A d \in Events : d # c => job'[d] = job[d],
           job'[c].player \in Players \/ job'[c].at \in {"new", "done", "broken", "shaken"}
    PROVE  \A d \in Events : job'[d].at \notin {"new", "done", "broken", "shaken"} => job'[d].player \in Players
<1>. SUFFICES ASSUME NEW d \in Events, job'[d].at \notin {"new", "done", "broken", "shaken"}
              PROVE  job'[d].player \in Players
  OBVIOUS
<1>1. CASE d # c
  BY <1>1 DEF TypeOK, InProgress, At
<1>. QED
  BY <1>1

\* A step that leaves the sessions, the consolidations and the process alone.
LEMMA CallType ==
    ASSUME TypeOK, NEW c \in Events,
           \/ \E p \in Players, canned \in BOOLEAN : Ask(c, p, canned)
           \/ ReadRelation(c) \/ SetRelation(c) \/ FeelDialogue(c) \/ WriteMood(c)
           \/ Broken(c) \/ Shock(c)
    PROVE  TypeOK'
<1>1. ASSUME NEW p \in Players, NEW canned \in BOOLEAN, Ask(c, p, canned)
      PROVE  TypeOK'
  <2>1. /\ store' \in [Players -> Seq(Events)]
        /\ \A q \in Players : Len(store'[q]) <= MaxTurns
    <3>1. /\ Current(p) \in Seq(Events) /\ Len(Current(p)) <= Len(store[p])
          /\ Len(Current(p)) \in Nat /\ Len(store[p]) \in Nat
      BY CurrentType, LenProperties DEF TypeOK
    <3>2. Len(store[p]) <= MaxTurns /\ MaxTurns \in Nat
      BY DialogueAssumption DEF TypeOK
    <3>3. Len(Current(p)) <= MaxTurns
      BY <3>1, <3>2
    <3>. QED
      BY <1>1, <3>1, <3>3 DEF Ask, TypeOK
  <2>2. /\ job' \in [Events -> Job]
        /\ \A d \in Events : job'[d].at \notin {"new", "done", "broken", "shaken"} => job'[d].player \in Players
    <3>1. job \in [Events -> Job]
      BY DEF TypeOK
    <3>. QED
      BY <1>1, <3>1, AskJob, PlayersKnown
  <2>. QED
    BY <1>1, <2>1, <2>2 DEF Ask, process, TypeOK, InProgress, At
<1>2. ASSUME ReadRelation(c)
      PROVE  TypeOK'
  <2>1. job[c].player \in Players
    BY <1>2 DEF ReadRelation, TypeOK, InProgress, At
  <2>2. /\ job' \in [Events -> Job]
        /\ \A d \in Events : job'[d].at \notin {"new", "done", "broken", "shaken"} => job'[d].player \in Players
    <3>1. job \in [Events -> Job] /\ relation \in [Players -> SUBSET Events]
      BY DEF TypeOK
    <3>. QED
      BY <1>2, <2>1, <3>1, ReadJob, PlayersKnown
  <2>. QED
    BY <1>2, <2>2 DEF ReadRelation, process, session, TypeOK, InProgress, At
<1>3. ASSUME SetRelation(c)
      PROVE  TypeOK'
  <2>1. job[c].player \in Players /\ job[c].seen \in SUBSET Events
    BY <1>3 DEF SetRelation, TypeOK, InProgress, At, Job
  <2>2. /\ job' \in [Events -> Job]
        /\ \A d \in Events : job'[d].at \notin {"new", "done", "broken", "shaken"} => job'[d].player \in Players
    <3>1. job \in [Events -> Job] /\ "feel" \in Steps /\ Goto(c, "feel")
      BY <1>3 DEF TypeOK, SetRelation, Steps
    <3>. QED
      BY <2>1, <3>1, GotoJob, PlayersKnown
  <2>3. relation' \in [Players -> SUBSET Events]
    BY <1>3, <2>1 DEF SetRelation, TypeOK
  <2>. QED
    BY <1>3, <2>2, <2>3 DEF SetRelation, process, session, TypeOK, InProgress, At
<1>4. ASSUME NEW step \in {"through", "shaken"}, Feel(c, step),
             step = "through" => job[c].player \in Players
      PROVE  TypeOK'
  <2>1. step \in Steps
    BY DEF Steps
  <2>2. /\ job' \in [Events -> Job] /\ mood' \subseteq Events
        /\ \A d \in Events : job'[d].at \notin {"new", "done", "broken", "shaken"} => job'[d].player \in Players
    <3>1. job \in [Events -> Job] /\ mood \subseteq Events
      BY DEF TypeOK
    <3>. QED
      BY <1>4, <2>1, <3>1, FeelJob, PlayersKnown
  <2>. QED
    BY <1>4, <2>2 DEF Feel, process, session, TypeOK, InProgress, At
<1>5. ASSUME FeelDialogue(c)
      PROVE  TypeOK'
  <2>1. job[c].player \in Players
    BY <1>5 DEF FeelDialogue, TypeOK, InProgress, At
  <2>. QED
    BY <1>4, <1>5, <2>1 DEF FeelDialogue
<1>6. ASSUME Shock(c)
      PROVE  TypeOK'
  BY <1>4, <1>6 DEF Shock
<1>7. ASSUME WriteMood(c)
      PROVE  TypeOK'
  <2>1. job[c].seen \in SUBSET Events
    BY DEF TypeOK, Job
  <2>2. job \in [Events -> Job] /\ "append" \in Steps /\ "done" \in Steps
    BY DEF TypeOK, Steps
  <2>3. /\ job' \in [Events -> Job]
        /\ \A d \in Events : job'[d].at \notin {"new", "done", "broken", "shaken"} => job'[d].player \in Players
    <3>1. CASE At(c, "through") /\ Goto(c, "append")
      <4>1. job[c].player \in Players
        BY <3>1 DEF TypeOK, InProgress, At
      <4>. QED
        BY <3>1, <4>1, <2>2, GotoJob, PlayersKnown
    <3>2. CASE At(c, "shaken") /\ End(c, "done")
      BY <3>2, <2>2, EndJob, PlayersKnown
    <3>. QED
      BY <1>7, <3>1, <3>2 DEF WriteMood
  <2>. QED
    BY <1>7, <2>1, <2>3 DEF WriteMood, process, session, TypeOK, InProgress, At
<1>8. ASSUME Broken(c)
      PROVE  TypeOK'
  <2>1. /\ job' \in [Events -> Job]
        /\ \A d \in Events : job'[d].at \notin {"new", "done", "broken", "shaken"} => job'[d].player \in Players
    <3>1. job \in [Events -> Job] /\ "broken" \in Steps /\ End(c, "broken")
      BY <1>8 DEF TypeOK, Broken, Steps
    <3>. QED
      BY <3>1, EndJob, PlayersKnown
  <2>. QED
    BY <1>8, <2>1 DEF Broken, process, session, TypeOK, InProgress, At
<1>. QED
  BY <1>1, <1>2, <1>3, <1>5, <1>6, <1>7, <1>8

\* Shutdown: sessions are saved while the process is saving only, by then
\* nothing else is under way, and what was deleted is gone.
ProcessInv ==
    /\ phase # "saving" => unsaved = {} /\ wiped = Nobody
    /\ wiped \in Players => graph[wiped] = <<>>
    /\ phase # "up" => \A j \in Jobs : ~Under(j)
    /\ phase # "up" => \A e \in Events : ~InProgress(e)

TInv == TypeOK /\ ProcessInv

LEMMA AppendTurnsType ==
    ASSUME TypeOK, NEW c \in Events, AppendTurns(c)
    PROVE  TypeOK'
<1>1. /\ store' \in [Players -> Seq(Events)] /\ \A q \in Players : Len(store'[q]) <= MaxTurns
      /\ live' \subseteq Players
  BY AppendTurnsStore DEF TypeOK
<1>2. job \in [Events -> Job] /\ "done" \in Steps /\ End(c, "done")
  BY DEF TypeOK, AppendTurns, Steps
<1>3. /\ job' \in [Events -> Job]
      /\ \A d \in Events : job'[d].at \notin {"new", "done", "broken", "shaken"} => job'[d].player \in Players
  BY <1>2, EndJob, PlayersKnown
<1>4. summary' \in [Jobs -> Summary]
  <2>1. \A j \in Jobs : [summary[j] EXCEPT !.late = @ \cup {c}] \in Summary
    BY DEF TypeOK, Summary
  <2>2. Idle \in Summary
    BY DEF Idle, Summary
  <2>3. summary' = [j \in Jobs |-> IF Under(j) THEN [summary[j] EXCEPT !.late = @ \cup {c}]
                                  ELSE Idle]
    BY DEF AppendTurns
  <2>. QED
    BY <2>1, <2>2, <2>3
<1>. QED
  BY <1>1, <1>3, <1>4 DEF AppendTurns, process, TypeOK, InProgress, At

LEMMA ConsolidationType ==
    ASSUME TypeOK, NEW j \in Jobs, Consolidation(j)
    PROVE  TypeOK'
<1>. USE DEF TypeOK, process, session, InProgress, At
<1>1. Idle \in Summary
  BY DEF Idle, Summary
<1>2. CASE Gather(j)
  <2>1. Gathered \in SUBSET Events
    <3>1. \A p \in Players : ToSet(store[p]) \subseteq Events
      BY ElementOfSeq DEF ToSet
    <3>. QED
      BY <3>1 DEF Gathered
  <2>2. [at |-> "summing", turns |-> Gathered, late |-> {}] \in Summary
    BY <2>1 DEF Summary
  <2>3. summary' \in [Jobs -> Summary]
    BY <1>2, <2>2 DEF Gather
  <2>. QED
    BY <1>2, <2>3 DEF Gather
<1>3. CASE SummaryFails(j)
  <2>1. summary' \in [Jobs -> Summary]
    BY <1>1, <1>3 DEF SummaryFails
  <2>. QED
    BY <1>3, <2>1 DEF SummaryFails
<1>4. CASE Remember(j)
  <2>1. [at |-> "clear", turns |-> {}, late |-> summary[j].late] \in Summary
    BY DEF Summary
  <2>2. summary' \in [Jobs -> Summary]
    BY <1>1, <1>4, <2>1 DEF Remember
  <2>3. memory' \in [Events -> 0..2]
    BY <1>4 DEF Remember
  <2>. QED
    BY <1>4, <2>2, <2>3 DEF Remember
<1>5. CASE Clear(j)
  <2>1. summary' \in [Jobs -> Summary]
    BY <1>1, <1>5 DEF Clear
  <2>2. /\ store' \in [Players -> Seq(Events)] /\ live' \subseteq Players
        /\ \A p \in Players : Len(store'[p]) <= MaxTurns
    BY <1>5, NoSessions, DialogueAssumption DEF Clear
  <2>. QED
    BY <1>5, <2>1, <2>2 DEF Clear
<1>. QED
  BY <1>2, <1>3, <1>4, <1>5 DEF Consolidation

LEMMA SessionType ==
    ASSUME TInv, NEW p \in Players, Session(p)
    PROVE  TypeOK'
<1>. USE DEF TypeOK, TInv, process, session, InProgress, At
<1>1. CASE Expire(p)
  BY <1>1 DEF Expire
<1>2. CASE DeleteTurns(p)
  <2>1. /\ graph' \in [Players -> Seq(Events)]
        /\ \A q \in Players : Len(graph'[q]) <= MaxPersisted
    BY <1>2, EmptySeq, DialogueAssumption DEF DeleteTurns
  <2>. QED
    BY <1>2, <2>1 DEF DeleteTurns
<1>3. CASE CreateTurns(p)
  <2>1. graph[p] = <<>> /\ store[p] \in Seq(Events)
    BY <1>3 DEF CreateTurns, ProcessInv
  <2>2. /\ Newest(store[p], MaxPersisted) \in Seq(Events)
        /\ Len(Newest(store[p], MaxPersisted)) <= MaxPersisted
    BY <2>1, NewestType, DialogueAssumption
  <2>3. graph' = [graph EXCEPT ![p] = Newest(store[p], MaxPersisted)]
    BY <1>3, <2>1, <2>2, ConcatEmptySeq DEF CreateTurns
  <2>4. /\ graph' \in [Players -> Seq(Events)]
        /\ \A q \in Players : Len(graph'[q]) <= MaxPersisted
    BY <2>2, <2>3
  <2>. QED
    BY <1>3, <2>4 DEF CreateTurns
<1>4. CASE SaveFails(p)
  BY <1>4 DEF SaveFails
<1>. QED
  BY <1>1, <1>2, <1>3, <1>4 DEF Session

LEMMA LifeType ==
    ASSUME TInv, Shutdown \/ Exit \/ Crash \/ Boot
    PROVE  TypeOK'
<1>. USE DEF TypeOK, TInv, process, session, InProgress, At
<1>1. [j \in Jobs |-> Idle] \in [Jobs -> Summary]
  BY DEF Idle, Summary
<1>2. Cut => /\ job' \in [Events -> Job]
             /\ \A d \in Events : job'[d].at \in {"new", "done", "broken"}
  BY CutJob
<1>3. CASE Shutdown
  BY <1>1, <1>2, <1>3 DEF Shutdown
<1>4. CASE Stop
  <2>1. /\ store' \in [Players -> Seq(Events)]
        /\ \A p \in Players : Len(store'[p]) <= MaxTurns
    BY <1>4, NoSessions, DialogueAssumption DEF Stop
  <2>. QED
    BY <1>1, <1>2, <1>4, <2>1 DEF Stop
<1>5. CASE Boot
  BY <1>5, BootStore DEF Boot
<1>. QED
  BY <1>3, <1>4, <1>5 DEF Exit, Crash

LEMMA Step ==
    ASSUME Next
    PROVE  \/ \E c \in Events : \/ \E p \in Players, canned \in BOOLEAN : Ask(c, p, canned)
                               \/ ReadRelation(c) \/ SetRelation(c) \/ FeelDialogue(c)
                               \/ WriteMood(c) \/ Broken(c) \/ Shock(c)
           \/ \E c \in Events : AppendTurns(c)
           \/ \E j \in Jobs : Consolidation(j)
           \/ \E p \in Players : Session(p)
           \/ Shutdown \/ Exit \/ Crash \/ Boot
BY DEF Next, Call

\* Who is at work needs a process that is up.
LEMMA ProcessSteps ==
    ASSUME TInv, Next
    PROVE  ProcessInv'
<1>. USE DEF ProcessInv, TInv, process, session
<1>1. ASSUME NEW c \in Events,
             \/ \E p \in Players, canned \in BOOLEAN : Ask(c, p, canned)
             \/ ReadRelation(c) \/ SetRelation(c) \/ FeelDialogue(c)
             \/ WriteMood(c) \/ Broken(c) \/ Shock(c)
      PROVE  ProcessInv'
  <2>1. phase = "up"
    <3>1. \/ phase = "up"
          \/ job[c].at \notin {"new", "done", "broken"}
      BY <1>1 DEF Ask, ReadRelation, SetRelation, FeelDialogue, WriteMood, Broken, Shock, At,
                  InProgress
    <3>. QED
      BY <3>1 DEF InProgress
  <2>2. UNCHANGED <<process, summary, graph>>
    BY <1>1 DEF Ask, ReadRelation, SetRelation, FeelDialogue, WriteMood, Broken, Shock, Feel
  <2>. QED
    BY <2>1, <2>2
<1>2. ASSUME NEW c \in Events, AppendTurns(c)
      PROVE  ProcessInv'
  <2>1. phase = "up"
    BY <1>2 DEF AppendTurns, At, InProgress
  <2>. QED
    BY <1>2, <2>1 DEF AppendTurns
<1>3. ASSUME NEW j \in Jobs, Consolidation(j)
      PROVE  ProcessInv'
  <2>1. phase = "up"
    BY <1>3 DEF Consolidation, Gather, SummaryFails, Remember, Clear, Under
  <2>2. UNCHANGED <<process, graph>>
    BY <1>3 DEF Consolidation, Gather, SummaryFails, Remember, Clear
  <2>. QED
    BY <2>1, <2>2
<1>4. ASSUME NEW p \in Players, Session(p)
      PROVE  ProcessInv'
  <2>. USE DialogueAssumption DEF Under, InProgress
  <2>1. CASE Expire(p)
    BY <1>4, <2>1 DEF Expire
  <2>2. CASE DeleteTurns(p)
    BY <1>4, <2>2 DEF DeleteTurns, TypeOK
  <2>3. CASE CreateTurns(p)
    BY <1>4, <2>3 DEF CreateTurns
  <2>4. CASE SaveFails(p)
    BY <1>4, <2>4 DEF SaveFails
  <2>. QED
    BY <1>4, <2>1, <2>2, <2>3, <2>4 DEF Session
<1>5. ASSUME Shutdown \/ Stop
      PROVE  ProcessInv'
  <2>1. \A j \in Jobs : ~Under(j)'
    BY <1>5 DEF Shutdown, Stop, Under, Idle
  <2>2. job \in [Events -> Job] /\ Cut
    BY <1>5 DEF Shutdown, Stop, TypeOK
  <2>3. \A e \in Events : job'[e].at \in {"new", "done", "broken"}
    BY <2>2, CutJob DEF InProgress
  <2>4. /\ phase' # "saving" => unsaved' = {} /\ wiped' = Nobody
        /\ wiped' = Nobody
    BY <1>5 DEF Shutdown, Stop
  <2>. QED
    BY <2>1, <2>3, <2>4, DialogueAssumption DEF InProgress
<1>6. ASSUME Boot
      PROVE  ProcessInv'
  BY <1>6 DEF Boot
<1>. QED
  BY <1>1, <1>2, <1>3, <1>4, <1>5, <1>6, Step DEF Exit, Crash

LEMMA TSteps ==
    ASSUME TInv, [Next]_vars
    PROVE  TInv'
<1>1. CASE Next
  BY <1>1, Step, CallType, AppendTurnsType, ConsolidationType, SessionType, LifeType,
     ProcessSteps DEF TInv
<1>2. CASE UNCHANGED vars
  BY <1>2 DEF TInv, ProcessInv, TypeOK, vars, InProgress, Under, At
<1>. QED
  BY <1>1, <1>2

LEMMA TInvHolds == Spec => []TInv
<1>1. Init => TInv
  BY Inits DEF TInv, ProcessInv, Init
<1>. QED
  BY <1>1, TSteps, PTL DEF Spec

\* Every value has its type and every session its limit.
THEOREM TypeCorrect == Spec => []TypeOK
<1>1. TInv => TypeOK
  BY DEF TInv
<1>. QED
  BY <1>1, TInvHolds, PTL

-----------------------------------------------------------------------------
(* Relations.                                                              *)

\* What a transaction has read is what the relation still is, as long as no
\* two transactions of a player have crossed.
RelationInv ==
    "relation" \notin strayed =>
      \A c \in Events : At(c, "set") =>
        /\ job[c].seen = relation[job[c].player]
        /\ \A d \in Events : At(d, "set") /\ job[d].player = job[c].player => d = c

\* Only ReadRelation and SetRelation bring a call to its "set" or move a relation.
LEMMA OtherSteps ==
    ASSUME TInv, Next
    PROVE  \/ \E c \in Events : ReadRelation(c) \/ SetRelation(c)
           \/ /\ relation' = relation /\ strayed \subseteq strayed'
              /\ \A c \in Events : job'[c].at = "set" => job[c] = job'[c]
<1>. DEFINE Other == /\ relation' = relation /\ strayed \subseteq strayed'
                     /\ \A c \in Events : job'[c].at = "set" => job[c] = job'[c]
<1>. USE DEF TInv, TypeOK
<1>1. ASSUME NEW c \in Events, NEW p \in Players, NEW canned \in BOOLEAN, Ask(c, p, canned)
      PROVE  Other
  BY <1>1, AskJob DEF Ask
<1>2. ASSUME NEW c \in Events, NEW step \in {"through", "shaken"}, Feel(c, step)
      PROVE  Other
  <2>1. step \in Steps
    BY DEF Steps
  <2>. QED
    BY <1>2, <2>1, FeelJob DEF Feel
<1>3. ASSUME NEW c \in Events, WriteMood(c)
      PROVE  Other
  <2>1. {"append", "done"} \subseteq Steps
    BY DEF Steps
  <2>2. CASE Goto(c, "append")
    BY <1>3, <2>1, <2>2, GotoJob DEF WriteMood
  <2>3. CASE End(c, "done")
    BY <1>3, <2>1, <2>3, EndJob DEF WriteMood
  <2>. QED
    BY <1>3, <2>2, <2>3 DEF WriteMood
<1>4. ASSUME NEW c \in Events, Broken(c) \/ AppendTurns(c)
      PROVE  Other
  <2>1. {"broken", "done"} \subseteq Steps
    BY DEF Steps
  <2>. QED
    BY <1>4, <2>1, EndJob DEF Broken, AppendTurns
<1>5. ASSUME NEW j \in Jobs, Consolidation(j)
      PROVE  Other
  BY <1>5 DEF Consolidation, Gather, SummaryFails, Remember, Clear
<1>6. ASSUME NEW p \in Players, Session(p)
      PROVE  Other
  BY <1>6 DEF Session, Expire, DeleteTurns, CreateTurns, SaveFails
<1>7. ASSUME Shutdown \/ Stop
      PROVE  Other
  BY <1>7, CutJob DEF Shutdown, Stop
<1>8. ASSUME Boot
      PROVE  Other
  BY <1>8 DEF Boot
<1>. HIDE DEF Other
<1>9. QED
  BY <1>1, <1>2, <1>3, <1>4, <1>5, <1>6, <1>7, <1>8, Step
     DEF FeelDialogue, Shock, Exit, Crash, Other

LEMMA RelationSteps ==
    ASSUME TInv, RelationInv, [Next]_vars
    PROVE  /\ RelationInv'
           /\ "relation" \notin strayed =>
                \A p \in Players : relation[p] \subseteq relation'[p]
<1>. USE DEF RelationInv, At
<1>1. ASSUME NEW c \in Events, ReadRelation(c)
      PROVE  RelationInv' /\ relation' = relation
  <2>1. job[c].player \in Players /\ job \in [Events -> Job] /\ relation \in [Players -> SUBSET Events]
    BY <1>1 DEF ReadRelation, TInv, TypeOK, InProgress
  <2>2. /\ job'[c].at = "set" /\ job'[c].player = job[c].player
        /\ job'[c].seen = relation[job[c].player]
        /\ \A d \in Events : d # c => job'[d] = job[d]
    BY <1>1, <2>1, ReadJob
  <2>3. relation' = relation
    BY <1>1 DEF ReadRelation
  <2>4. CASE \E d \in Events : At(d, "set") /\ job[d].player = job[c].player
    <3>1. "relation" \in strayed'
      BY <1>1, <2>4 DEF ReadRelation
    <3>. QED
      BY <2>3, <3>1
  <2>5. CASE ~ \E d \in Events : At(d, "set") /\ job[d].player = job[c].player
    <3>1. strayed' = strayed
      BY <1>1, <2>5 DEF ReadRelation
    <3>. QED
      BY <2>2, <2>3, <2>5, <3>1
  <2>. QED
    BY <2>4, <2>5
<1>2. ASSUME NEW c \in Events, SetRelation(c)
      PROVE  /\ RelationInv'
             /\ "relation" \notin strayed => \A p \in Players : relation[p] \subseteq relation'[p]
  <2>1. /\ job[c].player \in Players /\ job \in [Events -> Job] /\ Goto(c, "feel")
        /\ "feel" \in Steps /\ relation \in [Players -> SUBSET Events] /\ At(c, "set")
    BY <1>2 DEF SetRelation, TInv, TypeOK, InProgress, Steps
  <2>2. /\ job'[c].at = "feel"
        /\ \A d \in Events : d # c => job'[d] = job[d]
    BY <2>1, GotoJob
  <2>3. /\ relation'[job[c].player] = job[c].seen \cup {c}
        /\ \A p \in Players : p # job[c].player => relation'[p] = relation[p]
        /\ strayed' = strayed
    BY <1>2, <2>1 DEF SetRelation
  <2>4. \A d \in Events : job[d].at = "set" => job[d].player \in Players
    BY DEF TInv, TypeOK, InProgress
  <2>. QED
    BY <2>1, <2>2, <2>3, <2>4
<1>3. ASSUME relation' = relation /\ strayed \subseteq strayed'
             /\ \A c \in Events : job'[c].at = "set" => job[c] = job'[c]
      PROVE  RelationInv'
  BY <1>3
<1>4. CASE UNCHANGED vars
  BY <1>3, <1>4 DEF vars
<1>. QED
  BY <1>1, <1>2, <1>3, <1>4, OtherSteps

\* Unless two transactions on one player's relation cross, the relation loses
\* nothing it has taken in.
THEOREM RelationsAreKept == Spec => RelationKept
<1>1. Init => RelationInv
  BY DEF Init, RelationInv, At, Unborn
<1>. QED
  BY <1>1, TInvHolds, RelationSteps, PTL DEF Spec, RelationKept

-----------------------------------------------------------------------------
(* Moods.                                                                  *)

Pending(e) == At(e, "through") \/ At(e, "shaken")

\* The graph has the mood of every event that wrote it; the mood in memory has
\* that and more; what the only pending write carries is the mood in memory.
MoodInv ==
    "mood" \notin strayed =>
      /\ \A e \in Events : At(e, "append") \/ At(e, "done") => e \in graphMood
      /\ phase = "up" => graphMood \subseteq mood
      /\ \A e \in Events : Pending(e) =>
           /\ e \in mood /\ job[e].seen = mood
           /\ \A f \in Events : Pending(f) => f = e

\* What the steps that touch no mood do.
LEMMA MoodlessSteps ==
    ASSUME TInv, Next
    PROVE  \/ \E e \in Events : WriteMood(e) \/ (\E step \in {"through", "shaken"} : Feel(e, step))
           \/ /\ graphMood' = graphMood /\ strayed \subseteq strayed'
              /\ \/ phase' = phase /\ mood' = mood
                 \/ phase' # "up" /\ \A e \in Events : ~InProgress(e)'
                 \/ mood' = graphMood /\ \A e \in Events : ~InProgress(e)'
              /\ \A e \in Events : At(e, "append")' \/ At(e, "done")' => At(e, "append") \/ At(e, "done")
              /\ \A e \in Events : Pending(e)' => job'[e] = job[e]
<1>. DEFINE Other ==
              /\ graphMood' = graphMood /\ strayed \subseteq strayed'
              /\ \/ phase' = phase /\ mood' = mood
                 \/ phase' # "up" /\ \A e \in Events : job'[e].at \in {"new", "done", "broken"}
                 \/ mood' = graphMood /\ \A e \in Events : job'[e].at \in {"new", "done", "broken"}
              /\ \A e \in Events : job'[e].at \in {"append", "done"} => job[e].at \in {"append", "done"}
              /\ \A e \in Events : job'[e].at \in {"through", "shaken"} => job'[e] = job[e]
<1>. USE DEF TInv, TypeOK, At
<1>1. ASSUME NEW c \in Events, NEW p \in Players, NEW canned \in BOOLEAN, Ask(c, p, canned)
      PROVE  Other
  BY <1>1, AskJob DEF Ask, process
<1>2. ASSUME NEW c \in Events, ReadRelation(c)
      PROVE  Other
  <2>1. job[c].player \in Players
    BY <1>2 DEF ReadRelation, InProgress
  <2>. QED
    BY <1>2, <2>1, ReadJob DEF ReadRelation, process
<1>3. ASSUME NEW c \in Events, SetRelation(c)
      PROVE  Other
  <2>1. "feel" \in Steps
    BY DEF Steps
  <2>. QED
    BY <1>3, <2>1, GotoJob DEF SetRelation, process
<1>4. ASSUME NEW c \in Events, Broken(c) \/ AppendTurns(c)
      PROVE  Other
  <2>1. {"broken", "done"} \subseteq Steps
    BY DEF Steps
  <2>2. CASE Broken(c)
    BY <2>1, <2>2, EndJob DEF Broken, process
  <2>3. CASE AppendTurns(c)
    BY <2>1, <2>3, EndJob DEF AppendTurns, process
  <2>. QED
    BY <1>4, <2>2, <2>3
<1>5. ASSUME NEW j \in Jobs, Consolidation(j)
      PROVE  Other
  BY <1>5 DEF Consolidation, Gather, SummaryFails, Remember, Clear, process
<1>6. ASSUME NEW p \in Players, Session(p)
      PROVE  Other
  BY <1>6 DEF Session, Expire, DeleteTurns, CreateTurns, SaveFails, process
<1>7. ASSUME Shutdown \/ Stop
      PROVE  Other
  <2>1. job \in [Events -> Job] /\ Cut /\ phase' # "up" /\ graphMood' = graphMood /\ strayed' = strayed
    BY <1>7 DEF Shutdown, Stop
  <2>2. \A e \in Events : job'[e].at \in {"new", "done", "broken"}
    BY <2>1, CutJob DEF InProgress
  <2>3. \A e \in Events : job'[e].at = "done" => job[e].at = "done"
    BY <2>1, CutJob
  <2>. QED
    BY <2>1, <2>2, <2>3
<1>8. ASSUME Boot
      PROVE  Other
  BY <1>8 DEF Boot, ProcessInv, InProgress
<1>9. \/ \E e \in Events : WriteMood(e) \/ (\E step \in {"through", "shaken"} : Feel(e, step))
      \/ Other
  <2>. HIDE DEF Other
  <2>. QED
    BY <1>1, <1>2, <1>3, <1>4, <1>5, <1>6, <1>7, <1>8, Step DEF FeelDialogue, Shock, Exit, Crash
<1>. QED
  BY <1>9 DEF Pending, InProgress

LEMMA MoodSteps ==
    ASSUME TInv, MoodInv, [Next]_vars
    PROVE  MoodInv'
<1>. USE DEF MoodInv, Pending, At
<1>1. ASSUME NEW c \in Events, NEW step \in {"through", "shaken"}, Feel(c, step)
      PROVE  MoodInv'
  <2>1. job \in [Events -> Job] /\ mood \subseteq Events /\ step \in Steps
    BY DEF TInv, TypeOK, Steps
  <2>2. /\ mood' = mood \cup {c}
        /\ job'[c].at = step /\ job'[c].seen = mood'
        /\ \A f \in Events : f # c => job'[f] = job[f]
    BY <1>1, <2>1, FeelJob
  <2>3. graphMood' = graphMood /\ phase' = phase
    BY <1>1 DEF Feel, process
  <2>4. CASE \E f \in Events : Pending(f)
    <3>1. "mood" \in strayed'
      BY <1>1, <2>4 DEF Feel
    <3>. QED
      BY <3>1
  <2>5. CASE ~ \E f \in Events : Pending(f)
    <3>1. strayed' = strayed
      BY <1>1, <2>5 DEF Feel
    <3>. QED
      BY <2>2, <2>3, <2>5, <3>1
  <2>. QED
    BY <2>4, <2>5
<1>2. ASSUME NEW c \in Events, WriteMood(c)
      PROVE  MoodInv'
  <2>1. job \in [Events -> Job] /\ {"append", "done"} \subseteq Steps
    BY DEF TInv, TypeOK, Steps
  <2>2. /\ Pending(c) /\ job'[c].at \in {"append", "done"}
        /\ \A f \in Events : f # c => job'[f] = job[f]
    <3>1. CASE At(c, "through") /\ Goto(c, "append")
      BY <2>1, <3>1, GotoJob
    <3>2. CASE At(c, "shaken") /\ End(c, "done")
      BY <2>1, <3>2, EndJob
    <3>. QED
      BY <1>2, <3>1, <3>2 DEF WriteMood
  <2>3. /\ graphMood' = job[c].seen /\ mood' = mood /\ phase' = phase /\ strayed' = strayed
    BY <1>2 DEF WriteMood, process
  <2>4. phase = "up"
    BY <2>2 DEF TInv, ProcessInv, InProgress
  <2>. QED
    BY <2>2, <2>3, <2>4
<1>3. ASSUME /\ graphMood' = graphMood /\ strayed \subseteq strayed'
             /\ \/ phase' = phase /\ mood' = mood
                \/ phase' # "up" /\ \A e \in Events : ~InProgress(e)'
                \/ mood' = graphMood /\ \A e \in Events : ~InProgress(e)'
             /\ \A e \in Events : At(e, "append")' \/ At(e, "done")' => At(e, "append") \/ At(e, "done")
             /\ \A e \in Events : Pending(e)' => job'[e] = job[e]
      PROVE  MoodInv'
  BY <1>3 DEF InProgress
<1>4. CASE UNCHANGED vars
  BY <1>4 DEF vars
<1>. QED
  BY <1>1, <1>2, <1>3, <1>4, MoodlessSteps

\* What the NPC has felt and written survives restarts, unless two
\* write-throughs were pending at once.
THEOREM MoodsAreKept == Spec => []MoodKept
<1>1. Init => MoodInv
  BY DEF Init, MoodInv, Pending, At, Unborn
<1>2. MoodInv => MoodKept
  BY DEF MoodInv, MoodKept, At
<1>. QED
  BY <1>1, <1>2, TInvHolds, MoodSteps, PTL DEF Spec

-----------------------------------------------------------------------------
(* Sessions and saved turns.                                               *)

\* What a step other than AppendTurns does to the turns of p: it forgets the
\* session, deletes or saves it, or loads what was saved.
Kept(p) ==
    \/ (store'[p] = store[p] \/ store'[p] = <<>>) /\ graph'[p] = graph[p]
    \/ store'[p] = store[p] /\ (graph'[p] = <<>> \/ graph'[p] = Newest(store[p], MaxPersisted))
    \/ store'[p] = Newest(graph[p], MaxTurns) /\ graph'[p] = graph[p]

LEMMA KeptSteps ==
    ASSUME TInv, Next
    PROVE  (\E c \in Events : AppendTurns(c)) \/ (\A p \in Players : Kept(p))
<1>. DEFINE Same == store' = store /\ graph' = graph
            All == \A p \in Players : Kept(p)
<1>. USE DEF TInv, TypeOK
<1>1. Same => All
  BY DEF Kept
<1>2. ASSUME NEW c \in Events, NEW p \in Players, NEW canned \in BOOLEAN, Ask(c, p, canned)
      PROVE  All
  BY <1>2 DEF Ask, Current, Kept
<1>3. ASSUME NEW c \in Events, \/ ReadRelation(c) \/ SetRelation(c) \/ FeelDialogue(c)
                               \/ WriteMood(c) \/ Broken(c) \/ Shock(c)
      PROVE  Same
  BY <1>3 DEF ReadRelation, SetRelation, FeelDialogue, WriteMood, Broken, Shock, Feel, session
<1>4. ASSUME NEW j \in Jobs, Consolidation(j)
      PROVE  All
  <2>1. Gather(j) \/ SummaryFails(j) \/ Remember(j) => Same
    BY DEF Gather, SummaryFails, Remember, session
  <2>2. Clear(j) => All
    BY DEF Clear, Kept
  <2>. QED
    BY <1>1, <1>4, <2>1, <2>2 DEF Consolidation
<1>5. ASSUME NEW p \in Players, Session(p)
      PROVE  All
  <2>1. Expire(p) \/ SaveFails(p) => Same
    BY DEF Expire, SaveFails, session
  <2>2. DeleteTurns(p) => All
    BY DEF DeleteTurns, session, Kept
  <2>3. CASE CreateTurns(p)
    <3>1. graph[p] = <<>> /\ store[p] \in Seq(Events)
      BY <2>3 DEF CreateTurns, ProcessInv
    <3>2. Newest(store[p], MaxPersisted) \in Seq(Events)
      BY <3>1, NewestType, DialogueAssumption
    <3>3. graph' = [graph EXCEPT ![p] = Newest(store[p], MaxPersisted)] /\ store' = store
      BY <2>3, <3>1, <3>2, ConcatEmptySeq DEF CreateTurns, session
    <3>. QED
      BY <3>3 DEF Kept
  <2>. QED
    BY <1>1, <1>5, <2>1, <2>2, <2>3 DEF Session
<1>6. Shutdown => Same
  BY DEF Shutdown, session
<1>7. Stop \/ Boot => All
  BY DEF Stop, Boot, Kept
<1>. HIDE DEF Same, All
<1>8. (\E c \in Events : AppendTurns(c)) \/ All
  BY <1>1, <1>2, <1>3, <1>4, <1>5, <1>6, <1>7, Step DEF Exit, Crash
<1>. QED
  BY <1>8 DEF All

LEMMA KeptHolds ==
    ASSUME TInv, NEW p \in Players, Kept(p)
    PROVE  Holding(p)' \subseteq Holding(p)
<1>1. store[p] \in Seq(Events) /\ graph[p] \in Seq(Events)
  BY DEF TInv, TypeOK
<1>2. /\ ToSet(Newest(store[p], MaxPersisted)) \subseteq ToSet(store[p])
      /\ ToSet(Newest(graph[p], MaxTurns)) \subseteq ToSet(graph[p])
  BY <1>1, NewestSet, DialogueAssumption
<1>. QED
  BY <1>2, EmptySet DEF Kept, Holding

LEMMA KeptOrder ==
    ASSUME TInv, NEW p \in Players, Kept(p),
           IsInjective(store[p]), IsInjective(graph[p]), SameOrder(store[p], graph[p])
    PROVE  IsInjective(store'[p]) /\ IsInjective(graph'[p]) /\ SameOrder(store'[p], graph'[p])
<1>. DEFINE saved == Newest(store[p], MaxPersisted)
            loaded == Newest(graph[p], MaxTurns)
<1>1. store[p] \in Seq(Events) /\ graph[p] \in Seq(Events)
  BY DEF TInv, TypeOK
<1>2. IsInjective(saved) /\ IsInjective(loaded)
  BY <1>1, NewestInjective, DialogueAssumption
<1>3. SameOrder(store[p], saved) /\ SameOrder(loaded, graph[p])
  BY <1>1, OrderedItself, OrderedNewest, DialogueAssumption
<1>4. SameOrder(<<>>, graph[p]) /\ SameOrder(store[p], <<>>) /\ IsInjective(<<>>)
  BY <1>1, OrderedEmpty, EmptySet
<1>. HIDE DEF saved, loaded
<1>. QED
  BY <1>2, <1>3, <1>4 DEF Kept, saved, loaded

\* What storing a turn adds.
LEMMA AppendTurnsHolds ==
    ASSUME TypeOK, NEW c \in Events, AppendTurns(c)
    PROVE  /\ At(c, "append") /\ job'[c].at = "done"
           /\ \A d \in Events : d # c => job'[d] = job[d]
           /\ graph' = graph /\ memory' = memory
           /\ \A p \in Players : Holding(p)' \subseteq
                Holding(p) \cup (IF p = job[c].player THEN {c} ELSE {})
<1>1. At(c, "append") /\ graph' = graph /\ memory' = memory /\ End(c, "done")
  BY DEF AppendTurns
<1>2. job'[c].at = "done" /\ \A d \in Events : d # c => job'[d] = job[d]
  <2>1. job \in [Events -> Job] /\ "done" \in Steps
    BY DEF TypeOK, Steps
  <2>. QED
    BY <1>1, <2>1, EndJob
<1>3. ASSUME NEW p \in Players
      PROVE  Holding(p)' \subseteq Holding(p) \cup (IF p = job[c].player THEN {c} ELSE {})
  <2>1. CASE p # job[c].player
    BY <1>1, <2>1, AppendTurnsStore DEF Holding
  <2>2. CASE p = job[c].player
    <3>. DEFINE said == Append(Current(p), c)
    <3>1. Current(p) \in Seq(Events) /\ ToSet(Current(p)) \subseteq ToSet(store[p])
      BY CurrentType DEF TypeOK
    <3>2. said \in Seq(Events) /\ ToSet(said) = ToSet(Current(p)) \cup {c}
      BY <3>1, AppendedSet
    <3>3. store'[p] = Newest(said, MaxTurns)
      BY <2>2, AppendTurnsStore
    <3>. HIDE DEF said
    <3>4. ToSet(Newest(said, MaxTurns)) \subseteq ToSet(said)
      BY <3>2, NewestSet, DialogueAssumption
    <3>. QED
      BY <1>1, <2>2, <3>1, <3>2, <3>3, <3>4 DEF Holding
  <2>. QED
    BY <2>1, <2>2
<1>. QED
  BY <1>1, <1>2, <1>3

LEMMA DoneStays ==
    ASSUME TInv, Next, NEW a \in Events, At(a, "done")
    PROVE  At(a, "done")'
<1>. DEFINE Stays == job'[a].at = "done"
<1>. USE DEF TInv, TypeOK, At
<1>1. ASSUME NEW c \in Events, NEW p \in Players, NEW canned \in BOOLEAN, Ask(c, p, canned)
      PROVE  Stays
  BY <1>1, AskJob DEF Ask
<1>2. ASSUME NEW c \in Events, ReadRelation(c)
      PROVE  Stays
  <2>1. job[c].player \in Players
    BY <1>2 DEF ReadRelation, InProgress
  <2>. QED
    BY <1>2, <2>1, ReadJob DEF ReadRelation
<1>3. ASSUME NEW c \in Events, SetRelation(c)
      PROVE  Stays
  <2>1. "feel" \in Steps
    BY DEF Steps
  <2>. QED
    BY <1>3, <2>1, GotoJob DEF SetRelation
<1>4. ASSUME NEW c \in Events, FeelDialogue(c) \/ Shock(c)
      PROVE  Stays
  <2>1. {"through", "shaken"} \subseteq Steps
    BY DEF Steps
  <2>. QED
    BY <1>4, <2>1, FeelJob DEF FeelDialogue, Shock
<1>5. ASSUME NEW c \in Events, WriteMood(c)
      PROVE  Stays
  <2>1. {"append", "done"} \subseteq Steps
    BY DEF Steps
  <2>2. CASE At(c, "through") /\ Goto(c, "append")
    BY <2>1, <2>2, GotoJob
  <2>3. CASE At(c, "shaken") /\ End(c, "done")
    BY <2>1, <2>3, EndJob
  <2>. QED
    BY <1>5, <2>2, <2>3 DEF WriteMood
<1>6. ASSUME NEW c \in Events, Broken(c) \/ AppendTurns(c)
      PROVE  Stays
  <2>1. {"broken", "done"} \subseteq Steps
    BY DEF Steps
  <2>. QED
    BY <1>6, <2>1, EndJob DEF Broken, AppendTurns, InProgress
<1>7. ASSUME NEW j \in Jobs, Consolidation(j)
      PROVE  Stays
  BY <1>7 DEF Consolidation, Gather, SummaryFails, Remember, Clear
<1>8. ASSUME NEW p \in Players, Session(p)
      PROVE  Stays
  BY <1>8 DEF Session, Expire, DeleteTurns, CreateTurns, SaveFails
<1>9. ASSUME Shutdown \/ Stop
      PROVE  Stays
  BY <1>9, CutJob DEF Shutdown, Stop, InProgress
<1>10. Boot => Stays
  BY DEF Boot
<1>. HIDE DEF Stays
<1>11. Stays
  BY <1>1, <1>2, <1>3, <1>4, <1>5, <1>6, <1>7, <1>8, <1>9, <1>10, Step DEF Exit, Crash
<1>. QED
  BY <1>11 DEF Stays

\* What a step other than AppendTurns does to the consolidations.
LEMMA SummarySteps ==
    ASSUME TInv, Next, ~ \E c \in Events : AppendTurns(c)
    PROVE  /\ \A j \in Jobs :
                /\ summary'[j].turns \subseteq
                     summary[j].turns \cup UNION {Holding(p) : p \in Players}
                /\ summary'[j].late \subseteq summary[j].late
           /\ \A c \in Events : memory'[c] # memory[c] => \E j \in Jobs : c \in summary[j].turns
<1>. DEFINE All ==
              /\ \A j \in Jobs :
                   /\ summary'[j].turns \subseteq
                        summary[j].turns \cup UNION {Holding(p) : p \in Players}
                   /\ summary'[j].late \subseteq summary[j].late
              /\ \A c \in Events : memory'[c] # memory[c] => \E j \in Jobs : c \in summary[j].turns
<1>. USE DEF TInv, TypeOK
<1>1. summary' = summary /\ memory' = memory => All
  OBVIOUS
<1>2. summary' = [j \in Jobs |-> Idle] /\ memory' = memory => All
  BY DEF Idle
<1>3. ASSUME NEW c \in Events,
             \/ \E p \in Players, canned \in BOOLEAN : Ask(c, p, canned)
             \/ ReadRelation(c) \/ SetRelation(c) \/ FeelDialogue(c)
             \/ WriteMood(c) \/ Broken(c) \/ Shock(c)
      PROVE  summary' = summary /\ memory' = memory
  BY <1>3 DEF Ask, ReadRelation, SetRelation, FeelDialogue, WriteMood, Broken, Shock, Feel
<1>4. ASSUME NEW i \in Jobs, Gather(i)
      PROVE  All
  <2>1. Gathered \subseteq UNION {Holding(p) : p \in Players}
    BY DEF Gathered, Holding
  <2>2. /\ summary' = [summary EXCEPT ![i] = [at |-> "summing", turns |-> Gathered, late |-> {}]]
        /\ memory' = memory
    BY <1>4 DEF Gather
  <2>. QED
    BY <2>1, <2>2
<1>5. ASSUME NEW i \in Jobs, SummaryFails(i) \/ Clear(i)
      PROVE  All
  <2>1. summary' = [summary EXCEPT ![i] = Idle] /\ memory' = memory
    BY <1>5 DEF SummaryFails, Clear
  <2>2. /\ \A j \in Jobs : j # i => summary'[j] = summary[j]
        /\ summary'[i].turns = {} /\ summary'[i].late = {}
    BY <2>1 DEF Idle
  <2>. QED
    BY <2>1, <2>2
<1>6. ASSUME NEW i \in Jobs, Remember(i)
      PROVE  All
  <2>1. /\ \A j \in Jobs : j # i => summary'[j] = summary[j]
        /\ summary'[i].turns = {} /\ summary'[i].late \subseteq summary[i].late
    BY <1>6 DEF Remember, Idle
  <2>2. memory' = [c \in Events |-> IF c \in summary[i].turns /\ memory[c] < 2
                                    THEN memory[c] + 1 ELSE memory[c]]
    BY <1>6 DEF Remember
  <2>3. \A c \in Events : memory'[c] # memory[c] => c \in summary[i].turns
    BY <2>2
  <2>. QED
    BY <2>1, <2>3
<1>7. ASSUME NEW p \in Players, Session(p)
      PROVE  summary' = summary /\ memory' = memory
  BY <1>7 DEF Session, Expire, DeleteTurns, CreateTurns, SaveFails
<1>8. Shutdown \/ Stop => summary' = [j \in Jobs |-> Idle] /\ memory' = memory
  BY DEF Shutdown, Stop
<1>9. Boot => summary' = summary /\ memory' = memory
  BY DEF Boot
<1>. HIDE DEF All
<1>10. All
  BY <1>1, <1>2, <1>3, <1>4, <1>5, <1>6, <1>7, <1>8, <1>9, Step DEF Consolidation, Exit, Crash
<1>. QED
  BY <1>10 DEF All

\* A call whose turn is not stored yet is in no session, no consolidation and
\* no memory.
UnsaidInv ==
    \A c \in Events : ~At(c, "done") =>
      /\ \A p \in Players : c \notin Holding(p)
      /\ \A j \in Jobs : c \notin summary[j].turns \cup summary[j].late
      /\ memory[c] = 0

LEMMA UnsaidSteps ==
    ASSUME TInv, UnsaidInv, [Next]_vars
    PROVE  UnsaidInv'
<1>. USE DEF UnsaidInv
<1>1. ASSUME NEW c \in Events, AppendTurns(c)
      PROVE  UnsaidInv'
  <2>1. /\ job'[c].at = "done" /\ \A d \in Events : d # c => job'[d] = job[d]
        /\ memory' = memory
        /\ \A p \in Players : Holding(p)' \subseteq Holding(p) \cup {c}
    BY <1>1, AppendTurnsHolds DEF TInv
  <2>2. \A j \in Jobs : /\ summary'[j].turns \subseteq summary[j].turns
                        /\ summary'[j].late \subseteq summary[j].late \cup {c}
    BY <1>1 DEF AppendTurns, Idle, TInv, TypeOK, Summary
  <2>. QED
    BY <2>1, <2>2 DEF At
<1>2. ASSUME Next, ~ \E c \in Events : AppendTurns(c)
      PROVE  UnsaidInv'
  <2>. SUFFICES ASSUME NEW c \in Events, ~At(c, "done")'
                PROVE  /\ \A p \in Players : c \notin Holding(p)'
                       /\ \A j \in Jobs : c \notin summary'[j].turns \cup summary'[j].late
                       /\ memory'[c] = 0
    OBVIOUS
  <2>1. ~At(c, "done")
    BY <1>2, DoneStays
  <2>2. \A p \in Players : Holding(p)' \subseteq Holding(p)
    BY <1>2, KeptSteps, KeptHolds
  <2>3. \A j \in Jobs : /\ summary'[j].turns \subseteq
                             summary[j].turns \cup UNION {Holding(p) : p \in Players}
                        /\ summary'[j].late \subseteq summary[j].late
    BY <1>2, SummarySteps
  <2>4. memory'[c] # memory[c] => \E j \in Jobs : c \in summary[j].turns
    BY <1>2, SummarySteps
  <2>. QED
    BY <2>1, <2>2, <2>3, <2>4
<1>3. CASE UNCHANGED vars
  BY <1>3 DEF vars, At, Holding
<1>. QED
  BY <1>1, <1>2, <1>3

LEMMA UnsaidInvHolds == Spec => []UnsaidInv
<1>1. Init => UnsaidInv
  BY EmptySet DEF Init, UnsaidInv, Idle, Holding
<1>. QED
  BY <1>1, TInvHolds, UnsaidSteps, PTL DEF Spec

LEMMA TurnsSteps ==
    ASSUME TInv, UnsaidInv, TurnsOnce, [Next]_vars
    PROVE  TurnsOnce'
<1>. USE DEF TurnsOnce
<1>1. ASSUME NEW c \in Events, AppendTurns(c)
      PROVE  TurnsOnce'
  <2>. DEFINE p == job[c].player
              said == Append(Current(p), c)
  <2>1. /\ At(c, "append") /\ graph' = graph
        /\ \A q \in Players : Holding(q)' \subseteq Holding(q) \cup (IF q = p THEN {c} ELSE {})
    BY <1>1, AppendTurnsHolds DEF TInv
  <2>2. \A q \in Players : c \notin Holding(q)
    BY <2>1 DEF UnsaidInv, At
  <2>3. /\ p \in Players /\ store'[p] = Newest(said, MaxTurns)
        /\ \A q \in Players : q # p => store'[q] = store[q]
    BY <1>1, AppendTurnsStore DEF TInv
  <2>4. store[p] \in Seq(Events) /\ graph[p] \in Seq(Events) /\ store \in [Players -> Seq(Events)]
    BY <2>3 DEF TInv, TypeOK
  <2>5. /\ Current(p) \in Seq(Events) /\ IsInjective(Current(p)) /\ c \notin ToSet(Current(p))
    BY <2>2, <2>3, <2>4, CurrentType DEF Holding
  <2>6. SameOrder(Current(p), graph[p])
    BY <2>3, <2>4, OrderedEmpty DEF Current
  <2>7. said \in Seq(Events) /\ IsInjective(said) /\ SameOrder(said, graph[p])
    <3>1. c \notin ToSet(graph[p])
      BY <2>2, <2>3 DEF Holding
    <3>. QED
      BY <2>4, <2>5, <2>6, <3>1, AppendedSet, AppendedOnce, OrderedAppended
  <2>. HIDE DEF said
  <2>8. IsInjective(store'[p]) /\ SameOrder(store'[p], graph[p])
    BY <2>3, <2>4, <2>7, NewestInjective, OrderedNewest, DialogueAssumption
  <2>9. \A q, r \in Players : q # r => Holding(q)' \cap Holding(r)' = {}
    BY <2>1, <2>2
  <2>. QED
    BY <2>1, <2>3, <2>8, <2>9
<1>2. ASSUME \A p \in Players : Kept(p)
      PROVE  TurnsOnce'
  BY <1>2, KeptHolds, KeptOrder
<1>3. CASE UNCHANGED vars
  BY <1>3 DEF vars, Holding
<1>. QED
  BY <1>1, <1>2, <1>3, KeptSteps

\* Through saves, failed saves, crashes and loads, no turn is twice in a
\* session or in the graph, none is with two players, and the order stays.
THEOREM TurnsAreOnce == Spec => []TurnsOnce
<1>1. Init => TurnsOnce
  <2>1. SameOrder(<<>>, <<>>)
    BY OrderedEmpty, EmptySeq
  <2>. QED
    BY <2>1, EmptySet DEF Init, TurnsOnce, Holding
<1>. QED
  BY <1>1, TInvHolds, UnsaidInvHolds, TurnsSteps, PTL DEF Spec

-----------------------------------------------------------------------------
(* Consolidation.                                                          *)

\* What a step other than AppendTurns and those of a consolidation does to
\* the store and the consolidations.
Aside ==
    /\ memory' = memory /\ strayed \subseteq strayed'
    /\ \/ /\ phase' = phase /\ summary' = summary /\ live' \subseteq live
          /\ \A p \in Players : store'[p] = store[p] \/ (p \notin live /\ store'[p] = <<>>)
       \/ phase' # "up" /\ \A j \in Jobs : summary'[j] = Idle
       \/ Boot

LEMMA AsideSteps ==
    ASSUME TInv, Next
    PROVE  \/ \E c \in Events : AppendTurns(c)
           \/ \E j \in Jobs : Consolidation(j)
           \/ Aside
<1>. USE DEF TInv, TypeOK
<1>1. ASSUME NEW c \in Events, NEW p \in Players, NEW canned \in BOOLEAN, Ask(c, p, canned)
      PROVE  Aside
  BY <1>1 DEF Ask, process, Current, Aside
<1>2. ASSUME NEW c \in Events, \/ ReadRelation(c) \/ SetRelation(c) \/ FeelDialogue(c)
                               \/ WriteMood(c) \/ Broken(c) \/ Shock(c)
      PROVE  Aside
  <2>1. phase' = phase /\ summary' = summary /\ store' = store /\ live' = live /\ memory' = memory
    BY <1>2 DEF ReadRelation, SetRelation, FeelDialogue, WriteMood, Broken, Shock, Feel, session, process
  <2>2. strayed \subseteq strayed'
    BY <1>2 DEF ReadRelation, SetRelation, FeelDialogue, WriteMood, Broken, Shock, Feel
  <2>. QED
    BY <2>1, <2>2 DEF Aside
<1>3. ASSUME NEW p \in Players, Session(p)
      PROVE  Aside
  BY <1>3 DEF Session, Expire, DeleteTurns, CreateTurns, SaveFails, session, process, Aside
<1>4. Shutdown \/ Stop => Aside
  BY DEF Shutdown, Stop, Aside
<1>5. Boot => Aside
  BY DEF Boot, Aside
<1>. QED
  BY <1>1, <1>2, <1>3, <1>4, <1>5, Step DEF Exit, Crash

\* What a session holds while a consolidation is under way was read by it, or
\* stored since, or is in a memory by the time it clears.
ReadInv ==
    \A j \in Jobs, p \in live : \A c \in ToSet(store[p]) :
      /\ summary[j].at = "summing" => c \in summary[j].turns \cup summary[j].late
      /\ summary[j].at = "clear" => memory[c] > 0 \/ c \in summary[j].late

LEMMA ReadAppend ==
    ASSUME TypeOK, ReadInv, NEW c \in Events, AppendTurns(c)
    PROVE  /\ ReadInv'
           /\ \A p \in Players : \A d \in ToSet(store[p]) \ ToSet(store'[p]) :
                p \notin live \/ Len(store'[p]) = MaxTurns
<1>. DEFINE p == job[c].player
            said == Append(Current(p), c)
<1>1. /\ p \in Players /\ store'[p] = Newest(said, MaxTurns) /\ live' = live \cup {p}
      /\ \A q \in Players : q # p => store'[q] = store[q]
  BY AppendTurnsStore
<1>2. Current(p) \in Seq(Events)
  BY <1>1, CurrentType DEF TypeOK
<1>3. said \in Seq(Events) /\ ToSet(said) = ToSet(Current(p)) \cup {c}
  BY <1>2, AppendedSet
<1>. HIDE DEF said
<1>4. ToSet(store'[p]) \subseteq ToSet(Current(p)) \cup {c}
  BY <1>1, <1>3, NewestSet, DialogueAssumption
<1>5. \A d \in ToSet(Current(p)) : d \notin ToSet(store'[p]) => Len(store'[p]) = MaxTurns
  BY <1>1, <1>3, NewestLoses, DialogueAssumption
<1>6. p \in live => Current(p) = store[p]
  BY DEF Current
<1>7. p \notin live => ToSet(Current(p)) = {}
  BY EmptySet DEF Current
<1>8. ReadInv'
  <2>1. memory' = memory
    BY DEF AppendTurns
  <2>2. \A j \in Jobs : /\ summary[j].at # "idle" =>
                             /\ summary'[j].at = summary[j].at /\ summary'[j].turns = summary[j].turns
                             /\ summary'[j].late = summary[j].late \cup {c}
                        /\ summary[j].at = "idle" => summary'[j].at = "idle"
    <3>1. summary' = [j \in Jobs |-> IF Under(j) THEN [summary[j] EXCEPT !.late = @ \cup {c}]
                                     ELSE Idle]
      BY DEF AppendTurns
    <3>. QED
      BY <3>1 DEF TypeOK, Summary, Under, Idle
  <2>. SUFFICES ASSUME NEW j \in Jobs, NEW q \in live', NEW d \in ToSet(store'[q])
                PROVE  /\ summary'[j].at = "summing" => d \in summary'[j].turns \cup summary'[j].late
                       /\ summary'[j].at = "clear" => memory'[d] > 0 \/ d \in summary'[j].late
    BY DEF ReadInv
  <2>3. d = c \/ (q \in live /\ d \in ToSet(store[q]))
    BY <1>1, <1>4, <1>6, <1>7 DEF TypeOK
  <2>4. summary[j].at # "idle" =>
          \/ d = c
          \/ /\ summary[j].at = "summing" => d \in summary[j].turns \cup summary[j].late
             /\ summary[j].at = "clear" => memory[d] > 0 \/ d \in summary[j].late
    BY <2>3 DEF ReadInv
  <2>5. CASE summary[j].at = "idle"
    BY <2>2, <2>5
  <2>6. CASE summary[j].at # "idle"
    <3>1. /\ summary'[j].at = summary[j].at /\ summary'[j].turns = summary[j].turns
          /\ summary'[j].late = summary[j].late \cup {c}
      BY <2>2, <2>6
    <3>. QED
      BY <2>1, <2>4, <2>6, <3>1
  <2>. QED
    BY <2>5, <2>6
<1>. QED
  BY <1>1, <1>5, <1>6, <1>8

LEMMA ReadAside ==
    ASSUME TInv, ReadInv, Aside
    PROVE  /\ ReadInv'
           /\ phase = "up" /\ phase' = "up" =>
                \A p \in Players : \A c \in ToSet(store[p]) \ ToSet(store'[p]) : p \notin live
<1>1. CASE /\ phase' = phase /\ summary' = summary /\ live' \subseteq live
           /\ \A p \in Players : store'[p] = store[p] \/ (p \notin live /\ store'[p] = <<>>)
  BY <1>1 DEF Aside, ReadInv, TInv, TypeOK
<1>2. CASE phase' # "up" /\ \A j \in Jobs : summary'[j] = Idle
  BY <1>2 DEF ReadInv, Idle
<1>3. CASE Boot
  BY <1>3 DEF Boot, ReadInv, TInv, ProcessInv, Under
<1>. QED
  BY <1>1, <1>2, <1>3 DEF Aside

LEMMA ReadConsolidation ==
    ASSUME TInv, ReadInv, NEW j \in Jobs, Consolidation(j)
    PROVE  /\ ReadInv'
           /\ \A p \in Players : \A c \in ToSet(store[p]) \ ToSet(store'[p]) :
                \/ p \notin live
                \/ memory[c] > 0
                \/ c \in summary[j].late /\ summary'[j] = Idle
<1>. USE DEF TInv, TypeOK
<1>1. CASE Gather(j)
  <2>1. store' = store /\ live' = live /\ memory' = memory
    BY <1>1 DEF Gather, session
  <2>2. /\ summary'[j].at = "summing" /\ summary'[j].turns = Gathered
        /\ \A i \in Jobs : i # j => summary'[i] = summary[i]
    BY <1>1 DEF Gather
  <2>3. \A p \in live : ToSet(store[p]) \subseteq Gathered
    BY DEF Gathered
  <2>. QED
    BY <2>1, <2>2, <2>3 DEF ReadInv
<1>2. CASE SummaryFails(j)
  <2>1. store' = store /\ live' = live /\ memory' = memory
    BY <1>2 DEF SummaryFails, session
  <2>2. summary'[j].at = "idle" /\ \A i \in Jobs : i # j => summary'[i] = summary[i]
    BY <1>2 DEF SummaryFails, Idle
  <2>3. ReadInv'
    BY <2>1, <2>2 DEF ReadInv
  <2>. QED
    BY <2>1, <2>3
<1>3. CASE Remember(j)
  <2>1. store' = store /\ live' = live
    BY <1>3 DEF Remember, session
  <2>2. /\ summary'[j].at # "summing"
        /\ summary'[j].at = "clear" => summary'[j].late = summary[j].late
        /\ \A i \in Jobs : i # j => summary'[i] = summary[i]
    BY <1>3 DEF Remember, Idle
  <2>3. \A c \in Events : /\ memory[c] > 0 => memory'[c] > 0
                          /\ c \in summary[j].turns => memory'[c] > 0
    <3>1. memory' = [c \in Events |-> IF c \in summary[j].turns /\ memory[c] < 2
                                      THEN memory[c] + 1 ELSE memory[c]]
      BY <1>3 DEF Remember
    <3>2. \A c \in Events : memory[c] \in 0..2
      OBVIOUS
    <3>. HIDE DEF TypeOK
    <3>. QED
      BY <3>1, <3>2
  <2>4. \A p \in live : ToSet(store[p]) \subseteq Events
    <3>1. \A p \in Players : store[p] \in Seq(Events)
      OBVIOUS
    <3>. QED
      BY <3>1, ElementOfSeq DEF ToSet
  <2>5. summary[j].at = "summing"
    BY <1>3 DEF Remember
  <2>. QED
    BY <2>1, <2>2, <2>3, <2>4, <2>5 DEF ReadInv
<1>4. CASE Clear(j)
  BY <1>4 DEF Clear, ReadInv
<1>. QED
  BY <1>1, <1>2, <1>3, <1>4 DEF Consolidation

LEMMA ReadSteps ==
    ASSUME TInv, ReadInv, [Next]_vars
    PROVE  /\ ReadInv'
           /\ (phase = "up" /\ phase' = "up") =>
                \A p \in Players : \A c \in ToSet(store[p]) \ ToSet(store'[p]) :
                  \/ p \notin live
                  \/ Len(store'[p]) = MaxTurns
                  \/ memory[c] > 0
                  \/ \E j \in Jobs : c \in summary[j].late /\ summary'[j] = Idle
<1>1. CASE Next
  BY <1>1, AsideSteps, ReadAppend, ReadAside, ReadConsolidation DEF TInv
<1>2. CASE UNCHANGED vars
  BY <1>2 DEF vars, ReadInv
<1>. QED
  BY <1>1, <1>2

\* While the process is up, a turn is forgotten only when its session expired
\* or is full, when a memory has it, or when a consolidation that read the
\* sessions before it was stored clears them.
THEOREM ForgetsOnlyTheRemembered == Spec => ForgetsOnlyRemembered
<1>1. Init => ReadInv
  BY DEF Init, ReadInv
<1>. QED
  BY <1>1, TInvHolds, ReadSteps, PTL DEF Spec, ForgetsOnlyRemembered

\* As long as nothing has strayed, one consolidation is under way at most, no
\* turn it reads has a memory, and turns that have one leave the store next.
Straight == ClearAfter /\ strayed \cap {"summary", "answer", "restart"} = {}

OnceInv ==
    Straight =>
      /\ \A i, j \in Jobs : Under(i) /\ Under(j) => i = j
      /\ \A c \in Events : memory[c] <= 1
      /\ \A j \in Jobs : summary[j].at = "summing" => \A c \in summary[j].turns : memory[c] = 0
      /\ phase = "up" => \A p \in Players : \A c \in ToSet(store[p]) :
           memory[c] > 0 => \E j \in Jobs : summary[j].at = "clear"

LEMMA OnceAppend ==
    ASSUME TypeOK, UnsaidInv, OnceInv, NEW c \in Events, AppendTurns(c)
    PROVE  OnceInv'
<1>1. /\ memory' = memory /\ strayed' = strayed /\ phase' = phase /\ memory[c] = 0
      /\ \A p \in Players : ToSet(store'[p]) \subseteq ToSet(store[p]) \cup {c}
  <2>1. \A p \in Players : ToSet(store'[p]) \subseteq ToSet(store[p]) \cup {c}
    <3>. SUFFICES ASSUME NEW p \in Players
                  PROVE  ToSet(store'[p]) \subseteq ToSet(store[p]) \cup {c}
      OBVIOUS
    <3>1. CASE p # job[c].player
      BY <3>1, AppendTurnsStore
    <3>2. CASE p = job[c].player
      <4>. DEFINE said == Append(Current(p), c)
      <4>1. Current(p) \in Seq(Events) /\ ToSet(Current(p)) \subseteq ToSet(store[p])
        BY CurrentType DEF TypeOK
      <4>2. said \in Seq(Events) /\ ToSet(said) = ToSet(Current(p)) \cup {c}
        BY <4>1, AppendedSet
      <4>3. store'[p] = Newest(said, MaxTurns)
        BY <3>2, AppendTurnsStore
      <4>. HIDE DEF said
      <4>4. ToSet(Newest(said, MaxTurns)) \subseteq ToSet(said)
        BY <4>2, NewestSet, DialogueAssumption
      <4>. QED
        BY <4>1, <4>2, <4>3, <4>4
    <3>. QED
      BY <3>1, <3>2
  <2>. QED
    BY <2>1 DEF AppendTurns, process, UnsaidInv, At
<1>2. \A j \in Jobs : summary'[j].at = summary[j].at /\ summary'[j].turns \subseteq summary[j].turns
  <2>1. summary' = [j \in Jobs |-> IF Under(j) THEN [summary[j] EXCEPT !.late = @ \cup {c}]
                                   ELSE Idle]
    BY DEF AppendTurns
  <2>. QED
    BY <2>1 DEF TypeOK, Summary, Under, Idle
<1>. QED
  BY <1>1, <1>2 DEF OnceInv, Straight, Under

LEMMA OnceAside ==
    ASSUME TInv, OnceInv, Aside
    PROVE  OnceInv'
<1>. USE DEF OnceInv, Straight, Under, TInv, TypeOK
<1>1. CASE /\ phase' = phase /\ summary' = summary /\ live' \subseteq live
           /\ \A p \in Players : store'[p] = store[p] \/ (p \notin live /\ store'[p] = <<>>)
  BY <1>1, EmptySet DEF Aside
<1>2. CASE phase' # "up" /\ \A j \in Jobs : summary'[j] = Idle
  BY <1>2 DEF Aside, Idle
<1>3. CASE Boot
  <2>1. \A p \in Players : ToSet(store'[p]) \subseteq ToSet(graph[p])
    <3>. SUFFICES ASSUME NEW p \in Players
                  PROVE  ToSet(store'[p]) \subseteq ToSet(graph[p])
      OBVIOUS
    <3>1. graph[p] \in Seq(Events) /\ store'[p] = Newest(graph[p], MaxTurns)
      BY <1>3, BootStore
    <3>. QED
      BY <3>1, NewestSet, DialogueAssumption
  <2>2. CASE \E p \in Players : \E c \in ToSet(graph[p]) : memory[c] > 0
    <3>1. "restart" \in strayed'
      BY <1>3, <2>2 DEF Boot
    <3>. QED
      BY <3>1
  <2>3. CASE ~ \E p \in Players : \E c \in ToSet(graph[p]) : memory[c] > 0
    <3>1. strayed' = strayed /\ memory' = memory /\ summary' = summary
      BY <1>3, <2>3 DEF Boot
    <3>. QED
      BY <2>1, <2>3, <3>1
  <2>. QED
    BY <2>2, <2>3
<1>. QED
  BY <1>1, <1>2, <1>3 DEF Aside

LEMMA OnceConsolidation ==
    ASSUME TInv, OnceInv, NEW j \in Jobs, Consolidation(j)
    PROVE  OnceInv'
<1>. USE DEF OnceInv, Straight, Under, TInv, TypeOK
<1>0. \A p \in Players : ToSet(store[p]) \subseteq Events
  <2>1. \A p \in Players : store[p] \in Seq(Events)
    OBVIOUS
  <2>. QED
    BY <2>1, ElementOfSeq DEF ToSet
<1>1. CASE Gather(j)
  <2>1. store' = store /\ live' = live /\ memory' = memory /\ phase = "up"
    BY <1>1 DEF Gather, session
  <2>2. /\ summary'[j].at = "summing" /\ summary'[j].turns = Gathered
        /\ \A i \in Jobs : i # j => summary'[i] = summary[i]
    BY <1>1 DEF Gather
  <2>3. CASE \E i \in Jobs : Under(i)
    <3>1. "summary" \in strayed'
      BY <1>1, <2>3 DEF Gather
    <3>. QED
      BY <3>1
  <2>4. CASE ~ \E i \in Jobs : Under(i)
    <3>1. strayed' = strayed
      BY <1>1, <2>4 DEF Gather
    <3>2. \A p \in Players : \A c \in ToSet(store[p]) : memory[c] \in 0..2
      BY <1>0
    <3>3. \A p \in live : p \in Players
      OBVIOUS
    <3>. HIDE DEF TypeOK
    <3>4. Straight => \A p \in Players : \A c \in ToSet(store[p]) : memory[c] = 0
      BY <2>1, <2>4, <3>2
    <3>5. Straight => \A c \in Gathered : memory[c] = 0
      BY <3>3, <3>4 DEF Gathered
    <3>. QED
      BY <2>1, <2>2, <2>4, <3>1, <3>4, <3>5
  <2>. QED
    BY <2>3, <2>4
<1>2. CASE SummaryFails(j)
  <2>1. store' = store /\ memory' = memory /\ phase' = phase
    BY <1>2 DEF SummaryFails, session, process
  <2>2. /\ summary'[j].at = "idle" /\ \A i \in Jobs : i # j => summary'[i] = summary[i]
    BY <1>2 DEF SummaryFails, Idle
  <2>3. CASE summary[j].at = "clear"
    <3>1. "answer" \in strayed'
      BY <1>2, <2>3 DEF SummaryFails
    <3>. QED
      BY <3>1
  <2>4. CASE summary[j].at # "clear"
    <3>1. strayed' = strayed
      BY <1>2, <2>4 DEF SummaryFails
    <3>. QED
      BY <2>1, <2>2, <2>4, <3>1
  <2>. QED
    BY <2>3, <2>4
<1>3. CASE Remember(j)
  <2>1. store' = store /\ phase' = phase /\ strayed' = strayed
    BY <1>3 DEF Remember, session, process
  <2>2. /\ summary[j].at = "summing"
        /\ ClearAfter => summary'[j].at = "clear"
        /\ \A i \in Jobs : i # j => summary'[i] = summary[i]
    BY <1>3 DEF Remember
  <2>3. \A c \in Events : /\ c \notin summary[j].turns => memory'[c] = memory[c]
                          /\ c \in summary[j].turns /\ memory[c] = 0 => memory'[c] = 1
    BY <1>3 DEF Remember
  <2>4. summary[j].turns \subseteq Events
    BY DEF Summary
  <2>. HIDE DEF TypeOK
  <2>5. Straight => \A c \in Events : memory'[c] <= 1
    BY <2>2, <2>3
  <2>6. Straight => \A i \in Jobs : summary'[i].at # "summing"
    BY <2>2
  <2>. QED
    BY <2>1, <2>2, <2>5, <2>6
<1>4. CASE Clear(j)
  <2>1. /\ \A p \in Players : ToSet(store'[p]) = {}
        /\ memory' = memory /\ strayed' = strayed
    BY <1>4, EmptySet DEF Clear
  <2>2. summary'[j].at = "idle" /\ \A i \in Jobs : i # j => summary'[i] = summary[i]
    BY <1>4 DEF Clear, Idle
  <2>. QED
    BY <2>1, <2>2
<1>. QED
  BY <1>1, <1>2, <1>3, <1>4 DEF Consolidation

LEMMA OnceSteps ==
    ASSUME TInv, UnsaidInv, OnceInv, [Next]_vars
    PROVE  OnceInv'
<1>1. CASE Next
  BY <1>1, AsideSteps, OnceAppend, OnceAside, OnceConsolidation DEF TInv
<1>2. CASE UNCHANGED vars
  BY <1>2 DEF vars, OnceInv, Straight, Under
<1>. QED
  BY <1>1, <1>2

\* With ClearAfter, a turn is summarised twice only after an overlap, a lost
\* answer or the load of a turn that was summarised before.
THEOREM SummariesAreOnce == Spec => []SummarisedOnce
<1>1. Init => OnceInv
  BY EmptySet DEF Init, OnceInv, Straight, Under, Idle
<1>2. OnceInv => SummarisedOnce
  BY DEF OnceInv, Straight, SummarisedOnce
<1>. QED
  BY <1>1, <1>2, TInvHolds, UnsaidInvHolds, OnceSteps, PTL DEF Spec

=============================================================================
