----------------------- MODULE QuestLifecycle_proofs -----------------------
(***************************************************************************)
(* Proofs about the quest lifecycle, for any number of callers, objectives *)
(* and rewards, any target and any deltas.                                 *)
(***************************************************************************)
EXTENDS QuestLifecycle, TLAPS

-----------------------------------------------------------------------------
(* The documents and jobs the actions build.                               *)

LEMMA FreshType == Fresh \in Document
BY DEF Fresh, Document, Statuses

LEMMA RestType == Rest \in Job /\ Rest.at = "idle" /\ Rest.doc = Fresh /\ Rest.written = {}
<1>1. 1 \in 1..N+1
  BY QuestAssumption
<1>. QED
  BY <1>1, FreshType DEF Rest, Job, Steps

LEMMA RestPlain == Rest.at \notin Paying /\ Rest.at # "write" /\ ~Rest.doc.applied
BY RestType DEF Paying, Fresh

LEMMA StatusType ==
    ASSUME NEW d \in Document, NEW s \in Statuses
    PROVE  LET e == [d EXCEPT !.status = s] IN
           /\ e \in Document /\ e.status = s
           /\ e.progress = d.progress /\ e.applied = d.applied
BY DEF Document

LEMMA AppliedType ==
    ASSUME NEW d \in Document
    PROVE  LET e == [d EXCEPT !.applied = TRUE] IN
           /\ e \in Document /\ e.status = d.status
           /\ e.progress = d.progress /\ e.applied = TRUE
BY DEF Document

LEMMA ProgressedType ==
    ASSUME doc \in Document, NEW o \in Objectives, NEW delta \in Int
    PROVE  /\ Progressed(o, delta) \in Document
           /\ Progressed(o, delta).status = "in_progress"
           /\ Progressed(o, delta).applied = doc.applied
<1>1. doc.progress \in [Objectives -> Nat] /\ "in_progress" \in Statuses
  BY DEF Document, Statuses, Active
<1>. DEFINE p == doc.progress[o] + delta
<1>2. (IF p > 0 THEN p ELSE 0) \in Nat
  <2>1. p \in Int
    BY <1>1
  <2>. QED
    BY <2>1
<1>3. [doc.progress EXCEPT ![o] = IF p > 0 THEN p ELSE 0] \in [Objectives -> Nat]
  BY <1>1, <1>2
<1>4. Progressed(o, delta)
        = [doc EXCEPT !.status = "in_progress",
                      !.progress = [doc.progress EXCEPT ![o] = IF p > 0 THEN p ELSE 0]]
  BY DEF Progressed, Document
<1>. QED
  BY <1>1, <1>3, <1>4 DEF Document

LEMMA PersistingType ==
    ASSUME NEW d \in Document, NEW next \in Steps
    PROVE  LET j == Persisting(d, next) IN
           /\ j \in Job /\ j.at = "persist" /\ j.then = next /\ j.doc = d
           /\ j.written = {}
BY RestType DEF Persisting, Job, Steps

\* What an evaluation will write.
LEMMA EvaluatedType ==
    ASSUME doc \in Document
    PROVE  \E s \in {"completed", "in_progress"} :
             LET d == [doc EXCEPT !.status = s]
                 next == IF s = "completed" THEN "node" ELSE "idle"
             IN  /\ Evaluated = Persisting(d, next)
                 /\ s = "completed" <=> \A o \in Objectives : doc.progress[o] >= Target
<1>1. CASE \A o \in Objectives : doc.progress[o] >= Target
  BY <1>1 DEF Evaluated
<1>2. CASE ~\A o \in Objectives : doc.progress[o] >= Target
  BY <1>2 DEF Evaluated
<1>. QED
  BY <1>1, <1>2

-----------------------------------------------------------------------------
(* Types and the shape of jobs.                                            *)

\* A document by itself: what is completed has met its targets, and only a
\* completed quest's rewards are applied.
Meets(d) ==
    /\ d.status = "completed" => \A o \in Objectives : d.progress[o] >= Target
    /\ d.applied => d.status = "completed"

\* A job by itself.
Shaped(j) ==
    /\ Meets(j.doc)
    /\ j.at = "persist" => j.then \in {"idle", "raise", "node"}
    /\ j.at = "persist" /\ j.then = "raise" => j.doc.status = "in_progress"
    /\ j.at = "persist" /\ j.then = "node" => j.doc.status \in {"accepted"} \cup Endings
    /\ j.at = "node" => j.doc.status \in {"accepted"} \cup Endings
    /\ j.at = "resolve" => j.doc.status \in Endings
    /\ j.at = "write" => j.k \in Transfers
    /\ j.at \in Paying => j.doc.status = "completed" /\ j.doc.applied
    /\ j.at \notin Paying => j.written = {}

ShapeInv ==
    /\ TypeOK
    /\ doc # NoDoc => Meets(doc)
    /\ \A c \in Callers : Shaped(job[c])

LEMMA RestShaped == Shaped(Rest)
BY RestType DEF Shaped, Meets, Fresh, Paying

LEMMA PersistingShaped ==
    ASSUME NEW d \in Document, Meets(d), NEW next \in {"idle", "raise", "node"},
           next = "raise" => d.status = "in_progress",
           next = "node" => d.status \in {"accepted"} \cup Endings
    PROVE  Persisting(d, next) \in Job /\ Shaped(Persisting(d, next))
BY PersistingType DEF Shaped, Paying, Steps

\* One caller's job is replaced.
LEMMA Replaced ==
    ASSUME ShapeInv, NEW c \in Callers, NEW r \in Job, Shaped(r),
           job' = [job EXCEPT ![c] = r]
    PROVE  job' \in [Callers -> Job] /\ \A d \in Callers : Shaped(job'[d])
BY DEF ShapeInv, TypeOK

LEMMA Entered ==
    ASSUME ShapeInv, NEW c \in Callers, NEW r \in Job, Shaped(r), Enter(c, r)
    PROVE  /\ job' \in [Callers -> Job] /\ \A d \in Callers : Shaped(job'[d])
           /\ overlap' \in {"none", "some", "rewards"}
<1>1. job' = [job EXCEPT ![c] = r]
  BY DEF Enter
<1>2. overlap' \in {"none", "some", "rewards"}
  BY DEF Enter, ShapeInv, TypeOK
<1>. QED
  BY <1>1, <1>2, Replaced

LEMMA Left ==
    ASSUME ShapeInv, NEW c \in Callers, Leave(c)
    PROVE  job' \in [Callers -> Job] /\ \A d \in Callers : Shaped(job'[d])
BY RestType, RestShaped, Replaced DEF Leave

\* What an evaluation writes of a sound document.
LEMMA EvaluatedShaped ==
    ASSUME doc \in Document, Meets(doc)
    PROVE  Evaluated \in Job /\ Shaped(Evaluated)
<1>1. PICK s \in {"completed", "in_progress"} :
        LET d == [doc EXCEPT !.status = s]
            next == IF s = "completed" THEN "node" ELSE "idle"
        IN  /\ Evaluated = Persisting(d, next)
            /\ s = "completed" <=> \A o \in Objectives : doc.progress[o] >= Target
  BY EvaluatedType
<1>. DEFINE d == [doc EXCEPT !.status = s]
            next == IF s = "completed" THEN "node" ELSE "idle"
<1>2. s \in Statuses
  BY DEF Statuses, Active, Endings
<1>3. d \in Document /\ d.status = s /\ d.progress = doc.progress /\ d.applied = doc.applied
  BY <1>2, StatusType
<1>4. Meets(d)
  BY <1>1, <1>3 DEF Meets
<1>5. next \in {"idle", "raise", "node"} /\ next # "raise"
      /\ (next = "node" => d.status \in {"accepted"} \cup Endings)
  BY <1>3 DEF Endings
<1>. HIDE DEF d, next
<1>6. Persisting(d, next) \in Job /\ Shaped(Persisting(d, next))
  BY <1>3, <1>4, <1>5, PersistingShaped
<1>. QED
  BY <1>1, <1>6 DEF d, next

LEMMA ShapeStep ==
    ASSUME ShapeInv, [Next]_vars PROVE ShapeInv'
<1>. USE QuestAssumption, NoDocAssumption
<1>1. CASE OfferQuest
  BY <1>1, FreshType DEF OfferQuest, ShapeInv, TypeOK, Meets, Fresh
<1>2. ASSUME NEW e \in Endings, SuccessorAccepted(e) PROVE ShapeInv'
  BY <1>2 DEF SuccessorAccepted, ShapeInv, TypeOK, Meets
<1>3. ASSUME NEW c \in Callers, OfferDraft(c) PROVE ShapeInv'
  <2>. DEFINE r == [Rest EXCEPT !.at = "draft"]
  <2>1. r \in Job /\ Shaped(r)
    BY RestType, RestShaped DEF Job, Steps, Shaped, Paying
  <2>2. job' \in [Callers -> Job] /\ (\A d \in Callers : Shaped(job'[d]))
        /\ overlap' \in {"none", "some", "rewards"}
    BY <1>3, <2>1, Entered DEF OfferDraft
  <2>. QED
    BY <1>3, <2>2 DEF OfferDraft, ShapeInv, TypeOK, Meets
<1>4. ASSUME NEW c \in Callers, MarkOffered(c) PROVE ShapeInv'
  <2>. DEFINE r == [job[c] EXCEPT !.at = "offer"]
  <2>1. r \in Job /\ Shaped(r)
    BY <1>4 DEF MarkOffered, At, ShapeInv, TypeOK, Job, Steps, Shaped, Paying
  <2>2. job' = [job EXCEPT ![c] = r]
    BY <1>4 DEF MarkOffered, Goto
  <2>3. job' \in [Callers -> Job] /\ \A d \in Callers : Shaped(job'[d])
    BY <2>1, <2>2, Replaced
  <2>. QED
    BY <1>4, <2>3 DEF MarkOffered, ShapeInv, TypeOK, Meets
<1>5. ASSUME NEW c \in Callers, CreateOffered(c) PROVE ShapeInv'
  <2>1. job' \in [Callers -> Job] /\ \A d \in Callers : Shaped(job'[d])
    BY <1>5, Left DEF CreateOffered
  <2>2. doc' \in Document /\ Meets(doc')
    BY <1>5, FreshType DEF CreateOffered, ShapeInv, TypeOK, Meets, Fresh
  <2>. QED
    BY <1>5, <2>1, <2>2 DEF CreateOffered, ShapeInv, TypeOK, Meets
<1>6. ASSUME NEW c \in Callers, NEW s \in {"accepted", "failed"},
             Has(Statuses \ Endings),
             Enter(c, Persisting([doc EXCEPT !.status = s], "node")),
             UNCHANGED <<doc, node, successor, ledger, lock, abandoned>>
      PROVE  ShapeInv'
  <2>. DEFINE d == [doc EXCEPT !.status = s]
  <2>1. doc \in Document /\ Meets(doc) /\ doc.status \notin Endings
    BY <1>6 DEF Has, ShapeInv, TypeOK
  <2>2. s \in Statuses
    BY DEF Statuses, Active, Endings
  <2>3. d \in Document /\ d.status = s /\ d.applied = doc.applied
    BY <2>1, <2>2, StatusType
  <2>4. Meets(d)
    BY <2>1, <2>3 DEF Meets, Endings
  <2>. HIDE DEF d
  <2>5. Persisting(d, "node") \in Job /\ Shaped(Persisting(d, "node"))
    BY <2>3, <2>4, PersistingShaped DEF Endings
  <2>6. job' \in [Callers -> Job] /\ (\A x \in Callers : Shaped(job'[x]))
        /\ overlap' \in {"none", "some", "rewards"}
    BY <1>6, <2>5, Entered DEF d
  <2>. QED
    BY <1>6, <2>6 DEF ShapeInv, TypeOK, Meets
<1>7. ASSUME NEW c \in Callers, AcceptQuest(c) PROVE ShapeInv'
  BY <1>6, <1>7 DEF AcceptQuest, Has, Statuses, Endings, Active
<1>8. ASSUME NEW c \in Callers, FailQuest(c) PROVE ShapeInv'
  BY <1>6, <1>8 DEF FailQuest
<1>9. ASSUME NEW o \in Objectives, NEW delta \in Int, Has(Active)
      PROVE  /\ Progressed(o, delta) \in Document /\ Meets(Progressed(o, delta))
             /\ Progressed(o, delta).status = "in_progress"
  <2>1. doc \in Document /\ Meets(doc) /\ doc.status # "completed"
    BY <1>9 DEF Has, ShapeInv, TypeOK, Active
  <2>. QED
    BY <2>1, ProgressedType DEF Meets
<1>10. ASSUME NEW c \in Callers, NEW o \in Objectives, NEW delta \in Deltas,
              UpdateObjective(c, o, delta)
       PROVE  ShapeInv'
  <2>1. Persisting(Progressed(o, delta), "idle") \in Job
        /\ Shaped(Persisting(Progressed(o, delta), "idle"))
    BY <1>9, <1>10, PersistingShaped DEF UpdateObjective
  <2>2. job' \in [Callers -> Job] /\ (\A d \in Callers : Shaped(job'[d]))
        /\ overlap' \in {"none", "some", "rewards"}
    BY <1>10, <2>1, Entered DEF UpdateObjective
  <2>. QED
    BY <1>10, <2>2 DEF UpdateObjective, ShapeInv, TypeOK, Meets
<1>11. ASSUME NEW c \in Callers, EvaluateCompletion(c) PROVE ShapeInv'
  <2>1. Evaluated \in Job /\ Shaped(Evaluated)
    BY <1>11, EvaluatedShaped DEF EvaluateCompletion, Has, ShapeInv, TypeOK
  <2>2. job' \in [Callers -> Job] /\ (\A d \in Callers : Shaped(job'[d]))
        /\ overlap' \in {"none", "some", "rewards"}
    BY <1>11, <2>1, Entered DEF EvaluateCompletion
  <2>. QED
    BY <1>11, <2>2 DEF EvaluateCompletion, ShapeInv, TypeOK, Meets
<1>12. ASSUME NEW c \in Callers, ClaimCompletion(c) PROVE ShapeInv'
  <2>. DEFINE todo == [o \in Objectives |-> IF doc.progress[o] < Target
                                            THEN Target - doc.progress[o] ELSE 0]
              r == [Rest EXCEPT !.at = "raise", !.todo = todo]
  <2>1. todo \in [Objectives -> Nat]
    BY <1>12 DEF ClaimCompletion, Has, ShapeInv, TypeOK, Document
  <2>2. r \in Job /\ Shaped(r)
    BY <2>1, RestType, RestShaped DEF Job, Steps, Shaped, Paying
  <2>3. job' \in [Callers -> Job] /\ (\A d \in Callers : Shaped(job'[d]))
        /\ overlap' \in {"none", "some", "rewards"}
    BY <1>12, <2>2, Entered DEF ClaimCompletion
  <2>. QED
    BY <1>12, <2>3 DEF ClaimCompletion, ShapeInv, TypeOK, Meets
<1>13. ASSUME NEW c \in Callers, NEW o \in Objectives, Raise(c, o) PROVE ShapeInv'
  <2>. DEFINE delta == job[c].todo[o]
              p == [job[c] EXCEPT !.at = "persist", !.then = "raise",
                                  !.doc = Progressed(o, delta), !.todo[o] = 0]
              q == [job[c] EXCEPT !.todo[o] = 0]
  <2>1. job[c] \in Job /\ Shaped(job[c]) /\ job[c].at = "raise" /\ delta \in Int
    BY <1>13 DEF Raise, At, ShapeInv, TypeOK, Job
  <2>2. CASE Has(Active) /\ job' = [job EXCEPT ![c] = p]
    <3>1. /\ Progressed(o, delta) \in Document /\ Meets(Progressed(o, delta))
          /\ Progressed(o, delta).status = "in_progress"
      BY <1>9, <2>1, <2>2
    <3>2. p \in Job /\ Shaped(p)
      BY <2>1, <3>1 DEF Job, Steps, Shaped, Paying
    <3>3. job' \in [Callers -> Job] /\ \A d \in Callers : Shaped(job'[d])
      BY <2>2, <3>2, Replaced
    <3>. QED
      BY <1>13, <3>3 DEF Raise, ShapeInv, TypeOK, Meets
  <2>3. CASE job' = [job EXCEPT ![c] = q]
    <3>1. q \in Job /\ Shaped(q)
      BY <2>1 DEF Job, Steps, Shaped, Paying
    <3>2. job' \in [Callers -> Job] /\ \A d \in Callers : Shaped(job'[d])
      BY <2>3, <3>1, Replaced
    <3>. QED
      BY <1>13, <3>2 DEF Raise, ShapeInv, TypeOK, Meets
  <2>. QED
    BY <1>13, <2>2, <2>3 DEF Raise
<1>14. ASSUME NEW c \in Callers, EvaluateClaim(c) PROVE ShapeInv'
  <2>1. Evaluated \in Job /\ Shaped(Evaluated)
    BY <1>14, EvaluatedShaped DEF EvaluateClaim, Has, ShapeInv, TypeOK
  <2>2. job' \in [Callers -> Job] /\ \A d \in Callers : Shaped(job'[d])
    BY <1>14, <2>1, Replaced DEF EvaluateClaim
  <2>. QED
    BY <1>14, <2>2 DEF EvaluateClaim, ShapeInv, TypeOK, Meets
<1>15. ASSUME NEW c \in Callers, Persist(c) PROVE ShapeInv'
  <2>1. job[c] \in Job /\ Shaped(job[c]) /\ job[c].at = "persist"
    BY <1>15 DEF Persist, At, ShapeInv, TypeOK
  <2>2. doc' \in Document /\ Meets(doc')
    BY <1>15, <2>1 DEF Persist, Shaped, Job
  <2>. DEFINE r == [job[c] EXCEPT !.at = job[c].then]
  <2>3. job' \in [Callers -> Job] /\ \A d \in Callers : Shaped(job'[d])
    <3>1. CASE job[c].then = "idle"
      BY <1>15, <3>1, Left DEF Persist
    <3>2. CASE job[c].then # "idle"
      <4>1. r \in Job /\ Shaped(r)
        BY <2>1, <3>2 DEF Job, Steps, Shaped, Paying
      <4>. QED
        BY <1>15, <3>2, <4>1, Replaced DEF Persist, Goto
    <3>. QED
      BY <3>1, <3>2
  <2>. QED
    BY <1>15, <2>2, <2>3 DEF Persist, ShapeInv, TypeOK, Meets
<1>16. ASSUME NEW c \in Callers, UpdateQuestNode(c) PROVE ShapeInv'
  <2>1. job[c] \in Job /\ Shaped(job[c]) /\ job[c].at = "node"
    BY <1>16 DEF UpdateQuestNode, At, ShapeInv, TypeOK
  <2>2. node' = job[c].doc.status /\ node' \in {"accepted"} \cup Endings
    BY <1>16, <2>1 DEF UpdateQuestNode, Shaped
  <2>. DEFINE r == [job[c] EXCEPT !.at = "resolve"]
  <2>3. job' \in [Callers -> Job] /\ \A d \in Callers : Shaped(job'[d])
    <3>1. CASE node' \in Endings
      <4>1. r \in Job /\ Shaped(r)
        BY <2>1, <2>2, <3>1 DEF Job, Steps, Shaped, Paying
      <4>. QED
        BY <1>16, <3>1, <4>1, Replaced DEF UpdateQuestNode, Goto
    <3>2. CASE node' \notin Endings
      BY <1>16, <3>2, Left DEF UpdateQuestNode
    <3>. QED
      BY <3>1, <3>2
  <2>. QED
    BY <1>16, <2>2, <2>3 DEF UpdateQuestNode, ShapeInv, TypeOK, Meets
<1>17. ASSUME NEW c \in Callers, ResolveChain(c) PROVE ShapeInv'
  <2>1. job' \in [Callers -> Job] /\ \A d \in Callers : Shaped(job'[d])
    BY <1>17, Left DEF ResolveChain
  <2>2. successor' \in [Endings -> {"none", "offered", "taken"}]
    BY <1>17 DEF ResolveChain, ShapeInv, TypeOK
  <2>. QED
    BY <1>17, <2>1, <2>2 DEF ResolveChain, ShapeInv, TypeOK, Meets
<1>18. ASSUME NEW c \in Callers, ApplyRewards(c) PROVE ShapeInv'
  <2>. DEFINE d == [doc EXCEPT !.applied = TRUE]
              r == [Rest EXCEPT !.at = "lookup", !.doc = d]
  <2>1. doc \in Document /\ Meets(doc) /\ doc.status = "completed"
    BY <1>18 DEF ApplyRewards, Has, ShapeInv, TypeOK
  <2>2. d \in Document /\ d.status = doc.status /\ d.progress = doc.progress /\ d.applied
    BY <2>1, AppliedType
  <2>. HIDE DEF d
  <2>3. r \in Job /\ Shaped(r)
    BY <2>1, <2>2, RestType DEF Job, Steps, Shaped, Meets, Paying
  <2>4. job' \in [Callers -> Job] /\ (\A x \in Callers : Shaped(job'[x]))
        /\ overlap' \in {"none", "some", "rewards"}
    BY <1>18, <2>3, Entered DEF ApplyRewards, d
  <2>. QED
    BY <1>18, <2>4 DEF ApplyRewards, ShapeInv, TypeOK, Meets
<1>19. ASSUME NEW c \in Callers, LookUp(c) PROVE ShapeInv'
  <2>. DEFINE p == [job[c] EXCEPT !.k = @ + 1]
              q == [job[c] EXCEPT !.at = "write"]
  <2>1. job[c] \in Job /\ Shaped(job[c]) /\ job[c].at = "lookup" /\ job[c].k \in 1..N
    BY <1>19 DEF LookUp, At, Transfers, ShapeInv, TypeOK
  <2>2. p \in Job /\ Shaped(p) /\ q \in Job /\ Shaped(q)
    BY <2>1 DEF Job, Steps, Shaped, Paying, Transfers
  <2>3. job' \in [Callers -> Job] /\ \A d \in Callers : Shaped(job'[d])
    BY <1>19, <2>2, Replaced DEF LookUp, Goto
  <2>. QED
    BY <1>19, <2>3 DEF LookUp, ShapeInv, TypeOK, Meets
<1>20. ASSUME NEW c \in Callers, Transfer(c) PROVE ShapeInv'
  <2>. DEFINE p == [job[c] EXCEPT !.at = "lookup", !.k = @ + 1,
                                  !.written = @ \cup {job[c].k}]
  <2>1. job[c] \in Job /\ Shaped(job[c]) /\ job[c].at = "write"
    BY <1>20 DEF Transfer, At, ShapeInv, TypeOK
  <2>2. job[c].k \in 1..N /\ job[c].written \in SUBSET Transfers
    BY <2>1 DEF Shaped, Transfers, Job
  <2>. DEFINE m == job[c].k + 1
              w == job[c].written \cup {job[c].k}
  <2>3. m \in 1..N+1 /\ w \in SUBSET Transfers
    BY <2>2 DEF Transfers
  <2>5. p = [job[c] EXCEPT !.at = "lookup", !.k = m, !.written = w]
    OBVIOUS
  <2>. HIDE DEF m, w, p
  <2>6. p \in Job /\ p.at = "lookup" /\ p.doc = job[c].doc
    BY <2>1, <2>3, <2>5 DEF Job, Steps
  <2>7. p \in Job /\ Shaped(p)
    BY <2>1, <2>6 DEF Shaped, Paying
  <2>4. job' \in [Callers -> Job] /\ \A d \in Callers : Shaped(job'[d])
    BY <1>20, <2>7, Replaced DEF Transfer, p
  <2>. QED
    BY <1>20, <2>4 DEF Transfer, ShapeInv, TypeOK, Meets
<1>21. ASSUME NEW c \in Callers, CommitRewards(c) PROVE ShapeInv'
  <2>1. job[c] \in Job /\ Shaped(job[c])
    BY <1>21 DEF ShapeInv, TypeOK
  <2>2. job' \in [Callers -> Job] /\ \A d \in Callers : Shaped(job'[d])
    BY <1>21, Left DEF CommitRewards
  <2>3. ledger' \in [Transfers -> 0..2]
    BY <1>21 DEF CommitRewards, ShapeInv, TypeOK
  <2>4. doc' \in Document /\ Meets(doc')
    BY <1>21, <2>1 DEF CommitRewards, Shaped, Job
  <2>. QED
    BY <1>21, <2>2, <2>3, <2>4 DEF CommitRewards, Release, ShapeInv, TypeOK, Meets
<1>22. ASSUME NEW c \in Callers, Abandon(c) PROVE ShapeInv'
  <2>1. job' \in [Callers -> Job] /\ \A d \in Callers : Shaped(job'[d])
    BY <1>22, Left DEF Abandon
  <2>. QED
    BY <1>22, <2>1 DEF Abandon, Release, ShapeInv, TypeOK, Meets
<1>23. CASE UNCHANGED vars
  BY <1>23 DEF vars, ShapeInv, TypeOK, Meets
<1>. QED
  BY <1>1, <1>2, <1>3, <1>4, <1>5, <1>7, <1>8, <1>10, <1>11, <1>12, <1>13, <1>14, <1>15,
     <1>16, <1>17, <1>18, <1>19, <1>20, <1>21, <1>22, <1>23 DEF Next

LEMMA ShapeInvariant == Spec => []ShapeInv
<1>1. Init => ShapeInv
  <2>. SUFFICES ASSUME Init PROVE ShapeInv
    OBVIOUS
  <2>1. job \in [Callers -> Job] /\ \A c \in Callers : Shaped(job[c])
    BY RestType, RestShaped DEF Init
  <2>2. ledger \in [Transfers -> 0..2] /\ successor \in [Endings -> {"none", "offered", "taken"}]
    BY DEF Init
  <2>. QED
    BY <2>1, <2>2 DEF Init, ShapeInv, TypeOK
<1>. QED
  BY <1>1, ShapeStep, PTL DEF Spec

\* Every variable keeps its type (the QuestState document and the ledger).
THEOREM TypeCorrect == Spec => []TypeOK
<1>1. ShapeInv => TypeOK
  BY DEF ShapeInv
<1>. QED
  BY <1>1, ShapeInvariant, PTL

-----------------------------------------------------------------------------
(* Reward transactions.                                                    *)

Paid == \A k \in Transfers : ledger[k] > 0

\* A caller's transaction: it holds the lock once it has written; what it has
\* passed is written or was paid before; and while it holds the lock nobody
\* else pays what comes after the first transfer.
Transacting(c) ==
    LET j == job[c] IN
    /\ j.written # {} <=> lock = c
    /\ j.at \in Paying => \A i \in Transfers : i < j.k => i \in j.written \/ ledger[i] > 0
    /\ \A i \in j.written : i > 1 => ledger[i] = 0
    /\ j.at = "write" /\ j.k > 1 => lock = c /\ ledger[j.k] = 0

PayInv ==
    /\ \A i, k \in Transfers : ledger[i] > 0 => ledger[k] > 0
    /\ LaterTransfersOnce
    /\ doc # NoDoc /\ doc.applied => Paid
    /\ \A c \in Callers : job[c].at \notin Paying /\ job[c].doc.applied => Paid
    /\ \A c \in Callers : Transacting(c)

\* A step of a caller outside its transaction.
LEMMA OutsidePays ==
    ASSUME ShapeInv, PayInv, NEW c \in Callers, NEW r \in Job, Shaped(r),
           job' = [job EXCEPT ![c] = r], job[c].at \notin Paying,
           UNCHANGED <<ledger, lock>>,
           r.at \notin Paying \/ (r.at = "lookup" /\ r.k = 1), r.written = {},
           r.at \notin Paying /\ r.doc.applied => Paid,
           doc' # NoDoc /\ doc'.applied => Paid
    PROVE  PayInv'
<1>1. job[c].written = {} /\ lock # c
  BY DEF ShapeInv, Shaped, PayInv, Transacting
<1>2. job'[c] = r /\ \A d \in Callers : d # c => job'[d] = job[d]
  BY DEF ShapeInv, TypeOK
<1>3. Transacting(c)'
  <2>1. \A i \in Transfers : ~(i < 1)
    BY QuestAssumption DEF Transfers
  <2>. QED
    BY <1>1, <1>2, <2>1 DEF Transacting, Paying
<1>4. \A d \in Callers : Transacting(d)'
  BY <1>2, <1>3 DEF PayInv, Transacting
<1>5. Paid <=> Paid'
  BY DEF Paid
<1>6. \A d \in Callers : job'[d].at \notin Paying /\ job'[d].doc.applied => Paid'
  BY <1>2, <1>5 DEF PayInv
<1>7. LaterTransfersOnce'
  BY DEF PayInv, LaterTransfersOnce
<1>. QED
  BY <1>4, <1>5, <1>6, <1>7 DEF PayInv

\* The same when the call is over.
LEMMA OutsideLeaves ==
    ASSUME ShapeInv, PayInv, NEW c \in Callers, Leave(c), job[c].at \notin Paying,
           UNCHANGED <<ledger, lock>>, doc' # NoDoc /\ doc'.applied => Paid
    PROVE  PayInv'
<1>1. Rest.at \notin Paying /\ ~Rest.doc.applied
  BY RestType DEF Paying, Fresh
<1>. QED
  BY <1>1, RestType, RestShaped, OutsidePays DEF Leave

LEMMA OutsideEnters ==
    ASSUME ShapeInv, PayInv, NEW c \in Callers, NEW r \in Job, Shaped(r), Enter(c, r),
           UNCHANGED <<doc, ledger, lock>>, r.written = {},
           r.at \notin Paying \/ (r.at = "lookup" /\ r.k = 1),
           r.at \notin Paying /\ r.doc.applied => Paid
    PROVE  PayInv'
<1>1. job[c].at \notin Paying /\ job' = [job EXCEPT ![c] = r]
  BY DEF Enter, At, Paying
<1>2. doc' # NoDoc /\ doc'.applied => Paid
  BY DEF PayInv
<1>. QED
  BY <1>1, <1>2, OutsidePays

LEMMA PayStep ==
    ASSUME ShapeInv, PayInv, [Next]_vars PROVE PayInv'
<1>. USE QuestAssumption
<1>1. CASE OfferQuest
  BY <1>1 DEF OfferQuest, Fresh, PayInv, Paid, Transacting, LaterTransfersOnce
<1>2. ASSUME NEW e \in Endings, SuccessorAccepted(e) PROVE PayInv'
  BY <1>2 DEF SuccessorAccepted, PayInv, Paid, Transacting, LaterTransfersOnce
<1>3. ASSUME NEW c \in Callers, OfferDraft(c) PROVE PayInv'
  <2>. DEFINE r == [Rest EXCEPT !.at = "draft"]
  <2>1. r \in Job /\ Shaped(r) /\ r.at \notin Paying /\ r.written = {} /\ r.doc = Rest.doc
    BY RestType, RestShaped DEF Job, Steps, Shaped, Paying
  <2>. QED
    BY <1>3, <2>1, RestPlain, OutsideEnters DEF OfferDraft
<1>4. ASSUME NEW c \in Callers, MarkOffered(c) PROVE PayInv'
  <2>. DEFINE r == [job[c] EXCEPT !.at = "offer"]
  <2>1. job[c].at \notin Paying /\ job' = [job EXCEPT ![c] = r]
    BY <1>4 DEF MarkOffered, At, Paying, Goto
  <2>2. r \in Job /\ Shaped(r) /\ r.at \notin Paying /\ r.written = {} /\ r.doc = job[c].doc
    BY <1>4, <2>1 DEF MarkOffered, At, ShapeInv, TypeOK, Job, Steps, Shaped, Paying
  <2>3. (r.doc.applied => Paid) /\ (doc' # NoDoc /\ doc'.applied => Paid)
    BY <1>4, <2>1, <2>2 DEF PayInv, MarkOffered
  <2>4. UNCHANGED <<ledger, lock>>
    BY <1>4 DEF MarkOffered
  <2>. HIDE DEF r
  <2>. QED
    BY <2>1, <2>2, <2>3, <2>4, OutsidePays
<1>5. ASSUME NEW c \in Callers, CreateOffered(c) PROVE PayInv'
  <2>1. job[c].at \notin Paying
    BY <1>5 DEF CreateOffered, At, Paying
  <2>2. doc' # NoDoc /\ doc'.applied => Paid
    BY <1>5 DEF CreateOffered, PayInv, Fresh
  <2>. QED
    BY <1>5, <2>1, <2>2, OutsideLeaves DEF CreateOffered
\* What a transition will write is applied only if the document was.
<1>6. ASSUME NEW c \in Callers, NEW d \in Document, NEW next \in {"idle", "raise", "node"},
             Shaped(Persisting(d, next)), doc # NoDoc, d.applied = doc.applied,
             Enter(c, Persisting(d, next)), UNCHANGED <<doc, ledger, lock>>
      PROVE  PayInv'
  <2>. DEFINE r == Persisting(d, next)
  <2>1. r \in Job /\ r.at \notin Paying /\ r.written = {} /\ r.doc = d
    BY PersistingType DEF Steps, Paying
  <2>2. r.doc.applied => Paid
    BY <1>6, <2>1 DEF PayInv
  <2>. QED
    BY <1>6, <2>1, <2>2, OutsideEnters
<1>7. ASSUME NEW c \in Callers, AcceptQuest(c) \/ FailQuest(c) PROVE PayInv'
  <2>1. PICK s \in {"accepted", "failed"} :
          /\ Has(Statuses \ Endings) /\ Enter(c, Persisting([doc EXCEPT !.status = s], "node"))
          /\ UNCHANGED <<doc, ledger, lock>>
    BY <1>7 DEF AcceptQuest, FailQuest, Has, Statuses, Endings, Active
  <2>. DEFINE d == [doc EXCEPT !.status = s]
  <2>2. doc \in Document /\ Meets(doc) /\ doc.status \notin Endings
    BY <2>1 DEF Has, ShapeInv, TypeOK
  <2>3. s \in Statuses
    BY DEF Statuses, Active, Endings
  <2>4. d \in Document /\ d.status = s /\ d.applied = doc.applied
    BY <2>2, <2>3, StatusType
  <2>5. Meets(d)
    BY <2>2, <2>4 DEF Meets, Endings
  <2>. HIDE DEF d
  <2>6. Shaped(Persisting(d, "node"))
    BY <2>4, <2>5, PersistingShaped DEF Endings
  <2>. QED
    BY <1>6, <2>1, <2>4, <2>6 DEF Has, d
<1>8. ASSUME NEW c \in Callers, NEW o \in Objectives, NEW delta \in Deltas,
             UpdateObjective(c, o, delta)
      PROVE  PayInv'
  <2>. DEFINE d == Progressed(o, delta)
  <2>1. doc \in Document /\ doc # NoDoc /\ Meets(doc) /\ doc.status # "completed"
    BY <1>8 DEF UpdateObjective, Has, ShapeInv, TypeOK, Active
  <2>2. d \in Document /\ d.status = "in_progress" /\ d.applied = doc.applied
    BY <2>1, ProgressedType
  <2>3. Shaped(Persisting(d, "idle"))
    BY <2>1, <2>2, PersistingShaped DEF Meets
  <2>. HIDE DEF d
  <2>4. PayInv'
    BY <1>6, <1>8, <2>1, <2>2, <2>3 DEF UpdateObjective, d
  <2>. QED
    BY <2>4
<1>9. ASSUME doc \in Document, doc # NoDoc, Meets(doc)
      PROVE  /\ Evaluated \in Job /\ Shaped(Evaluated) /\ Evaluated.at \notin Paying
             /\ Evaluated.written = {} /\ (Evaluated.doc.applied => Paid)
  <2>1. PICK s \in {"completed", "in_progress"} :
          LET d == [doc EXCEPT !.status = s]
              next == IF s = "completed" THEN "node" ELSE "idle"
          IN  Evaluated = Persisting(d, next)
    BY <1>9, EvaluatedType
  <2>. DEFINE d == [doc EXCEPT !.status = s]
              next == IF s = "completed" THEN "node" ELSE "idle"
  <2>2. s \in Statuses /\ next \in Steps
    BY DEF Statuses, Active, Endings, Steps
  <2>3. d \in Document /\ d.applied = doc.applied
    BY <1>9, <2>2, StatusType
  <2>. HIDE DEF d, next
  <2>4. LET j == Persisting(d, next) IN j.at = "persist" /\ j.doc = d /\ j.written = {}
    BY <2>2, <2>3, PersistingType
  <2>5. Evaluated = Persisting(d, next)
    BY <2>1 DEF d, next
  <2>. QED
    BY <1>9, <2>3, <2>4, <2>5, EvaluatedShaped DEF Paying, PayInv
<1>10. ASSUME NEW c \in Callers, EvaluateCompletion(c) PROVE PayInv'
  BY <1>9, <1>10, OutsideEnters DEF EvaluateCompletion, Has, ShapeInv, TypeOK
<1>11. ASSUME NEW c \in Callers, EvaluateClaim(c) PROVE PayInv'
  <2>1. job[c].at \notin Paying /\ job' = [job EXCEPT ![c] = Evaluated]
    BY <1>11 DEF EvaluateClaim, At, Paying
  <2>2. /\ Evaluated \in Job /\ Shaped(Evaluated) /\ Evaluated.at \notin Paying
        /\ Evaluated.written = {} /\ (Evaluated.doc.applied => Paid)
    BY <1>9, <1>11 DEF EvaluateClaim, Has, ShapeInv, TypeOK
  <2>3. (doc' # NoDoc /\ doc'.applied => Paid) /\ UNCHANGED <<ledger, lock>>
    BY <1>11 DEF EvaluateClaim, PayInv
  <2>. QED
    BY <2>1, <2>2, <2>3, OutsidePays
<1>12. ASSUME NEW c \in Callers, ClaimCompletion(c) PROVE PayInv'
  <2>. DEFINE todo == [o \in Objectives |-> IF doc.progress[o] < Target
                                            THEN Target - doc.progress[o] ELSE 0]
              r == [Rest EXCEPT !.at = "raise", !.todo = todo]
  <2>1. todo \in [Objectives -> Nat]
    BY <1>12 DEF ClaimCompletion, Has, ShapeInv, TypeOK, Document
  <2>2. r \in Job /\ Shaped(r) /\ r.at \notin Paying /\ r.written = {} /\ r.doc = Rest.doc
    BY <2>1, RestType, RestShaped DEF Job, Steps, Shaped, Paying
  <2>. QED
    BY <1>12, <2>2, RestPlain, OutsideEnters DEF ClaimCompletion
<1>13. ASSUME NEW c \in Callers, NEW o \in Objectives, Raise(c, o) PROVE PayInv'
  <2>. DEFINE delta == job[c].todo[o]
              p == [job[c] EXCEPT !.at = "persist", !.then = "raise",
                                  !.doc = Progressed(o, delta), !.todo[o] = 0]
              q == [job[c] EXCEPT !.todo[o] = 0]
  <2>1. job[c] \in Job /\ Shaped(job[c]) /\ job[c].at = "raise" /\ delta \in Int
    BY <1>13 DEF Raise, At, ShapeInv, TypeOK, Job
  <2>2. (doc' # NoDoc /\ doc'.applied => Paid) /\ UNCHANGED <<ledger, lock>>
        /\ job[c].at \notin Paying /\ job[c].written = {}
    BY <1>13, <2>1 DEF Raise, PayInv, Shaped, Paying
  <2>3. CASE Has(Active) /\ job' = [job EXCEPT ![c] = p]
    <3>1. doc \in Document /\ doc # NoDoc /\ Meets(doc) /\ doc.status # "completed"
      BY <2>3 DEF Has, ShapeInv, TypeOK, Active
    <3>2. /\ Progressed(o, delta) \in Document
          /\ Progressed(o, delta).status = "in_progress"
          /\ Progressed(o, delta).applied = doc.applied
      BY <2>1, <3>1, ProgressedType
    <3>3. Meets(Progressed(o, delta)) /\ (Progressed(o, delta).applied => Paid)
      BY <3>1, <3>2 DEF Meets, PayInv
    <3>4. p \in Job /\ Shaped(p) /\ p.at \notin Paying /\ p.written = {}
          /\ (p.doc.applied => Paid)
      BY <2>1, <2>2, <3>2, <3>3 DEF Job, Steps, Shaped, Paying
    <3>. QED
      BY <2>2, <2>3, <3>4, OutsidePays
  <2>4. CASE job' = [job EXCEPT ![c] = q]
    <3>1. q \in Job /\ Shaped(q) /\ q.at \notin Paying /\ q.written = {}
          /\ (q.doc.applied => Paid)
      BY <2>1, <2>2 DEF Job, Steps, Shaped, Paying, PayInv
    <3>. QED
      BY <2>2, <2>4, <3>1, OutsidePays
  <2>. QED
    BY <1>13, <2>3, <2>4 DEF Raise
<1>14. ASSUME NEW c \in Callers, Persist(c) PROVE PayInv'
  <2>. DEFINE r == [job[c] EXCEPT !.at = job[c].then]
  <2>1. job[c] \in Job /\ Shaped(job[c]) /\ job[c].at = "persist" /\ job[c].at \notin Paying
    BY <1>14 DEF Persist, At, ShapeInv, TypeOK, Paying
  <2>2. (job[c].doc.applied => Paid) /\ UNCHANGED <<ledger, lock>>
    BY <1>14, <2>1 DEF PayInv, Persist
  <2>3. doc'.applied => Paid
    BY <1>14, <2>2 DEF Persist
  <2>4. CASE job[c].then = "idle"
    BY <1>14, <2>1, <2>2, <2>3, <2>4, OutsideLeaves DEF Persist
  <2>5. CASE job[c].then # "idle"
    <3>1. r \in Job /\ Shaped(r) /\ r.at \notin Paying /\ r.written = {} /\ r.doc = job[c].doc
      BY <2>1, <2>5 DEF Job, Steps, Shaped, Paying
    <3>2. job' = [job EXCEPT ![c] = r]
      BY <1>14, <2>5 DEF Persist, Goto
    <3>. HIDE DEF r
    <3>. QED
      BY <2>1, <2>2, <2>3, <3>1, <3>2, OutsidePays
  <2>. QED
    BY <2>4, <2>5
<1>15. ASSUME NEW c \in Callers, UpdateQuestNode(c) PROVE PayInv'
  <2>. DEFINE r == [job[c] EXCEPT !.at = "resolve"]
  <2>1. job[c] \in Job /\ Shaped(job[c]) /\ job[c].at = "node" /\ job[c].at \notin Paying
    BY <1>15 DEF UpdateQuestNode, At, ShapeInv, TypeOK, Paying
  <2>2. (job[c].doc.applied => Paid) /\ UNCHANGED <<ledger, lock>>
        /\ (doc' # NoDoc /\ doc'.applied => Paid)
    BY <1>15, <2>1 DEF PayInv, UpdateQuestNode
  <2>3. CASE node' \in Endings
    <3>1. r \in Job /\ Shaped(r) /\ r.at \notin Paying /\ r.written = {} /\ r.doc = job[c].doc
      BY <1>15, <2>1, <2>3 DEF UpdateQuestNode, Job, Steps, Shaped, Paying
    <3>2. job' = [job EXCEPT ![c] = r]
      BY <1>15, <2>3 DEF UpdateQuestNode, Goto
    <3>. HIDE DEF r
    <3>. QED
      BY <2>1, <2>2, <3>1, <3>2, OutsidePays
  <2>4. CASE node' \notin Endings
    BY <1>15, <2>1, <2>2, <2>4, OutsideLeaves DEF UpdateQuestNode
  <2>. QED
    BY <2>3, <2>4
<1>16. ASSUME NEW c \in Callers, ResolveChain(c) PROVE PayInv'
  <2>1. job[c].at \notin Paying /\ (doc' # NoDoc /\ doc'.applied => Paid)
    BY <1>16 DEF ResolveChain, At, Paying, PayInv
  <2>. QED
    BY <1>16, <2>1, OutsideLeaves DEF ResolveChain
<1>17. ASSUME NEW c \in Callers, ApplyRewards(c) PROVE PayInv'
  <2>. DEFINE d == [doc EXCEPT !.applied = TRUE]
              r == [Rest EXCEPT !.at = "lookup", !.doc = d]
  <2>1. doc \in Document /\ Meets(doc) /\ doc.status = "completed"
    BY <1>17 DEF ApplyRewards, Has, ShapeInv, TypeOK
  <2>2. d \in Document /\ d.status = doc.status /\ d.progress = doc.progress /\ d.applied
    BY <2>1, AppliedType
  <2>. HIDE DEF d
  <2>3. r \in Job /\ Shaped(r) /\ r.at = "lookup" /\ r.k = 1 /\ r.written = {}
    BY <2>1, <2>2, RestType DEF Job, Steps, Shaped, Meets, Paying, Rest
  <2>. QED
    BY <1>17, <2>3, OutsideEnters DEF ApplyRewards, d, Paying
<1>. DEFINE Others(c) == \A d \in Callers : d # c => job'[d] = job[d]
<1>18. ASSUME NEW c \in Callers, LookUp(c) PROVE PayInv'
  <2>. DEFINE j == job[c]
  <2>1. j \in Job /\ Shaped(j) /\ j.at = "lookup" /\ j.k \in Transfers /\ Transacting(c)
    BY <1>18 DEF LookUp, At, ShapeInv, TypeOK, PayInv
  <2>2. UNCHANGED <<doc, ledger, lock>> /\ Others(c)
    BY <1>18 DEF LookUp, Goto, ShapeInv, TypeOK
  <2>3. CASE ledger[j.k] > 0
    <3>1. job'[c] = [j EXCEPT !.k = @ + 1]
      BY <1>18, <2>3 DEF LookUp, ShapeInv, TypeOK
    <3>2. job'[c].at = "lookup" /\ job'[c].k = j.k + 1 /\ job'[c].written = j.written
      BY <2>1, <3>1 DEF Job
    <3>3. \A i \in Transfers : i < j.k + 1 => i < j.k \/ i = j.k
      BY <2>1 DEF Transfers
    <3>4. Transacting(c)'
      BY <2>1, <2>2, <2>3, <3>2, <3>3 DEF Transacting, Paying
    <3>. QED
      BY <2>2, <3>2, <3>4 DEF PayInv, Transacting, Paid, LaterTransfersOnce, Paying
  <2>4. CASE ~(ledger[j.k] > 0)
    <3>1. job'[c] = [j EXCEPT !.at = "write"]
      BY <1>18, <2>4 DEF LookUp, Goto, ShapeInv, TypeOK
    <3>2. job'[c].at = "write" /\ job'[c].k = j.k /\ job'[c].written = j.written
      BY <2>1, <3>1 DEF Job
    <3>3. ledger[j.k] = 0 /\ \A i \in Transfers : ~(ledger[i] > 0)
      BY <2>1, <2>4 DEF PayInv, ShapeInv, TypeOK
    <3>4. j.k > 1 => lock = c
      <4>. SUFFICES ASSUME j.k > 1 PROVE lock = c
        OBVIOUS
      <4>1. 1 \in Transfers /\ 1 < j.k
        BY <2>1 DEF Transfers
      <4>2. 1 \in j.written
        BY <2>1, <3>3, <4>1 DEF Transacting, Paying
      <4>. QED
        BY <2>1, <4>2 DEF Transacting
    <3>5. Transacting(c)'
      BY <2>1, <2>2, <3>2, <3>3, <3>4 DEF Transacting, Paying
    <3>. QED
      BY <2>2, <3>2, <3>5 DEF PayInv, Transacting, Paid, LaterTransfersOnce, Paying
  <2>. QED
    BY <2>3, <2>4
<1>19. ASSUME NEW c \in Callers, Transfer(c) PROVE PayInv'
  <2>. DEFINE j == job[c]
  <2>1. j \in Job /\ Shaped(j) /\ j.at = "write" /\ j.k \in Transfers /\ Transacting(c)
    BY <1>19 DEF Transfer, At, ShapeInv, TypeOK, PayInv, Shaped
  <2>2. UNCHANGED <<doc, ledger>> /\ Others(c) /\ lock' = c /\ lock \in {Nobody, c}
    BY <1>19 DEF Transfer, ShapeInv, TypeOK
  <2>3. job'[c] = [j EXCEPT !.at = "lookup", !.k = @ + 1, !.written = @ \cup {j.k}]
    BY <1>19 DEF Transfer, ShapeInv, TypeOK
  <2>4. job'[c].at = "lookup" /\ job'[c].k = j.k + 1 /\ job'[c].written = j.written \cup {j.k}
    BY <2>1, <2>3 DEF Job
  <2>5. \A i \in Transfers : i < j.k + 1 => i < j.k \/ i = j.k
    BY <2>1 DEF Transfers
  <2>6. Transacting(c)'
    BY <2>1, <2>2, <2>4, <2>5 DEF Transacting, Paying
  <2>7. \A d \in Callers : d # c => Transacting(d)'
    BY <2>2 DEF PayInv, Transacting
  <2>. QED
    BY <2>2, <2>4, <2>6, <2>7 DEF PayInv, Paid, LaterTransfersOnce, Paying
<1>20. ASSUME NEW c \in Callers, CommitRewards(c) PROVE PayInv'
  <2>. DEFINE j == job[c]
  <2>1. j \in Job /\ Shaped(j) /\ j.at = "lookup" /\ j.k > N /\ Transacting(c)
    BY <1>20 DEF CommitRewards, At, ShapeInv, TypeOK, PayInv
  <2>2. Others(c) /\ job'[c] = Rest /\ lock' = IF lock = c THEN Nobody ELSE lock
    BY <1>20 DEF CommitRewards, Leave, Release, ShapeInv, TypeOK
  <2>3. \A k \in Transfers : ledger'[k] = IF k \in j.written /\ ledger[k] < 2
                                          THEN ledger[k] + 1 ELSE ledger[k]
    BY <1>20 DEF CommitRewards
  <2>4. \A k \in Transfers : ledger[k] \in 0..2 /\ k < j.k
    BY <2>1 DEF ShapeInv, TypeOK, Transfers, Job
  <2>5. Paid'
    BY <2>1, <2>3, <2>4 DEF Paid, Transacting, Paying
  <2>6. LaterTransfersOnce'
    <3>1. \A k \in Transfers \ {1} : k \in j.written => ledger[k] = 0
      BY <2>1 DEF Transacting, Transfers
    <3>. QED
      BY <2>3, <3>1 DEF PayInv, LaterTransfersOnce
  <2>7. Transacting(c)'
    <3>1. lock' # c
      BY <2>2
    <3>2. Rest.at \notin Paying /\ Rest.written = {} /\ Rest.at # "write"
      BY RestType DEF Paying
    <3>. QED
      BY <2>2, <3>1, <3>2 DEF Transacting
  <2>8. ASSUME NEW d \in Callers, d # c PROVE Transacting(d)'
    <3>1. Transacting(d) /\ job'[d] = job[d] /\ job[d] \in Job /\ Shaped(job[d])
      BY <2>2, <2>8 DEF PayInv, ShapeInv, TypeOK
    <3>2. CASE j.written = {}
      BY <2>1, <2>2, <2>3, <3>1, <3>2 DEF Transacting, Job, Shaped
    <3>3. CASE j.written # {}
      <4>1. lock = c /\ lock # d /\ lock' # d
        BY <2>1, <2>2, <2>8, <3>3 DEF Transacting
      <4>2. job[d].written = {} /\ ~(job[d].at = "write" /\ job[d].k > 1)
        BY <3>1, <4>1 DEF Transacting
      <4>. QED
        BY <2>5, <3>1, <4>1, <4>2 DEF Transacting, Paid
    <3>. QED
      BY <3>2, <3>3
  <2>. QED
    BY <2>2, <2>5, <2>6, <2>7, <2>8 DEF PayInv, Paid
<1>21. ASSUME NEW c \in Callers, Abandon(c) PROVE PayInv'
  <2>1. Others(c) /\ job'[c] = Rest /\ lock' = IF lock = c THEN Nobody ELSE lock
    BY <1>21 DEF Abandon, Leave, Release, ShapeInv, TypeOK
  <2>2. UNCHANGED <<doc, ledger>>
    BY <1>21 DEF Abandon
  <2>3. Rest.at \notin Paying /\ Rest.written = {} /\ Rest.at # "write" /\ ~Rest.doc.applied
    BY RestType DEF Paying, Fresh
  <2>4. Transacting(c)'
    BY <2>1, <2>3 DEF Transacting
  <2>5. \A d \in Callers : d # c => Transacting(d)'
    BY <2>1, <2>2 DEF PayInv, Transacting
  <2>. QED
    BY <2>1, <2>2, <2>3, <2>4, <2>5 DEF PayInv, Paid, LaterTransfersOnce
<1>22. CASE UNCHANGED vars
  BY <1>22 DEF vars, PayInv, Paid, Transacting, LaterTransfersOnce
<1>. QED
  BY <1>1, <1>2, <1>3, <1>4, <1>5, <1>7, <1>8, <1>10, <1>11, <1>12, <1>13, <1>14, <1>15,
     <1>16, <1>17, <1>18, <1>19, <1>20, <1>21, <1>22 DEF Next

LEMMA PayInvariant == Spec => [](ShapeInv /\ PayInv)
<1>1. Init => PayInv
  <2>. SUFFICES ASSUME Init PROVE PayInv
    OBVIOUS
  <2>1. \A k \in Transfers : ledger[k] = 0
    BY DEF Init
  <2>2. \A c \in Callers : job[c] = Rest /\ lock # c
    BY QuestAssumption DEF Init
  <2>3. \A c \in Callers : Transacting(c)
    BY <2>2, RestType, RestPlain DEF Transacting
  <2>4. doc = NoDoc
    BY DEF Init
  <2>. QED
    BY <2>1, <2>2, <2>3, <2>4, RestPlain DEF PayInv, LaterTransfersOnce
<1>2. ShapeInv /\ PayInv /\ [Next]_vars => PayInv'
  BY PayStep
<1>. QED
  BY <1>1, <1>2, ShapeInvariant, PTL DEF Spec

\* However calls overwrite each other's documents, what is stored makes sense:
\* DocumentSound (persist_state_and_event, apply_rewards_atomic).
THEOREM DocumentIsSound == Spec => []DocumentSound
<1>1. ShapeInv /\ PayInv => DocumentSound
  BY DEF ShapeInv, PayInv, Meets, Paid, DocumentSound
<1>. QED
  BY <1>1, PayInvariant, PTL

\* No second transfer is doubled even when calls pay at one time:
\* LaterTransfersOnce (_try_replay behind the first write's lock).
THEOREM LaterTransfersArePaidOnce == Spec => []LaterTransfersOnce
<1>1. PayInv => LaterTransfersOnce
  BY DEF PayInv
<1>. QED
  BY <1>1, PayInvariant, PTL

-----------------------------------------------------------------------------
(* Rewards once.                                                           *)

LEMMA EvaluatedAt == Evaluated.at = "persist"
BY DEF Evaluated, Persisting, Rest

\* Overlaps are remembered.
LEMMA OverlapGrows ==
    ASSUME [Next]_vars
    PROVE  /\ overlap = "rewards" => overlap' = "rewards"
           /\ overlap' = "none" => overlap = "none"
<1>1. ASSUME NEW c \in Callers, NEW r, Enter(c, r)
      PROVE  /\ overlap = "rewards" => overlap' = "rewards"
             /\ overlap' = "none" => overlap = "none"
  BY <1>1 DEF Enter
<1>. QED
  BY <1>1 DEF Next, vars, OfferQuest, SuccessorAccepted, OfferDraft, MarkOffered, CreateOffered,
     AcceptQuest, EvaluateCompletion, FailQuest, UpdateObjective, ClaimCompletion, EvaluateClaim,
     Raise, Persist, UpdateQuestNode, ResolveChain, ApplyRewards, LookUp, Transfer,
     CommitRewards, Abandon

\* The steps that are not part of paying.
LEMMA QuietStep ==
    ASSUME ShapeInv, [Next]_vars,
           ~\E c \in Callers : \/ ApplyRewards(c) \/ LookUp(c) \/ Transfer(c)
                               \/ CommitRewards(c) \/ Abandon(c)
    PROVE  /\ UNCHANGED ledger
           /\ \A d \in Callers : job'[d] = job[d] \/ job'[d].at \notin Paying
<1>. USE DEF Paying
<1>1. CASE OfferQuest \/ (\E e \in Endings : SuccessorAccepted(e)) \/ UNCHANGED vars
  BY <1>1 DEF OfferQuest, SuccessorAccepted, vars
<1>2. ASSUME NEW c \in Callers, NEW r, Enter(c, r), r.at \notin Paying, UNCHANGED ledger
      PROVE  /\ UNCHANGED ledger
             /\ \A d \in Callers : job'[d] = job[d] \/ job'[d].at \notin Paying
  BY <1>2 DEF Enter, ShapeInv, TypeOK
<1>3. ASSUME NEW c \in Callers, OfferDraft(c) \/ ClaimCompletion(c)
      PROVE  /\ UNCHANGED ledger
             /\ \A d \in Callers : job'[d] = job[d] \/ job'[d].at \notin Paying
  <2>1. ASSUME NEW t PROVE /\ [Rest EXCEPT !.at = "draft"].at \notin Paying
                           /\ [Rest EXCEPT !.at = "raise", !.todo = t].at \notin Paying
    BY DEF Rest
  <2>. QED
    BY <1>2, <1>3, <2>1 DEF OfferDraft, ClaimCompletion
<1>4. ASSUME NEW c \in Callers,
             \/ AcceptQuest(c) \/ FailQuest(c) \/ EvaluateCompletion(c)
             \/ \E o \in Objectives : \E delta \in Deltas : UpdateObjective(c, o, delta)
      PROVE  /\ UNCHANGED ledger
             /\ \A d \in Callers : job'[d] = job[d] \/ job'[d].at \notin Paying
  <2>1. ASSUME NEW e, NEW next PROVE Persisting(e, next).at \notin Paying
    BY DEF Persisting, Rest
  <2>. QED
    BY <1>2, <1>4, <2>1, EvaluatedAt DEF AcceptQuest, FailQuest, EvaluateCompletion, UpdateObjective
<1>5. ASSUME NEW c \in Callers, MarkOffered(c) \/ CreateOffered(c) \/ ResolveChain(c)
      PROVE  /\ UNCHANGED ledger
             /\ \A d \in Callers : job'[d] = job[d] \/ job'[d].at \notin Paying
  BY <1>5, RestPlain DEF MarkOffered, CreateOffered, ResolveChain, Goto, Leave, ShapeInv, TypeOK, Job
<1>6. ASSUME NEW c \in Callers, EvaluateClaim(c) \/ UpdateQuestNode(c)
      PROVE  /\ UNCHANGED ledger
             /\ \A d \in Callers : job'[d] = job[d] \/ job'[d].at \notin Paying
  BY <1>6, RestPlain, EvaluatedAt DEF EvaluateClaim, UpdateQuestNode, Goto, Leave, ShapeInv, TypeOK, Job
<1>7. ASSUME NEW c \in Callers, Persist(c)
      PROVE  /\ UNCHANGED ledger
             /\ \A d \in Callers : job'[d] = job[d] \/ job'[d].at \notin Paying
  <2>1. job[c] \in Job /\ job[c].then \notin Paying
    BY <1>7 DEF Persist, At, ShapeInv, TypeOK, Shaped
  <2>. QED
    BY <1>7, <2>1, RestPlain DEF Persist, Goto, Leave, ShapeInv, TypeOK, Job
<1>8. ASSUME NEW c \in Callers, NEW o \in Objectives, Raise(c, o)
      PROVE  /\ UNCHANGED ledger
             /\ \A d \in Callers : job'[d] = job[d] \/ job'[d].at \notin Paying
  <2>1. job[c] \in Job /\ job[c].at = "raise"
    BY <1>8 DEF Raise, At, ShapeInv, TypeOK
  <2>. QED
    BY <1>8, <2>1 DEF Raise, ShapeInv, TypeOK, Job
<1>. QED
  BY <1>1, <1>3, <1>4, <1>5, <1>6, <1>7, <1>8 DEF Next

OnceInv ==
    overlap # "rewards" =>
      /\ RewardsOnce
      /\ \A c, d \in Callers : job[c].at \in Paying /\ job[d].at \in Paying => c = d
      /\ \A c \in Callers : /\ \A i \in job[c].written : ledger[i] = 0
                            /\ job[c].at = "write" => ledger[job[c].k] = 0

LEMMA OnceStep ==
    ASSUME ShapeInv, ShapeInv', PayInv, OnceInv, [Next]_vars PROVE OnceInv'
<1>. SUFFICES ASSUME overlap' # "rewards" PROVE OnceInv'
  BY DEF OnceInv
<1>1. overlap # "rewards"
  BY OverlapGrows
<1>. USE DEF Paying
<1>2. CASE ~\E c \in Callers : \/ ApplyRewards(c) \/ LookUp(c) \/ Transfer(c)
                               \/ CommitRewards(c) \/ Abandon(c)
  BY <1>1, <1>2, QuietStep DEF OnceInv, RewardsOnce, ShapeInv, Shaped
<1>3. ASSUME NEW c \in Callers, ApplyRewards(c) PROVE OnceInv'
  <2>1. \A d \in Callers : job[d].at \notin Paying
    <3>. SUFFICES ASSUME NEW d \in Callers, job[d].at \in Paying PROVE FALSE
      OBVIOUS
    <3>. DEFINE r == [Rest EXCEPT !.at = "lookup", !.doc = [doc EXCEPT !.applied = TRUE]]
    <3>1. r.at = "lookup"
      BY DEF Rest
    <3>2. (\E e \in Callers : job[e].at \in Paying /\ r.at \in Paying) => overlap' = "rewards"
      BY <1>3 DEF ApplyRewards, Enter
    <3>. QED
      BY <3>1, <3>2
  <2>2. job'[c].at = "lookup" /\ job'[c].written = {} /\ \A d \in Callers : d # c => job'[d] = job[d]
    BY <1>3 DEF ApplyRewards, Enter, ShapeInv, TypeOK, Rest
  <2>3. UNCHANGED ledger
    BY <1>3 DEF ApplyRewards
  <2>. QED
    BY <1>1, <2>1, <2>2, <2>3 DEF OnceInv, RewardsOnce, ShapeInv, Shaped
<1>4. ASSUME NEW c \in Callers, LookUp(c) \/ Transfer(c) PROVE OnceInv'
  <2>. DEFINE j == job[c]
  <2>1. j \in Job /\ Shaped(j) /\ j.at \in Paying /\ j.k \in Transfers
    BY <1>4 DEF LookUp, Transfer, At, ShapeInv, TypeOK, Shaped
  <2>2. UNCHANGED ledger /\ \A d \in Callers : d # c => job'[d] = job[d]
    BY <1>4 DEF LookUp, Transfer, Goto, ShapeInv, TypeOK
  <2>3. \/ job'[c] = [j EXCEPT !.k = @ + 1] /\ j.at = "lookup"
        \/ job'[c] = [j EXCEPT !.at = "write"] /\ ~(ledger[j.k] > 0)
        \/ job'[c] = [j EXCEPT !.at = "lookup", !.k = @ + 1, !.written = @ \cup {j.k}]
           /\ j.at = "write"
    BY <1>4 DEF LookUp, Transfer, Goto, At, ShapeInv, TypeOK
  <2>4. /\ job'[c].at \in Paying
        /\ job'[c].written = j.written \/ (job'[c].written = j.written \cup {j.k} /\ j.at = "write")
        /\ job'[c].at = "write" => job'[c].k = j.k /\ ~(ledger[j.k] > 0)
    <3>1. CASE job'[c] = [j EXCEPT !.k = @ + 1] /\ j.at = "lookup"
      BY <2>1, <3>1 DEF Job
    <3>2. CASE job'[c] = [j EXCEPT !.at = "write"] /\ ~(ledger[j.k] > 0)
      BY <2>1, <3>2 DEF Job
    <3>3. CASE /\ job'[c] = [j EXCEPT !.at = "lookup", !.k = @ + 1, !.written = @ \cup {j.k}]
               /\ j.at = "write"
      BY <2>1, <3>3 DEF Job
    <3>. QED
      BY <2>3, <3>1, <3>2, <3>3
  <2>5. ledger[j.k] \in 0..2
    BY <2>1 DEF ShapeInv, TypeOK
  <2>6. /\ \A i \in job'[c].written : ledger[i] = 0
        /\ job'[c].at = "write" => ledger[job'[c].k] = 0
    BY <1>1, <2>4, <2>5 DEF OnceInv
  <2>. QED
    BY <1>1, <2>1, <2>2, <2>4, <2>6 DEF OnceInv, RewardsOnce
<1>5. ASSUME NEW c \in Callers, CommitRewards(c) PROVE OnceInv'
  <2>1. job'[c] = Rest /\ \A d \in Callers : d # c => job'[d] = job[d]
    BY <1>5 DEF CommitRewards, Leave, ShapeInv, TypeOK
  <2>2. job[c].at \in Paying
    BY <1>5 DEF CommitRewards, At
  <2>3. \A d \in Callers : job'[d].at \notin Paying
    BY <1>1, <2>1, <2>2, RestPlain DEF OnceInv
  <2>4. \A k \in Transfers : ledger'[k] = IF k \in job[c].written /\ ledger[k] < 2
                                          THEN ledger[k] + 1 ELSE ledger[k]
    BY <1>5 DEF CommitRewards
  <2>5. \A k \in Transfers : ledger'[k] <= 1
    <3>1. \A k \in Transfers : k \in job[c].written => ledger[k] = 0
      BY <1>1 DEF OnceInv
    <3>. QED
      BY <1>1, <2>4, <3>1 DEF OnceInv, RewardsOnce
  <2>. QED
    BY <2>3, <2>5 DEF OnceInv, RewardsOnce, ShapeInv, Shaped
<1>6. ASSUME NEW c \in Callers, Abandon(c) PROVE OnceInv'
  <2>1. job'[c] = Rest /\ \A d \in Callers : d # c => job'[d] = job[d]
    BY <1>6 DEF Abandon, Leave, ShapeInv, TypeOK
  <2>2. UNCHANGED ledger
    BY <1>6 DEF Abandon
  <2>. QED
    BY <1>1, <2>1, <2>2, RestPlain, RestType DEF OnceInv, RewardsOnce
<1>. QED
  BY <1>2, <1>3, <1>4, <1>5, <1>6

LEMMA OnceInvariant == Spec => [](ShapeInv /\ PayInv /\ OnceInv)
<1>1. Init => OnceInv
  <2>. SUFFICES ASSUME Init PROVE OnceInv
    OBVIOUS
  <2>1. (\A k \in Transfers : ledger[k] = 0) /\ \A c \in Callers : job[c] = Rest
    BY DEF Init
  <2>. QED
    BY <2>1, RestPlain, RestType DEF OnceInv, RewardsOnce
<1>2. ShapeInv /\ ShapeInv' /\ PayInv /\ OnceInv /\ [Next]_vars => OnceInv'
  BY OnceStep
<1>. QED
  BY <1>1, <1>2, PayInvariant, PTL DEF Spec

\* Rewards are paid once unless two calls pay at one time: RewardsOnce
\* (_try_replay stands in when rewards_applied was overwritten).
THEOREM RewardsArePaidOnce == Spec => []RewardsOnce
<1>1. OnceInv => RewardsOnce
  BY DEF OnceInv, RewardsOnce
<1>. QED
  BY <1>1, OnceInvariant, PTL

-----------------------------------------------------------------------------
(* Calls that do not overlap.                                              *)

OnlyCaller ==
    \A c, d \in Callers : job[c].at # "idle" /\ job[d].at # "idle" => c = d

\* What a call may write over the document it read.
Advances(d, e) ==
    /\ e.applied = d.applied
    /\ \/ d.status = "offered" /\ e.status \in {"accepted", "failed"}
       \/ d.status \in Active /\ e.status \in {"in_progress"} \cup Endings
       \/ d.status = "completed" /\ e.status = "completed"

Unpaid == \A k \in Transfers : ledger[k] = 0

\* What a call has read is still what is stored.
Current(c) ==
    /\ At(c, "persist") =>
         /\ doc # NoDoc /\ Advances(doc, job[c].doc)
         /\ job[c].then = "idle" => job[c].doc.status = "in_progress"
    /\ job[c].at \in {"node", "resolve"} => doc # NoDoc /\ doc.status = job[c].doc.status
    /\ job[c].at \in Paying => Has({"completed"}) /\ ~doc.applied

\* No call has overlapped another: one is in progress at most, and the ledger
\* is empty until the document says that rewards are applied.
SoloInv ==
    overlap = "none" =>
        /\ OnlyCaller
        /\ \A c \in Callers : Current(c)
        /\ doc = NoDoc \/ ~doc.applied => Unpaid

\* The Quest node and the chain follow the document.
Follows ==
    /\ doc = NoDoc => node = "draft"
    /\ Has({"offered"}) => node \in {"draft", "offered"}
    /\ Has(Active) => node = "accepted"
    /\ Has(Endings) => node = doc.status /\ successor[doc.status] # "none"

Unsettled == {"offer", "node", "resolve"}

\* If besides none has broken off, they follow it but between the queries that
\* write them.
StraightInv ==
    overlap = "none" /\ ~abandoned =>
        /\ (\A c \in Callers : job[c].at \notin Unsettled) => Follows
        /\ \A c \in Callers :
             /\ At(c, "draft") => node = "draft"
             /\ At(c, "offer") => node = "offered" /\ (doc = NoDoc \/ Has({"offered"}))
             /\ At(c, "resolve") => node = job[c].doc.status

LEMMA EvaluatedAdvances ==
    ASSUME ShapeInv, Has(Active \cup {"completed"})
    PROVE  \E e \in Document, next \in {"idle", "node"} :
             /\ Evaluated = Persisting(e, next) /\ Advances(doc, e)
             /\ next = "idle" => e.status = "in_progress"
<1>1. doc \in Document /\ Meets(doc) /\ doc # NoDoc
  BY DEF Has, ShapeInv, TypeOK
<1>2. PICK s \in {"completed", "in_progress"} :
        LET d == [doc EXCEPT !.status = s]
            next == IF s = "completed" THEN "node" ELSE "idle"
        IN  /\ Evaluated = Persisting(d, next)
            /\ s = "completed" <=> \A o \in Objectives : doc.progress[o] >= Target
  BY <1>1, EvaluatedType
<1>. DEFINE d == [doc EXCEPT !.status = s]
            next == IF s = "completed" THEN "node" ELSE "idle"
<1>3. s \in Statuses
  BY DEF Statuses, Active, Endings
<1>4. d \in Document /\ d.status = s /\ d.applied = doc.applied
  BY <1>1, <1>3, StatusType
<1>5. doc.status = "completed" => s = "completed"
  BY <1>1, <1>2 DEF Meets
<1>6. Advances(doc, d)
  BY <1>4, <1>5 DEF Advances, Has, Active, Endings
<1>7. next \in {"idle", "node"} /\ (next = "idle" => d.status = "in_progress")
  BY <1>4
<1>8. Evaluated = Persisting(d, next)
  BY <1>2
<1>. HIDE DEF d, next
<1>. QED
  BY <1>4, <1>6, <1>7, <1>8

\* A call that changes the status reads the document and writes nothing yet.
LEMMA TransitionReads ==
    ASSUME ShapeInv, NEW c \in Callers,
           \/ AcceptQuest(c) \/ FailQuest(c) \/ EvaluateCompletion(c)
           \/ \E o \in Objectives : \E delta \in Deltas : UpdateObjective(c, o, delta)
    PROVE  /\ doc # NoDoc
           /\ UNCHANGED <<doc, node, successor, ledger, lock, abandoned>>
           /\ \E e \in Document, next \in {"idle", "node"} :
                /\ Enter(c, Persisting(e, next)) /\ Advances(doc, e)
                /\ next = "idle" => e.status = "in_progress"
<1>. USE QuestAssumption
<1>1. ASSUME NEW s \in {"accepted", "failed"}, doc # NoDoc,
             \/ doc.status = "offered"
             \/ doc.status \in Active /\ s = "failed",
             Enter(c, Persisting([doc EXCEPT !.status = s], "node"))
      PROVE  \E e \in Document, next \in {"idle", "node"} :
                /\ Enter(c, Persisting(e, next)) /\ Advances(doc, e)
                /\ next = "idle" => e.status = "in_progress"
  <2>. DEFINE e == [doc EXCEPT !.status = s]
  <2>1. doc \in Document /\ s \in Statuses
    BY <1>1 DEF ShapeInv, TypeOK, Statuses, Active, Endings
  <2>2. e \in Document /\ e.status = s /\ e.applied = doc.applied
    BY <2>1, StatusType
  <2>3. Enter(c, Persisting(e, "node"))
    BY <1>1
  <2>. HIDE DEF e
  <2>4. Advances(doc, e)
    BY <1>1, <2>2 DEF Advances, Endings
  <2>. QED
    BY <2>2, <2>3, <2>4
<1>2. CASE AcceptQuest(c)
  BY <1>1, <1>2 DEF AcceptQuest, Has
<1>3. CASE FailQuest(c)
  BY <1>1, <1>3 DEF FailQuest, Has, Statuses, Active, Endings
<1>4. CASE EvaluateCompletion(c)
  BY <1>4, EvaluatedAdvances DEF EvaluateCompletion, Has
<1>5. ASSUME NEW o \in Objectives, NEW delta \in Deltas, UpdateObjective(c, o, delta)
      PROVE  /\ doc # NoDoc
             /\ UNCHANGED <<doc, node, successor, ledger, lock, abandoned>>
             /\ \E e \in Document, next \in {"idle", "node"} :
                  /\ Enter(c, Persisting(e, next)) /\ Advances(doc, e)
                  /\ next = "idle" => e.status = "in_progress"
  <2>1. doc # NoDoc /\ doc \in Document /\ doc.status \in Active
    BY <1>5 DEF UpdateObjective, Has, ShapeInv, TypeOK
  <2>2. /\ Progressed(o, delta) \in Document
        /\ Progressed(o, delta).status = "in_progress"
        /\ Progressed(o, delta).applied = doc.applied
    BY <2>1, ProgressedType
  <2>3. Advances(doc, Progressed(o, delta))
    BY <2>1, <2>2 DEF Advances
  <2>4. Enter(c, Persisting(Progressed(o, delta), "idle"))
    BY <1>5 DEF UpdateObjective
  <2>. QED
    BY <1>5, <2>1, <2>2, <2>3, <2>4 DEF UpdateObjective
<1>. QED
  BY <1>2, <1>3, <1>4, <1>5

LEMMA AloneEnters ==
    ASSUME ShapeInv, NEW c \in Callers, NEW r, Enter(c, r), overlap' = "none"
    PROVE  /\ overlap = "none" /\ \A d \in Callers : At(d, "idle")
           /\ job' = [job EXCEPT ![c] = r]
BY DEF Enter, At, ShapeInv, TypeOK

\* The only job in progress becomes r.
LEMMA AloneMoves ==
    ASSUME ShapeInv, SoloInv, overlap = "none", NEW c \in Callers, NEW r \in Job,
           job' = [job EXCEPT ![c] = r],
           job[c].at # "idle" \/ \A d \in Callers : At(d, "idle"),
           Current(c)', doc' = NoDoc \/ ~doc'.applied => Unpaid'
    PROVE  SoloInv'
<1>1. job'[c] = r /\ \A d \in Callers : d # c => job'[d] = job[d] /\ job[d].at = "idle"
  BY DEF ShapeInv, TypeOK, SoloInv, OnlyCaller, At
<1>2. \A d \in Callers : Current(d)'
  BY <1>1 DEF Current, At, Paying
<1>3. OnlyCaller'
  BY <1>1 DEF OnlyCaller
<1>. QED
  BY <1>2, <1>3 DEF SoloInv

LEMMA AloneLeaves ==
    ASSUME ShapeInv, SoloInv, overlap = "none", NEW c \in Callers, Leave(c),
           job[c].at # "idle", doc' = NoDoc \/ ~doc'.applied => Unpaid'
    PROVE  SoloInv'
<1>1. job' = [job EXCEPT ![c] = Rest] /\ job'[c] = Rest
  BY DEF Leave, ShapeInv, TypeOK
<1>2. Current(c)'
  BY <1>1, RestType DEF Current, At, Paying
<1>. QED
  BY <1>1, <1>2, RestType, AloneMoves

LEMMA SoloStep ==
    ASSUME ShapeInv, ShapeInv', SoloInv, [Next]_vars, overlap' = "none"
    PROVE  SoloInv'
<1>. USE QuestAssumption
<1>1. overlap = "none"
  BY OverlapGrows
<1>2. OnlyCaller /\ (\A c \in Callers : Current(c)) /\ (doc = NoDoc \/ ~doc.applied => Unpaid)
  BY <1>1 DEF SoloInv
<1>3. CASE OfferQuest
  <2>1. \A c \in Callers : Current(c)'
    BY <1>2, <1>3 DEF OfferQuest, Current, At, Has
  <2>2. OnlyCaller' /\ Unpaid'
    BY <1>2, <1>3 DEF OfferQuest, OnlyCaller, Unpaid
  <2>. QED
    BY <2>1, <2>2 DEF SoloInv
<1>4. ASSUME NEW e \in Endings, SuccessorAccepted(e) PROVE SoloInv'
  BY <1>1, <1>2, <1>4 DEF SuccessorAccepted, SoloInv, OnlyCaller, Current, At, Has, Unpaid
\* A call begins, and reads at most.
<1>5. ASSUME NEW c \in Callers, NEW r \in Job, Enter(c, r), UNCHANGED <<doc, ledger>>,
             r.at \in {"draft", "raise"} \/ Current(c)'
      PROVE  SoloInv'
  <2>1. (\A d \in Callers : At(d, "idle")) /\ job' = [job EXCEPT ![c] = r]
    BY <1>5, AloneEnters
  <2>2. job'[c] = r
    BY <2>1 DEF ShapeInv, TypeOK
  <2>3. Current(c)'
    BY <1>5, <2>2 DEF Current, At, Paying
  <2>4. doc' = NoDoc \/ ~doc'.applied => Unpaid'
    BY <1>2, <1>5 DEF Unpaid
  <2>. QED
    BY <1>1, <2>1, <2>3, <2>4, AloneMoves
<1>6. ASSUME NEW c \in Callers, OfferDraft(c) PROVE SoloInv'
  <2>. DEFINE r == [Rest EXCEPT !.at = "draft"]
  <2>1. r \in Job /\ r.at = "draft"
    BY RestType DEF Job, Steps
  <2>. QED
    BY <1>5, <1>6, <2>1 DEF OfferDraft
<1>7. ASSUME NEW c \in Callers,
             \/ AcceptQuest(c) \/ FailQuest(c) \/ EvaluateCompletion(c)
             \/ \E o \in Objectives : \E delta \in Deltas : UpdateObjective(c, o, delta)
      PROVE  SoloInv'
  <2>1. PICK e \in Document, next \in {"idle", "node"} :
          /\ Enter(c, Persisting(e, next)) /\ Advances(doc, e)
          /\ next = "idle" => e.status = "in_progress"
    BY <1>7, TransitionReads
  <2>2. doc # NoDoc /\ UNCHANGED <<doc, ledger>>
    BY <1>7, TransitionReads
  <2>. DEFINE r == Persisting(e, next)
  <2>3. r \in Job /\ r.at = "persist" /\ r.then = next /\ r.doc = e
    BY PersistingType DEF Steps
  <2>4. Current(c)'
    <3>1. job'[c] = r
      BY <2>1 DEF Enter, ShapeInv, TypeOK
    <3>. QED
      BY <2>1, <2>2, <2>3, <3>1 DEF Current, At, Paying
  <2>. HIDE DEF r
  <2>5. Enter(c, r)
    BY <2>1 DEF r
  <2>. QED
    BY <1>5, <2>2, <2>3, <2>4, <2>5
<1>8. ASSUME NEW c \in Callers, ClaimCompletion(c) PROVE SoloInv'
  <2>. DEFINE todo == [o \in Objectives |-> IF doc.progress[o] < Target
                                            THEN Target - doc.progress[o] ELSE 0]
              r == [Rest EXCEPT !.at = "raise", !.todo = todo]
  <2>1. todo \in [Objectives -> Nat]
    BY <1>8 DEF ClaimCompletion, Has, ShapeInv, TypeOK, Document
  <2>2. r \in Job /\ r.at = "raise"
    BY <2>1, RestType DEF Job, Steps
  <2>. QED
    BY <1>5, <1>8, <2>2 DEF ClaimCompletion
<1>9. ASSUME NEW c \in Callers, ApplyRewards(c) PROVE SoloInv'
  <2>. DEFINE d == [doc EXCEPT !.applied = TRUE]
              r == [Rest EXCEPT !.at = "lookup", !.doc = d]
  <2>1. d \in Document
    BY <1>9, AppliedType DEF ApplyRewards, Has, ShapeInv, TypeOK
  <2>. HIDE DEF d
  <2>2. r \in Job /\ r.at = "lookup"
    BY <2>1, RestType DEF Job, Steps
  <2>3. Enter(c, r) /\ Has({"completed"}) /\ ~doc.applied /\ UNCHANGED <<doc, ledger>>
    BY <1>9 DEF ApplyRewards, d
  <2>4. Current(c)'
    <3>1. job'[c] = r
      BY <2>3 DEF Enter, ShapeInv, TypeOK
    <3>. QED
      BY <2>2, <2>3, <3>1 DEF Current, At, Has
  <2>. HIDE DEF r
  <2>. QED
    BY <1>5, <2>2, <2>3, <2>4
\* The call in progress goes on.
<1>10. ASSUME NEW c \in Callers, job[c].at # "idle",
              \/ MarkOffered(c) \/ EvaluateClaim(c) \/ Persist(c) \/ UpdateQuestNode(c)
              \/ ResolveChain(c) \/ LookUp(c) \/ Transfer(c) \/ CommitRewards(c)
              \/ CreateOffered(c) \/ Abandon(c)
              \/ \E o \in Objectives : Raise(c, o),
              Current(c)', doc' = NoDoc \/ ~doc'.applied => Unpaid'
       PROVE  SoloInv'
  <2>1. job' \in [Callers -> Job] /\ \A d \in Callers : d # c => job'[d] = job[d]
    BY <1>10 DEF MarkOffered, EvaluateClaim, Persist, UpdateQuestNode, ResolveChain, LookUp,
                 Transfer, CommitRewards, CreateOffered, Abandon, Raise, Leave, Goto,
                 ShapeInv, TypeOK
  <2>2. job' = [job EXCEPT ![c] = job'[c]] /\ job'[c] \in Job
    BY <2>1 DEF ShapeInv, TypeOK
  <2>. QED
    BY <1>1, <1>10, <2>2, AloneMoves
<1>11. ASSUME NEW c \in Callers, MarkOffered(c) PROVE SoloInv'
  <2>1. job[c].at = "draft" /\ job'[c].at = "offer"
    BY <1>11 DEF MarkOffered, Goto, At, ShapeInv, TypeOK, Job
  <2>2. Current(c)' /\ (doc' = NoDoc \/ ~doc'.applied => Unpaid')
    BY <1>2, <1>11, <2>1 DEF MarkOffered, Current, At, Paying, Unpaid
  <2>. QED
    BY <1>10, <1>11, <2>1, <2>2
<1>12. ASSUME NEW c \in Callers, CreateOffered(c) \/ ResolveChain(c) \/ Abandon(c)
       PROVE  SoloInv'
  <2>1. job[c].at # "idle" /\ Leave(c) /\ UNCHANGED ledger
    BY <1>12 DEF CreateOffered, ResolveChain, Abandon, At
  <2>2. doc' = NoDoc \/ ~doc'.applied => doc = NoDoc \/ ~doc.applied
    BY <1>12 DEF CreateOffered, ResolveChain, Abandon
  <2>. QED
    BY <1>1, <1>2, <2>1, <2>2, AloneLeaves DEF Unpaid
<1>13. ASSUME NEW c \in Callers, NEW o \in Objectives, Raise(c, o) PROVE SoloInv'
  <2>1. UNCHANGED <<doc, ledger>> /\ job[c].at = "raise" /\ job[c] \in Job /\ job[c].todo[o] \in Int
    BY <1>13 DEF Raise, At, ShapeInv, TypeOK, Job
  <2>2. CASE job' = [job EXCEPT ![c].todo[o] = 0]
    <3>1. job'[c].at = "raise"
      BY <2>1, <2>2 DEF ShapeInv, TypeOK, Job
    <3>. QED
      BY <1>2, <1>10, <1>13, <2>1, <3>1 DEF Current, At, Paying, Unpaid
  <2>3. CASE /\ Has(Active)
             /\ job' = [job EXCEPT ![c].at = "persist", ![c].then = "raise",
                                   ![c].doc = Progressed(o, job[c].todo[o]), ![c].todo[o] = 0]
    <3>. DEFINE e == Progressed(o, job[c].todo[o])
    <3>1. job'[c].at = "persist" /\ job'[c].then = "raise" /\ job'[c].doc = e
      BY <2>1, <2>3 DEF ShapeInv, TypeOK, Job
    <3>2. doc # NoDoc /\ doc \in Document /\ doc.status \in Active
      BY <2>3 DEF Has, ShapeInv, TypeOK
    <3>3. e.status = "in_progress" /\ e.applied = doc.applied
      BY <2>1, <3>2, ProgressedType
    <3>. HIDE DEF e
    <3>4. Current(c)'
      BY <2>1, <3>1, <3>2, <3>3 DEF Current, Advances, At, Paying
    <3>. QED
      BY <1>2, <1>10, <1>13, <2>1, <3>4 DEF Unpaid
  <2>. QED
    BY <1>13, <2>2, <2>3 DEF Raise
<1>14. ASSUME NEW c \in Callers, EvaluateClaim(c) PROVE SoloInv'
  <2>1. PICK e \in Document, next \in {"idle", "node"} :
          /\ Evaluated = Persisting(e, next) /\ Advances(doc, e)
          /\ next = "idle" => e.status = "in_progress"
    BY <1>14, EvaluatedAdvances DEF EvaluateClaim
  <2>2. job'[c] = Persisting(e, next) /\ doc # NoDoc /\ UNCHANGED <<doc, ledger>>
        /\ job[c].at = "raise"
    BY <1>14, <2>1 DEF EvaluateClaim, Has, At, ShapeInv, TypeOK
  <2>3. job'[c].at = "persist" /\ job'[c].then = next /\ job'[c].doc = e
    BY <2>2, PersistingType DEF Steps
  <2>4. Current(c)'
    BY <2>1, <2>2, <2>3 DEF Current, At, Paying
  <2>. QED
    BY <1>2, <1>10, <1>14, <2>2, <2>4 DEF Unpaid
<1>15. ASSUME NEW c \in Callers, Persist(c) PROVE SoloInv'
  <2>1. job[c] \in Job /\ Shaped(job[c]) /\ job[c].at = "persist" /\ doc' = job[c].doc
        /\ UNCHANGED ledger
    BY <1>15 DEF Persist, At, ShapeInv, TypeOK
  <2>2. doc # NoDoc /\ Advances(doc, job[c].doc) /\ doc' # NoDoc
    BY <1>2, <2>1, NoDocAssumption DEF Current, At, Job
  <2>3. doc' = NoDoc \/ ~doc'.applied => Unpaid'
    BY <1>2, <2>1, <2>2 DEF Unpaid, Advances
  <2>4. CASE job[c].then = "idle"
    BY <1>1, <1>15, <2>1, <2>3, <2>4, AloneLeaves DEF Persist
  <2>5. CASE job[c].then # "idle"
    <3>1. job[c].then \in {"raise", "node"}
      BY <2>1, <2>5 DEF Shaped
    <3>2. job'[c].at = job[c].then /\ job'[c].doc = job[c].doc
      BY <1>15, <2>1, <2>5 DEF Persist, Goto, ShapeInv, TypeOK, Job
    <3>3. Current(c)'
      BY <2>1, <2>2, <3>1, <3>2 DEF Current, At, Paying
    <3>. QED
      BY <1>10, <1>15, <2>1, <2>3, <3>3
  <2>. QED
    BY <2>4, <2>5
<1>16. ASSUME NEW c \in Callers, UpdateQuestNode(c) PROVE SoloInv'
  <2>1. job[c] \in Job /\ job[c].at = "node" /\ UNCHANGED <<doc, ledger>>
    BY <1>16 DEF UpdateQuestNode, At, ShapeInv, TypeOK
  <2>2. CASE node' \notin Endings
    BY <1>1, <1>2, <1>16, <2>1, <2>2, AloneLeaves DEF UpdateQuestNode, Unpaid
  <2>3. CASE node' \in Endings
    <3>1. job'[c].at = "resolve" /\ job'[c].doc = job[c].doc
      BY <1>16, <2>1, <2>3 DEF UpdateQuestNode, Goto, ShapeInv, TypeOK, Job
    <3>2. Current(c)'
      BY <1>2, <2>1, <3>1 DEF Current, At, Paying
    <3>. QED
      BY <1>2, <1>10, <1>16, <2>1, <3>2 DEF Unpaid
  <2>. QED
    BY <2>2, <2>3
<1>17. ASSUME NEW c \in Callers, LookUp(c) \/ Transfer(c) PROVE SoloInv'
  <2>1. job[c] \in Job /\ job[c].at \in Paying /\ UNCHANGED <<doc, ledger>>
    BY <1>17 DEF LookUp, Transfer, At, Paying, ShapeInv, TypeOK
  <2>2. job'[c].at \in Paying
    BY <1>17, <2>1 DEF LookUp, Transfer, Goto, At, Paying, ShapeInv, TypeOK, Job
  <2>3. Current(c)'
    BY <1>2, <2>1, <2>2 DEF Current, At, Paying, Has
  <2>. QED
    BY <1>2, <1>10, <1>17, <2>1, <2>3 DEF Unpaid, Paying
<1>18. ASSUME NEW c \in Callers, CommitRewards(c) PROVE SoloInv'
  <2>1. job[c] \in Job /\ Shaped(job[c]) /\ job[c].at = "lookup" /\ doc' = job[c].doc /\ Leave(c)
    BY <1>18 DEF CommitRewards, At, ShapeInv, TypeOK
  <2>2. doc' # NoDoc /\ doc'.applied
    BY <2>1, NoDocAssumption DEF Shaped, Paying, Job
  <2>. QED
    BY <1>1, <2>1, <2>2, AloneLeaves
<1>19. CASE UNCHANGED vars
  BY <1>1, <1>2, <1>19 DEF vars, SoloInv, OnlyCaller, Current, At, Has, Unpaid
<1>. QED
  BY <1>3, <1>4, <1>6, <1>7, <1>8, <1>9, <1>11, <1>12, <1>13, <1>14, <1>15, <1>16, <1>17,
     <1>18, <1>19 DEF Next

LEMMA SoloInvariant == Spec => [](ShapeInv /\ PayInv /\ SoloInv)
<1>1. Init => SoloInv
  <2>. SUFFICES ASSUME Init PROVE SoloInv
    OBVIOUS
  <2>1. doc = NoDoc /\ (\A k \in Transfers : ledger[k] = 0) /\ \A c \in Callers : job[c] = Rest
    BY DEF Init
  <2>. QED
    BY <2>1, RestType DEF SoloInv, OnlyCaller, Current, At, Unpaid, Paying
<1>2. ShapeInv /\ ShapeInv' /\ SoloInv /\ [Next]_vars => SoloInv'
  <2>. SUFFICES ASSUME ShapeInv, ShapeInv', SoloInv, [Next]_vars, overlap' = "none"
                PROVE  SoloInv'
    BY DEF SoloInv
  <2>. QED
    BY SoloStep
<1>. QED
  BY <1>1, <1>2, PayInvariant, PTL DEF Spec

\* Only one job changes; every other caller is idle before and after.
LEMMA StraightMoves ==
    ASSUME ShapeInv, SoloInv, overlap = "none", NEW c \in Callers,
           \A d \in Callers : d # c => job'[d] = job[d],
           job[c].at # "idle" \/ \A d \in Callers : At(d, "idle"),
           job'[c].at \notin Unsettled => Follows',
           job'[c].at = "draft" => node' = "draft",
           job'[c].at = "offer" => node' = "offered" /\ (doc' = NoDoc \/ Has({"offered"})'),
           job'[c].at = "resolve" => node' = job'[c].doc.status
    PROVE  StraightInv'
<1>1. \A d \in Callers : d # c => job'[d].at = "idle"
  BY DEF SoloInv, OnlyCaller, At
<1>. QED
  BY <1>1 DEF StraightInv, At

LEMMA StraightStep ==
    ASSUME ShapeInv, ShapeInv', SoloInv, StraightInv, [Next]_vars, overlap' = "none",
           ~abandoned'
    PROVE  StraightInv'
<1>1. overlap = "none" /\ ~abandoned
  <2>1. ~abandoned
    BY DEF Next, vars, OfferQuest, SuccessorAccepted, OfferDraft, MarkOffered, CreateOffered,
           AcceptQuest, EvaluateCompletion, FailQuest, UpdateObjective, ClaimCompletion,
           EvaluateClaim, Raise, Persist, UpdateQuestNode, ResolveChain, ApplyRewards,
           LookUp, Transfer, CommitRewards, Abandon
  <2>. QED
    BY <2>1, OverlapGrows
<1>2. /\ (\A c \in Callers : job[c].at \notin Unsettled) => Follows
      /\ \A c \in Callers :
           /\ At(c, "draft") => node = "draft"
           /\ At(c, "offer") => node = "offered" /\ (doc = NoDoc \/ Has({"offered"}))
           /\ At(c, "resolve") => node = job[c].doc.status
  BY <1>1 DEF StraightInv
<1>3. OnlyCaller /\ \A c \in Callers : Current(c)
  BY <1>1 DEF SoloInv
<1>4. ASSUME NEW c \in Callers, job[c].at \notin Unsettled, job[c].at # "idle" PROVE Follows
  BY <1>2, <1>3, <1>4 DEF OnlyCaller, Unsettled
<1>5. CASE OfferQuest
  BY <1>2, <1>5, NoDocAssumption, FreshType
     DEF OfferQuest, StraightInv, Follows, Has, At, Fresh, Active, Endings
<1>6. ASSUME NEW e \in Endings, SuccessorAccepted(e) PROVE StraightInv'
  <2>1. \A s \in Endings : successor[s] # "none" => successor'[s] # "none"
    BY <1>6 DEF SuccessorAccepted, ShapeInv, TypeOK
  <2>2. Follows => Follows'
    BY <1>6, <2>1 DEF SuccessorAccepted, Follows, Has
  <2>. QED
    BY <1>2, <1>6, <2>2 DEF SuccessorAccepted, StraightInv, Has, At
\* A call begins.
<1>7. ASSUME NEW c \in Callers, NEW r \in Job, Enter(c, r),
             UNCHANGED <<doc, node, successor>>, r.at \notin Unsettled,
             r.at = "draft" => node = "draft"
      PROVE  StraightInv'
  <2>1. (\A d \in Callers : At(d, "idle")) /\ job' = [job EXCEPT ![c] = r]
    BY <1>7, AloneEnters
  <2>2. job'[c] = r /\ \A d \in Callers : d # c => job'[d] = job[d]
    BY <2>1 DEF ShapeInv, TypeOK
  <2>3. Follows'
    BY <1>2, <1>7, <2>1 DEF At, Unsettled, Follows, Has
  <2>. QED
    BY <1>1, <1>7, <2>1, <2>2, <2>3, StraightMoves DEF Unsettled
<1>8. ASSUME NEW c \in Callers, OfferDraft(c) PROVE StraightInv'
  <2>. DEFINE r == [Rest EXCEPT !.at = "draft"]
  <2>1. r \in Job /\ r.at = "draft"
    BY RestType DEF Job, Steps
  <2>. QED
    BY <1>7, <1>8, <2>1 DEF OfferDraft, Unsettled
<1>9. ASSUME NEW c \in Callers,
             \/ AcceptQuest(c) \/ FailQuest(c) \/ EvaluateCompletion(c)
             \/ \E o \in Objectives : \E delta \in Deltas : UpdateObjective(c, o, delta)
      PROVE  StraightInv'
  <2>1. PICK e \in Document, next \in {"idle", "node"} : Enter(c, Persisting(e, next))
    BY <1>9, TransitionReads
  <2>2. UNCHANGED <<doc, node, successor>>
    BY <1>9, TransitionReads
  <2>3. Persisting(e, next) \in Job /\ Persisting(e, next).at = "persist"
    BY PersistingType DEF Steps
  <2>. QED
    BY <1>7, <2>1, <2>2, <2>3 DEF Unsettled
<1>10. ASSUME NEW c \in Callers, ClaimCompletion(c) PROVE StraightInv'
  <2>. DEFINE todo == [o \in Objectives |-> IF doc.progress[o] < Target
                                            THEN Target - doc.progress[o] ELSE 0]
              r == [Rest EXCEPT !.at = "raise", !.todo = todo]
  <2>1. todo \in [Objectives -> Nat]
    BY <1>10, QuestAssumption DEF ClaimCompletion, Has, ShapeInv, TypeOK, Document
  <2>2. r \in Job /\ r.at = "raise"
    BY <2>1, RestType DEF Job, Steps
  <2>. QED
    BY <1>7, <1>10, <2>2 DEF ClaimCompletion, Unsettled
<1>11. ASSUME NEW c \in Callers, ApplyRewards(c) PROVE StraightInv'
  <2>. DEFINE d == [doc EXCEPT !.applied = TRUE]
              r == [Rest EXCEPT !.at = "lookup", !.doc = d]
  <2>1. d \in Document
    BY <1>11, AppliedType DEF ApplyRewards, Has, ShapeInv, TypeOK
  <2>. HIDE DEF d
  <2>2. r \in Job /\ r.at = "lookup"
    BY <2>1, RestType DEF Job, Steps
  <2>3. Enter(c, r) /\ UNCHANGED <<doc, node, successor>>
    BY <1>11 DEF ApplyRewards, d
  <2>. HIDE DEF r
  <2>. QED
    BY <1>7, <2>2, <2>3 DEF Unsettled
\* The call in progress goes on.
<1>12. ASSUME NEW c \in Callers, MarkOffered(c) PROVE StraightInv'
  <2>1. job[c].at = "draft" /\ job'[c].at = "offer" /\ \A d \in Callers : d # c => job'[d] = job[d]
    BY <1>12 DEF MarkOffered, Goto, At, ShapeInv, TypeOK, Job
  <2>2. node = "draft" /\ Follows /\ doc' = doc /\ node' = "offered"
    BY <1>2, <1>4, <1>12, <2>1 DEF At, Unsettled, MarkOffered
  <2>3. doc' = NoDoc \/ Has({"offered"})'
    BY <2>2 DEF Follows, Has, ShapeInv, TypeOK, Document, Statuses, Endings
  <2>. QED
    BY <1>1, <2>1, <2>2, <2>3, StraightMoves DEF Unsettled
<1>13. ASSUME NEW c \in Callers, CreateOffered(c) PROVE StraightInv'
  <2>1. job[c].at = "offer" /\ job'[c].at = "idle" /\ \A d \in Callers : d # c => job'[d] = job[d]
    BY <1>13, RestType DEF CreateOffered, Leave, At, ShapeInv, TypeOK
  <2>2. node' = "offered" /\ doc' # NoDoc /\ doc'.status = "offered"
    BY <1>2, <1>13, <2>1, NoDocAssumption, FreshType DEF CreateOffered, At, Has, Fresh
  <2>3. Follows'
    BY <2>2 DEF Follows, Has, Active, Endings
  <2>. QED
    BY <1>1, <2>1, <2>3, StraightMoves
<1>14. ASSUME NEW c \in Callers, EvaluateClaim(c) \/ \E o \in Objectives : Raise(c, o)
       PROVE  StraightInv'
  <2>1. job[c].at = "raise" /\ UNCHANGED <<doc, node, successor>>
        /\ \A d \in Callers : d # c => job'[d] = job[d]
    BY <1>14 DEF EvaluateClaim, Raise, At, ShapeInv, TypeOK
  <2>2. job'[c].at \in {"raise", "persist"}
    <3>1. CASE EvaluateClaim(c)
      BY <3>1, EvaluatedAt DEF EvaluateClaim, ShapeInv, TypeOK
    <3>2. ASSUME NEW o \in Objectives, Raise(c, o) PROVE job'[c].at \in {"raise", "persist"}
      BY <2>1, <3>2 DEF Raise, ShapeInv, TypeOK, Job
    <3>. QED
      BY <1>14, <3>1, <3>2
  <2>3. Follows'
    BY <1>4, <2>1 DEF Unsettled, Follows, Has
  <2>. QED
    BY <1>1, <2>1, <2>2, <2>3, StraightMoves
<1>15. ASSUME NEW c \in Callers, Persist(c) PROVE StraightInv'
  <2>1. /\ job[c] \in Job /\ Shaped(job[c]) /\ job[c].at = "persist" /\ doc' = job[c].doc
        /\ UNCHANGED <<node, successor>> /\ \A d \in Callers : d # c => job'[d] = job[d]
    BY <1>15 DEF Persist, Leave, Goto, At, ShapeInv, TypeOK
  <2>2. Advances(doc, doc') /\ doc # NoDoc /\ doc' # NoDoc
        /\ (job[c].then # "node" => doc'.status = "in_progress")
    BY <1>3, <2>1, NoDocAssumption DEF Current, At, Shaped, Job
  <2>3. job'[c].at = job[c].then
    BY <1>15, <2>1, RestType DEF Persist, Leave, Goto, ShapeInv, TypeOK, Job
  <2>4. job[c].then # "node" => Follows'
    BY <1>4, <2>1, <2>2 DEF Unsettled, Advances, Follows, Has, Active, Endings
  <2>. QED
    BY <1>1, <2>1, <2>3, <2>4, StraightMoves DEF Unsettled, Shaped
<1>16. ASSUME NEW c \in Callers, UpdateQuestNode(c) PROVE StraightInv'
  <2>1. /\ job[c] \in Job /\ Shaped(job[c]) /\ job[c].at = "node" /\ doc' = doc
        /\ node' = job[c].doc.status /\ \A d \in Callers : d # c => job'[d] = job[d]
    BY <1>16 DEF UpdateQuestNode, Leave, Goto, At, ShapeInv, TypeOK
  <2>2. doc # NoDoc /\ doc.status = node' /\ node' \in {"accepted"} \cup Endings
    BY <1>3, <2>1 DEF Current, Shaped
  <2>3. CASE node' \in Endings
    <3>1. job'[c].at = "resolve" /\ job'[c].doc = job[c].doc
      BY <1>16, <2>1, <2>3 DEF UpdateQuestNode, Goto, ShapeInv, TypeOK, Job
    <3>. QED
      BY <1>1, <2>1, <3>1, StraightMoves DEF Unsettled
  <2>4. CASE node' \notin Endings
    <3>1. job'[c].at = "idle"
      BY <1>16, <2>4, RestType DEF UpdateQuestNode, Leave, ShapeInv, TypeOK
    <3>2. Follows'
      BY <2>1, <2>2, <2>4 DEF Follows, Has, Active, Endings
    <3>. QED
      BY <1>1, <2>1, <3>1, <3>2, StraightMoves
  <2>. QED
    BY <2>3, <2>4
<1>17. ASSUME NEW c \in Callers, ResolveChain(c) PROVE StraightInv'
  <2>1. /\ Shaped(job[c]) /\ job[c].at = "resolve" /\ UNCHANGED <<doc, node>>
        /\ job'[c].at = "idle" /\ \A d \in Callers : d # c => job'[d] = job[d]
    BY <1>17, RestType DEF ResolveChain, Leave, At, ShapeInv, TypeOK
  <2>2. doc # NoDoc /\ doc.status = job[c].doc.status /\ node = doc.status /\ doc.status \in Endings
    BY <1>2, <1>3, <2>1 DEF Current, Shaped, At
  <2>3. successor'[doc.status] # "none"
    BY <1>17, <2>2 DEF ResolveChain, ShapeInv, TypeOK
  <2>4. Follows'
    BY <2>1, <2>2, <2>3 DEF Follows, Has, Active, Endings
  <2>. QED
    BY <1>1, <2>1, <2>4, StraightMoves
<1>18. ASSUME NEW c \in Callers, LookUp(c) \/ Transfer(c) PROVE StraightInv'
  <2>1. /\ job[c] \in Job /\ job[c].at \in Paying /\ UNCHANGED <<doc, node, successor>>
        /\ \A d \in Callers : d # c => job'[d] = job[d]
    BY <1>18 DEF LookUp, Transfer, Goto, At, Paying, ShapeInv, TypeOK
  <2>2. job'[c].at \in Paying
    BY <1>18, <2>1 DEF LookUp, Transfer, Goto, At, Paying, ShapeInv, TypeOK, Job
  <2>3. Follows'
    BY <1>4, <2>1 DEF Unsettled, Paying, Follows, Has
  <2>. QED
    BY <1>1, <2>1, <2>2, <2>3, StraightMoves DEF Paying
<1>19. ASSUME NEW c \in Callers, CommitRewards(c) PROVE StraightInv'
  <2>1. /\ job[c] \in Job /\ Shaped(job[c]) /\ job[c].at = "lookup" /\ doc' = job[c].doc
        /\ UNCHANGED <<node, successor>> /\ job'[c].at = "idle"
        /\ \A d \in Callers : d # c => job'[d] = job[d]
    BY <1>19, RestType DEF CommitRewards, Leave, At, ShapeInv, TypeOK
  <2>2. doc'.status = "completed" /\ Has({"completed"}) /\ doc' # NoDoc
    BY <1>3, <2>1, NoDocAssumption DEF Current, Shaped, Paying, Job
  <2>3. Follows'
    BY <1>4, <2>1, <2>2 DEF Unsettled, Follows, Has, Active, Endings
  <2>. QED
    BY <1>1, <2>1, <2>3, StraightMoves
<1>20. CASE UNCHANGED vars
  BY <1>2, <1>20 DEF vars, StraightInv, Follows, Has, At
<1>21. \A c \in Callers : ~Abandon(c)
  BY DEF Abandon
<1>. QED
  BY <1>5, <1>6, <1>8, <1>9, <1>10, <1>11, <1>12, <1>13, <1>14, <1>15, <1>16, <1>17, <1>18,
     <1>19, <1>20, <1>21 DEF Next

\* Settled: between calls that neither overlapped nor broke off, the Quest node
\* and the chain agree with the QuestState (they are written after it, each in
\* a query of its own).
THEOREM SettledBetweenCalls == Spec => []Settled
<1>1. Init => StraightInv
  <2>. SUFFICES ASSUME Init PROVE StraightInv
    OBVIOUS
  <2>1. doc = NoDoc /\ node = "draft" /\ \A c \in Callers : job[c] = Rest
    BY DEF Init
  <2>. QED
    BY <2>1, RestType DEF StraightInv, Follows, Has, At
<1>2. ShapeInv /\ ShapeInv' /\ SoloInv /\ StraightInv /\ [Next]_vars => StraightInv'
  <2>. SUFFICES ASSUME ShapeInv, ShapeInv', SoloInv, StraightInv, [Next]_vars,
                       overlap' = "none", ~abandoned'
                PROVE  StraightInv'
    BY DEF StraightInv
  <2>. QED
    BY StraightStep
<1>3. StraightInv => Settled
  BY DEF StraightInv, Settled, Follows, At, Unsettled
<1>. QED
  BY <1>1, <1>2, <1>3, SoloInvariant, PTL DEF Spec

-----------------------------------------------------------------------------
(* The lifecycle implements the promise.                                   *)

Unlocked == {e \in Endings : successor[e] # "none"}

LEMMA StageIs ==
    /\ doc = NoDoc => Stage = "none"
    /\ doc # NoDoc /\ doc.status \in Active => Stage = "active"
    /\ doc # NoDoc /\ doc.status \notin Active => Stage = doc.status
BY DEF Stage, Has

LEMMA StageWillBe ==
    /\ doc' = NoDoc => Stage' = "none"
    /\ doc' # NoDoc /\ doc'.status \in Active => Stage' = "active"
    /\ doc' # NoDoc /\ doc'.status \notin Active => Stage' = doc'.status
BY DEF Stage, Has

\* What the promise shows: the stage, the payments and the unlocked quests.
LEMMA Shows ==
    ASSUME UNCHANGED <<Stage, ledger, Unlocked>>
    PROVE  UNCHANGED Promise!promiseVars
BY DEF Promise!promiseVars, Unlocked

LEMMA Unseen ==
    ASSUME UNCHANGED <<doc, ledger, successor>>
    PROVE  UNCHANGED Promise!promiseVars
<1>1. UNCHANGED Stage
  BY StageIs, StageWillBe
<1>2. UNCHANGED <<ledger, Unlocked>>
  BY DEF Unlocked
<1>. QED
  BY <1>1, <1>2, Shows

\* A write of the document moves the quest along or leaves its stage alone.
LEMMA AdvanceMoves ==
    ASSUME doc # NoDoc, doc' # NoDoc, Advances(doc, doc'), UNCHANGED <<ledger, successor>>
    PROVE  Promise!Next \/ UNCHANGED Promise!promiseVars
<1>. USE DEF Endings, Active
<1>1. UNCHANGED <<ledger, Unlocked>>
  BY DEF Unlocked
<1>2. ASSUME NEW a, NEW b, Stage = a, Stage' = b PROVE Promise!Move(a, b)
  BY <1>1, <1>2 DEF Promise!Move, Unlocked
<1>3. CASE doc.status = "offered" /\ doc'.status \in {"accepted", "failed"}
  <2>1. Stage = "offered" /\ Stage' \in {"active", "failed"}
    BY <1>3, StageIs, StageWillBe
  <2>. QED
    BY <1>2, <2>1 DEF Promise!Next
<1>4. CASE doc.status \in Active /\ doc'.status \in Endings
  <2>1. Stage = "active" /\ Stage' \in {"completed", "failed"}
    BY <1>4, StageIs, StageWillBe
  <2>. QED
    BY <1>2, <2>1 DEF Promise!Next
<1>5. CASE \/ doc.status \in Active /\ doc'.status = "in_progress"
           \/ doc.status = "completed" /\ doc'.status = "completed"
  <2>1. UNCHANGED Stage
    BY <1>5, StageIs, StageWillBe
  <2>. QED
    BY <1>1, <2>1, Shows
<1>. QED
  BY <1>3, <1>4, <1>5 DEF Advances

\* The quest gets its document.
LEMMA OfferMoves ==
    ASSUME doc' = IF doc = NoDoc THEN Fresh ELSE doc, UNCHANGED <<ledger, successor>>
    PROVE  Promise!Next \/ UNCHANGED Promise!promiseVars
<1>1. CASE doc = NoDoc
  <2>1. doc' # NoDoc /\ doc'.status = "offered"
    BY <1>1, NoDocAssumption, FreshType DEF Fresh
  <2>2. Stage = "none" /\ Stage' = "offered" /\ UNCHANGED <<ledger, Unlocked>>
    BY <1>1, <2>1, StageIs, StageWillBe DEF Active, Unlocked
  <2>3. Promise!Move("none", "offered")
    BY <2>2 DEF Promise!Move, Unlocked
  <2>. QED
    BY <2>3 DEF Promise!Next
<1>2. CASE doc # NoDoc
  BY <1>2, Unseen
<1>. QED
  BY <1>1, <1>2

LEMMA PromiseStep ==
    ASSUME ShapeInv, PayInv, SoloInv, [Next]_vars, overlap' = "none"
    PROVE  Promise!Next \/ UNCHANGED Promise!promiseVars
<1>1. overlap = "none"
  BY OverlapGrows
<1>2. (\A c \in Callers : Current(c)) /\ (doc = NoDoc \/ ~doc.applied => Unpaid)
  BY <1>1 DEF SoloInv
<1>3. CASE OfferQuest
  BY <1>3, OfferMoves DEF OfferQuest
<1>4. ASSUME NEW e \in Endings, SuccessorAccepted(e) PROVE UNCHANGED Promise!promiseVars
  <2>1. UNCHANGED <<doc, ledger>>
    BY <1>4 DEF SuccessorAccepted
  <2>2. UNCHANGED <<Stage, Unlocked>>
    BY <1>4, <2>1, StageIs, StageWillBe DEF SuccessorAccepted, Unlocked, ShapeInv, TypeOK
  <2>. QED
    BY <2>1, <2>2, Shows
<1>5. ASSUME NEW c \in Callers, CreateOffered(c)
      PROVE  Promise!Next \/ UNCHANGED Promise!promiseVars
  BY <1>5, OfferMoves DEF CreateOffered
<1>6. ASSUME NEW c \in Callers, Persist(c)
      PROVE  Promise!Next \/ UNCHANGED Promise!promiseVars
  <2>1. job[c] \in Job /\ job[c].at = "persist" /\ doc' = job[c].doc
        /\ UNCHANGED <<ledger, successor>>
    BY <1>6 DEF Persist, At, ShapeInv, TypeOK
  <2>2. doc # NoDoc /\ doc' # NoDoc /\ Advances(doc, doc')
    BY <1>2, <2>1, NoDocAssumption DEF Current, At, Job
  <2>. QED
    BY <2>1, <2>2, AdvanceMoves
<1>7. ASSUME NEW c \in Callers, ResolveChain(c)
      PROVE  Promise!Next \/ UNCHANGED Promise!promiseVars
  <2>1. Shaped(job[c]) /\ job[c].at = "resolve" /\ UNCHANGED <<doc, ledger>>
    BY <1>7 DEF ResolveChain, At, ShapeInv, TypeOK
  <2>2. doc # NoDoc /\ doc.status = job[c].doc.status /\ doc.status \in Endings
    BY <1>2, <2>1 DEF Current, Shaped
  <2>3. Stage = doc.status /\ UNCHANGED Stage
    BY <2>1, <2>2, StageIs, StageWillBe DEF Active, Endings
  <2>4. Unlocked' = Unlocked \cup {Stage}
    BY <1>7, <2>2, <2>3 DEF ResolveChain, Unlocked, ShapeInv, TypeOK
  <2>5. Promise!Unlock
    BY <2>1, <2>2, <2>3, <2>4 DEF Promise!Unlock, Promise!Endings, Unlocked, Endings
  <2>. QED
    BY <2>5 DEF Promise!Next
<1>8. ASSUME NEW c \in Callers, CommitRewards(c) PROVE Promise!Next
  <2>1. /\ job[c] \in Job /\ Shaped(job[c]) /\ job[c].at = "lookup" /\ job[c].k > N
        /\ doc' = job[c].doc /\ UNCHANGED successor
    BY <1>8 DEF CommitRewards, At, ShapeInv, TypeOK
  <2>2. Has({"completed"}) /\ Unpaid
    BY <1>2, <2>1 DEF Current, Paying
  <2>3. doc' # NoDoc /\ doc'.status = "completed"
    BY <2>1, NoDocAssumption DEF Shaped, Paying, Job
  <2>4. Stage = "completed" /\ UNCHANGED <<Stage, Unlocked>>
    BY <2>1, <2>2, <2>3, StageIs, StageWillBe DEF Has, Active, Unlocked
\* Every transfer was written, for none had been paid before.
  <2>5. \A i \in Transfers : i \in job[c].written
    <3>1. \A i \in Transfers : i < job[c].k
      BY <2>1, QuestAssumption DEF Transfers, Job
    <3>2. \A i \in Transfers : ~(ledger[i] > 0)
      BY <2>2 DEF Unpaid
    <3>. QED
      BY <2>1, <3>1, <3>2 DEF PayInv, Transacting, Paying
  <2>6. ledger = [k \in Transfers |-> 0] /\ ledger' = [k \in Transfers |-> 1]
    BY <1>8, <2>2, <2>5 DEF CommitRewards, Unpaid, ShapeInv, TypeOK
  <2>7. Promise!Pay
    BY <2>4, <2>6 DEF Promise!Pay, Unlocked
  <2>. QED
    BY <2>7 DEF Promise!Next
<1>9. ASSUME NEW c \in Callers,
             \/ OfferDraft(c) \/ MarkOffered(c) \/ ClaimCompletion(c) \/ EvaluateClaim(c)
             \/ AcceptQuest(c) \/ FailQuest(c) \/ EvaluateCompletion(c)
             \/ \E o \in Objectives : \E delta \in Deltas : UpdateObjective(c, o, delta)
             \/ \E o \in Objectives : Raise(c, o)
             \/ UpdateQuestNode(c) \/ ApplyRewards(c) \/ LookUp(c) \/ Transfer(c) \/ Abandon(c)
      PROVE  UNCHANGED Promise!promiseVars
  <2>1. UNCHANGED <<doc, ledger, successor>>
    BY <1>9 DEF OfferDraft, MarkOffered, ClaimCompletion, EvaluateClaim, AcceptQuest, FailQuest,
                EvaluateCompletion, UpdateObjective, Raise, UpdateQuestNode, ApplyRewards,
                LookUp, Transfer, Abandon
  <2>. QED
    BY <2>1, Unseen
<1>10. CASE UNCHANGED vars
  BY <1>10, Unseen DEF vars
<1>. QED
  BY <1>3, <1>4, <1>5, <1>6, <1>7, <1>8, <1>9, <1>10 DEF Next

\* KeepsPromise: as long as calls do not overlap, and whatever breaks off, the
\* quest lifecycle implements QuestPromise (one ending, all payments together
\* and once, its own follow-up quest).
THEOREM LifecycleKeepsPromise == Spec => KeepsPromise
<1>1. Init => Promise!Init
  <2>. SUFFICES ASSUME Init PROVE Promise!Init
    OBVIOUS
  <2>1. Stage = "none" /\ ledger = [k \in Transfers |-> 0] /\ Unlocked = {}
    BY StageIs DEF Init, Unlocked
  <2>. QED
    BY <2>1 DEF Promise!Init, Unlocked
<1>2. ShapeInv /\ PayInv /\ SoloInv /\ [Next]_vars
        => [overlap' = "none" => Promise!Next]_Promise!promiseVars
  BY PromiseStep
<1>. QED
  BY <1>1, <1>2, SoloInvariant, PTL DEF Spec, KeepsPromise

=============================================================================
