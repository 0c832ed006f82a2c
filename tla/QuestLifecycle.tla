--------------------------- MODULE QuestLifecycle ---------------------------
(***************************************************************************)
(* One quest of one player, from the offer to its rewards.                 *)
(*                                                                         *)
(* The quest's QuestState is a document that every transition reads, then  *)
(* writes back whole (engines/quest/quest_lifecycle_engine.py).  The Quest *)
(* node's status and the follow-up quests are written after it, in queries *)
(* of their own.  Rewards are transfers in one transaction with a last     *)
(* write of the document (engines/quest/quest_reward_router.py,            *)
(* graph/repositories/quest_reward_repository.py).  Routes and dialogue    *)
(* call all of this concurrently; an action is one query, and what a call  *)
(* refuses changes nothing.                                                *)
(*                                                                         *)
(* Assumed of the store: queries see committed data only; every transfer   *)
(* writes at the player's node, and the transaction keeps that node locked *)
(* until it ends.                                                          *)
(***************************************************************************)
EXTENDS Integers

CONSTANTS
    Callers,       \* requests in progress
    Objectives,
    Target,        \* target_count of an objective
    Deltas,        \* progress_delta of POST /quest/objective
    MaxProgress,   \* bound on progress
    N,             \* how many transfers the rewards take
    NoDoc,         \* no QuestState
    Nobody         \* nobody's lock

Transfers == 1..N

ASSUME QuestAssumption ==
    /\ Target \in Nat \ {0} /\ Deltas \subseteq Int
    /\ MaxProgress \in Nat /\ N \in Nat
    /\ Nobody \notin Callers

VARIABLES
    doc,         \* the QuestState
    node,        \* status of the Quest node
    successor,   \* the follow-up quest of each ending
    ledger,      \* TRANSFERRED edges by key: 0, 1, or 2 for more
    lock,        \* whose transaction holds the player's node
    job,         \* what each caller is about to do
    overlap,     \* did calls overlap, were two of them paying rewards (history)
    abandoned    \* did a call end with an exception or a crash (history)

vars == <<doc, node, successor, ledger, lock, job, overlap, abandoned>>

Active   == {"accepted", "in_progress"}
Endings  == {"completed", "failed"}
Statuses == {"offered"} \cup Active \cup Endings

Document == [status   : Statuses,
             progress : [Objectives -> Nat],
             applied  : BOOLEAN]

ASSUME NoDocAssumption == NoDoc \notin Document

Fresh == [status |-> "offered", progress |-> [o \in Objectives |-> 0], applied |-> FALSE]

-----------------------------------------------------------------------------
\* at is the query a caller sends next, then the step after a persist; doc is
\* what it will write; todo the progress a claim has still to add; k and
\* written are the state of an open reward transaction.
Steps == {"idle", "draft", "offer", "raise", "persist", "node", "resolve",
          "lookup", "write"}

Paying == {"lookup", "write"}

Job == [at : Steps, then : Steps, doc : Document, todo : [Objectives -> Nat],
        k : 1..N+1, written : SUBSET Transfers]

Rest == [at |-> "idle", then |-> "idle", doc |-> Fresh,
         todo |-> [o \in Objectives |-> 0], k |-> 1, written |-> {}]

At(c, step) == job[c].at = step

Goto(c, step) == job' = [job EXCEPT ![c].at = step]

Leave(c) == job' = [job EXCEPT ![c] = Rest]

\* A call begins, next to those in progress.
Enter(c, first) ==
    /\ At(c, "idle")
    /\ job' = [job EXCEPT ![c] = first]
    /\ overlap' = IF \E d \in Callers : job[d].at \in Paying /\ first.at \in Paying
                  THEN "rewards"
                  ELSE IF overlap = "none" /\ \E d \in Callers : job[d].at # "idle"
                  THEN "some" ELSE overlap

Has(statuses) == doc # NoDoc /\ doc.status \in statuses

Persisting(new, next) == [Rest EXCEPT !.at = "persist", !.then = next, !.doc = new]

Init ==
    /\ doc = NoDoc
    /\ node = "draft"
    /\ successor = [e \in Endings |-> "none"]
    /\ ledger = [k \in Transfers |-> 0]
    /\ lock = Nobody
    /\ job = [c \in Callers |-> Rest]
    /\ overlap = "none"
    /\ abandoned = FALSE

-----------------------------------------------------------------------------
\* Offers: create if absent, in one transaction.
OfferQuest ==
    /\ doc = NoDoc
    /\ doc' = Fresh
    /\ UNCHANGED <<node, successor, ledger, lock, job, overlap, abandoned>>

OfferDraft(c) ==
    /\ node = "draft"
    /\ Enter(c, [Rest EXCEPT !.at = "draft"])
    /\ UNCHANGED <<doc, node, successor, ledger, lock, abandoned>>

MarkOffered(c) ==
    /\ At(c, "draft")
    /\ node' = "offered"
    /\ Goto(c, "offer")
    /\ UNCHANGED <<doc, successor, ledger, lock, overlap, abandoned>>

CreateOffered(c) ==
    /\ At(c, "offer")
    /\ doc' = IF doc = NoDoc THEN Fresh ELSE doc
    /\ Leave(c)
    /\ UNCHANGED <<node, successor, ledger, lock, overlap, abandoned>>

\* Transitions: what a call read, changed, and will write back.
AcceptQuest(c) ==
    /\ Has({"offered"})
    /\ Enter(c, Persisting([doc EXCEPT !.status = "accepted"], "node"))
    /\ UNCHANGED <<doc, node, successor, ledger, lock, abandoned>>

\* Mutant: progress may fall below zero.
ProgressedMutant(o, delta) ==
    [doc EXCEPT !.status = "in_progress", !.progress[o] = @ + delta]

Progressed(o, delta) ==
    [doc EXCEPT !.status = "in_progress",
                !.progress[o] = IF @ + delta > 0 THEN @ + delta ELSE 0]

UpdateObjective(c, o, delta) ==
    /\ Has(Active)
    /\ doc.progress[o] + delta <= MaxProgress
    /\ Enter(c, Persisting(Progressed(o, delta), "idle"))
    /\ UNCHANGED <<doc, node, successor, ledger, lock, abandoned>>

\* Mutant: a target is met one short of it.
EvaluatedMutant ==
    IF \A o \in Objectives : doc.progress[o] >= Target - 1
    THEN Persisting([doc EXCEPT !.status = "completed"], "node")
    ELSE Persisting([doc EXCEPT !.status = "in_progress"], "idle")

Evaluated ==
    IF \A o \in Objectives : doc.progress[o] >= Target
    THEN Persisting([doc EXCEPT !.status = "completed"], "node")
    ELSE Persisting([doc EXCEPT !.status = "in_progress"], "idle")

EvaluateCompletion(c) ==
    /\ Has(Active \cup {"completed"})
    /\ Enter(c, Evaluated)
    /\ UNCHANGED <<doc, node, successor, ledger, lock, abandoned>>

\* Mutant: any quest can be failed.
FailQuestMutant(c) ==
    /\ Has(Statuses)
    /\ Enter(c, Persisting([doc EXCEPT !.status = "failed"], "node"))
    /\ UNCHANGED <<doc, node, successor, ledger, lock, abandoned>>

FailQuest(c) ==
    /\ Has(Statuses \ Endings)
    /\ Enter(c, Persisting([doc EXCEPT !.status = "failed"], "node"))
    /\ UNCHANGED <<doc, node, successor, ledger, lock, abandoned>>

\* A claim whose objectives the graph has confirmed adds what the document
\* lacked when it was read, an exception in one update notwithstanding, and
\* evaluates.
ClaimCompletion(c) ==
    /\ Has(Active)
    /\ Enter(c, [Rest EXCEPT !.at = "raise",
                   !.todo = [o \in Objectives |-> IF doc.progress[o] < Target
                                                  THEN Target - doc.progress[o] ELSE 0]])
    /\ UNCHANGED <<doc, node, successor, ledger, lock, abandoned>>

Raise(c, o) ==
    LET delta == job[c].todo[o] IN
    /\ At(c, "raise") /\ delta > 0
    /\ \/ /\ Has(Active) /\ doc.progress[o] + delta <= MaxProgress
          /\ job' = [job EXCEPT ![c].at = "persist", ![c].then = "raise",
                                ![c].doc = Progressed(o, delta), ![c].todo[o] = 0]
       \/ job' = [job EXCEPT ![c].todo[o] = 0]
    /\ UNCHANGED <<doc, node, successor, ledger, lock, overlap, abandoned>>

EvaluateClaim(c) ==
    /\ At(c, "raise") /\ \A o \in Objectives : job[c].todo[o] = 0
    /\ Has(Active \cup {"completed"})
    /\ job' = [job EXCEPT ![c] = Evaluated]
    /\ UNCHANGED <<doc, node, successor, ledger, lock, overlap, abandoned>>

-----------------------------------------------------------------------------
\* Persist, then the Quest node's status, then the quests the ending unlocks.
Persist(c) ==
    /\ At(c, "persist")
    /\ doc' = job[c].doc
    /\ IF job[c].then = "idle" THEN Leave(c) ELSE Goto(c, job[c].then)
    /\ UNCHANGED <<node, successor, ledger, lock, overlap, abandoned>>

\* Mutant: completing a quest returns before its chain is resolved.
UpdateQuestNodeMutant(c) ==
    /\ At(c, "node")
    /\ node' = job[c].doc.status
    /\ Leave(c)
    /\ UNCHANGED <<doc, successor, ledger, lock, overlap, abandoned>>

UpdateQuestNode(c) ==
    /\ At(c, "node")
    /\ node' = job[c].doc.status
    /\ IF node' \in Endings THEN Goto(c, "resolve") ELSE Leave(c)
    /\ UNCHANGED <<doc, successor, ledger, lock, overlap, abandoned>>

\* A follow-up quest that was taken on already makes the call raise.
ResolveChain(c) ==
    LET ending == job[c].doc.status IN
    /\ At(c, "resolve")
    /\ successor' = [successor EXCEPT ![ending] = IF @ = "none" THEN "offered" ELSE @]
    /\ Leave(c)
    /\ UNCHANGED <<doc, node, ledger, lock, overlap, abandoned>>

SuccessorAccepted(ending) ==
    /\ successor[ending] = "offered"
    /\ successor' = [successor EXCEPT ![ending] = "taken"]
    /\ UNCHANGED <<doc, node, ledger, lock, job, overlap, abandoned>>

-----------------------------------------------------------------------------
\* Rewards: transfer by transfer, each looked up by its key first.  A source
\* that has not got what it should give ends the call (Abandon).
ApplyRewards(c) ==
    /\ Has({"completed"}) /\ ~doc.applied
    /\ Enter(c, [Rest EXCEPT !.at = "lookup", !.doc = [doc EXCEPT !.applied = TRUE]])
    /\ UNCHANGED <<doc, node, successor, ledger, lock, abandoned>>

\* Mutant: transfers are not looked up.
LookUpMutant(c) ==
    /\ At(c, "lookup") /\ job[c].k \in Transfers
    /\ Goto(c, "write")
    /\ UNCHANGED <<doc, node, successor, ledger, lock, overlap, abandoned>>

LookUp(c) ==
    /\ At(c, "lookup") /\ job[c].k \in Transfers
    /\ IF ledger[job[c].k] > 0
       THEN job' = [job EXCEPT ![c].k = @ + 1]
       ELSE Goto(c, "write")
    /\ UNCHANGED <<doc, node, successor, ledger, lock, overlap, abandoned>>

\* Mutant: every transfer in a transaction of its own.
TransferMutant(c) ==
    /\ At(c, "write") /\ lock \in {Nobody, c}
    /\ job' = [job EXCEPT ![c].at = "lookup", ![c].k = @ + 1]
    /\ ledger' = [ledger EXCEPT ![job[c].k] = IF @ < 2 THEN @ + 1 ELSE 2]
    /\ UNCHANGED <<doc, node, successor, lock, overlap, abandoned>>

Transfer(c) ==
    /\ At(c, "write") /\ lock \in {Nobody, c}
    /\ lock' = c
    /\ job' = [job EXCEPT ![c].at = "lookup", ![c].k = @ + 1,
                          ![c].written = @ \cup {job[c].k}]
    /\ UNCHANGED <<doc, node, successor, ledger, overlap, abandoned>>

Release(c) == lock' = IF lock = c THEN Nobody ELSE lock

CommitRewards(c) ==
    /\ At(c, "lookup") /\ job[c].k > N
    /\ doc' = job[c].doc
    /\ ledger' = [k \in Transfers |-> IF k \in job[c].written /\ ledger[k] < 2
                                      THEN ledger[k] + 1 ELSE ledger[k]]
    /\ Release(c)
    /\ Leave(c)
    /\ UNCHANGED <<node, successor, overlap, abandoned>>

\* An exception or a crash between two queries: the transaction is rolled back.
Abandon(c) ==
    /\ job[c].at # "idle"
    /\ Release(c)
    /\ Leave(c)
    /\ abandoned' = TRUE
    /\ UNCHANGED <<doc, node, successor, ledger, overlap>>

Next ==
    \/ OfferQuest
    \/ \E ending \in Endings : SuccessorAccepted(ending)
    \/ \E c \in Callers :
         \/ OfferDraft(c) \/ MarkOffered(c) \/ CreateOffered(c)
         \/ AcceptQuest(c) \/ EvaluateCompletion(c) \/ FailQuest(c)
         \/ \E o \in Objectives : \E delta \in Deltas : UpdateObjective(c, o, delta)
         \/ ClaimCompletion(c) \/ EvaluateClaim(c)
         \/ \E o \in Objectives : Raise(c, o)
         \/ Persist(c) \/ UpdateQuestNode(c) \/ ResolveChain(c)
         \/ ApplyRewards(c) \/ LookUp(c) \/ Transfer(c) \/ CommitRewards(c)
         \/ Abandon(c)

Spec == Init /\ [][Next]_vars

-----------------------------------------------------------------------------
TypeOK ==
    /\ doc \in Document \cup {NoDoc}
    /\ node \in {"draft", "offered", "accepted"} \cup Endings
    /\ successor \in [Endings -> {"none", "offered", "taken"}]
    /\ ledger \in [Transfers -> 0..2]
    /\ lock \in Callers \cup {Nobody}
    /\ job \in [Callers -> Job]
    /\ overlap \in {"none", "some", "rewards"}
    /\ abandoned \in BOOLEAN

\* However calls interleave and overwrite each other, the stored document is
\* one that makes sense: a completed quest has met its targets, and rewards
\* marked as applied are those of a completed quest and have all been paid.
DocumentSound ==
    doc # NoDoc =>
        /\ doc.status = "completed" => \A o \in Objectives : doc.progress[o] >= Target
        /\ doc.applied => doc.status = "completed" /\ \A k \in Transfers : ledger[k] > 0

\* Rewards are paid once as long as no two calls were paying at one time, even
\* when a late evaluation has put the document back to "not applied".
RewardsOnce == overlap # "rewards" => \A k \in Transfers : ledger[k] <= 1

\* Two calls that pay at one time can double the first transfer, never another:
\* the second caller waits for the lock, and then finds the other keys.
LaterTransfersOnce == \A k \in Transfers \ {1} : ledger[k] <= 1

\* When no call overlapped or broke off and none is in progress, the Quest node
\* follows the document and the ending's follow-up quest is there.
Settled ==
    overlap = "none" /\ ~abandoned /\ (\A c \in Callers : At(c, "idle")) =>
        /\ doc = NoDoc => node = "draft"
        /\ Has({"offered"}) => node \in {"draft", "offered"}
        /\ Has(Active) => node = "accepted"
        /\ Has(Endings) => node = doc.status /\ successor[doc.status] # "none"

\* What the player sees of the quest.
Stage == CASE doc = NoDoc -> "none"
           [] Has(Active) -> "active"
           [] OTHER       -> doc.status

Promise == INSTANCE QuestPromise WITH
    stage <- Stage, paid <- ledger,
    unlocked <- {e \in Endings : successor[e] # "none"}

\* As long as calls do not overlap, and whatever breaks off, the lifecycle
\* implements the promise.
KeepsPromise ==
    Promise!Init /\ [][overlap' = "none" => Promise!Next]_Promise!promiseVars

=============================================================================
