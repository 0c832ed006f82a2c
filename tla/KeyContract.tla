---------------------------- MODULE KeyContract ----------------------------
(***************************************************************************)
(* What an idempotency key promises a client, with no store, no clock and  *)
(* no interleaving: the table of answers of docs/API.md ("Replaying the    *)
(* same key with the same payload returns the original stored response;    *)
(* reusing it with a different payload is a conflict").                    *)
(*                                                                         *)
(* A slot is run by one request at a time.  Until it is forgotten it       *)
(* answers every other request with the state of that one run, according   *)
(* to what that request has asked for.                                     *)
(***************************************************************************)
CONSTANTS Requests, Slots, Payloads, Nobody, Free, NoQuestion

VARIABLES
    question,   \* slot and payload of each request that carries a key
    ledger,     \* for each slot: Free, or whose run it holds and whether it ended
    reply       \* what each request was answered

Question == [slot : Slots, payload : Payloads]

Entry == [payload : Payloads, by : Requests, finished : BOOLEAN]

NoReply == [kind |-> "none", from |-> Nobody]

Init ==
    /\ question = [r \in Requests |-> NoQuestion]
    /\ ledger = [s \in Slots |-> Free]
    /\ reply = [r \in Requests |-> NoReply]

Answer(r, kind, from) ==
    /\ reply[r] = NoReply
    /\ reply' = [reply EXCEPT ![r] = [kind |-> kind, from |-> from]]

\* Requests that carry no key, and requests refused before the key is looked at.
WithoutKey(r) ==
    /\ question[r] = NoQuestion
    /\ Answer(r, "fresh", r) \/ Answer(r, "refused", Nobody)
    /\ UNCHANGED <<question, ledger>>

Ask(r, q) ==
    /\ question[r] = NoQuestion /\ reply[r] = NoReply
    /\ question' = [question EXCEPT ![r] = q]
    /\ UNCHANGED <<ledger, reply>>

Begin(r) ==
    LET s == question[r].slot IN
    /\ question[r] # NoQuestion /\ reply[r] = NoReply
    /\ ledger[s] = Free
    /\ ledger' = [ledger EXCEPT ![s] = [payload  |-> question[r].payload,
                                        by       |-> r,
                                        finished |-> FALSE]]
    /\ UNCHANGED <<question, reply>>

\* Only the run that holds the slot ends it, once.
Finish(r, s) ==
    /\ ledger[s] # Free
    /\ ledger[s].by = r
    /\ ~ledger[s].finished
    /\ ledger' = [ledger EXCEPT ![s].finished = TRUE]
    /\ Answer(r, "fresh", r)
    /\ UNCHANGED question

\* Another payload conflicts whether or not the run has ended.
AnswerFrom(r) ==
    LET s == question[r].slot
        same == ledger[s].payload = question[r].payload IN
    /\ question[r] # NoQuestion
    /\ ledger[s] # Free
    /\ \/ ~same /\ Answer(r, "conflict", Nobody)
       \/ same /\ ledger[s].finished /\ Answer(r, "replay", ledger[s].by)
       \/ same /\ ~ledger[s].finished /\ Answer(r, "in_flight", Nobody)
    /\ UNCHANGED <<question, ledger>>

\* A finished run is forgotten after its retention, never a running one.
Forget(S) ==
    /\ \A s \in S : ledger[s] # Free /\ ledger[s].finished
    /\ ledger' = [s \in Slots |-> IF s \in S THEN Free ELSE ledger[s]]
    /\ UNCHANGED <<question, reply>>

Next ==
    \/ \E r \in Requests :
         \/ WithoutKey(r)
         \/ \E q \in Question : Ask(r, q)
         \/ Begin(r)
         \/ AnswerFrom(r)
         \/ \E s \in Slots : Finish(r, s)
    \/ \E S \in SUBSET Slots : Forget(S)

Spec == Init /\ [][Next]_<<question, ledger, reply>>

=============================================================================
