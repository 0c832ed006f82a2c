---------------------------- MODULE QuestPromise ----------------------------
(***************************************************************************)
(* What a quest promises one player: it is offered, taken on, then         *)
(* completed or failed for good; all payments of a completed quest are     *)
(* made together and once; an ending opens its own follow-up quest only.   *)
(***************************************************************************)
EXTENDS Naturals

CONSTANT Transfers      \* the payments a completed quest makes

VARIABLES stage, paid, unlocked

promiseVars == <<stage, paid, unlocked>>

Endings == {"completed", "failed"}

Init ==
    /\ stage = "none"
    /\ paid = [k \in Transfers |-> 0]
    /\ unlocked = {}

Move(from, to) ==
    /\ stage = from
    /\ stage' = to
    /\ UNCHANGED <<paid, unlocked>>

Pay ==
    /\ stage = "completed"
    /\ paid = [k \in Transfers |-> 0]
    /\ paid' = [k \in Transfers |-> 1]
    /\ UNCHANGED <<stage, unlocked>>

Unlock ==
    /\ stage \in Endings
    /\ unlocked' = unlocked \cup {stage}
    /\ UNCHANGED <<stage, paid>>

Next ==
    \/ Move("none", "offered")
    \/ Move("offered", "active")
    \/ Move("active", "completed")
    \/ Move("offered", "failed")
    \/ Move("active", "failed")
    \/ Pay
    \/ Unlock

Spec == Init /\ [][Next]_promiseVars

=============================================================================
