-------------------------- MODULE MCTickScheduler --------------------------
(***************************************************************************)
(* The scheduler for TLC: gossip at every tick, events at every other one. *)
(***************************************************************************)
EXTENDS TickScheduler, TLC

CONSTANTS gossip, event

MCTicks == 1..MaxTick

GossipOnly == <<gossip>>

GossipThenEvent == <<gossip, event>>

EveryTick == [e \in Engines |-> 1]

EventsEveryOther == [e \in Engines |-> IF e = gossip THEN 1 ELSE 2]

Symmetry == Permutations(Workers)

=============================================================================
