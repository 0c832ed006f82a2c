------------------------- MODULE MCConversationIntents -------------------------
(***************************************************************************)
(* One NPC and one player, and a place in the queue for one intent: three  *)
(* passes of two workers over three ticks, each with something to say.     *)
(***************************************************************************)
EXTENDS ConversationIntents

=============================================================================
