--------------------------- MODULE MCConversation ---------------------------
(***************************************************************************)
(* Conversation with the code's own MIN_RECENT_MESSAGES and                *)
(* COMPACT_THRESHOLD.  With messages of one token, MCConversation's window *)
(* is outgrown by eight messages; with messages of two, by seven or fewer. *)
(***************************************************************************)
EXTENDS Conversation

MCCosts == {0, 1}
MCSizes == {1, 2}
=============================================================================
