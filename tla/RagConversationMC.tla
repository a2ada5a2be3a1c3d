-------------------------- MODULE RagConversationMC --------------------------
(* Symmetries of RagConversation for TLC, for safety properties only. *)
EXTENDS RagConversation, TLC

Symmetry == Permutations(Requests) \cup Permutations(Conversations)
            \cup Permutations(Users)
=============================================================================
