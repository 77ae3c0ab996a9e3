--------------------------- MODULE MCConversations ---------------------------
(* Three turns or deletions, two conversations of a project's chat and one   *)
(* of an agent, one crash.                                                   *)
EXTENDS Conversations, TLC

Symmetry == Permutations(Requests) \cup Permutations(ChatConvs)
=============================================================================
