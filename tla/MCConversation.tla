--------------------------- MODULE MCConversation ---------------------------
(* Instances of Conversation for TLC.                                      *)
EXTENDS Conversation

CONSTANTS e1, e2, l1, n1
=============================================================================
