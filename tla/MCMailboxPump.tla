--------------------------- MODULE MCMailboxPump ---------------------------
(* Instances of MailboxPump for TLC.                                       *)
EXTENDS MailboxPump
=============================================================================
