---------------------------- MODULE MCInboxPoll ----------------------------
(* Small instances of InboxPoll for TLC. *)
EXTENDS InboxPoll, TLC
CONSTANTS w1, w2
OldThenNew == <<"reply", "optout", "complaint">>
Rungs == <<1, 2>>
=============================================================================
