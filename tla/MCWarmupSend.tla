---------------------------- MODULE MCWarmupSend ----------------------------
(* One mailbox's warmup day with two handlers and one receipt. *)
EXTENDS WarmupSend
=============================================================================
