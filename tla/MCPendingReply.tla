--------------------------- MODULE MCPendingReply ---------------------------
(* One reply, two workers: the instance of PendingReply for TLC. *)
EXTENDS PendingReply
=============================================================================
