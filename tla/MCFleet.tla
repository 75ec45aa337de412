------------------------------ MODULE MCFleet ------------------------------
(* A small fleet for TLC. *)
EXTENDS Fleet

MCProviderOf == [m \in Mailboxes |-> "smtp"]
=============================================================================
