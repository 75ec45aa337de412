-------------------------- MODULE SequenceDelivery --------------------------
(***************************************************************************)
(* SequenceSend implements StepDelivery.  The ledger of the abstract       *)
(* specification is read off the history the detailed one keeps: a copy is *)
(* unknown to the sender when its 'sent' UPDATE never committed or when    *)
(* the provider answered an error for it.                                  *)
(***************************************************************************)
EXTENDS SequenceSend

Unknown == [e \in Enrollments |-> [s \in Steps |-> lost[e][s] + hidden[e][s]]]

Ledger == INSTANCE StepDelivery WITH
    life <- status, mailed <- delivered, unknown <- Unknown,
    acked <- recorded, wiped <- reset

\* Racing tasks, crashes, expired leases, sweeps and moved cursors are invisible
\* from outside: every step of the send path is a step of the ledger or none.  So
\* steps go out in order, a step on record is never mailed again, a copy is sent
\* again only when every earlier one is unknown, and an enrollment ends once.
ImplementsStepDelivery == Ledger!Spec
=============================================================================
