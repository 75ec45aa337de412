-------------------------------- MODULE Outbox --------------------------------
(***************************************************************************)
(* What a row promises that is both the record of a message and the claim  *)
(* to send it, with no workers, leases, tasks or sweeps: a ledger of what  *)
(* became of every item and of what the recipient got.  PendingReply and   *)
(* WarmupSend implement it.                                                *)
(***************************************************************************)
EXTENDS Integers

CONSTANT Items

VARIABLES
    fate,      \* "draft", "waiting", "sent", "undone" or "abandoned"
    mailed,    \* messages the recipient got for an item
    unknown    \* of those, the ones the row never learned of

vars == <<fate, mailed, unknown>>

Init ==
    /\ fate = [i \in Items |-> "draft"]
    /\ mailed = [i \in Items |-> 0]
    /\ unknown = [i \in Items |-> 0]

\* No delivery the sender may still learn of.
NoneKnown(i) == mailed[i] = unknown[i]

Accept(i) ==
    /\ fate[i] = "draft"
    /\ fate' = [fate EXCEPT ![i] = "waiting"]
    /\ UNCHANGED <<mailed, unknown>>

\* An item goes out, and again only when every earlier copy is unknown.  One that was
\* given up may already be on its way; one that was sent or undone never goes out.
Deliver(i) ==
    /\ fate[i] \in {"waiting", "abandoned"}
    /\ NoneKnown(i)
    /\ mailed' = [mailed EXCEPT ![i] = @ + 1]
    /\ \E n \in {0, 1} : unknown' = [unknown EXCEPT ![i] = @ + n]
    /\ UNCHANGED fate

\* The news of a delivery dies with the sender.
Forget(i) ==
    /\ ~NoneKnown(i)
    /\ unknown' = [unknown EXCEPT ![i] = @ + 1]
    /\ UNCHANGED <<fate, mailed>>

\* An item is recorded as sent on the strength of a delivery.
Record(i) ==
    /\ fate[i] = "waiting"
    /\ ~NoneKnown(i)
    /\ fate' = [fate EXCEPT ![i] = "sent"]
    /\ UNCHANGED <<mailed, unknown>>

\* An item is taken back, but never while a delivery is known to have happened.
Undo(i) ==
    /\ fate[i] = "waiting"
    /\ NoneKnown(i)
    /\ fate' = [fate EXCEPT ![i] = "undone"]
    /\ UNCHANGED <<mailed, unknown>>

GiveUp(i) ==
    /\ fate[i] = "waiting"
    /\ fate' = [fate EXCEPT ![i] = "abandoned"]
    /\ UNCHANGED <<mailed, unknown>>

Next ==
    \E i \in Items :
        \/ Accept(i) \/ Deliver(i) \/ Forget(i)
        \/ Record(i) \/ Undo(i) \/ GiveUp(i)

Spec == Init /\ [][Next]_vars
=============================================================================
