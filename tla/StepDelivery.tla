---------------------------- MODULE StepDelivery ----------------------------
(***************************************************************************)
(* What the send path promises of a linear campaign, with no workers,      *)
(* tasks, leases or clocks: a ledger of what every contact was mailed.     *)
(* SequenceSend implements it (see SequenceDelivery).                      *)
(***************************************************************************)
EXTENDS Integers

CONSTANTS
    Enrollments,   \* one per (campaign, contact)
    NSteps         \* steps of the campaign

Steps == 1..NSteps

VARIABLES
    life,      \* "active", "completed" or "stopped"
    mailed,    \* messages of a step the contact got
    unknown,   \* of those, the ones the sender cannot know about
    acked,     \* steps recorded as sent
    gaveUp,    \* steps recorded as failed
    wiped      \* the thread's mailbox was deleted, and its record with it

vars == <<life, mailed, unknown, acked, gaveUp, wiped>>

Init ==
    /\ life = [e \in Enrollments |-> "active"]
    /\ mailed = [e \in Enrollments |-> [s \in Steps |-> 0]]
    /\ unknown = [e \in Enrollments |-> [s \in Steps |-> 0]]
    /\ acked = [e \in Enrollments |-> {}]
    /\ gaveUp = [e \in Enrollments |-> {}]
    /\ wiped = [e \in Enrollments |-> FALSE]

\* The step is behind the contact: it was mailed or it was given up.
Behind(e, s) == mailed[e][s] > 0 \/ s \in gaveUp[e]

\* A step goes out when every earlier one is behind the contact, and again only
\* when every earlier copy is one the sender cannot know of and none is on record.
\* The sender may or may not learn of this copy.
Deliver(e, s) ==
    /\ \A r \in 1..(s - 1) : Behind(e, r)
    /\ \/ wiped[e]
       \/ s \notin acked[e] \cup gaveUp[e] /\ mailed[e][s] = unknown[e][s]
    /\ mailed' = [mailed EXCEPT ![e][s] = @ + 1]
    /\ \E n \in {0, 1} : unknown' = [unknown EXCEPT ![e][s] = @ + n]
    /\ UNCHANGED <<life, acked, gaveUp, wiped>>

\* The news of a delivery dies with the sender.
Forget(e, s) ==
    /\ unknown[e][s] < mailed[e][s]
    /\ unknown' = [unknown EXCEPT ![e][s] = @ + 1]
    /\ UNCHANGED <<life, mailed, acked, gaveUp, wiped>>

\* The delivery is put on record.
Acknowledge(e, s) ==
    /\ unknown[e][s] < mailed[e][s]
    /\ acked' = [acked EXCEPT ![e] = @ \cup {s}]
    /\ UNCHANGED <<life, mailed, unknown, gaveUp, wiped>>

\* A step is given up in its turn, the last one together with the enrollment.
GiveUp(e, s) ==
    /\ \A r \in 1..(s - 1) : Behind(e, r)
    /\ wiped[e] \/ s \notin acked[e] \cup gaveUp[e]
    /\ gaveUp' = [gaveUp EXCEPT ![e] = @ \cup {s}]
    /\ \/ UNCHANGED life
       \/ s = NSteps /\ life[e] = "active" /\ life' = [life EXCEPT ![e] = "completed"]
    /\ UNCHANGED <<mailed, unknown, acked, wiped>>

\* The enrollment completes with every step behind it.
Complete(e) ==
    /\ life[e] = "active"
    /\ \A s \in Steps : Behind(e, s)
    /\ life' = [life EXCEPT ![e] = "completed"]
    /\ UNCHANGED <<mailed, unknown, acked, gaveUp, wiped>>

\* A reply, a bounce, an unsubscribe, a suppression, a lost mailbox.
Stop(e) ==
    /\ life[e] = "active"
    /\ life' = [life EXCEPT ![e] = "stopped"]
    /\ UNCHANGED <<mailed, unknown, acked, gaveUp, wiped>>

\* A mailbox is deleted: the record of the threads pinned to it goes with it.
Wipe(S) ==
    /\ wiped' = [e \in Enrollments |-> wiped[e] \/ e \in S]
    /\ UNCHANGED <<life, mailed, unknown, acked, gaveUp>>

Next ==
    \/ \E e \in Enrollments, s \in Steps :
         Deliver(e, s) \/ Forget(e, s) \/ Acknowledge(e, s) \/ GiveUp(e, s)
    \/ \E e \in Enrollments : Complete(e) \/ Stop(e)
    \/ \E S \in SUBSET Enrollments : Wipe(S)

Spec == Init /\ [][Next]_vars
=============================================================================
