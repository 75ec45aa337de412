---------------------------- MODULE MCComposeSend ----------------------------
(* Small instances of ComposeSend for TLC. *)
EXTENDS ComposeSend, TLC

CONSTANTS q1, q2, k1, h1, h2, ann

\* One key: q2 repeats q1's request, or sends another one under its key.
SameKey == {<<q1, k1, h1>>, <<q2, k1, h1>>, <<q2, k1, h2>>}

\* One address in To and again in Cc: two entries, two messages to the same recipient.
Once   == <<ann>>
Nobody == <<>>
=============================================================================
