----------------------------- MODULE Idempotency -----------------------------
(***************************************************************************)
(* The Idempotency-Key guard in front of every authenticated mutating      *)
(* route (platform/httpx/idempotency.go) and its table (app/idempotency,   *)
(* queries/idempotency.sql).  One request is one pass through the guard; a *)
(* client's retry is another request with the same key.  The guarded       *)
(* handler is the composing module's business: it starts when rpc is "run" *)
(* and calls Finish with what it answered.                                 *)
(*                                                                         *)
(* A response is named by the request whose handler produced it.           *)
(***************************************************************************)
EXTENDS Integers

CONSTANTS
    Requests,    \* requests ever made
    Keys,        \* (workspace, Idempotency-Key) pairs
    Hashes,      \* idempotencyRequestHash of method, path and body
    None         \* NULL

VARIABLES
    \* idempotency_keys
    hash,        \* request_hash, None for no row
    resp,        \* "inflight", "uncacheable", or the request whose answer is stored
    fresh,       \* created_at is inside the 24 hours of the retention window
    \* the requests
    rpc,         \* control point in the guard
    rkey, rhash, \* what the client sent
    answer,      \* what the client was answered
    \* history
    window       \* requests that ran under a key since it was last free by age

guardVars == <<hash, resp, fresh, rpc, rkey, rhash, answer, window>>

Refusals == {"key_reuse", "in_flight", "uncacheable", "failed"}

GuardTypeOK ==
    /\ hash \in [Keys -> Hashes \cup {None}]
    /\ resp \in [Keys -> {"inflight", "uncacheable"} \cup Requests]
    /\ fresh \in [Keys -> BOOLEAN]
    /\ rpc \in [Requests -> {"idle", "lookup", "run", "record", "mark", "release", "over"}]
    /\ rkey \in [Requests -> Keys \cup {None}]
    /\ rhash \in [Requests -> Hashes \cup {None}]
    /\ answer \in [Requests -> Requests \cup Refusals \cup {None}]
    /\ window \in [Keys -> SUBSET Requests]

GuardInit ==
    /\ hash = [k \in Keys |-> None]
    /\ resp = [k \in Keys |-> "inflight"]
    /\ fresh = [k \in Keys |-> FALSE]
    /\ rpc = [r \in Requests |-> "idle"]
    /\ rkey = [r \in Requests |-> None]
    /\ rhash = [r \in Requests |-> None]
    /\ answer = [r \in Requests |-> None]
    /\ window = [k \in Keys |-> {}]

-----------------------------------------------------------------------------
\* Mutant: a row still in flight does not keep others out.
FreeInFlight(k) == hash[k] = None \/ ~fresh[k] \/ resp[k] = "inflight"

\* InsertIdempotencyKey inserts or reclaims: no row, or one past its window.
Free(k) == hash[k] = None \/ ~fresh[k]

\* TryInsert.  The winner goes on to the handler, the others to Get.
TryInsert(r, k, h) ==
    /\ rpc[r] = "idle"
    /\ rkey' = [rkey EXCEPT ![r] = k]
    /\ rhash' = [rhash EXCEPT ![r] = h]
    /\ rpc' = [rpc EXCEPT ![r] = IF Free(k) THEN "run" ELSE "lookup"]
    /\ IF Free(k)
       THEN /\ hash' = [hash EXCEPT ![k] = h]
            /\ resp' = [resp EXCEPT ![k] = "inflight"]
            /\ fresh' = [fresh EXCEPT ![k] = TRUE]
            /\ window' = [window EXCEPT ![k] = IF ~fresh[k] THEN {r} ELSE @ \cup {r}]
       ELSE UNCHANGED <<hash, resp, fresh, window>>
    /\ UNCHANGED answer

\* Mutant: the request hash is not compared.
ResolveAnyHash(k, h) ==
    IF hash[k] = None \/ ~fresh[k] THEN "failed"
    ELSE IF resp[k] = "inflight" THEN "in_flight"
    ELSE resp[k]

\* What the guard answers to a request that lost the insert, from the row it now
\* finds: gone, another body, in flight, too large to keep, or a replay.
Resolve(k, h) ==
    IF hash[k] = None \/ ~fresh[k] THEN "failed"
    ELSE IF hash[k] # h THEN "key_reuse"
    ELSE IF resp[k] = "inflight" THEN "in_flight"
    ELSE resp[k]

\* Get, some time after the insert was lost.
Lookup(r) ==
    /\ rpc[r] = "lookup"
    /\ answer' = [answer EXCEPT ![r] = Resolve(rkey[r], rhash[r])]
    /\ rpc' = [rpc EXCEPT ![r] = "over"]
    /\ UNCHANGED <<hash, resp, fresh, rkey, rhash, window>>

\* The handler has answered; the bytes are on their way to the client.  A server
\* error releases the key, a response over the cap is marked, any other is stored.
Finish(r, failed) ==
    /\ rpc[r] = "run"
    /\ answer' = [answer EXCEPT ![r] = IF failed THEN "failed" ELSE r]
    /\ \E p \in (IF failed THEN {"release"} ELSE {"record", "mark"}) :
         rpc' = [rpc EXCEPT ![r] = p]
    /\ UNCHANGED <<hash, resp, fresh, rkey, rhash, window>>

\* SetIdempotencyResponse, by key.
SetResponse(r) ==
    /\ rpc[r] \in {"record", "mark"}
    /\ resp' = [resp EXCEPT ![rkey[r]] = IF hash[rkey[r]] = None THEN @
                                         ELSE IF rpc[r] = "mark" THEN "uncacheable" ELSE r]
    /\ rpc' = [rpc EXCEPT ![r] = "over"]
    /\ UNCHANGED <<hash, fresh, rkey, rhash, answer, window>>

\* DeleteIdempotencyKey, by key.
Delete(r) ==
    /\ rpc[r] = "release"
    /\ hash' = [hash EXCEPT ![rkey[r]] = None]
    /\ resp' = [resp EXCEPT ![rkey[r]] = "inflight"]
    /\ rpc' = [rpc EXCEPT ![r] = "over"]
    /\ UNCHANGED <<fresh, rkey, rhash, answer, window>>

\* The client hangs up or the process dies: the request context is cancelled, and
\* with it every statement still to come.  The row stays as it is.
Interrupt(r) ==
    /\ rpc[r] \notin {"idle", "over"}
    /\ rpc' = [rpc EXCEPT ![r] = "over"]
    /\ UNCHANGED <<hash, resp, fresh, rkey, rhash, answer, window>>

\* PurgeExpiredIdempotencyKeys
Purge(k) ==
    /\ hash[k] # None /\ ~fresh[k]
    /\ hash' = [hash EXCEPT ![k] = None]
    /\ resp' = [resp EXCEPT ![k] = "inflight"]
    /\ UNCHANGED <<fresh, rpc, rkey, rhash, answer, window>>

\* The row is a day old.  That may be any moment for a request that lost the insert and
\* has not looked the row up yet; the one that won it is over long before.
Expire(k) ==
    /\ fresh[k]
    /\ \A r \in Requests : rkey[r] = k => rpc[r] \in {"idle", "lookup", "over"}
    /\ fresh' = [fresh EXCEPT ![k] = FALSE]
    /\ UNCHANGED <<hash, resp, rpc, rkey, rhash, answer, window>>

-----------------------------------------------------------------------------
(* Properties of any handler behind the guard                              *)

\* A replay answers the question that was asked, and inside its day: the stored response
\* a client gets was produced for the same key and the same body, by a run of the window
\* that is still open, although the row may age out, be purged, or be reclaimed by a
\* request with another body between the lost insert and the lookup.
ReplayIsFaithful ==
    [][\A r \in Requests :
         LET q == answer'[r]
         IN q # answer[r] /\ q \in Requests \ {r} =>
              /\ rkey[q] = rkey[r] /\ rhash[q] = rhash[r]
              /\ fresh[rkey[r]] /\ q \in window[rkey[r]]]_guardVars

\* Inside one retention window a key's handler runs a second time only after every
\* earlier run was answered with a server error.
RunsOncePerKey ==
    \A k \in Keys : \A q, r \in window[k] :
      (q # r /\ answer[q] # "failed") => answer[r] = "failed"
=============================================================================
