-------------------------- MODULE ComposeSendProofs --------------------------
(***************************************************************************)
(* The safety of composed emails for every number of requests, keys and    *)
(* workers, and for every To, Cc and Bcc: what the Idempotency-Key guard   *)
(* promises to a client that retries, and what the at-least-once worker    *)
(* promises to the recipients of a row.                                    *)
(*                                                                         *)
(* The two halves are independent.  The guard's invariant (GuardInv) says  *)
(* that a running request owns its key's row; the worker's (WorkerInv)     *)
(* says that a live execution owns its row for as long as its timeout      *)
(* runs, and accounts every copy to the execution that put it on the wire. *)
(***************************************************************************)
EXTENDS ComposeSend, FiniteSetTheorems, TLAPS

\* The assumption without its sequences, which only EntriesAreAddresses needs.
LEMMA Numbers ==
    /\ Timeout \in Nat /\ Lease \in Nat /\ Timeout < Lease
    /\ LeaseGrace \in Nat /\ MaxDelay \in Nat
    /\ MaxTasks \in Nat \ {0} /\ MaxFaults \in Nat /\ MaxChurn \in Nat
    /\ Asks \subseteq Requests \X Keys \X Hashes
    /\ None \notin Requests \cup Keys \cup Hashes
    /\ (Requests \cup {None}) \cap {"inflight", "uncacheable", "key_reuse", "in_flight",
                                     "failed"} = {}
BY ComposeSendAssumption

-----------------------------------------------------------------------------
(* The guard                                                               *)

Owning == {"run", "record", "mark", "release"}

\* A request past TryInsert has sent a key and a body, and one that has not looked the
\* row up or run the handler has no answer.
Asked ==
    \A r \in Requests :
      /\ rpc[r] # "idle" => rkey[r] \in Keys /\ rhash[r] \in Hashes
      /\ rpc[r] \in {"idle", "lookup", "run"} => answer[r] = None
      /\ rpc[r] = "release" => answer[r] = "failed"

\* A request between its insert and its last statement owns the row: it is fresh, in
\* flight and carries the request's hash; nobody else owns it, and of all who ran in this
\* window, the request among them, the others were answered with a server error.
Owned ==
    \A r \in Requests :
      rpc[r] \in Owning =>
        /\ hash[rkey[r]] = rhash[r]
        /\ resp[rkey[r]] = "inflight"
        /\ fresh[rkey[r]]
        /\ r \in window[rkey[r]]
        /\ \A q \in Requests :
             q # r /\ rkey[q] = rkey[r] => rpc[q] \notin Owning
        /\ \A q \in window[rkey[r]] : q # r => answer[q] = "failed"

\* A stored response belongs to a request that was made with the row's key and hash, and
\* that ran in the window the row is in.
Stored ==
    \A k \in Keys :
      resp[k] \in Requests =>
        /\ rpc[resp[k]] # "idle"
        /\ rkey[resp[k]] = k
        /\ rhash[resp[k]] = hash[k]
        /\ resp[k] \in window[k]

\* A run that did not fail keeps its key's row for the rest of the window.
Held ==
    \A k \in Keys : \A q \in window[k] :
      /\ rkey[q] = k
      /\ rpc[q] \notin {"idle", "lookup"}
      /\ fresh[k] /\ answer[q] # "failed" => hash[k] # None

GuardInv ==
    /\ Guard!GuardTypeOK /\ Asked /\ Owned /\ Stored /\ Held /\ RunsOncePerKey

-----------------------------------------------------------------------------
(* The worker                                                              *)

\* A live execution has claimed its row, the row says so, and the lease outlives it.
Claims ==
    \A w \in Workers :
      IF pc[w] = "idle" THEN at[w] = 1 /\ ~out[w]
      ELSE /\ job[w] \in Requests
           /\ row[job[w]] = "sending"
           /\ lease[job[w]] > LeaseGrace + ttl[w]
           /\ pc[w] \in {"check", "fail"} => at[w] = 1 /\ ~out[w]

\* There is one execution per row.
OneClaim ==
    \A v, w \in Workers :
      pc[v] # "idle" /\ pc[w] # "idle" /\ job[v] = job[w] => v = w

\* A row exists once the handler has created it.
Uncreated == \A r \in Requests : hpc[r] # "enqueue" => row[r] = "none"

\* No copy of the current attempt is on the wire.
Unmailed(r) ==
    /\ row[r] # "sent"
    /\ \A w \in Workers : pc[w] # "idle" /\ job[w] = r => ~out[w]

\* What the attempts that were not recorded may have sent an address, at most.
Wasted(r, a) == Listed(a) * redo[r]

\* Every copy is accounted to an attempt that was not recorded, to the one that was, or
\* to the one that runs.
Copies ==
    \A r \in Requests, a \in Addresses :
      /\ copies[r][a] <= Wasted(r, a) + Listed(a)
      /\ Unmailed(r) => copies[r][a] <= Wasted(r, a)

\* How often an address stands before entry n of the list.
Ahead(n, a) == Cardinality({x \in 1..(n - 1) : allRecipients[x] = a})

\* An execution mails the entries in order: each address has a copy of this attempt for
\* every entry before its position that names it, and no other.
Turn ==
    \A w \in Workers, a \in Addresses :
      /\ pc[w] = "send" =>
           /\ Ahead(at[w], a) <= copies[job[w]][a]
           /\ copies[job[w]][a] <= Wasted(job[w], a) + Ahead(at[w], a)
      /\ pc[w] = "mark" => Listed(a) <= copies[job[w]][a]

WorkerInv ==
    TypeOK /\ Uncreated /\ Claims /\ OneClaim /\ Copies /\ Turn /\ SentMeansEveryone

-----------------------------------------------------------------------------
(* The guard's invariant                                                   *)

\* What a step may do to the guard's variables.
GuardMove ==
    \/ \E r \in Requests, k \in Keys, h \in Hashes : Guard!TryInsert(r, k, h)
    \/ \E r \in Requests : Guard!Lookup(r)
    \/ \E r \in Requests, f \in BOOLEAN : Guard!Finish(r, f)
    \/ \E r \in Requests : Guard!SetResponse(r)
    \/ \E r \in Requests : Guard!Delete(r)
    \/ \E r \in Requests : Guard!Interrupt(r)
    \/ \E k \in Keys : Guard!Expire(k)
    \/ \E k \in Keys : Guard!Purge(k)

\* The guard's variables change through the guard's own operations only, whatever the
\* handler and the workers do.
LEMMA GuardMoves == Next => GuardMove \/ UNCHANGED guardVars
<1> SUFFICES ASSUME Next PROVE GuardMove \/ UNCHANGED guardVars
  OBVIOUS
<1>1. ASSUME NEW r \in Requests, Guarded(r) PROVE GuardMove
  BY <1>1 DEF Guarded, GuardMove
<1>2. ASSUME NEW r \in Requests, Handle(r) PROVE GuardMove \/ UNCHANGED guardVars
  <2>1. ASSUME NEW f \in BOOLEAN, Answer(r, f) PROVE GuardMove
    BY <2>1 DEF Answer, GuardMove
  <2>2. CASE CheckRecipients(r)
    BY <2>1, <2>2 DEF CheckRecipients, OrFault, Proceed
  <2>3. CASE CreatePendingCompose(r)
    BY <2>1, <2>3 DEF CreatePendingCompose, OrFault, Proceed
  <2>4. CASE EnqueuePendingInboxCompose(r)
    BY <2>1, <2>4 DEF EnqueuePendingInboxCompose, OrFault
  <2> QED BY <1>2, <2>2, <2>3, <2>4 DEF Handle
<1>3. ASSUME NEW w \in Workers, NEW r \in Requests, Take(w, r) PROVE UNCHANGED guardVars
  BY <1>3 DEF Take, ClaimPendingCompose, NotClaimable, workerFrame
<1>4. ASSUME NEW w \in Workers, Work(w) \/ Abort(w) PROVE UNCHANGED guardVars
  BY <1>4 DEF Work, Abort, CheckSuppression, Send, MarkPendingComposeSent,
     ReleasePendingCompose, FailPendingCompose, workerFrame
<1>5. ASSUME NEW k \in Keys, ExpireKey(k) \/ PurgeKey(k) PROVE GuardMove
  BY <1>5 DEF ExpireKey, PurgeKey, GuardMove
<1>6. ASSUME NEW r \in Requests, CancelPendingCompose(r) \/ Sweep(r)
      PROVE UNCHANGED guardVars
  BY <1>6 DEF CancelPendingCompose, Sweep
<1>7. Suppress \/ Tick => UNCHANGED guardVars
  BY DEF Suppress, Tick
<1> QED BY <1>1, <1>2, <1>3, <1>4, <1>5, <1>6, <1>7 DEF Next

\* The key of a request that is past TryInsert is a key.
LEMMA GuardTyped == GuardInv /\ GuardMove => Guard!GuardTypeOK'
<1> SUFFICES ASSUME GuardInv, GuardMove PROVE Guard!GuardTypeOK'
  OBVIOUS
<1> USE Numbers DEF GuardInv, Asked, Guard!GuardTypeOK, Guard!Refusals
<1>1. ASSUME NEW r \in Requests, NEW k \in Keys, NEW h \in Hashes, Guard!TryInsert(r, k, h)
      PROVE Guard!GuardTypeOK'
  <2>1. /\ rkey' \in [Requests -> Keys \cup {None}]
        /\ rhash' \in [Requests -> Hashes \cup {None}]
        /\ rpc' \in [Requests -> {"idle", "lookup", "run", "record", "mark", "release", "over"}]
        /\ answer' = answer
    BY <1>1 DEF Guard!TryInsert
  <2>2. CASE Guard!Free(k)
    <3>1. /\ hash' = [hash EXCEPT ![k] = h]
          /\ resp' = [resp EXCEPT ![k] = "inflight"]
          /\ fresh' = [fresh EXCEPT ![k] = TRUE]
      BY <1>1, <2>2 DEF Guard!TryInsert
    <3>4. /\ hash' \in [Keys -> Hashes \cup {None}]
          /\ resp' \in [Keys -> {"inflight", "uncacheable"} \cup Requests]
      BY <3>1
    <3>5. fresh' \in [Keys -> BOOLEAN]
      BY <3>1
    <3>2. /\ {r} \in SUBSET Requests
          /\ window[k] \cup {r} \in SUBSET Requests
      OBVIOUS
    <3>3. window' \in [Keys -> SUBSET Requests]
      BY <1>1, <2>2, <3>2 DEF Guard!TryInsert
    <3> QED BY <2>1, <3>3, <3>4, <3>5
  <2>3. CASE ~Guard!Free(k)
    BY <1>1, <2>1, <2>3 DEF Guard!TryInsert
  <2> QED BY <2>2, <2>3
<1>2. ASSUME NEW r \in Requests, Guard!Lookup(r) PROVE Guard!GuardTypeOK'
  <2>1. Guard!Resolve(rkey[r], rhash[r]) \in Requests \cup Guard!Refusals
    BY <1>2 DEF Guard!Lookup, Guard!Resolve
  <2>2. answer' \in [Requests -> Requests \cup Guard!Refusals \cup {None}]
    BY <1>2, <2>1 DEF Guard!Lookup
  <2>3. rpc' \in [Requests -> {"idle", "lookup", "run", "record", "mark", "release", "over"}]
    BY <1>2 DEF Guard!Lookup
  <2> QED BY <1>2, <2>2, <2>3 DEF Guard!Lookup
<1>3. ASSUME NEW r \in Requests, NEW f \in BOOLEAN, Guard!Finish(r, f) PROVE Guard!GuardTypeOK'
  BY <1>3 DEF Guard!Finish
<1>4. ASSUME NEW r \in Requests, Guard!SetResponse(r) PROVE Guard!GuardTypeOK'
  BY <1>4 DEF Guard!SetResponse
<1>5. ASSUME NEW r \in Requests, Guard!Delete(r) PROVE Guard!GuardTypeOK'
  BY <1>5 DEF Guard!Delete
<1>6. ASSUME NEW r \in Requests, Guard!Interrupt(r) PROVE Guard!GuardTypeOK'
  BY <1>6 DEF Guard!Interrupt
<1>7. ASSUME NEW k \in Keys, Guard!Expire(k) PROVE Guard!GuardTypeOK'
  BY <1>7 DEF Guard!Expire
<1>8. ASSUME NEW k \in Keys, Guard!Purge(k) PROVE Guard!GuardTypeOK'
  BY <1>8 DEF Guard!Purge
<1> QED BY <1>1, <1>2, <1>3, <1>4, <1>5, <1>6, <1>7, <1>8 DEF GuardMove

\* TryInsert: the winner becomes the owner of a row nobody owned, and everyone who ran
\* in the window it joins was answered with a server error.
LEMMA GuardInserts ==
    ASSUME GuardInv, NEW r \in Requests, NEW k \in Keys, NEW h \in Hashes,
           Guard!TryInsert(r, k, h), Guard!GuardTypeOK'
    PROVE  GuardInv'
<1> USE Numbers
<1>0. /\ rpc[r] = "idle" /\ answer[r] = None /\ answer' = answer
      /\ rpc'[r] = (IF Guard!Free(k) THEN "run" ELSE "lookup")
      /\ rkey'[r] = k /\ rhash'[r] = h
      /\ \A q \in Requests : q # r =>
           rpc'[q] = rpc[q] /\ rkey'[q] = rkey[q] /\ rhash'[q] = rhash[q]
  BY DEF Guard!TryInsert, GuardInv, Asked, Guard!GuardTypeOK
<1>1. /\ \A j \in Keys : j # k => /\ hash'[j] = hash[j] /\ resp'[j] = resp[j]
                                  /\ fresh'[j] = fresh[j] /\ window'[j] = window[j]
      /\ ~Guard!Free(k) => /\ hash'[k] = hash[k] /\ resp'[k] = resp[k]
                           /\ fresh'[k] = fresh[k] /\ window'[k] = window[k]
      /\ Guard!Free(k) => /\ hash'[k] = h /\ resp'[k] = "inflight" /\ fresh'[k]
                          /\ window'[k] = IF ~fresh[k] THEN {r} ELSE window[k] \cup {r}
  BY DEF Guard!TryInsert, GuardInv, Guard!GuardTypeOK
<1>2. Asked'
  BY <1>0 DEF Asked, GuardInv
\* Nobody owns a key that is free: an owner's row is fresh and has a hash.
<1>3. Guard!Free(k) => \A q \in Requests : rkey[q] = k => rpc[q] \notin Owning
  BY DEF Guard!Free, GuardInv, Owned, Asked, Owning
<1>4. Guard!Free(k) => \A q \in window'[k] : q = r \/ answer[q] = "failed"
  BY <1>1 DEF Guard!Free, GuardInv, Held
<1>5. /\ \A j \in Keys : r \notin window[j]
      /\ \A j \in Keys : window[j] \subseteq Requests
      /\ \A j \in Keys : resp[j] # r
  BY <1>0 DEF GuardInv, Held, Stored, Guard!GuardTypeOK
<1>6. Owned'
  <2> SUFFICES ASSUME NEW p \in Requests, rpc'[p] \in Owning
               PROVE  /\ hash'[rkey'[p]] = rhash'[p]
                      /\ resp'[rkey'[p]] = "inflight"
                      /\ fresh'[rkey'[p]]
                      /\ p \in window'[rkey'[p]]
                      /\ \A q \in Requests :
                           q # p /\ rkey'[q] = rkey'[p] => rpc'[q] \notin Owning
                      /\ \A q \in window'[rkey'[p]] : q # p => answer'[q] = "failed"
    BY DEF Owned
  <2>1. CASE p = r
    BY <2>1, <1>0, <1>1, <1>3, <1>4 DEF Owning
  <2>2. CASE p # r
    <3>1. rpc[p] \in Owning /\ rkey'[p] = rkey[p] /\ rhash'[p] = rhash[p] /\ rkey[p] \in Keys
      BY <2>2, <1>0 DEF GuardInv, Asked, Owning
    <3>2. rkey[p] = k => ~Guard!Free(k)
      BY <3>1, <1>3
    <3>3. /\ hash'[rkey[p]] = hash[rkey[p]] /\ resp'[rkey[p]] = resp[rkey[p]]
          /\ fresh'[rkey[p]] = fresh[rkey[p]] /\ window'[rkey[p]] = window[rkey[p]]
      BY <3>1, <3>2, <1>1
    <3>4. rkey[p] = k => rpc'[r] = "lookup"
      BY <3>2, <1>0
    <3>5. /\ hash[rkey[p]] = rhash[p] /\ resp[rkey[p]] = "inflight" /\ fresh[rkey[p]]
          /\ p \in window[rkey[p]]
          /\ \A q \in Requests : q # p /\ rkey[q] = rkey[p] => rpc[q] \notin Owning
          /\ \A q \in window[rkey[p]] : q # p => answer[q] = "failed"
      BY <3>1 DEF GuardInv, Owned
    <3>6. ASSUME NEW q \in Requests, q # p, rkey'[q] = rkey[p] PROVE rpc'[q] \notin Owning
      BY <3>4, <3>5, <3>6, <1>0 DEF Owning
    <3> QED BY <3>1, <3>3, <3>5, <3>6, <1>0
  <2> QED BY <2>1, <2>2
<1>7. Stored'
  <2> SUFFICES ASSUME NEW j \in Keys, resp'[j] \in Requests
               PROVE  /\ rpc'[resp'[j]] # "idle"
                      /\ rkey'[resp'[j]] = j
                      /\ rhash'[resp'[j]] = hash'[j]
                      /\ resp'[j] \in window'[j]
    BY DEF Stored
  <2>1. resp'[j] = resp[j] /\ hash'[j] = hash[j] /\ window'[j] = window[j]
    BY <1>1
  <2>2. resp[j] # r
    BY <1>5
  <2> QED BY <2>1, <2>2, <1>0 DEF GuardInv, Stored
<1>8. Held'
  <2> SUFFICES ASSUME NEW j \in Keys, NEW q \in window'[j]
               PROVE  /\ rkey'[q] = j
                      /\ rpc'[q] \notin {"idle", "lookup"}
                      /\ fresh'[j] /\ answer'[q] # "failed" => hash'[j] # None
    BY DEF Held
  <2>1. CASE q = r
    <3>1. j = k /\ Guard!Free(k)
      BY <2>1, <1>1, <1>5
    <3> QED BY <2>1, <3>1, <1>0, <1>1
  <2>2. CASE q # r
    <3>1. q \in window[j] /\ q \in Requests
      BY <2>2, <1>1, <1>5
    <3>2. /\ rkey[q] = j /\ rpc[q] \notin {"idle", "lookup"}
          /\ fresh[j] /\ answer[q] # "failed" => hash[j] # None
      BY <3>1 DEF GuardInv, Held
    <3>3. hash'[j] # None \/ (hash'[j] = hash[j] /\ fresh'[j] = fresh[j])
      BY <1>1
    <3> QED BY <2>2, <3>1, <3>2, <3>3, <1>0
  <2> QED BY <2>1, <2>2
<1>9. RunsOncePerKey'
  <2> SUFFICES ASSUME NEW j \in Keys, NEW p \in window'[j], NEW q \in window'[j], p # q,
                      answer[p] # "failed"
               PROVE  answer[q] = "failed"
    BY <1>0 DEF RunsOncePerKey, Guard!RunsOncePerKey
  <2>1. CASE window'[j] = window[j]
    BY <2>1 DEF GuardInv, RunsOncePerKey, Guard!RunsOncePerKey
  <2>2. CASE window'[j] # window[j]
    BY <2>2, <1>1, <1>4
  <2> QED BY <2>1, <2>2
<1> QED BY <1>2, <1>6, <1>7, <1>8, <1>9 DEF GuardInv

\* The answers: a loser's comes from the row it finds, an owner's from its handler.
LEMMA GuardAnswers ==
    ASSUME GuardInv, Guard!GuardTypeOK',
           \/ \E r \in Requests : Guard!Lookup(r)
           \/ \E r \in Requests, f \in BOOLEAN : Guard!Finish(r, f)
    PROVE  GuardInv'
<1> USE Numbers
<1>1. PICK r \in Requests : Guard!Lookup(r) \/ \E f \in BOOLEAN : Guard!Finish(r, f)
  OBVIOUS
<1>2. /\ rpc[r] \in {"lookup", "run"} /\ rpc'[r] \notin {"idle", "lookup", "run"}
      /\ rpc'[r] \in Owning => rpc[r] = "run"
      /\ rkey[r] \in Keys /\ rhash[r] \in Hashes
      /\ answer[r] = None
      /\ \A q \in Requests : q # r => rpc'[q] = rpc[q] /\ answer'[q] = answer[q]
      /\ hash' = hash /\ resp' = resp /\ fresh' = fresh /\ rkey' = rkey /\ rhash' = rhash
      /\ window' = window
  BY <1>1 DEF Guard!Lookup, Guard!Finish, GuardInv, Asked, Guard!GuardTypeOK, Owning
<1>3. rpc'[r] = "release" => answer'[r] = "failed"
  BY <1>1 DEF Guard!Lookup, Guard!Finish, GuardInv, Guard!GuardTypeOK
<1>4. Asked'
  BY <1>2, <1>3 DEF GuardInv, Asked
<1>5. Owned'
  <2> SUFFICES ASSUME NEW p \in Requests, rpc'[p] \in Owning
               PROVE  /\ hash[rkey[p]] = rhash[p]
                      /\ resp[rkey[p]] = "inflight"
                      /\ fresh[rkey[p]]
                      /\ p \in window[rkey[p]]
                      /\ \A q \in Requests :
                           q # p /\ rkey[q] = rkey[p] => rpc'[q] \notin Owning
                      /\ \A q \in window[rkey[p]] : q # p => answer'[q] = "failed"
    BY <1>2 DEF Owned
  <2>1. rpc[p] \in Owning
    BY <1>2 DEF Owning
  <2>2. /\ hash[rkey[p]] = rhash[p] /\ resp[rkey[p]] = "inflight" /\ fresh[rkey[p]]
        /\ \A q \in Requests : q # p /\ rkey[q] = rkey[p] => rpc[q] \notin Owning
        /\ p \in window[rkey[p]]
        /\ \A q \in window[rkey[p]] : q # p => answer[q] = "failed"
        /\ rkey[p] \in Keys
    BY <2>1 DEF GuardInv, Owned, Asked, Owning
  <2>3. ASSUME NEW q \in Requests, q # p, rkey[q] = rkey[p] PROVE rpc'[q] \notin Owning
    BY <2>2, <2>3, <1>2 DEF Owning
  <2>4. ASSUME NEW q \in window[rkey[p]], q # p PROVE answer'[q] = "failed"
    <3>1. q \in Requests /\ rkey[q] = rkey[p] /\ rpc[q] # "lookup" /\ answer[q] = "failed"
      BY <2>2, <2>4 DEF GuardInv, Held, Guard!GuardTypeOK
    <3>2. q # r
      BY <3>1, <2>2, <2>4, <1>2 DEF Owning
    <3> QED BY <3>1, <3>2, <1>2
  <2> QED BY <2>2, <2>3, <2>4
<1>6. Stored'
  BY <1>2 DEF GuardInv, Stored
<1>7. Held'
  <2> SUFFICES ASSUME NEW j \in Keys, NEW q \in window[j]
               PROVE  /\ rkey[q] = j
                      /\ rpc'[q] \notin {"idle", "lookup"}
                      /\ fresh[j] /\ answer'[q] # "failed" => hash[j] # None
    BY <1>2 DEF Held
  <2>1. /\ q \in Requests /\ rkey[q] = j /\ rpc[q] \notin {"idle", "lookup"}
        /\ fresh[j] /\ answer[q] # "failed" => hash[j] # None
    BY DEF GuardInv, Held, Guard!GuardTypeOK
  <2>2. CASE q = r
    BY <2>1, <2>2, <1>2
  <2>3. CASE q # r
    BY <2>1, <2>3, <1>2
  <2> QED BY <2>2, <2>3
<1>8. RunsOncePerKey'
  <2> SUFFICES ASSUME NEW j \in Keys, NEW p \in window[j], NEW q \in window[j], p # q,
                      answer'[p] # "failed"
               PROVE  answer'[q] = "failed"
    BY <1>2 DEF RunsOncePerKey, Guard!RunsOncePerKey
  <2>0. /\ p \in Requests /\ q \in Requests /\ rkey[p] = j /\ rkey[q] = j
        /\ rpc[p] # "lookup" /\ rpc[q] # "lookup"
        /\ answer[p] # "failed" => answer[q] = "failed"
        /\ answer[q] # "failed" => answer[p] = "failed"
    BY DEF GuardInv, Held, Guard!GuardTypeOK, RunsOncePerKey, Guard!RunsOncePerKey
  <2>1. CASE p # r /\ q # r
    BY <2>0, <2>1, <1>2
  <2>2. CASE p = r \/ q = r
    BY <2>0, <2>2, <1>2
  <2> QED BY <2>1, <2>2
<1> QED BY <1>4, <1>5, <1>6, <1>7, <1>8 DEF GuardInv

\* The owner's last statement: the row keeps its answer, or is given up after a failure.
LEMMA GuardSettles ==
    ASSUME GuardInv, Guard!GuardTypeOK',
           \E r \in Requests : Guard!SetResponse(r) \/ Guard!Delete(r) \/ Guard!Interrupt(r)
    PROVE  GuardInv'
<1> USE Numbers
<1>1. PICK r \in Requests : Guard!SetResponse(r) \/ Guard!Delete(r) \/ Guard!Interrupt(r)
  OBVIOUS
<1> DEFINE k == rkey[r]
<1>2. /\ rpc[r] # "idle" /\ rpc'[r] = "over"
      /\ k \in Keys
      /\ \A q \in Requests : q # r => rpc'[q] = rpc[q]
      /\ fresh' = fresh /\ rkey' = rkey /\ rhash' = rhash /\ answer' = answer
      /\ window' = window
      /\ \A j \in Keys : j # k => hash'[j] = hash[j] /\ resp'[j] = resp[j]
  BY <1>1 DEF Guard!SetResponse, Guard!Delete, Guard!Interrupt, GuardInv, Asked,
     Guard!GuardTypeOK
<1>3. \/ hash' = hash /\ resp' = resp
      \/ /\ rpc[r] \in Owning /\ hash' = hash
         /\ resp'[k] \in {"uncacheable", r}
      \/ /\ rpc[r] \in Owning /\ rpc[r] = "release" /\ hash'[k] = None
         /\ resp'[k] = "inflight"
  <2>1. CASE Guard!SetResponse(r)
    <3>1. rpc[r] \in Owning /\ hash[k] # None
      BY <2>1, <1>2 DEF Guard!SetResponse, GuardInv, Owned, Owning, Asked
    <3> QED BY <2>1, <3>1, <1>2 DEF Guard!SetResponse, GuardInv, Guard!GuardTypeOK
  <2>2. CASE Guard!Delete(r)
    BY <2>2, <1>2 DEF Guard!Delete, GuardInv, Guard!GuardTypeOK, Owning
  <2>3. CASE Guard!Interrupt(r)
    BY <2>3 DEF Guard!Interrupt
  <2> QED BY <1>1, <2>1, <2>2, <2>3
<1>4. Asked'
  BY <1>2 DEF GuardInv, Asked
<1>5. Owned'
  <2> SUFFICES ASSUME NEW p \in Requests, rpc'[p] \in Owning
               PROVE  /\ hash'[rkey[p]] = rhash[p]
                      /\ resp'[rkey[p]] = "inflight"
                      /\ fresh[rkey[p]]
                      /\ p \in window[rkey[p]]
                      /\ \A q \in Requests :
                           q # p /\ rkey[q] = rkey[p] => rpc'[q] \notin Owning
                      /\ \A q \in window[rkey[p]] : q # p => answer[q] = "failed"
    BY <1>2 DEF Owned
  <2>1. p # r /\ rpc[p] \in Owning /\ rkey[p] \in Keys
    BY <1>2 DEF Owning, GuardInv, Asked
  <2>2. /\ hash[rkey[p]] = rhash[p] /\ resp[rkey[p]] = "inflight" /\ fresh[rkey[p]]
        /\ \A q \in Requests : q # p /\ rkey[q] = rkey[p] => rpc[q] \notin Owning
        /\ p \in window[rkey[p]]
        /\ \A q \in window[rkey[p]] : q # p => answer[q] = "failed"
    BY <2>1 DEF GuardInv, Owned
  <2>3. hash'[rkey[p]] = hash[rkey[p]] /\ resp'[rkey[p]] = resp[rkey[p]]
    BY <2>1, <2>2, <1>2, <1>3
  <2>4. ASSUME NEW q \in Requests, q # p, rkey[q] = rkey[p] PROVE rpc'[q] \notin Owning
    BY <2>2, <2>4, <1>2 DEF Owning
  <2> QED BY <2>2, <2>3, <2>4
<1>6. Stored'
  <2> SUFFICES ASSUME NEW j \in Keys, resp'[j] \in Requests
               PROVE  /\ rpc'[resp'[j]] # "idle"
                      /\ rkey[resp'[j]] = j
                      /\ rhash[resp'[j]] = hash'[j]
                      /\ resp'[j] \in window[j]
    BY <1>2 DEF Stored
  <2>1. CASE resp'[j] = resp[j] /\ hash'[j] = hash[j]
    <3>1. /\ rpc[resp[j]] # "idle" /\ rkey[resp[j]] = j /\ rhash[resp[j]] = hash[j]
          /\ resp[j] \in window[j]
      BY <2>1 DEF GuardInv, Stored
    <3> QED BY <2>1, <3>1, <1>2
  <2>2. CASE ~(resp'[j] = resp[j] /\ hash'[j] = hash[j])
    <3>1. j = k
      BY <2>2, <1>2
    <3>2. resp'[k] = r /\ hash' = hash /\ rpc[r] \in Owning
      BY <2>2, <3>1, <1>3
    <3> QED BY <3>1, <3>2, <1>2 DEF GuardInv, Owned
  <2> QED BY <2>1, <2>2
<1>7. Held'
  <2> SUFFICES ASSUME NEW j \in Keys, NEW q \in window[j]
               PROVE  /\ rkey[q] = j
                      /\ rpc'[q] \notin {"idle", "lookup"}
                      /\ fresh[j] /\ answer[q] # "failed" => hash'[j] # None
    BY <1>2 DEF Held
  <2>1. /\ q \in Requests /\ rkey[q] = j /\ rpc[q] \notin {"idle", "lookup"}
        /\ fresh[j] /\ answer[q] # "failed" => hash[j] # None
    BY DEF GuardInv, Held, Guard!GuardTypeOK
  <2>2. CASE hash'[j] = hash[j]
    BY <2>1, <2>2, <1>2
  <2>3. CASE hash'[j] # hash[j]
    <3>1. j = k /\ rpc[r] \in Owning /\ rpc[r] = "release"
      BY <2>3, <1>2, <1>3
    <3>2. answer[q] = "failed"
      BY <3>1, <2>1 DEF GuardInv, Owned, Asked
    <3> QED BY <2>1, <3>2, <1>2
  <2> QED BY <2>2, <2>3
<1>8. RunsOncePerKey'
  BY <1>2 DEF GuardInv, RunsOncePerKey, Guard!RunsOncePerKey
<1> QED BY <1>4, <1>5, <1>6, <1>7, <1>8 DEF GuardInv

\* A day passes for a key whose owner is over, and an old row is dropped; a request may
\* be about to look it up.
LEMMA GuardAges ==
    ASSUME GuardInv, Guard!GuardTypeOK',
           \E k \in Keys : Guard!Expire(k) \/ Guard!Purge(k)
    PROVE  GuardInv'
<1> USE Numbers
<1>1. PICK k \in Keys : Guard!Expire(k) \/ Guard!Purge(k)
  OBVIOUS
<1>2. /\ rpc' = rpc /\ rkey' = rkey /\ rhash' = rhash /\ answer' = answer /\ window' = window
      /\ \A j \in Keys : j # k =>
           hash'[j] = hash[j] /\ resp'[j] = resp[j] /\ fresh'[j] = fresh[j]
      /\ ~fresh'[k]
      /\ (hash'[k] = hash[k] /\ resp'[k] = resp[k]) \/ resp'[k] = "inflight"
  BY <1>1 DEF Guard!Expire, Guard!Purge, GuardInv, Guard!GuardTypeOK
<1>3. \A r \in Requests : rkey[r] = k => rpc[r] \notin Owning
  BY <1>1 DEF Guard!Expire, Guard!Purge, GuardInv, Owned, Owning
<1>4. Asked' /\ RunsOncePerKey'
  BY <1>2 DEF GuardInv, Asked, RunsOncePerKey, Guard!RunsOncePerKey
<1>5. Owned'
  <2>1. \A p \in Requests : rpc[p] \in Owning => rkey[p] \in Keys /\ rkey[p] # k
    BY <1>3 DEF GuardInv, Asked, Owning
  <2> QED BY <2>1, <1>2 DEF GuardInv, Owned
<1>6. Stored'
  BY <1>2 DEF GuardInv, Stored
<1>7. Held'
  BY <1>2 DEF GuardInv, Held
<1> QED BY <1>4, <1>5, <1>6, <1>7 DEF GuardInv

\* The guard's invariant is inductive.
LEMMA GuardInductive == Spec => []GuardInv
<1>1. Init => GuardInv
  BY Numbers DEF Init, Guard!GuardInit, GuardInv, Guard!GuardTypeOK, Asked,
     Owned, Owning, Stored, Held, RunsOncePerKey, Guard!RunsOncePerKey,
     Guard!Refusals
<1>2. GuardInv /\ [Next]_vars => GuardInv'
  <2> SUFFICES ASSUME GuardInv, [Next]_vars PROVE GuardInv'
    OBVIOUS
  <2>1. CASE GuardMove
    <3>1. Guard!GuardTypeOK'
      BY <2>1, GuardTyped
    <3> QED BY <2>1, <3>1, GuardInserts, GuardAnswers, GuardSettles, GuardAges DEF GuardMove
  <2>2. CASE UNCHANGED guardVars
    BY <2>2 DEF guardVars, GuardInv, Guard!GuardTypeOK, Asked, Owned, Stored, Held,
       RunsOncePerKey, Guard!RunsOncePerKey
  <2> QED BY <2>1, <2>2, GuardMoves DEF vars
<1> QED BY <1>1, <1>2, PTL DEF Spec

\* Only the lookup gives a request another one's answer, and it takes it from a row that
\* is fresh and has the request's hash.
LEMMA ReplayStep ==
    ASSUME GuardInv, GuardMove, NEW r \in Requests,
           answer'[r] # answer[r], answer'[r] \in Requests \ {r}
    PROVE  /\ rkey[answer'[r]] = rkey[r] /\ rhash[answer'[r]] = rhash[r]
           /\ fresh[rkey[r]] /\ answer'[r] \in window[rkey[r]]
<1> USE DEF GuardInv, Guard!GuardTypeOK
<1>1. PICK q \in Requests : Guard!Lookup(q) \/ \E f \in BOOLEAN : Guard!Finish(q, f)
  BY DEF GuardMove, Guard!TryInsert, Guard!SetResponse, Guard!Delete, Guard!Interrupt,
     Guard!Expire, Guard!Purge
<1>2. q = r /\ Guard!Lookup(r)
  BY <1>1, Numbers DEF Guard!Lookup, Guard!Finish
<1>3. answer'[r] = Guard!Resolve(rkey[r], rhash[r]) /\ rkey[r] \in Keys
  BY <1>2 DEF Guard!Lookup, Asked
<1>4. /\ answer'[r] = resp[rkey[r]]
      /\ fresh[rkey[r]] /\ hash[rkey[r]] = rhash[r]
  BY <1>3, Numbers DEF Guard!Resolve
<1> QED BY <1>3, <1>4 DEF Stored

\* A response replayed to a client was produced for the key and the request the client
\* sent, by a run of the window that is open at the replay, for any number of requests,
\* keys and bodies, and whenever the row ages out, is purged or is reclaimed between the
\* lost insert and the lookup.
THEOREM ReplaysAreFaithful == Spec => ReplayIsFaithful
<1>1. GuardInv /\ [Next]_vars =>
        [\A r \in Requests :
           LET q == answer'[r]
           IN q # answer[r] /\ q \in Requests \ {r} =>
                /\ rkey[q] = rkey[r] /\ rhash[q] = rhash[r]
                /\ fresh[rkey[r]] /\ q \in window[rkey[r]]]_guardVars
  BY ReplayStep, GuardMoves DEF vars
<1> QED BY <1>1, GuardInductive, PTL DEF Spec, ReplayIsFaithful, Guard!ReplayIsFaithful,
    guardVars, Guard!guardVars

\* A key's handler runs again inside one retention window only after every earlier run
\* was answered with a server error.
THEOREM HandlersRunOncePerKey == Spec => []RunsOncePerKey
<1>1. GuardInv => RunsOncePerKey
  BY DEF GuardInv
<1> QED BY <1>1, GuardInductive, PTL

-----------------------------------------------------------------------------
(* The worker's invariant                                                  *)

Live(w) == pc[w] # "idle"

\* A claim: the row was free, and now it is w's.
Claimed(w, r) ==
    /\ pc[w] = "idle"
    /\ Claimable(r)
    /\ row' = [row EXCEPT ![r] = "sending"]
    /\ lease' = [lease EXCEPT ![r] = Lease + LeaseGrace]
    /\ copies' = copies /\ redo' = redo /\ at' = at /\ out' = out
    /\ \/ /\ pc' = [pc EXCEPT ![w] = "check"]
          /\ job' = [job EXCEPT ![w] = r]
          /\ ttl' = [ttl EXCEPT ![w] = Timeout]
       \/ pc' = pc /\ job' = job /\ ttl' = ttl

\* A live execution moves on without mailing anybody.
Moved(w) ==
    /\ pc[w] \in {"check", "send"}
    /\ \/ pc[w] = "check" /\ \E p \in {"send", "fail"} : pc' = [pc EXCEPT ![w] = p]
       \/ pc' = [pc EXCEPT ![w] = "release"]
    /\ row' = row /\ lease' = lease /\ copies' = copies /\ redo' = redo
    /\ job' = job /\ at' = at /\ ttl' = ttl /\ out' = out

\* One message is handed to the transport.
Mailed(w) ==
    /\ pc[w] = "send"
    /\ copies' = [copies EXCEPT ![job[w]][allRecipients[at[w]]] = @ + 1]
    /\ out' = [out EXCEPT ![w] = TRUE]
    /\ \/ at[w] = Len(allRecipients) /\ pc' = [pc EXCEPT ![w] = "mark"] /\ at' = at
       \/ at[w] # Len(allRecipients) /\ at' = [at EXCEPT ![w] = @ + 1] /\ pc' = pc
       \/ pc' = [pc EXCEPT ![w] = "release"] /\ at' = at
    /\ row' = row /\ lease' = lease /\ redo' = redo /\ job' = job /\ ttl' = ttl

\* An execution ends: it says 'sent', or its mail is counted as unrecorded, or it had
\* mailed nobody.  Its row is given up or left as it is.
Ended(w) ==
    /\ Live(w)
    /\ Return(w)
    /\ copies' = copies
    /\ \/ /\ pc[w] = "mark" /\ redo' = redo
          /\ row' = [row EXCEPT ![job[w]] = "sent"] /\ lease' = lease
       \/ /\ Unrecorded(w) \/ (pc[w] = "fail" /\ redo' = redo)
          /\ \/ row' = row /\ lease' = lease
             \/ \E s \in {"scheduled", "failed"} : 
                  /\ row' = [row EXCEPT ![job[w]] = s]
                  /\ lease' = [lease EXCEPT ![job[w]] = 0]

\* A request or an operator changes a row no execution has.
RowTouched ==
    /\ \E r \in Requests, s \in {"scheduled", "cancelled"} :
         /\ row[r] \in {"none", "scheduled"}
         /\ row' = [row EXCEPT ![r] = s]
    /\ lease' = lease /\ UNCHANGED <<workerVars, mailVars>>

Ticked ==
    /\ \A w \in Workers : Live(w) => ttl[w] > 0
    /\ lease' = [r \in Requests |-> Countdown(lease[r])]
    /\ ttl' = [w \in Workers |-> Countdown(ttl[w])]
    /\ row' = row /\ pc' = pc /\ job' = job /\ at' = at /\ out' = out
    /\ copies' = copies /\ redo' = redo

Undisturbed == UNCHANGED <<row, lease, workerVars, mailVars>>

\* What a step may do to the rows, the executions and the mail.
WorkerMove ==
    \/ \E w \in Workers, r \in Requests : Claimed(w, r)
    \/ \E w \in Workers : Moved(w) \/ Mailed(w) \/ Ended(w)
    \/ RowTouched \/ Ticked \/ Undisturbed

LEMMA WorkerMoves == WorkerInv /\ [Next]_vars => WorkerMove
<1> SUFFICES ASSUME WorkerInv, [Next]_vars PROVE WorkerMove
  OBVIOUS
<1>1. ASSUME NEW r \in Requests, Guarded(r) PROVE Undisturbed
  BY <1>1 DEF Guarded, requestFrame, rowVars, workerVars, mailVars, Undisturbed
<1>2. ASSUME NEW r \in Requests, Handle(r) PROVE RowTouched \/ Undisturbed
  <2>1. CASE CheckRecipients(r)
    BY <2>1 DEF CheckRecipients, requestFrame, rowVars, workerVars, mailVars, Undisturbed
  <2>2. CASE CreatePendingCompose(r)
    <3>1. row[r] = "none" /\ UNCHANGED <<lease, workerVars, mailVars>>
      BY <2>2 DEF CreatePendingCompose, WorkerInv, Uncreated
    <3>2. row' = [row EXCEPT ![r] = "scheduled"] \/ row' = row
      BY <2>2 DEF CreatePendingCompose, OrFault
    <3> QED BY <3>1, <3>2 DEF RowTouched, Undisturbed
  <2>3. CASE EnqueuePendingInboxCompose(r)
    BY <2>3 DEF EnqueuePendingInboxCompose, rowVars, workerVars, mailVars, Undisturbed
  <2> QED BY <1>2, <2>1, <2>2, <2>3 DEF Handle
<1>3. ASSUME NEW r \in Requests, CancelPendingCompose(r) PROVE RowTouched
  BY <1>3 DEF CancelPendingCompose, RowTouched
<1>4. ASSUME NEW r \in Requests, Sweep(r) PROVE Undisturbed
  BY <1>4 DEF Sweep, rowVars, workerVars, mailVars, Undisturbed
<1>5. ASSUME NEW w \in Workers, NEW r \in Requests, Take(w, r)
      PROVE Claimed(w, r) \/ Undisturbed
  <2>1. CASE ClaimPendingCompose(w, r)
    BY <2>1 DEF ClaimPendingCompose, Claimed, OrFault, workerVars, mailVars
  <2>2. CASE NotClaimable(w, r)
    BY <2>2 DEF NotClaimable, workerVars, mailVars, Undisturbed
  <2> QED BY <1>5, <2>1, <2>2 DEF Take
<1>6. ASSUME NEW w \in Workers, Work(w) \/ Abort(w)
      PROVE Moved(w) \/ Mailed(w) \/ Ended(w)
  <2>0. pc[w] # "idle" => job[w] \in Requests /\ row[job[w]] = "sending"
    BY DEF WorkerInv, Claims
  <2>1. CASE CheckSuppression(w)
    <3>1. \E p \in {"send", "fail", "release"} : pc' = [pc EXCEPT ![w] = p]
      BY <2>1 DEF CheckSuppression, OrFault, Goto
    <3> QED BY <2>1, <3>1 DEF CheckSuppression, Moved, mailVars
  <2>2. CASE Send(w)
    BY <2>2 DEF Send, Mailed, Moved, Goto, OrFault
  <2>3. CASE MarkPendingComposeSent(w)
    BY <2>0, <2>3 DEF MarkPendingComposeSent, Ended, OrFault, Live
  <2>4. CASE ReleasePendingCompose(w)
    BY <2>0, <2>4 DEF ReleasePendingCompose, Ended, OrFault, TaskFails, Live
  <2>5. CASE FailPendingCompose(w)
    BY <2>0, <2>5 DEF FailPendingCompose, Ended, OrFault, Live, Open, mailVars
  <2>6. CASE Abort(w)
    BY <2>0, <2>6 DEF Abort, Ended, TaskFails, Live
  <2> QED BY <1>6, <2>1, <2>2, <2>3, <2>4, <2>5, <2>6 DEF Work
<1>7. ASSUME NEW k \in Keys, ExpireKey(k) \/ PurgeKey(k) PROVE Undisturbed
  BY <1>7 DEF ExpireKey, PurgeKey, rowVars, workerVars, mailVars, Undisturbed
<1>8. Suppress => Undisturbed
  BY DEF Suppress, rowVars, workerVars, mailVars, Undisturbed
<1>9. Tick => Ticked
  BY DEF Tick, Ticked, Live, mailVars
<1>10. UNCHANGED vars => Undisturbed
  BY DEF vars, rowVars, workerVars, mailVars, Undisturbed
<1> QED BY <1>1, <1>2, <1>3, <1>4, <1>5, <1>6, <1>7, <1>8, <1>9, <1>10 DEF Next, WorkerMove

-----------------------------------------------------------------------------
(* The list of entries                                                     *)

\* The list is not empty and names addresses.
LEMMA EntriesAreAddresses ==
    /\ Len(allRecipients) \in Nat \ {0}
    /\ Positions = 1..Len(allRecipients)
    /\ 1 \in Positions
    /\ \A n \in Positions : allRecipients[n] \in Addresses
<1>1. /\ allRecipients \in Seq(Addresses)
      /\ Len(allRecipients) = Len(To) + Len(Cc) + Len(Bcc)
  BY ComposeSendAssumption DEF allRecipients
<1>2. Len(To) \in Nat \ {0} /\ Len(Cc) \in Nat /\ Len(Bcc) \in Nat
  BY ComposeSendAssumption
<1>3. \A n \in 1..Len(allRecipients) : allRecipients[n] \in Addresses
  BY <1>1
<1> QED BY <1>1, <1>2, <1>3 DEF Positions

\* Entry n adds one to the count of its address, and the last entry makes it complete.
LEMMA Counting ==
    ASSUME NEW a \in Addresses
    PROVE  /\ Listed(a) \in Nat
           /\ Ahead(1, a) = 0
           /\ \A n \in Positions :
                LET here == IF allRecipients[n] = a THEN 1 ELSE 0
                IN /\ Ahead(n, a) \in Nat
                   /\ Ahead(n + 1, a) = Ahead(n, a) + here
                   /\ Ahead(n, a) + here <= Listed(a)
                   /\ n = Len(allRecipients) => Listed(a) = Ahead(n, a) + here
<1> DEFINE Upto(n) == {x \in 1..n : allRecipients[x] = a}
           L == Len(allRecipients)
<1>1. /\ L \in Nat \ {0} /\ Positions = 1..L
  BY EntriesAreAddresses
<1>2. \A n \in Nat : IsFiniteSet(Upto(n)) /\ Cardinality(Upto(n)) \in Nat
  <2> TAKE n \in Nat
  <2>1. IsFiniteSet(1..n)
    BY FS_Interval
  <2>2. Upto(n) \subseteq 1..n
    OBVIOUS
  <2> QED BY <2>1, <2>2, FS_Subset, FS_CardinalityType
<1>3. Listed(a) = Cardinality(Upto(L))
  BY <1>1 DEF Listed
<1>4. \A n \in Nat : Ahead(n + 1, a) = Cardinality(Upto(n))
  <2> TAKE n \in Nat
  <2>1. 1..((n + 1) - 1) = 1..n
    OBVIOUS
  <2> QED BY <2>1 DEF Ahead
<1>5. Ahead(1, a) = 0
  <2>1. Upto(0) = {}
    OBVIOUS
  <2>2. Ahead(0 + 1, a) = Cardinality(Upto(0)) /\ 0 + 1 = 1
    BY <1>4
  <2> HIDE DEF Upto
  <2> QED BY <2>1, <2>2, FS_EmptySet
<1>6. ASSUME NEW n \in Positions
      PROVE  LET here == IF allRecipients[n] = a THEN 1 ELSE 0
             IN /\ Ahead(n, a) \in Nat
                /\ Ahead(n + 1, a) = Ahead(n, a) + here
                /\ Ahead(n, a) + here <= Listed(a)
                /\ n = L => Listed(a) = Ahead(n, a) + here
  <2>1. n \in Nat /\ n - 1 \in Nat /\ n <= L /\ (n - 1) + 1 = n
    BY <1>1
  <2>2. Ahead(n, a) = Cardinality(Upto(n - 1)) /\ Ahead(n + 1, a) = Cardinality(Upto(n))
    BY <2>1, <1>4
  <2>3. CASE allRecipients[n] = a
    <3>1. Upto(n) = Upto(n - 1) \cup {n} /\ n \notin Upto(n - 1)
      BY <2>1, <2>3
    <3>2. Cardinality(Upto(n)) = Cardinality(Upto(n - 1)) + 1
      BY <2>1, <1>2, <3>1, FS_AddElement
    <3>3. Cardinality(Upto(n)) <= Cardinality(Upto(L))
      <4>1. Upto(n) \subseteq Upto(L)
        BY <2>1, <1>1
      <4> HIDE DEF Upto
      <4> QED BY <4>1, <1>1, <1>2, FS_Subset
    <3> QED BY <2>1, <2>2, <2>3, <3>2, <3>3, <1>1, <1>2, <1>3
  <2>4. CASE allRecipients[n] # a
    <3>1. Upto(n) = Upto(n - 1)
      BY <2>1, <2>4
    <3>2. Cardinality(Upto(n)) <= Cardinality(Upto(L))
      <4>1. Upto(n) \subseteq Upto(L)
        BY <2>1, <1>1
      <4> HIDE DEF Upto
      <4> QED BY <4>1, <1>1, <1>2, FS_Subset
    <3>3. Ahead(n + 1, a) = Ahead(n, a) /\ Ahead(n, a) \in Nat /\ Ahead(n, a) <= Listed(a)
      BY <2>1, <2>2, <3>1, <3>2, <1>2, <1>3
    <3>4. n = L => Listed(a) = Ahead(n, a)
      BY <2>2, <3>1, <1>3
    <3> HIDE DEF Upto, L
    <3> QED BY <2>4, <3>3, <3>4
  <2> QED BY <2>3, <2>4
<1> QED BY <1>1, <1>2, <1>3, <1>5, <1>6

\* One more unrecorded attempt may have sent every entry once more.
LEMMA Wasting ==
    ASSUME NEW m \in Nat, NEW n \in Nat
    PROVE  m * n \in Nat /\ m * (n + 1) = m * n + m /\ m * (1 + n) = m * n + m
OBVIOUS

-----------------------------------------------------------------------------
(* The worker's invariant, step by step                                    *)

\* An update with a value of the range keeps the function's type.
LEMMA Updated ==
    ASSUME NEW S, NEW T, NEW f \in [S -> T], NEW s \in S, NEW v \in T
    PROVE  [f EXCEPT ![s] = v] \in [S -> T]
OBVIOUS

\* Every variable keeps its type: an execution that enqueues, releases or counts does so
\* for the row it has claimed, and no counter leaves its range.
LEMMA WorkerTyped == WorkerInv /\ GuardInv' /\ [Next]_vars => TypeOK'
<1> SUFFICES ASSUME WorkerInv, GuardInv', [Next]_vars PROVE TypeOK'
  OBVIOUS
<1> USE Numbers DEF WorkerInv
<1>0. /\ Lease + LeaseGrace \in 0..(Lease + LeaseGrace)
      /\ 0 \in 0..(Lease + LeaseGrace) /\ 0 \in 0..Timeout /\ Timeout \in 0..Timeout
      /\ \A n \in Nat : n + 1 \in Nat
  OBVIOUS
<1>1. Guard!GuardTypeOK'
  BY DEF GuardInv
<1>2. \A w \in Workers : Live(w) => job[w] \in Requests
  BY DEF Claims, Live
\* the rows, the executions and the mail
<1>3. /\ row' \in [Requests -> {"none"} \cup Open \cup Terminal]
      /\ lease' \in [Requests -> 0..(Lease + LeaseGrace)]
      /\ pc' \in [Workers -> {"idle"} \cup Holding]
      /\ job' \in [Workers -> Requests \cup {None}]
      /\ at' \in [Workers -> Positions]
      /\ ttl' \in [Workers -> 0..Timeout]
      /\ out' \in [Workers -> BOOLEAN]
      /\ copies' \in [Requests -> [Addresses -> Nat]]
      /\ redo' \in [Requests -> Nat]
  <2>1. ASSUME NEW w \in Workers, NEW r \in Requests, Claimed(w, r) PROVE <1>3!:
    <3>1. row' \in [Requests -> {"none"} \cup Open \cup Terminal]
      BY <2>1 DEF Claimed, TypeOK, Open, Terminal
    <3>2. lease' \in [Requests -> 0..(Lease + LeaseGrace)]
      BY <2>1, <1>0, Updated DEF Claimed, TypeOK
    <3>3. CASE pc' = pc /\ job' = job /\ ttl' = ttl
      BY <2>1, <3>1, <3>2, <3>3 DEF Claimed, TypeOK
    <3>4. CASE /\ pc' = [pc EXCEPT ![w] = "check"]
               /\ job' = [job EXCEPT ![w] = r]
               /\ ttl' = [ttl EXCEPT ![w] = Timeout]
      <4>1. pc' \in [Workers -> {"idle"} \cup Holding]
        BY <3>4 DEF TypeOK, Holding
      <4>2. job' \in [Workers -> Requests \cup {None}]
        BY <3>4 DEF TypeOK
      <4>3. ttl' \in [Workers -> 0..Timeout]
        BY <3>4, <1>0, Updated DEF TypeOK
      <4> QED BY <2>1, <3>1, <3>2, <4>1, <4>2, <4>3 DEF Claimed, TypeOK
    <3> QED BY <2>1, <3>3, <3>4 DEF Claimed
  <2>2. ASSUME NEW w \in Workers, Moved(w) PROVE <1>3!:
    BY <2>2 DEF Moved, TypeOK, Holding
  <2>3. ASSUME NEW w \in Workers, Mailed(w) PROVE <1>3!:
    <3>1. at' \in [Workers -> Positions]
      BY <2>3, EntriesAreAddresses DEF Mailed, TypeOK
    <3>2. pc' \in [Workers -> {"idle"} \cup Holding]
      BY <2>3 DEF Mailed, TypeOK, Holding
    <3>3. out' \in [Workers -> BOOLEAN]
      BY <2>3 DEF Mailed, TypeOK
    <3>4. job[w] \in Requests /\ allRecipients[at[w]] \in Addresses
      BY <2>3, <1>2, EntriesAreAddresses DEF Mailed, Live, TypeOK
    <3>5. copies' \in [Requests -> [Addresses -> Nat]]
      BY <2>3, <3>4 DEF Mailed, TypeOK
    <3> QED BY <2>3, <3>1, <3>2, <3>3, <3>5 DEF Mailed, TypeOK
  <2>4. ASSUME NEW w \in Workers, Ended(w) PROVE <1>3!:
    <3>1. job[w] \in Requests
      BY <2>4, <1>2 DEF Ended
    <3>2. row' \in [Requests -> {"none"} \cup Open \cup Terminal]
      BY <2>4, <3>1 DEF Ended, TypeOK, Open, Terminal
    <3>3. lease' \in [Requests -> 0..(Lease + LeaseGrace)]
      <4>1. lease' = lease \/ lease' = [lease EXCEPT ![job[w]] = 0]
        BY <2>4 DEF Ended
      <4>2. lease \in [Requests -> 0..(Lease + LeaseGrace)]
        BY DEF TypeOK
      <4> QED BY <4>1, <4>2, <3>1, <1>0, Updated
    <3>4. redo' \in [Requests -> Nat]
      <4>1. redo' = redo \/ redo' = [redo EXCEPT ![job[w]] = @ + 1]
        BY <2>4, <3>1 DEF Ended, Unrecorded, TypeOK
      <4> QED BY <4>1, <3>1, <1>0 DEF TypeOK
    <3>5. /\ pc' \in [Workers -> {"idle"} \cup Holding]
          /\ job' \in [Workers -> Requests \cup {None}]
          /\ at' \in [Workers -> Positions]
          /\ ttl' \in [Workers -> 0..Timeout]
      BY <2>4, EntriesAreAddresses, SMTT(30) DEF Ended, Return, TypeOK
    <3>6. out' \in [Workers -> BOOLEAN]
      BY <2>4 DEF Ended, Return, TypeOK
    <3> QED BY <2>4, <3>2, <3>3, <3>4, <3>5, <3>6 DEF Ended, TypeOK
  <2>5. CASE RowTouched
    BY <2>5 DEF RowTouched, workerVars, mailVars, TypeOK, Open, Terminal
  <2>6. CASE Ticked
    BY <2>6 DEF Ticked, Countdown, TypeOK
  <2>7. CASE Undisturbed
    BY <2>7 DEF Undisturbed, workerVars, mailVars, TypeOK
  <2> QED BY <2>1, <2>2, <2>3, <2>4, <2>5, <2>6, <2>7, WorkerMoves DEF WorkerMove
\* the rest
<1>4. /\ Fault => faults' \in 0..MaxFaults
      /\ Churn => churn' \in 0..MaxChurn
  BY DEF Fault, Churn, TypeOK
<1>5. ASSUME NEW r \in Requests
      PROVE  /\ Enqueue(r) => tasks' \in [Requests -> 0..MaxTasks]
             /\ tasks[r] > 0 /\ Dequeue(r) => tasks' \in [Requests -> 0..MaxTasks]
  <2>1. tasks[r] \in 0..MaxTasks
    BY DEF TypeOK
  <2>2. /\ tasks[r] < MaxTasks => tasks[r] + 1 \in 0..MaxTasks
        /\ tasks[r] > 0 => tasks[r] - 1 \in 0..MaxTasks
    BY <2>1
  <2>3. ASSUME NEW n \in 0..MaxTasks, tasks' = [tasks EXCEPT ![r] = n]
        PROVE  tasks' \in [Requests -> 0..MaxTasks]
    BY <2>3, Updated DEF TypeOK
  <2>4. Enqueue(r) => \E n \in 0..MaxTasks : tasks' = [tasks EXCEPT ![r] = n]
    BY <2>1, <2>2 DEF Enqueue
  <2>5. tasks[r] > 0 /\ Dequeue(r) => \E n \in 0..MaxTasks : tasks' = [tasks EXCEPT ![r] = n]
    BY <2>2 DEF Dequeue
  <2> QED BY <2>3, <2>4, <2>5
<1>6. ASSUME NEW w \in Workers, Live(w), TaskFails(w) PROVE tasks' \in [Requests -> 0..MaxTasks]
  BY <1>2, <1>5, <1>6 DEF TaskFails, TypeOK
<1> DEFINE Rest == /\ hpc' \in [Requests -> {"check", "create", "enqueue"}]
                   /\ due' \in [Requests -> 0..MaxDelay]
                   /\ tasks' \in [Requests -> 0..MaxTasks]
                   /\ suppressed' \in BOOLEAN
                   /\ faults' \in 0..MaxFaults
                   /\ churn' \in 0..MaxChurn
<1>7. Rest
  <2>1. ASSUME NEW r \in Requests, Guarded(r) PROVE Rest
    BY <2>1, <1>4 DEF Guarded, requestFrame, rowVars, TypeOK
  <2>2. ASSUME NEW r \in Requests, CheckRecipients(r) PROVE Rest
    BY <2>2, <1>4 DEF CheckRecipients, OrFault, Answer, Proceed, requestFrame, rowVars, TypeOK
  <2>3. ASSUME NEW r \in Requests, CreatePendingCompose(r) PROVE Rest
    <3>1. hpc' = hpc \/ hpc' = [hpc EXCEPT ![r] = "enqueue"]
      BY <2>3 DEF CreatePendingCompose, OrFault, Answer, Proceed
    <3>2. due' = due \/ \E d \in 0..MaxDelay : due' = [due EXCEPT ![r] = d]
      BY <2>3 DEF CreatePendingCompose, OrFault
    <3>3. faults' \in 0..MaxFaults
      BY <2>3, <1>4 DEF CreatePendingCompose, OrFault, TypeOK
    <3>4. hpc' \in [Requests -> {"check", "create", "enqueue"}]
      BY <3>1 DEF TypeOK
    <3>5. due' \in [Requests -> 0..MaxDelay]
      <4>1. ASSUME NEW d \in 0..MaxDelay, due' = [due EXCEPT ![r] = d]
            PROVE  due' \in [Requests -> 0..MaxDelay]
        BY <4>1, Updated DEF TypeOK
      <4> QED BY <4>1, <3>2 DEF TypeOK
    <3> QED BY <2>3, <3>3, <3>4, <3>5 DEF CreatePendingCompose, TypeOK
  <2>4. ASSUME NEW r \in Requests, EnqueuePendingInboxCompose(r) PROVE Rest
    BY <2>4, <1>4, <1>5 DEF EnqueuePendingInboxCompose, OrFault, Answer, rowVars, TypeOK
  <2>5. ASSUME NEW r \in Requests, CancelPendingCompose(r) \/ Sweep(r) PROVE Rest
    BY <2>5, <1>4, <1>5 DEF CancelPendingCompose, Sweep, rowVars, budgetVars, TypeOK
  <2>6. ASSUME NEW w \in Workers, NEW r \in Requests, Take(w, r) PROVE Rest
    BY <2>6, <1>4, <1>5 DEF Take, ClaimPendingCompose, NotClaimable, OrFault, workerFrame, TypeOK
  <2>7. ASSUME NEW w \in Workers, Work(w) \/ Abort(w) PROVE Rest
    <3>1. faults' \in 0..MaxFaults /\ UNCHANGED workerFrame
      BY <2>7, <1>4 DEF Work, Abort, CheckSuppression, Send, MarkPendingComposeSent,
         ReleasePendingCompose, FailPendingCompose, OrFault, TypeOK
    <3>2. tasks' \in [Requests -> 0..MaxTasks]
      BY <2>7, <1>6 DEF Work, Abort, CheckSuppression, Send, MarkPendingComposeSent,
         ReleasePendingCompose, FailPendingCompose, Live, TypeOK
    <3> QED BY <3>1, <3>2 DEF workerFrame, TypeOK
  <2>8. ASSUME NEW k \in Keys, ExpireKey(k) \/ PurgeKey(k) PROVE Rest
    BY <2>8 DEF ExpireKey, PurgeKey, rowVars, budgetVars, TypeOK
  <2>9. CASE Suppress
    BY <2>9, <1>4 DEF Suppress, rowVars, TypeOK
  <2>10. CASE Tick
    BY <2>10 DEF Tick, Countdown, budgetVars, TypeOK
  <2>11. CASE UNCHANGED vars
    BY <2>11 DEF vars, rowVars, budgetVars, TypeOK
  <2> QED BY <2>1, <2>2, <2>3, <2>4, <2>5, <2>6, <2>7, <2>8, <2>9, <2>10, <2>11 DEF Next, Handle
<1> QED BY <1>1, <1>3, <1>7 DEF TypeOK

\* A request creates its row once, and nobody else changes where its handler stands.
LEMMA RowsAreCreatedOnce == WorkerInv /\ TypeOK' /\ [Next]_vars => Uncreated'
<1> SUFFICES ASSUME WorkerInv, TypeOK', [Next]_vars, NEW r \in Requests, hpc'[r] # "enqueue"
             PROVE  row'[r] = "none"
  BY DEF Uncreated
<1> USE DEF WorkerInv
<1>1. ASSUME NEW q \in Requests, Guarded(q) \/ Handle(q) PROVE row'[r] = "none"
  <2>1. CASE Guarded(q)
    BY <2>1 DEF Guarded, requestFrame, rowVars, Uncreated
  <2>2. CASE CheckRecipients(q)
    BY <2>2 DEF CheckRecipients, OrFault, Answer, Proceed, requestFrame, rowVars, Uncreated,
       TypeOK
  <2>3. CASE CreatePendingCompose(q)
    BY <2>3 DEF CreatePendingCompose, OrFault, Answer, Proceed, Uncreated, TypeOK
  <2>4. CASE EnqueuePendingInboxCompose(q)
    BY <2>4 DEF EnqueuePendingInboxCompose, OrFault, Answer, rowVars, Uncreated
  <2> QED BY <1>1, <2>1, <2>2, <2>3, <2>4 DEF Handle
<1>2. ASSUME hpc' = hpc PROVE row'[r] = "none"
  <2>1. row[r] = "none"
    BY <1>2 DEF Uncreated
  <2>2. \A w \in Workers : Live(w) => job[w] # r
    BY <2>1 DEF Claims, Live
  <2>3. ASSUME NEW w \in Workers, NEW q \in Requests, Take(w, q) PROVE row'[r] = "none"
    BY <2>1, <2>3 DEF Take, ClaimPendingCompose, NotClaimable, Claimable, TypeOK
  <2>4. ASSUME NEW q \in Requests, CancelPendingCompose(q) PROVE row'[r] = "none"
    BY <2>1, <2>4 DEF CancelPendingCompose, TypeOK
  <2>5. CASE \E q \in Requests : Guarded(q) \/ Handle(q)
    BY <2>5, <1>1
  <2>6. CASE \E q \in Requests : Sweep(q)
    BY <2>1, <2>6 DEF Sweep, rowVars
  <2>7. CASE \E k \in Keys : ExpireKey(k) \/ PurgeKey(k)
    BY <2>1, <2>7 DEF ExpireKey, PurgeKey, rowVars
  <2>8. CASE Suppress \/ Tick \/ UNCHANGED vars
    BY <2>1, <2>8 DEF Suppress, Tick, vars, rowVars
  <2>9. CASE \E w \in Workers : Work(w) \/ Abort(w)
    <3>1. PICK w \in Workers : Work(w) \/ Abort(w)
      BY <2>9
    <3>2. job[w] # r /\ job[w] \in Requests
      BY <3>1, <2>2 DEF Work, Abort, CheckSuppression, Send, MarkPendingComposeSent,
         ReleasePendingCompose, FailPendingCompose, Live, Claims
    <3> QED BY <2>1, <3>1, <3>2 DEF Work, Abort, CheckSuppression, Send,
        MarkPendingComposeSent, ReleasePendingCompose, FailPendingCompose, OrFault, TypeOK
  <2> QED BY <2>3, <2>4, <2>5, <2>6, <2>7, <2>8, <2>9 DEF Next
<1>3. \/ \E q \in Requests : Guarded(q) \/ Handle(q)
      \/ hpc' = hpc
  BY DEF Next, CancelPendingCompose, Sweep, Take, ClaimPendingCompose, NotClaimable, Work,
     Abort, CheckSuppression, Send, MarkPendingComposeSent, ReleasePendingCompose,
     FailPendingCompose, ExpireKey, PurgeKey, Suppress, Tick, vars, workerFrame
<1> QED BY <1>1, <1>2, <1>3

\* The parts of the worker's invariant that are about claims and about mail.
Lively == Claims /\ OneClaim
Mailing == Copies /\ Turn /\ SentMeansEveryone

\* Nobody has a row that can be claimed: a live execution's lease has not run out.
LEMMA ClaimableIsFree ==
    ASSUME WorkerInv, NEW r \in Requests, Claimable(r) \/ row[r] \in {"none", "scheduled"},
           NEW w \in Workers, Live(w)
    PROVE  job[w] # r
<1>1. /\ job[w] \in Requests /\ row[job[w]] = "sending"
      /\ lease[job[w]] > LeaseGrace + ttl[w]
  BY DEF WorkerInv, Claims, Live
<1>2. ttl[w] \in Nat /\ lease[job[w]] \in Nat /\ LeaseGrace \in Nat
  BY <1>1, Numbers DEF WorkerInv, TypeOK
<1> QED BY <1>1, <1>2 DEF Claimable

LEMMA ClaimKeeps ==
    ASSUME WorkerInv, NEW w \in Workers, NEW r \in Requests, Claimed(w, r)
    PROVE  Lively' /\ Mailing'
<1> USE Numbers DEF WorkerInv
<1>1. /\ row'[r] = "sending" /\ lease'[r] = Lease + LeaseGrace
      /\ \A q \in Requests : q # r => row'[q] = row[q] /\ lease'[q] = lease[q]
      /\ row[r] # "sent" /\ pc[w] = "idle" /\ at[w] = 1 /\ ~out[w]
  BY DEF Claimed, Claimable, TypeOK, Claims
<1>2. /\ \A v \in Workers : v # w => pc'[v] = pc[v] /\ job'[v] = job[v] /\ ttl'[v] = ttl[v]
      /\ pc'[w] # "idle" => pc'[w] = "check" /\ job'[w] = r /\ ttl'[w] = Timeout
      /\ copies' = copies /\ redo' = redo /\ at' = at /\ out' = out
  BY DEF Claimed, TypeOK
<1>3. \A v \in Workers : Live(v) => job[v] # r
  BY ClaimableIsFree DEF Claimed
<1>4. Claims'
  <2> SUFFICES ASSUME NEW v \in Workers
               PROVE  IF pc'[v] = "idle" THEN at[v] = 1 /\ ~out[v]
                      ELSE /\ job'[v] \in Requests
                           /\ row'[job'[v]] = "sending"
                           /\ lease'[job'[v]] > LeaseGrace + ttl'[v]
                           /\ pc'[v] \in {"check", "fail"} => at[v] = 1 /\ ~out[v]
    BY <1>2 DEF Claims
  <2>1. CASE v = w
    BY <2>1, <1>1, <1>2
  <2>2. CASE v # w /\ pc[v] = "idle"
    BY <2>2, <1>2 DEF Claims
  <2>3. CASE v # w /\ pc[v] # "idle"
    <3>1. job[v] \in Requests /\ job[v] # r
      BY <2>3, <1>3 DEF Claims, Live
    <3> QED BY <2>3, <3>1, <1>1, <1>2 DEF Claims
  <2> QED BY <2>1, <2>2, <2>3
<1>5. OneClaim'
  BY <1>2, <1>3 DEF OneClaim, Live
<1>6. \A q \in Requests : Unmailed(q)' => Unmailed(q)
  BY <1>1, <1>2, <1>3 DEF Unmailed, Live
<1>7. Copies'
  BY <1>2, <1>6 DEF Copies, Wasted
<1>8. Turn'
  BY <1>2 DEF Turn, Wasted
<1>9. SentMeansEveryone'
  BY <1>1, <1>2 DEF SentMeansEveryone
<1> QED BY <1>4, <1>5, <1>7, <1>8, <1>9 DEF Lively, Mailing

LEMMA MoveKeeps ==
    ASSUME WorkerInv, NEW w \in Workers, Moved(w)
    PROVE  Lively' /\ Mailing'
<1> USE Numbers DEF WorkerInv
<1>1. /\ pc[w] \in {"check", "send"} /\ pc'[w] \notin {"idle", "check", "mark"}
      /\ pc'[w] # "release" => pc[w] = "check"
      /\ \A v \in Workers : v # w => pc'[v] = pc[v]
      /\ row' = row /\ lease' = lease /\ copies' = copies /\ redo' = redo
      /\ job' = job /\ at' = at /\ ttl' = ttl /\ out' = out
  BY DEF Moved, TypeOK
<1>2. Claims'
  BY <1>1 DEF Claims
<1>3. OneClaim'
  BY <1>1 DEF OneClaim
<1>4. \A r \in Requests : Unmailed(r)' <=> Unmailed(r)
  BY <1>1 DEF Unmailed
<1>5. Copies'
  BY <1>1, <1>4 DEF Copies, Wasted
<1>6. Turn'
  <2> SUFFICES ASSUME NEW v \in Workers, NEW a \in Addresses
               PROVE  /\ pc'[v] = "send" =>
                           /\ Ahead(at[v], a) <= copies[job[v]][a]
                           /\ copies[job[v]][a] <= Wasted(job[v], a) + Ahead(at[v], a)
                      /\ pc'[v] = "mark" => Listed(a) <= copies[job[v]][a]
    BY <1>1 DEF Turn, Wasted
  <2>1. CASE v # w
    BY <2>1, <1>1 DEF Turn
  <2>2. CASE v = w /\ pc'[w] = "send"
    <3>1. pc[w] = "check" /\ at[w] = 1 /\ ~out[w] /\ job[w] \in Requests
          /\ row[job[w]] = "sending"
      BY <2>2, <1>1 DEF Claims
    <3>2. Unmailed(job[w])
      BY <3>1 DEF Unmailed, OneClaim
    <3>3. copies[job[w]][a] \in Nat /\ copies[job[w]][a] <= Wasted(job[w], a)
      BY <3>1, <3>2 DEF Copies, TypeOK
    <3>4. Wasted(job[w], a) \in Nat
      BY <3>1, Counting, Wasting DEF Wasted, TypeOK
    <3> QED BY <2>2, <3>1, <3>3, <3>4, Counting
  <2>3. CASE v = w /\ pc'[w] # "send"
    BY <2>3, <1>1
  <2> QED BY <2>1, <2>2, <2>3
<1>7. SentMeansEveryone'
  BY <1>1 DEF SentMeansEveryone
<1> QED BY <1>2, <1>3, <1>5, <1>6, <1>7 DEF Lively, Mailing

\* One more copy for one address of one row.
LEMMA OneMoreCopy ==
    ASSUME TypeOK, NEW w \in Workers, Mailed(w), job[w] \in Requests
    PROVE  LET a == allRecipients[at[w]]
           IN /\ copies'[job[w]][a] = copies[job[w]][a] + 1
              /\ \A x \in Addresses : x # a => copies'[job[w]][x] = copies[job[w]][x]
              /\ \A r \in Requests : r # job[w] => copies'[r] = copies[r]
<1>1. allRecipients[at[w]] \in Addresses
  BY EntriesAreAddresses DEF TypeOK
<1> QED BY <1>1 DEF TypeOK, Mailed

LEMMA MailKeeps ==
    ASSUME WorkerInv, NEW w \in Workers, Mailed(w)
    PROVE  Lively' /\ Mailing'
<1> USE Numbers DEF WorkerInv
<1> DEFINE r == job[w]
           n == at[w]
           Here(a) == IF allRecipients[n] = a THEN 1 ELSE 0
<1>1. /\ pc[w] = "send" /\ r \in Requests /\ row[r] = "sending" /\ n \in Positions
      /\ redo[r] \in Nat /\ \A a \in Addresses : copies[r][a] \in Nat
      /\ \A v \in Workers : v # w /\ pc[v] # "idle" => job[v] # r
  BY DEF Mailed, Claims, OneClaim, TypeOK
<1>2. /\ pc'[w] \notin {"idle", "check", "fail"}
      /\ pc'[w] = "mark" => n = Len(allRecipients)
      /\ pc'[w] = "send" => at'[w] = n + 1
      /\ out'[w]
      /\ \A v \in Workers : v # w => pc'[v] = pc[v] /\ at'[v] = at[v] /\ out'[v] = out[v]
      /\ row' = row /\ lease' = lease /\ redo' = redo /\ job' = job /\ ttl' = ttl
  BY DEF Mailed, TypeOK
<1>3. /\ \A a \in Addresses : copies'[r][a] = copies[r][a] + Here(a)
      /\ \A q \in Requests : q # r => copies'[q] = copies[q]
  BY <1>1, OneMoreCopy
\* With this entry an address has what the entries up to here give it.
<1>4. ASSUME NEW a \in Addresses
      PROVE  /\ Ahead(n, a) + Here(a) <= copies'[r][a]
             /\ copies'[r][a] <= Wasted(r, a) + (Ahead(n, a) + Here(a))
             /\ copies'[r][a] <= Wasted(r, a) + Listed(a)
  <2>1. Ahead(n, a) <= copies[r][a] /\ copies[r][a] <= Wasted(r, a) + Ahead(n, a)
    BY <1>1 DEF Turn
  <2>2. /\ Ahead(n, a) \in Nat /\ Listed(a) \in Nat /\ Here(a) \in Nat
        /\ Ahead(n, a) + Here(a) <= Listed(a)
    BY <1>1, Counting
  <2>3. Wasted(r, a) \in Nat
    BY <1>1, <2>2, Wasting DEF Wasted
  <2>4. copies'[r][a] = copies[r][a] + Here(a) /\ copies[r][a] \in Nat
    BY <1>1, <1>3
  <2> HIDE DEF Here
  <2> QED BY <2>1, <2>2, <2>3, <2>4
<1>5. Claims'
  BY <1>1, <1>2 DEF Claims
<1>6. OneClaim'
  BY <1>1, <1>2 DEF OneClaim
<1>7. Copies'
  <2> SUFFICES ASSUME NEW q \in Requests, NEW a \in Addresses
               PROVE  /\ copies'[q][a] <= Wasted(q, a) + Listed(a)
                      /\ Unmailed(q)' => copies'[q][a] <= Wasted(q, a)
    BY <1>2 DEF Copies, Wasted
  <2>1. CASE q = r
    <3>1. ~Unmailed(q)'
      BY <2>1, <1>2 DEF Unmailed
    <3> QED BY <2>1, <3>1, <1>4
  <2>2. CASE q # r
    <3>1. Unmailed(q)' => Unmailed(q)
      BY <2>2, <1>2 DEF Unmailed
    <3> QED BY <2>2, <3>1, <1>3 DEF Copies
  <2> QED BY <2>1, <2>2
<1>8. Turn'
  <2> SUFFICES ASSUME NEW v \in Workers, NEW a \in Addresses
               PROVE  /\ pc'[v] = "send" =>
                           /\ Ahead(at'[v], a) <= copies'[job[v]][a]
                           /\ copies'[job[v]][a] <= Wasted(job[v], a) + Ahead(at'[v], a)
                      /\ pc'[v] = "mark" => Listed(a) <= copies'[job[v]][a]
    BY <1>2 DEF Turn, Wasted
  <2>1. CASE v # w
    <3>1. pc'[v] \in {"send", "mark"} => job[v] \in Requests /\ job[v] # r
      BY <2>1, <1>1, <1>2 DEF Claims
    <3> QED BY <2>1, <3>1, <1>2, <1>3 DEF Turn
  <2>2. CASE v = w
    <3>1. /\ Ahead(n + 1, a) = Ahead(n, a) + Here(a)
          /\ n = Len(allRecipients) => Listed(a) = Ahead(n, a) + Here(a)
      BY <1>1, Counting
    <3> HIDE DEF Here
    <3> QED BY <2>2, <3>1, <1>2, <1>4
  <2> QED BY <2>1, <2>2
<1>9. SentMeansEveryone'
  <2> SUFFICES ASSUME NEW q \in Requests, row[q] = "sent"
               PROVE  \A a \in Addresses : copies'[q][a] >= Listed(a)
    BY <1>2 DEF SentMeansEveryone
  <2> QED BY <1>1, <1>3 DEF SentMeansEveryone
<1> QED BY <1>5, <1>6, <1>7, <1>8, <1>9 DEF Lively, Mailing

\* An attempt that ends settles its account: recorded, it is the one copy everybody may
\* have; unrecorded, it is counted when it had mailed somebody.
LEMMA EndKeeps ==
    ASSUME WorkerInv, NEW w \in Workers, Ended(w)
    PROVE  Lively' /\ Mailing'
<1> USE Numbers DEF WorkerInv
<1> DEFINE r == job[w]
<1>1. /\ pc[w] # "idle" /\ r \in Requests /\ row[r] = "sending" /\ redo[r] \in Nat
      /\ pc[w] = "fail" => ~out[w]
      /\ \A v \in Workers : v # w /\ pc[v] # "idle" => job[v] # r
      /\ \A a \in Addresses : copies[r][a] \in Nat
  BY DEF Ended, Live, Claims, OneClaim, TypeOK
<1>2. /\ pc'[w] = "idle" /\ at'[w] = 1 /\ ~out'[w]
      /\ \A v \in Workers : v # w => /\ pc'[v] = pc[v] /\ job'[v] = job[v] /\ at'[v] = at[v]
                                     /\ ttl'[v] = ttl[v] /\ out'[v] = out[v]
      /\ copies' = copies
  BY DEF Ended, Return, TypeOK
<1>3. \A q \in Requests : q # r =>
        row'[q] = row[q] /\ lease'[q] = lease[q] /\ redo'[q] = redo[q]
  BY <1>1 DEF Ended, Unrecorded, TypeOK
<1>4. \/ pc[w] = "mark" /\ redo'[r] = redo[r] /\ row'[r] = "sent"
      \/ /\ row'[r] # "sent"
         /\ redo'[r] = IF out[w] THEN redo[r] + 1 ELSE redo[r]
  BY <1>1 DEF Ended, Unrecorded, TypeOK
<1>5. Claims'
  <2> SUFFICES ASSUME NEW v \in Workers
               PROVE  IF pc'[v] = "idle" THEN at'[v] = 1 /\ ~out'[v]
                      ELSE /\ job'[v] \in Requests
                           /\ row'[job'[v]] = "sending"
                           /\ lease'[job'[v]] > LeaseGrace + ttl'[v]
                           /\ pc'[v] \in {"check", "fail"} => at'[v] = 1 /\ ~out'[v]
    BY DEF Claims
  <2>1. CASE v = w
    BY <2>1, <1>2
  <2>2. CASE v # w /\ pc[v] = "idle"
    BY <2>2, <1>2 DEF Claims
  <2>3. CASE v # w /\ pc[v] # "idle"
    <3>1. job[v] \in Requests /\ job[v] # r
      BY <2>3, <1>1 DEF Claims
    <3> QED BY <2>3, <3>1, <1>2, <1>3 DEF Claims
  <2> QED BY <2>1, <2>2, <2>3
<1>6. OneClaim'
  BY <1>2 DEF OneClaim
<1>7. Copies'
  <2> SUFFICES ASSUME NEW q \in Requests, NEW a \in Addresses
               PROVE  /\ copies[q][a] <= Listed(a) * redo'[q] + Listed(a)
                      /\ Unmailed(q)' => copies[q][a] <= Listed(a) * redo'[q]
    BY <1>2 DEF Copies, Wasted
  <2>1. CASE q # r
    <3>1. Unmailed(q)' => Unmailed(q)
      BY <2>1, <1>2, <1>3 DEF Unmailed
    <3> QED BY <2>1, <3>1, <1>3 DEF Copies, Wasted
  <2>2. CASE q = r
    <3>1. copies[r][a] <= Wasted(r, a) + Listed(a)
      BY <1>1 DEF Copies
    <3>2. ~out[w] => copies[r][a] <= Wasted(r, a)
      BY <1>1 DEF Copies, Unmailed
    <3>3. row'[r] = "sent" => ~Unmailed(q)'
      BY <2>2 DEF Unmailed
    <3>4. /\ copies[r][a] \in Nat /\ Listed(a) \in Nat /\ Wasted(r, a) \in Nat
          /\ Listed(a) * redo[r] = Wasted(r, a)
          /\ Listed(a) * (redo[r] + 1) = Wasted(r, a) + Listed(a)
      BY <1>1, Counting, Wasting DEF Wasted
    <3>5. CASE redo'[r] = redo[r]
      BY <2>2, <3>1, <3>2, <3>3, <3>4, <3>5, <1>1, <1>4
    <3>6. CASE redo'[r] = redo[r] + 1
      BY <2>2, <3>1, <3>4, <3>6
    <3> QED BY <3>5, <3>6, <1>4
  <2> QED BY <2>1, <2>2
<1>8. Turn'
  <2> SUFFICES ASSUME NEW v \in Workers, NEW a \in Addresses
               PROVE  /\ pc'[v] = "send" =>
                           /\ Ahead(at'[v], a) <= copies[job'[v]][a]
                           /\ copies[job'[v]][a]
                                <= Listed(a) * redo'[job'[v]] + Ahead(at'[v], a)
                      /\ pc'[v] = "mark" => Listed(a) <= copies[job'[v]][a]
    BY <1>2 DEF Turn, Wasted
  <2>1. CASE v = w
    BY <2>1, <1>2
  <2>2. CASE v # w
    <3>1. pc[v] \in {"send", "mark"} => job[v] \in Requests /\ job[v] # r
      BY <2>2, <1>1 DEF Claims
    <3> QED BY <2>2, <3>1, <1>2, <1>3 DEF Turn, Wasted
  <2> QED BY <2>1, <2>2
<1>9. SentMeansEveryone'
  <2>1. row'[r] = "sent" => \A a \in Addresses : copies[r][a] >= Listed(a)
    <3> SUFFICES ASSUME row'[r] = "sent", NEW a \in Addresses
                 PROVE  copies[r][a] >= Listed(a)
      OBVIOUS
    <3>1. Listed(a) <= copies[r][a] /\ Listed(a) \in Nat /\ copies[r][a] \in Nat
      BY <1>1, <1>4, Counting DEF Turn
    <3> QED BY <3>1
  <2> QED BY <2>1, <1>2, <1>3 DEF SentMeansEveryone
<1> QED BY <1>5, <1>6, <1>7, <1>8, <1>9 DEF Lively, Mailing

\* The lease and the timeout run down together.
LEMMA TickKeeps ==
    ASSUME WorkerInv, Ticked
    PROVE  Lively' /\ Mailing'
<1> USE Numbers DEF WorkerInv
<1>1. Claims'
  <2> SUFFICES ASSUME NEW w \in Workers, pc[w] # "idle"
               PROVE  lease'[job[w]] > LeaseGrace + ttl'[w]
    BY DEF Ticked, Claims
  <2>1. /\ job[w] \in Requests /\ lease[job[w]] > LeaseGrace + ttl[w] /\ ttl[w] > 0
        /\ lease[job[w]] \in Nat /\ ttl[w] \in Nat
    BY DEF Ticked, Live, Claims, TypeOK
  <2>2. lease'[job[w]] = Countdown(lease[job[w]]) /\ ttl'[w] = Countdown(ttl[w])
    BY <2>1 DEF Ticked
  <2> QED BY <2>1, <2>2 DEF Countdown
<1>2. OneClaim' /\ Turn' /\ SentMeansEveryone'
  BY DEF Ticked, OneClaim, Turn, Wasted, SentMeansEveryone
<1>3. Copies'
  BY DEF Ticked, Copies, Wasted, Unmailed
<1> QED BY <1>1, <1>2, <1>3 DEF Lively, Mailing

\* Creating or cancelling a row touches none that is being sent or was.
LEMMA TouchKeeps ==
    ASSUME WorkerInv, RowTouched
    PROVE  Lively' /\ Mailing'
<1> USE DEF WorkerInv
<1>1. PICK r \in Requests, s \in {"scheduled", "cancelled"} :
        row[r] \in {"none", "scheduled"} /\ row' = [row EXCEPT ![r] = s]
  BY DEF RowTouched
<1>2. /\ row'[r] # "sent" /\ row[r] # "sent"
      /\ \A q \in Requests : q # r => row'[q] = row[q]
      /\ lease' = lease /\ pc' = pc /\ job' = job /\ at' = at /\ ttl' = ttl /\ out' = out
      /\ copies' = copies /\ redo' = redo
  BY <1>1 DEF RowTouched, workerVars, mailVars, TypeOK
<1>3. \A w \in Workers : pc[w] # "idle" => job[w] # r
  BY <1>1, ClaimableIsFree DEF Live
<1>4. Claims'
  BY <1>2, <1>3 DEF Claims
<1>5. OneClaim' /\ Turn' /\ SentMeansEveryone'
  BY <1>2 DEF OneClaim, Turn, Wasted, SentMeansEveryone
<1>6. Copies'
  BY <1>2 DEF Copies, Wasted, Unmailed
<1> QED BY <1>4, <1>5, <1>6 DEF Lively, Mailing

\* The worker's invariant is inductive.
LEMMA WorkerInductive == Spec => []WorkerInv
<1>1. Init => WorkerInv
  <2> SUFFICES ASSUME Init PROVE WorkerInv
    OBVIOUS
  <2>1. TypeOK
    <3>1. Guard!GuardTypeOK
      BY DEF Init, Guard!GuardInit, Guard!GuardTypeOK
    <3>2. /\ 0 \in 0..MaxDelay /\ 0 \in 0..(Lease + LeaseGrace) /\ 0 \in 0..MaxTasks
          /\ 0 \in 0..Timeout /\ MaxFaults \in 0..MaxFaults /\ MaxChurn \in 0..MaxChurn
          /\ 1 \in Positions /\ 0 \in Nat
      BY Numbers, EntriesAreAddresses
    <3>3. copies \in [Requests -> [Addresses -> Nat]] /\ redo \in [Requests -> Nat]
      BY DEF Init
    <3>4. /\ pc \in [Workers -> {"idle"} \cup Holding]
          /\ job \in [Workers -> Requests \cup {None}]
          /\ at \in [Workers -> Positions]
          /\ ttl \in [Workers -> 0..Timeout]
          /\ out \in [Workers -> BOOLEAN]
      BY <3>2 DEF Init
    <3>5. /\ hpc \in [Requests -> {"check", "create", "enqueue"}]
          /\ row \in [Requests -> {"none"} \cup Open \cup Terminal]
          /\ due \in [Requests -> 0..MaxDelay]
          /\ lease \in [Requests -> 0..(Lease + LeaseGrace)]
          /\ tasks \in [Requests -> 0..MaxTasks]
      BY <3>2 DEF Init
    <3> QED BY <3>1, <3>2, <3>3, <3>4, <3>5 DEF Init, TypeOK
  <2>2. Copies
    <3> SUFFICES ASSUME NEW r \in Requests, NEW a \in Addresses
                 PROVE  0 <= Wasted(r, a) + Listed(a) /\ 0 <= Wasted(r, a)
      BY DEF Init, Copies
    <3>1. Listed(a) \in Nat /\ redo[r] \in Nat
      BY <2>1, Counting DEF TypeOK
    <3>2. Wasted(r, a) \in Nat
      BY <3>1, Wasting DEF Wasted
    <3> QED BY <3>1, <3>2
  <2> QED BY <2>1, <2>2 DEF Init, WorkerInv, Uncreated, Claims, OneClaim, Turn,
      SentMeansEveryone
<1>2. WorkerInv /\ GuardInv' /\ [Next]_vars => WorkerInv'
  <2> SUFFICES ASSUME WorkerInv, GuardInv', [Next]_vars PROVE WorkerInv'
    OBVIOUS
  <2>1. TypeOK' /\ Uncreated'
    BY WorkerTyped, RowsAreCreatedOnce
  <2>2. Lively' /\ Mailing'
    <3>1. CASE Undisturbed
      BY <3>1 DEF Undisturbed, workerVars, mailVars, WorkerInv, Claims, OneClaim, Copies,
         Wasted, Unmailed, Turn, SentMeansEveryone, Lively, Mailing
    <3> QED BY <3>1, WorkerMoves, ClaimKeeps, MoveKeeps, MailKeeps, EndKeeps, TickKeeps,
        TouchKeeps DEF WorkerMove
  <2> QED BY <2>1, <2>2 DEF WorkerInv, Lively, Mailing
<1> QED BY <1>1, <1>2, GuardInductive, PTL DEF Spec

\* Every variable of the compose path keeps its type.
THEOREM ComposeTyped == Spec => []TypeOK
<1>1. WorkerInv => TypeOK
  BY DEF WorkerInv
<1> QED BY <1>1, WorkerInductive, PTL

\* An address gets at most one copy per field that names it, and as many again for each
\* attempt that mailed somebody and was not recorded: two executions never have the same
\* row, whatever the crashes, the lost answers and the order in which tasks are handed
\* out, and whatever addresses To, Cc and Bcc share.
THEOREM EveryCopyIsPaidFor == Spec => []CopiesArePaidFor
<1>1. WorkerInv => CopiesArePaidFor
  <2> SUFFICES ASSUME WorkerInv, NEW r \in Requests, NEW a \in Addresses
               PROVE  copies[r][a] <= Listed(a) * (1 + redo[r])
    BY DEF CopiesArePaidFor
  <2>1. Listed(a) \in Nat /\ redo[r] \in Nat
    BY Counting DEF WorkerInv, TypeOK
  <2>2. Listed(a) * (1 + redo[r]) = Wasted(r, a) + Listed(a)
    BY <2>1, Wasting DEF Wasted
  <2> QED BY <2>2 DEF WorkerInv, Copies
<1> QED BY <1>1, WorkerInductive, PTL

\* A row that says 'sent' has reached every address of its three fields, whatever they are.
THEOREM SentReachesEveryone == Spec => []SentMeansEveryone
<1>1. WorkerInv => SentMeansEveryone
  BY DEF WorkerInv
<1> QED BY <1>1, WorkerInductive, PTL
=============================================================================
