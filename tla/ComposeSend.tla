----------------------------- MODULE ComposeSend -----------------------------
(***************************************************************************)
(* New emails from the inbox, end to end: POST /inbox/composes behind the  *)
(* Idempotency-Key guard (app/inbox/compose_handler.go, compose.go), the   *)
(* queued row, the worker that sends one message per recipient             *)
(* (worker/inbox/pendingcomposesend.go) and the sweep that rescues a       *)
(* stranded row (worker/inbox/pendingsweep.go).                            *)
(*                                                                         *)
(* A request creates at most one row, so the row has the request's name.   *)
(* Each of To, Cc and Bcc lists an address once, but one may be in several *)
(* of them, and the worker sends one message per entry of the three.  The  *)
(* guard is module Idempotency, whose variables are shared.                *)
(***************************************************************************)
EXTENDS Integers, Sequences, FiniteSets

LOCAL INSTANCE Functions

CONSTANTS
    Requests, Keys, Hashes, None,   \* see Idempotency
    Asks,          \* what clients may send: <<request, key, hash>>
    Workers,       \* concurrent executions of PendingComposeSendHandler
    Addresses,     \* mail addresses
    To, Cc, Bcc,   \* the fields of a message, as normalizeRecipients leaves them
    Lease,         \* PendingReplyLeaseSeconds, in ticks
    LeaseGrace,    \* the sweep's grace on top of the lease
    Timeout,       \* sendTimeout of the task
    MaxDelay,      \* the undo window or schedule, from 0 to this
    MaxTasks,      \* bound: tasks queued per row
    MaxFaults,     \* bound: crashes, failed writes, failed queue calls, bad answers
    MaxChurn       \* bound: unsubscribes and undos

\* The worker's list: the three fields one after the other.
allRecipients == To \o Cc \o Bcc
Positions == 1..Len(allRecipients)

\* How often an address is on it: once per field that names it.
Listed(a) == Cardinality({x \in Positions : allRecipients[x] = a})

ASSUME ComposeSendAssumption ==
    /\ To \in Seq(Addresses) /\ Cc \in Seq(Addresses) /\ Bcc \in Seq(Addresses)
    /\ IsInjective(To) /\ IsInjective(Cc) /\ IsInjective(Bcc)
    /\ Len(To) > 0
    /\ Timeout \in Nat /\ Lease \in Nat /\ Timeout < Lease
    /\ LeaseGrace \in Nat /\ MaxDelay \in Nat
    /\ MaxTasks \in Nat \ {0} /\ MaxFaults \in Nat /\ MaxChurn \in Nat
    /\ Asks \subseteq Requests \X Keys \X Hashes
    /\ None \notin Requests \cup Keys \cup Hashes
    \* a response is not one of the words the guard uses in its place
    /\ (Requests \cup {None}) \cap {"inflight", "uncacheable", "key_reuse", "in_flight",
                                     "failed"} = {}

VARIABLES
    hash, resp, fresh, rpc, rkey, rhash, answer, window,   \* see Idempotency
    hpc,              \* control point of sendCompose
    row, due, lease,  \* inbox_pending_composes: status and its clocks
    tasks,            \* asynq: queued send tasks
    suppressed,       \* some address of the message is on the suppression list
    pc, job, at, ttl, \* handler executions; at is the entry being mailed
    out,              \* the execution has put a message on the wire
    \* history
    copies,           \* messages an address got for a row
    redo,             \* attempts that mailed somebody and were not recorded
    faults, churn

Guard == INSTANCE Idempotency

guardVars  == <<hash, resp, fresh, rpc, rkey, rhash, answer, window>>
rowVars    == <<row, due, lease>>
workerVars == <<pc, job, at, ttl, out>>
mailVars   == <<copies, redo>>
budgetVars == <<faults, churn>>
vars == <<guardVars, hpc, rowVars, tasks, suppressed, workerVars, mailVars, budgetVars>>

Open     == {"scheduled", "sending"}
Terminal == {"sent", "cancelled", "failed"}
Holding  == {"check", "send", "mark", "release", "fail"}

TypeOK ==
    /\ Guard!GuardTypeOK
    /\ hpc \in [Requests -> {"check", "create", "enqueue"}]
    /\ row \in [Requests -> {"none"} \cup Open \cup Terminal]
    /\ due \in [Requests -> 0..MaxDelay]
    /\ lease \in [Requests -> 0..(Lease + LeaseGrace)]
    /\ tasks \in [Requests -> 0..MaxTasks]
    /\ suppressed \in BOOLEAN
    /\ pc \in [Workers -> {"idle"} \cup Holding]
    /\ job \in [Workers -> Requests \cup {None}]
    /\ at \in [Workers -> Positions]
    /\ ttl \in [Workers -> 0..Timeout]
    /\ out \in [Workers -> BOOLEAN]
    /\ copies \in [Requests -> [Addresses -> Nat]]
    /\ redo \in [Requests -> Nat]
    /\ faults \in 0..MaxFaults
    /\ churn \in 0..MaxChurn

Init ==
    /\ Guard!GuardInit
    /\ hpc = [r \in Requests |-> "check"]
    /\ row = [r \in Requests |-> "none"]
    /\ due = [r \in Requests |-> 0]
    /\ lease = [r \in Requests |-> 0]
    /\ tasks = [r \in Requests |-> 0]
    /\ suppressed = FALSE
    /\ pc = [w \in Workers |-> "idle"]
    /\ job = [w \in Workers |-> None]
    /\ at = [w \in Workers |-> 1]
    /\ ttl = [w \in Workers |-> 0]
    /\ out = [w \in Workers |-> FALSE]
    /\ copies = [r \in Requests |-> [a \in Addresses |-> 0]]
    /\ redo = [r \in Requests |-> 0]
    /\ faults = MaxFaults
    /\ churn = MaxChurn

Fault == faults > 0 /\ faults' = faults - 1
Churn == churn > 0 /\ churn' = churn - 1

\* A step that succeeds, or fails in the database or on the wire.
OrFault(ok, failed) ==
    \/ ok /\ UNCHANGED faults
    \/ Fault /\ failed

Enqueue(r) == tasks' = [tasks EXCEPT ![r] = IF @ < MaxTasks THEN @ + 1 ELSE @]
Dequeue(r) == tasks' = [tasks EXCEPT ![r] = @ - 1]

-----------------------------------------------------------------------------
(* The request                                                             *)

requestFrame == <<rowVars, tasks, suppressed, workerVars, mailVars, churn>>

\* The guard around the handler: a lost statement is an interrupted request.
Guarded(r) ==
    /\ \/ \E k \in Keys, h \in Hashes :
            <<r, k, h>> \in Asks /\ Guard!TryInsert(r, k, h) /\ UNCHANGED faults
       \/ Guard!Lookup(r) /\ UNCHANGED faults
       \/ Guard!SetResponse(r) /\ UNCHANGED faults
       \/ Guard!Delete(r) /\ UNCHANGED faults
       \/ Guard!Interrupt(r) /\ Fault
    /\ UNCHANGED <<hpc, requestFrame>>

\* The handler goes on to its next call.
Proceed(r, p) == hpc' = [hpc EXCEPT ![r] = p] /\ UNCHANGED guardVars

Answer(r, failed) == Guard!Finish(r, failed) /\ UNCHANGED hpc

\* checkRecipientNotSuppressed, for every address: one suppressed address refuses
\* the whole message.
CheckRecipients(r) ==
    /\ rpc[r] = "run" /\ hpc[r] = "check"
    /\ OrFault(IF suppressed THEN Answer(r, FALSE) ELSE Proceed(r, "create"),
               Answer(r, TRUE))
    /\ UNCHANGED requestFrame

\* CreatePendingCompose, with send_after from resolveSendAfter.
CreatePendingCompose(r) ==
    /\ rpc[r] = "run" /\ hpc[r] = "create"
    /\ OrFault(/\ Proceed(r, "enqueue")
               /\ row' = [row EXCEPT ![r] = "scheduled"]
               /\ \E d \in 0..MaxDelay : due' = [due EXCEPT ![r] = d],
               /\ Answer(r, TRUE)
               /\ UNCHANGED <<row, due>>)
    /\ UNCHANGED <<lease, tasks, suppressed, workerVars, mailVars, churn>>

\* EnqueuePendingInboxCompose.  On an error the row stays scheduled, the request
\* fails, and the error may hide that the task was queued.
EnqueuePendingInboxCompose(r) ==
    /\ rpc[r] = "run" /\ hpc[r] = "enqueue"
    /\ OrFault(Answer(r, FALSE) /\ Enqueue(r),
               Answer(r, TRUE) /\ (Enqueue(r) \/ UNCHANGED tasks))
    /\ UNCHANGED <<rowVars, suppressed, workerVars, mailVars, churn>>

\* CancelInboxPendingCompose
CancelPendingCompose(r) ==
    /\ row[r] = "scheduled"
    /\ Churn
    /\ row' = [row EXCEPT ![r] = "cancelled"]
    /\ UNCHANGED <<guardVars, hpc, due, lease, tasks, suppressed, workerVars,
                   mailVars, faults>>

-----------------------------------------------------------------------------
(* PendingComposeSendHandler                                               *)

workerFrame == <<guardVars, hpc, due, suppressed, churn>>

Return(w) ==
    /\ pc' = [pc EXCEPT ![w] = "idle"]
    /\ job' = [job EXCEPT ![w] = None]
    /\ at' = [at EXCEPT ![w] = 1]
    /\ ttl' = [ttl EXCEPT ![w] = 0]
    /\ out' = [out EXCEPT ![w] = FALSE]

\* The attempt ends and its row does not say 'sent'.
Unrecorded(w) == redo' = [redo EXCEPT ![job[w]] = IF out[w] THEN @ + 1 ELSE @]

\* The error goes to asynq, which retries or archives the spent task.
TaskFails(w) == Return(w) /\ (Enqueue(job[w]) \/ UNCHANGED tasks)

\* Mutant: the claim looks at the lease only.
ClaimableByLease(r) == due[r] = 0 /\ row[r] # "none" /\ lease[r] <= LeaseGrace

\* ClaimInboxPendingCompose
Claimable(r) ==
    /\ due[r] = 0
    /\ \/ row[r] = "scheduled"
       \/ row[r] = "sending" /\ lease[r] <= LeaseGrace

\* ClaimPendingInboxCompose; a lost answer loses the claim.
ClaimPendingCompose(w, r) ==
    /\ pc[w] = "idle" /\ tasks[r] > 0
    /\ Claimable(r)
    /\ row' = [row EXCEPT ![r] = "sending"]
    /\ lease' = [lease EXCEPT ![r] = Lease + LeaseGrace]
    /\ OrFault(/\ pc' = [pc EXCEPT ![w] = "check"]
               /\ job' = [job EXCEPT ![w] = r]
               /\ ttl' = [ttl EXCEPT ![w] = Timeout]
               /\ Dequeue(r)
               /\ UNCHANGED <<at, out>>,
               UNCHANGED <<workerVars, tasks>>)
    /\ UNCHANGED <<workerFrame, mailVars>>

\* Undone, sent, early or held by another: the task is done.
NotClaimable(w, r) ==
    /\ pc[w] = "idle" /\ tasks[r] > 0
    /\ ~Claimable(r)
    /\ Dequeue(r)
    /\ UNCHANGED <<workerFrame, row, lease, workerVars, mailVars, faults>>

Goto(w, p) == pc' = [pc EXCEPT ![w] = p]

\* IsSuppressed for every address, then the transport.
CheckSuppression(w) ==
    /\ pc[w] = "check"
    /\ OrFault(Goto(w, IF suppressed THEN "fail" ELSE "send"), Goto(w, "release"))
    /\ UNCHANGED <<workerFrame, row, lease, tasks, job, at, ttl, out, mailVars>>

\* Mutant: an address that fails is skipped.
SendSkipping(w) ==
    LET r == job[w]
        a == allRecipients[at[w]] IN
    /\ pc[w] = "send"
    /\ \E sent \in BOOLEAN :
         /\ IF sent THEN UNCHANGED faults ELSE Fault
         /\ copies' = [copies EXCEPT ![r][a] = IF sent THEN @ + 1 ELSE @]
         /\ out' = [out EXCEPT ![w] = @ \/ sent]
    /\ IF at[w] = Len(allRecipients)
       THEN Goto(w, "mark") /\ UNCHANGED at
       ELSE at' = [at EXCEPT ![w] = @ + 1] /\ UNCHANGED pc
    /\ UNCHANGED <<workerFrame, row, lease, tasks, job, ttl, redo>>

\* One dial for the entry whose turn it is.  Any error releases the row and the
\* remaining entries are left to the retry, which starts over; the message may have
\* gone out all the same.
Send(w) ==
    LET r == job[w]
        a == allRecipients[at[w]] IN
    /\ pc[w] = "send"
    /\ \/ /\ UNCHANGED faults
          /\ copies' = [copies EXCEPT ![r][a] = @ + 1]
          /\ out' = [out EXCEPT ![w] = TRUE]
          /\ IF at[w] = Len(allRecipients)
             THEN Goto(w, "mark") /\ UNCHANGED at
             ELSE at' = [at EXCEPT ![w] = @ + 1] /\ UNCHANGED pc
       \/ /\ Fault
          /\ \/ /\ copies' = [copies EXCEPT ![r][a] = @ + 1]
                /\ out' = [out EXCEPT ![w] = TRUE]
             \/ UNCHANGED <<copies, out>>
          /\ Goto(w, "release")
          /\ UNCHANGED at
    /\ UNCHANGED <<workerFrame, row, lease, tasks, job, ttl, redo>>

\* MarkInboxPendingComposeSent, guarded on 'sending'; an error is only logged.
MarkPendingComposeSent(w) ==
    LET r == job[w] IN
    /\ pc[w] = "mark"
    /\ Return(w)
    /\ OrFault(/\ row' = [row EXCEPT ![r] = IF @ = "sending" THEN "sent" ELSE @]
               /\ UNCHANGED redo,
               Unrecorded(w) /\ UNCHANGED row)
    /\ UNCHANGED <<workerFrame, lease, tasks, copies>>

\* releaseCompose: ReleaseInboxPendingCompose, guarded on 'sending', best effort.
ReleasePendingCompose(w) ==
    LET r == job[w] IN
    /\ pc[w] = "release"
    /\ TaskFails(w)
    /\ Unrecorded(w)
    /\ OrFault(/\ row' = [row EXCEPT ![r] = IF @ = "sending" THEN "scheduled" ELSE @]
               /\ lease' = [lease EXCEPT ![r] = IF row[r] = "sending" THEN 0 ELSE @],
               UNCHANGED <<row, lease>>)
    /\ UNCHANGED <<workerFrame, copies>>

\* failCompose: FailInboxPendingCompose, best effort; the task is done.
FailPendingCompose(w) ==
    LET r == job[w] IN
    /\ pc[w] = "fail"
    /\ Return(w)
    /\ OrFault(/\ row' = [row EXCEPT ![r] = IF @ \in Open THEN "failed" ELSE @]
               /\ lease' = [lease EXCEPT ![r] = IF row[r] \in Open THEN 0 ELSE @],
               UNCHANGED <<row, lease>>)
    /\ UNCHANGED <<workerFrame, tasks, mailVars>>

\* A crash or an expired task context.
Abort(w) ==
    /\ pc[w] # "idle"
    /\ Fault
    /\ TaskFails(w)
    /\ Unrecorded(w)
    /\ UNCHANGED <<workerFrame, row, lease, copies>>

-----------------------------------------------------------------------------
(* The sweep, the clock, and everyone else                                 *)

\* Mutant: the sweep looks at abandoned claims only.
StrandedClaims(r) == due[r] = 0 /\ row[r] = "sending" /\ lease[r] = 0

\* ListStrandedInboxPendingComposes
Stranded(r) ==
    /\ due[r] = 0
    /\ row[r] = "scheduled" \/ (row[r] = "sending" /\ lease[r] = 0)

\* PendingSweepHandler: EnqueueStrandedPendingInboxCompose.
Sweep(r) ==
    /\ Stranded(r)
    /\ Enqueue(r)
    /\ UNCHANGED <<guardVars, hpc, rowVars, suppressed, workerVars, mailVars, budgetVars>>

Countdown(n) == IF n > 0 THEN n - 1 ELSE n

\* No execution outlives its timeout.
Tick ==
    /\ \A w \in Workers : pc[w] # "idle" => ttl[w] > 0
    /\ due' = [r \in Requests |-> Countdown(due[r])]
    /\ lease' = [r \in Requests |-> Countdown(lease[r])]
    /\ ttl' = [w \in Workers |-> Countdown(ttl[w])]
    /\ UNCHANGED <<guardVars, hpc, row, tasks, suppressed, pc, job, at, out, mailVars, budgetVars>>

\* The key's day ends, whatever the worker is doing.
ExpireKey(k) ==
    /\ Guard!Expire(k)
    /\ UNCHANGED <<hpc, rowVars, tasks, suppressed, workerVars, mailVars, budgetVars>>

\* The maintenance sweep drops old keys.
PurgeKey(k) ==
    /\ Guard!Purge(k)
    /\ UNCHANGED <<hpc, rowVars, tasks, suppressed, workerVars, mailVars, budgetVars>>

\* An address unsubscribes or bounces; which one makes no difference.
Suppress ==
    /\ ~suppressed
    /\ Churn
    /\ suppressed' = TRUE
    /\ UNCHANGED <<guardVars, hpc, rowVars, tasks, workerVars, mailVars, faults>>

-----------------------------------------------------------------------------
Handle(r) == CheckRecipients(r) \/ CreatePendingCompose(r) \/ EnqueuePendingInboxCompose(r)

Take(w, r) == ClaimPendingCompose(w, r) \/ NotClaimable(w, r)

Work(w) ==
    \/ CheckSuppression(w) \/ Send(w) \/ MarkPendingComposeSent(w)
    \/ ReleasePendingCompose(w) \/ FailPendingCompose(w)

Next ==
    \/ \E r \in Requests : Guarded(r) \/ Handle(r) \/ CancelPendingCompose(r) \/ Sweep(r)
    \/ \E w \in Workers, r \in Requests : Take(w, r)
    \/ \E w \in Workers : Work(w) \/ Abort(w)
    \/ \E k \in Keys : ExpireKey(k) \/ PurgeKey(k)
    \/ Suppress
    \/ Tick

Spec == Init /\ [][Next]_vars

\* asynq hands out its tasks, a running handler keeps running, the sweep is periodic
\* and time passes.  No request need ever be finished.
Fairness ==
    /\ WF_vars(\E w \in Workers : Work(w))
    /\ WF_vars(\E w \in Workers, r \in Requests : Take(w, r))
    /\ WF_vars(\E r \in Requests : Sweep(r))
    /\ WF_vars(Tick)

FairSpec == Spec /\ Fairness

-----------------------------------------------------------------------------
(* Properties                                                              *)

\* A stored response answers the request it is replayed to, inside the window of its run.
ReplayIsFaithful == Guard!ReplayIsFaithful

\* A client that keeps retrying with one key has its message queued twice only if the
\* first request told it that it had failed.
RunsOncePerKey == Guard!RunsOncePerKey

\* "Occasionally deliver twice to some recipients rather than never to the rest": there is
\* one attempt more only for an earlier one that mailed somebody and was not recorded.
\* One attempt mails an address once per field that names it: an address in To and in Cc
\* gets the message twice, although the comment over normalizeRecipients says that its
\* de-duplication prevents just that; it works on one field at a time.
CopiesArePaidFor ==
    \A r \in Requests, a \in Addresses : copies[r][a] <= Listed(a) * (1 + redo[r])

\* "Never to the rest" is excluded: a row that says 'sent' has reached every address of
\* every field.
SentMeansEveryone ==
    \A r \in Requests :
      row[r] = "sent" => \A a \in Addresses : copies[r][a] >= Listed(a)

\* No composed email is stranded, even when its task was never queued.
EveryComposeSettles == \A r \in Requests : row[r] \in Open ~> row[r] \in Terminal
=============================================================================
