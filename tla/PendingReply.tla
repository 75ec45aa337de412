----------------------------- MODULE PendingReply -----------------------------
(***************************************************************************)
(* Manual inbox replies with an undo window: the HTTP use cases that queue *)
(* and cancel a reply (app/inbox/reply.go, pending.go), the row that is    *)
(* both the undo handle and the delivery claim (queries/inbox.sql), the    *)
(* workers that deliver it (worker/inbox/pendingreplysend.go) and the      *)
(* sweep that rescues a stranded one (worker/inbox/pendingsweep.go).       *)
(*                                                                         *)
(* All replies are to one thread of one workspace and carry the same text, *)
(* so any two of them may be a double click.  One step is one SQL          *)
(* statement, one queue call or one provider call.  Time is countdowns.    *)
(* What the thread shows, its unread mark and its history, is left out.    *)
(***************************************************************************)
EXTENDS Integers, FiniteSets

CONSTANTS
    Replies,          \* submissions of the reply form
    Workers,          \* concurrent executions of PendingReplySendHandler
    None,             \* no job
    Lease,            \* PendingReplyLeaseSeconds, in ticks
    LeaseGrace,       \* the sweep's grace on top of the lease
    Overdue,          \* the sweep's grace after send_after
    Timeout,          \* sendTimeout of the task
    MaxDelay,         \* MaxScheduleHorizon
    DedupWindow,      \* immediateReplyDedupWindow
    MaxOutstanding,   \* MaxOutstandingPendingSends
    Outcomes,         \* provider answers the run explores
    MaxTasks,         \* bound: tasks queued per reply
    MaxFaults,        \* bound: crashes, lost replies, failed writes, bad answers
    MaxChurn          \* bound: unsubscribes

\* What sender.Send answers; an "ambiguous" error hides a delivery.
AllOutcomes == {"accepted", "rejected", "ambiguous"}
GoesOut     == {"accepted", "ambiguous"}

ASSUME PendingReplyAssumption ==
    /\ None \notin Replies
    /\ Timeout \in Nat /\ Lease \in Nat /\ Timeout < Lease
    /\ LeaseGrace \in Nat /\ Overdue \in Nat /\ MaxDelay \in Nat
    /\ DedupWindow \in Nat /\ MaxOutstanding \in Nat
    /\ MaxTasks \in Nat \ {0} /\ MaxFaults \in Nat /\ MaxChurn \in Nat
    /\ Outcomes \subseteq AllOutcomes

VARIABLES
    api, kind,              \* the HTTP request: progress and route
    row, due, lease, fresh, \* inbox_pending_replies: status and its three clocks
    tasks,                  \* asynq: queued send tasks
    pc, job, ttl,           \* handler executions
    suppressed,             \* the recipient is on the suppression list
    \* what happened outside the database, and the budgets
    delivered,              \* messages the provider accepted
    lost,                   \* of those, the ones never marked 'sent'
    hidden,                 \* of those, the ones answered with an error
    faults, churn

apiVars     == <<api, kind>>
rowVars     == <<row, due, lease, fresh>>
workerVars  == <<pc, job, ttl>>
historyVars == <<delivered, lost, hidden>>
budgetVars  == <<faults, churn>>
vars == <<apiVars, rowVars, tasks, workerVars, suppressed, historyVars, budgetVars>>

Open     == {"scheduled", "sending"}
Terminal == {"sent", "cancelled", "failed"}

\* The execution holds the claim on its row.
Holding == {"check", "send", "mark", "release", "fail"}

TypeOK ==
    /\ api \in [Replies -> {"idle", "admit", "create", "enqueue", "unqueue",
                            "done", "refused", "error"}]
    /\ kind \in [Replies -> {"immediate", "deferred"}]
    /\ row \in [Replies -> {"none"} \cup Open \cup Terminal]
    /\ due \in [Replies -> 0..(MaxDelay + Overdue)]
    /\ lease \in [Replies -> 0..(Lease + LeaseGrace)]
    /\ fresh \in [Replies -> 0..DedupWindow]
    /\ tasks \in [Replies -> 0..MaxTasks]
    /\ pc \in [Workers -> {"idle", "record"} \cup Holding]
    /\ job \in [Workers -> Replies \cup {None}]
    /\ ttl \in [Workers -> 0..Timeout]
    /\ suppressed \in BOOLEAN
    /\ delivered \in [Replies -> Nat]
    /\ lost \in [Replies -> Nat]
    /\ hidden \in [Replies -> Nat]
    /\ faults \in 0..MaxFaults
    /\ churn \in 0..MaxChurn

Init ==
    /\ api = [r \in Replies |-> "idle"]
    /\ kind = [r \in Replies |-> "immediate"]
    /\ row = [r \in Replies |-> "none"]
    /\ due = [r \in Replies |-> 0]
    /\ lease = [r \in Replies |-> 0]
    /\ fresh = [r \in Replies |-> 0]
    /\ tasks = [r \in Replies |-> 0]
    /\ pc = [w \in Workers |-> "idle"]
    /\ job = [w \in Workers |-> None]
    /\ ttl = [w \in Workers |-> 0]
    /\ suppressed = FALSE
    /\ delivered = [r \in Replies |-> 0]
    /\ lost = [r \in Replies |-> 0]
    /\ hidden = [r \in Replies |-> 0]
    /\ faults = MaxFaults
    /\ churn = MaxChurn

-----------------------------------------------------------------------------
(* Helpers                                                                 *)

Fault == faults > 0 /\ faults' = faults - 1
Churn == churn > 0 /\ churn' = churn - 1

\* A step that succeeds, or fails in the database or on the wire.
OrFault(ok, failed) ==
    \/ ok /\ UNCHANGED faults
    \/ Fault /\ failed

Enqueue(r) == tasks' = [tasks EXCEPT ![r] = IF @ < MaxTasks THEN @ + 1 ELSE @]

Goto(w, p) == pc' = [pc EXCEPT ![w] = p] /\ UNCHANGED <<job, ttl>>

Return(w) ==
    /\ pc' = [pc EXCEPT ![w] = "idle"]
    /\ job' = [job EXCEPT ![w] = None]
    /\ ttl' = [ttl EXCEPT ![w] = 0]

\* The handler returns an error: asynq retries, or archives the spent task.
TaskFails(w) == Return(w) /\ (Enqueue(job[w]) \/ UNCHANGED tasks)

\* send_after <= now()
Due(r) == due[r] <= Overdue

-----------------------------------------------------------------------------
(* The request: Reply and ScheduleReply, then queueReply                   *)

\* FindDuplicateInboxPendingReply: same thread and text, inside the window, and
\* still 'scheduled'.
Duplicate(d) == row[d] = "scheduled" /\ fresh[d] > 0

\* The route is called.  Only the immediate one collapses a double submit.
Submit(r, k) ==
    /\ api[r] = "idle"
    /\ kind' = [kind EXCEPT ![r] = k]
    /\ api' = [api EXCEPT ![r] = IF k = "immediate" /\ \E d \in Replies : Duplicate(d)
                                 THEN "done" ELSE "admit"]
    /\ UNCHANGED <<rowVars, tasks, workerVars, suppressed, historyVars, budgetVars>>

\* CountInboxPendingReplies
Outstanding == Cardinality({r \in Replies : row[r] \in Open})

\* checkRecipientNotSuppressed and checkOutstandingSendCapacity.
Admit(r) ==
    /\ api[r] = "admit"
    /\ api' = [api EXCEPT ![r] = IF suppressed \/ Outstanding >= MaxOutstanding
                                 THEN "refused" ELSE "create"]
    /\ UNCHANGED <<kind, rowVars, tasks, workerVars, suppressed, historyVars, budgetVars>>

\* resolveSendAfter: already past for an immediate reply, and for a deferred one
\* under an undo window of zero; otherwise the window or the bounded schedule.
SendAfter(r) == IF kind[r] = "immediate" THEN {0} ELSE 0..MaxDelay

\* The row exists before anything is queued.
CreatePendingReply(r) ==
    /\ api[r] = "create"
    /\ api' = [api EXCEPT ![r] = "enqueue"]
    /\ row' = [row EXCEPT ![r] = "scheduled"]
    /\ \E d \in SendAfter(r) : due' = [due EXCEPT ![r] = d + Overdue]
    /\ fresh' = [fresh EXCEPT ![r] = DedupWindow]
    /\ UNCHANGED <<kind, lease, tasks, workerVars, suppressed, historyVars, budgetVars>>

\* EnqueuePendingInboxReply.  An error may hide that the task was queued.
EnqueuePendingInboxReply(r) ==
    /\ api[r] = "enqueue"
    /\ \/ /\ Enqueue(r)
          /\ api' = [api EXCEPT ![r] = "done"]
          /\ UNCHANGED faults
       \/ /\ Fault
          /\ Enqueue(r) \/ UNCHANGED tasks
          /\ api' = [api EXCEPT ![r] = "unqueue"]
    /\ UNCHANGED <<kind, rowVars, workerVars, suppressed, historyVars, churn>>

\* Mutant: the row is failed whatever it says.
FailAnyRow(r) ==
    /\ row' = [row EXCEPT ![r] = "failed"]
    /\ lease' = [lease EXCEPT ![r] = 0]
    /\ UNCHANGED <<due, fresh>>

\* FailInboxPendingReply
FailRow(r) ==
    /\ row' = [row EXCEPT ![r] = IF @ \in Open THEN "failed" ELSE @]
    /\ lease' = [lease EXCEPT ![r] = IF row[r] \in Open THEN 0 ELSE @]
    /\ UNCHANGED <<due, fresh>>

\* The queue refused the task: fail the row, best effort, and report the error.
MarkUnqueued(r) ==
    /\ api[r] = "unqueue"
    /\ api' = [api EXCEPT ![r] = "error"]
    /\ OrFault(FailRow(r), UNCHANGED rowVars)
    /\ UNCHANGED <<kind, tasks, workerVars, suppressed, historyVars, churn>>

\* The request dies between two of its steps.
RequestDies(r) ==
    /\ api[r] \in {"admit", "create", "enqueue", "unqueue"}
    /\ Fault
    /\ api' = [api EXCEPT ![r] = "error"]
    /\ UNCHANGED <<kind, rowVars, tasks, workerVars, suppressed, historyVars, churn>>

\* Mutant: Undo also takes a reply that is being sent.
CancelAnyOpen(r) ==
    /\ row[r] \in Open
    /\ row' = [row EXCEPT ![r] = "cancelled"]
    /\ UNCHANGED <<apiVars, due, lease, fresh, tasks, workerVars, suppressed,
                   historyVars, budgetVars>>

\* CancelInboxPendingReply, the Undo button.
CancelPendingReply(r) ==
    /\ row[r] = "scheduled"
    /\ row' = [row EXCEPT ![r] = "cancelled"]
    /\ UNCHANGED <<apiVars, due, lease, fresh, tasks, workerVars, suppressed,
                   historyVars, budgetVars>>

-----------------------------------------------------------------------------
(* PendingReplySendHandler                                                 *)

\* Mutant: the lease alone decides, so a sent row can be taken again.
ClaimableByLease(r) ==
    Due(r) /\ (row[r] = "scheduled" \/ (row[r] # "none" /\ lease[r] <= LeaseGrace))

\* ClaimInboxPendingReply: due, and either waiting or abandoned.
Claimable(r) ==
    /\ Due(r)
    /\ \/ row[r] = "scheduled"
       \/ row[r] = "sending" /\ lease[r] <= LeaseGrace

\* ClaimPendingInboxReply.  A lost answer loses the claim and the body with it.
ClaimPendingReply(w, r) ==
    /\ pc[w] = "idle" /\ tasks[r] > 0
    /\ Claimable(r)
    /\ row' = [row EXCEPT ![r] = "sending"]
    /\ lease' = [lease EXCEPT ![r] = Lease + LeaseGrace]
    /\ \/ /\ pc' = [pc EXCEPT ![w] = "check"]
          /\ job' = [job EXCEPT ![w] = r]
          /\ ttl' = [ttl EXCEPT ![w] = Timeout]
          /\ tasks' = [tasks EXCEPT ![r] = @ - 1]
          /\ UNCHANGED faults
       \/ /\ Fault
          /\ tasks' = [tasks EXCEPT ![r] = @ - 1] \/ UNCHANGED tasks
          /\ UNCHANGED workerVars
    /\ UNCHANGED <<apiVars, due, fresh, suppressed, historyVars, churn>>

\* ErrInboxPendingNotClaimable: undone, sent, early or held.  The task is done.
NotClaimable(w, r) ==
    /\ pc[w] = "idle" /\ tasks[r] > 0
    /\ ~Claimable(r)
    /\ tasks' = [tasks EXCEPT ![r] = @ - 1]
    /\ UNCHANGED <<apiVars, rowVars, workerVars, suppressed, historyVars, budgetVars>>

\* The suppression list is read again; then the transport is resolved.  (A thread
\* that lost its inbound message ends like a suppressed recipient.)
CheckSuppression(w) ==
    /\ pc[w] = "check"
    /\ OrFault(Goto(w, IF suppressed THEN "fail" ELSE "send"), Goto(w, "release"))
    /\ UNCHANGED <<apiVars, rowVars, tasks, suppressed, historyVars, churn>>

\* sender.Send.  Any error releases the row.
Send(w) ==
    LET r == job[w] IN
    /\ pc[w] = "send"
    /\ \E outcome \in Outcomes :
         /\ IF outcome = "accepted" THEN UNCHANGED faults ELSE Fault
         /\ Goto(w, IF outcome = "accepted" THEN "mark" ELSE "release")
         /\ delivered' = [delivered EXCEPT ![r] = IF outcome \in GoesOut THEN @ + 1 ELSE @]
         /\ hidden' = [hidden EXCEPT ![r] = IF outcome = "ambiguous" THEN @ + 1 ELSE @]
    /\ UNCHANGED <<apiVars, rowVars, tasks, suppressed, lost, churn>>

\* MarkInboxPendingReplySent, guarded on 'sending'; an error is only logged.
MarkPendingReplySent(w) ==
    LET r == job[w] IN
    /\ pc[w] = "mark"
    /\ Goto(w, "record")
    /\ OrFault(/\ row' = [row EXCEPT ![r] = IF @ = "sending" THEN "sent" ELSE @]
               /\ UNCHANGED lost,
               /\ UNCHANGED row
               /\ lost' = [lost EXCEPT ![r] = @ + 1])
    /\ UNCHANGED <<apiVars, due, lease, fresh, tasks, suppressed, delivered, hidden,
                   churn>>

\* RecordOutboundReply writes the thread's history, and an error of it is only logged:
\* the task is done either way.
RecordInboxReply(w) ==
    /\ pc[w] = "record"
    /\ Return(w)
    /\ UNCHANGED <<apiVars, rowVars, tasks, suppressed, historyVars, budgetVars>>

\* ReleaseInboxPendingReply, guarded on 'sending'; then the error goes to asynq.
ReleasePendingReply(w) ==
    LET r == job[w] IN
    /\ pc[w] = "release"
    /\ TaskFails(w)
    /\ OrFault(/\ row' = [row EXCEPT ![r] = IF @ = "sending" THEN "scheduled" ELSE @]
               /\ lease' = [lease EXCEPT ![r] = IF row[r] = "sending" THEN 0 ELSE @],
               UNCHANGED <<row, lease>>)
    /\ UNCHANGED <<apiVars, due, fresh, suppressed, historyVars, churn>>

\* failPending: terminal, whether or not the write succeeds.
FailPendingReply(w) ==
    /\ pc[w] = "fail"
    /\ Return(w)
    /\ OrFault(FailRow(job[w]), UNCHANGED rowVars)
    /\ UNCHANGED <<apiVars, tasks, suppressed, historyVars, churn>>

\* A crash or an expired task context: no further effect.
Abort(w) ==
    /\ pc[w] # "idle"
    /\ Fault
    /\ TaskFails(w)
    /\ lost' = IF pc[w] = "mark" THEN [lost EXCEPT ![job[w]] = @ + 1] ELSE lost
    /\ UNCHANGED <<apiVars, rowVars, suppressed, delivered, hidden, churn>>

-----------------------------------------------------------------------------
(* The sweep, the clock, and everyone else                                 *)

\* Mutant: the sweep misses abandoned claims.
StrandedScheduled(r) == row[r] = "scheduled" /\ due[r] = 0

\* ListStrandedInboxPendingReplies
Stranded(r) ==
    /\ Due(r)
    /\ \/ row[r] = "scheduled" /\ due[r] = 0
       \/ row[r] = "sending" /\ lease[r] = 0

\* PendingSweepHandler: a fresh task for a stranded row, and nothing else.
Sweep(r) ==
    /\ Stranded(r)
    /\ Enqueue(r)
    /\ UNCHANGED <<apiVars, rowVars, workerVars, suppressed, historyVars, budgetVars>>

Countdown(n) == IF n > 0 THEN n - 1 ELSE n

\* No execution outlives its timeout.
Tick ==
    /\ \A w \in Workers : pc[w] # "idle" => ttl[w] > 0
    /\ due' = [r \in Replies |-> Countdown(due[r])]
    /\ lease' = [r \in Replies |-> Countdown(lease[r])]
    /\ fresh' = [r \in Replies |-> Countdown(fresh[r])]
    /\ ttl' = [w \in Workers |-> Countdown(ttl[w])]
    /\ UNCHANGED <<apiVars, row, tasks, pc, job, suppressed, historyVars, budgetVars>>

Suppress ==
    /\ ~suppressed
    /\ Churn
    /\ suppressed' = TRUE
    /\ UNCHANGED <<apiVars, rowVars, tasks, workerVars, historyVars, faults>>

-----------------------------------------------------------------------------
Request(r) ==
    \/ \E k \in {"immediate", "deferred"} : Submit(r, k)
    \/ Admit(r) \/ CreatePendingReply(r) \/ EnqueuePendingInboxReply(r)
    \/ MarkUnqueued(r) \/ RequestDies(r)

Take(w, r) == ClaimPendingReply(w, r) \/ NotClaimable(w, r)

Work(w) ==
    \/ CheckSuppression(w) \/ Send(w) \/ MarkPendingReplySent(w) \/ RecordInboxReply(w)
    \/ ReleasePendingReply(w) \/ FailPendingReply(w)

Next ==
    \/ \E r \in Replies : Request(r) \/ CancelPendingReply(r) \/ Sweep(r)
    \/ \E w \in Workers, r \in Replies : Take(w, r)
    \/ \E w \in Workers : Work(w) \/ Abort(w)
    \/ Tick \/ Suppress

Spec == Init /\ [][Next]_vars

\* asynq runs its tasks, a running handler keeps running, the sweep is periodic and
\* time passes.  Operators and requests owe nothing.
Fairness ==
    /\ \A w \in Workers : WF_vars(Work(w))
    /\ \A r \in Replies : WF_vars(\E w \in Workers : Take(w, r))
    /\ \A r \in Replies : WF_vars(Sweep(r))
    /\ WF_vars(Tick)

FairSpec == Spec /\ Fairness

-----------------------------------------------------------------------------
(* Properties                                                              *)

\* A reply goes out again only for a delivery the row never learned of: one whose
\* completion was not written, or one the provider answered with an error.
RepliesArePaidFor ==
    \A r \in Replies : delivered[r] <= 1 + lost[r] + hidden[r]

\* Undo is honoured: once CancelPendingReply has succeeded nothing more goes out for
\* that reply, although its task still fires and the sweep still runs; and nothing goes
\* out before send_after, so no early task or retry shortens the time there is for it.
UndoIsHonoured ==
    [][\A r \in Replies :
         row[r] = "cancelled" \/ ~Due(r) => delivered'[r] = delivered[r]]_vars

\* No reply is stranded: a lost task, a lost claim or a crashed worker never leaves
\* one in the outbox for ever.
EveryReplySettles == \A r \in Replies : row[r] \in Open ~> row[r] \in Terminal

\* The ledger's word for a row's status.
Fate(status) ==
    CASE status = "none" -> "draft"
      [] status \in Open -> "waiting"
      [] status = "sent" -> "sent"
      [] status = "cancelled" -> "undone"
      [] status = "failed" -> "abandoned"

Ledger == INSTANCE Outbox WITH
    Items <- Replies, mailed <- delivered,
    fate <- [r \in Replies |-> Fate(row[r])],
    unknown <- [r \in Replies |-> lost[r] + hidden[r]]

\* Requests, claims, leases, retries and sweeps are invisible from outside: every step of
\* the reply path is a step of the outbox or none.  A reply is recorded as sent only for
\* a delivery, it is never undone once one is known, a row that is sent or undone sends
\* nothing more, and no row leaves the state it ended in.
ImplementsOutbox == Ledger!Spec
=============================================================================
