--------------------------- MODULE WebhookDelivery ---------------------------
(***************************************************************************)
(* Outbound webhooks: the fan-out of one event to the endpoints of a       *)
(* workspace (app/webhook/service.go), the asynq tasks that POST each      *)
(* delivery and retry it on the application's own schedule                 *)
(* (worker/webhook/deliver.go), the rows they settle (queries/webhook.sql) *)
(* and what operators do to an endpoint meanwhile.                         *)
(*                                                                         *)
(* There is one event, so an endpoint names its delivery.  A task is an    *)
(* asynq task and, while it runs, the handler execution that serves it.    *)
(* Nothing claims a delivery: the row is read before the POST and settled  *)
(* after it.                                                               *)
(***************************************************************************)
EXTENDS Integers, Sequences

CONSTANTS
    Endpoints,      \* webhook_endpoints of the workspace
    Slots,          \* bound: asynq tasks that exist at the same time
    None,           \* no endpoint
    MaxAttempts,    \* maxAttempts
    Backoff,        \* the backoff table, in ticks
    MaxRetry,       \* webhookMaxRetry
    ReplayRetry,    \* sendMaxRetry: the retries of a replayed dead letter
    RetryDelay,     \* asynq's delay before it retries a failed task
    Timeout,        \* webhookDeliverTimeout
    Outcomes,       \* answers of the receiver the run explores
    MaxFaults,      \* bound: crashes, failed or unconfirmed writes
    MaxRefusals,    \* bound: tasks the queue does not take
    MaxEchoes,      \* bound: tasks queued although the producer saw an error
    MaxChurn        \* bound: changes to endpoints, replays of dead letters

\* What a POST ends in: a 2xx, another status or no connection, a transport error
\* after the receiver took it, or no POST at all because the URL guard refused.
AllOutcomes == {"ok", "refused", "hidden", "blocked"}
Received    == {"ok", "hidden"}

ASSUME WebhookAssumption ==
    /\ None \notin Endpoints
    /\ MaxAttempts \in Nat \ {0}
    /\ Backoff \in Seq(Nat) /\ Backoff # <<>>
    /\ MaxRetry \in Nat /\ ReplayRetry \in Nat /\ RetryDelay \in Nat /\ Timeout \in Nat
    /\ MaxFaults \in Nat /\ MaxRefusals \in Nat /\ MaxEchoes \in Nat /\ MaxChurn \in Nat
    /\ Outcomes \subseteq AllOutcomes

VARIABLES
    phase, todo, cur,   \* Dispatch: where its loop is, what is left of it
    exists, active,     \* webhook_endpoints
    row, attempts,      \* webhook_deliveries
    task,               \* asynq
    dead,               \* asynq archived a task of the delivery; captured: there is a
                        \* task_dead_letters row for it
    \* what happened outside the database, and the budgets
    posts,              \* POSTs made
    taken,              \* POSTs the receiver took
    unpaid,             \* of those, the ones that could not be recorded
    chains,             \* tasks a delivery got beyond its own
    stranded,           \* the queue did not take the delivery's task
    cut,                \* given up for another reason than a failed last attempt
    faults, refusals, echoes, churn

dispatchVars == <<phase, todo, cur>>
endpointVars == <<exists, active>>
rowVars      == <<row, attempts>>
historyVars  == <<posts, taken, unpaid, chains, stranded, cut>>
budgetVars   == <<faults, refusals, echoes, churn>>
vars == <<dispatchVars, endpointVars, rowVars, task, dead, historyVars, budgetVars>>

NoTask == [pc |-> "free", of |-> None, left |-> 0, wait |-> 0, ttl |-> 0, n |-> 0]

NewTask(p, d) == [NoTask EXCEPT !.pc = "queued", !.of = p, !.left = MaxRetry, !.wait = d]

Running == {"post", "ack", "retry", "requeue", "giveup"}

TypeOK ==
    /\ phase \in {"idle", "next", "enqueue", "done"}
    /\ todo \subseteq Endpoints /\ cur \in Endpoints \cup {None}
    /\ exists \in [Endpoints -> BOOLEAN] /\ active \in [Endpoints -> BOOLEAN]
    /\ row \in [Endpoints -> {"none", "pending", "delivered", "failed"}]
    /\ attempts \in [Endpoints -> 0..MaxAttempts]
    /\ task \in [Slots -> [pc : {"free", "queued"} \cup Running,
                           of : Endpoints \cup {None}, left : Nat, wait : Nat,
                           ttl : 0..Timeout, n : 0..MaxAttempts]]
    /\ dead \in [Endpoints -> {"none", "captured", "missed"}]
    /\ posts \in [Endpoints -> Nat] /\ taken \in [Endpoints -> Nat]
    /\ unpaid \in [Endpoints -> Nat] /\ chains \in [Endpoints -> Nat]
    /\ stranded \in [Endpoints -> BOOLEAN] /\ cut \in [Endpoints -> BOOLEAN]
    /\ faults \in 0..MaxFaults /\ refusals \in 0..MaxRefusals
    /\ echoes \in 0..MaxEchoes /\ churn \in 0..MaxChurn

Init ==
    /\ phase = "idle" /\ todo = {} /\ cur = None
    /\ exists = [p \in Endpoints |-> TRUE]
    /\ active \in [Endpoints -> BOOLEAN]
    /\ row = [p \in Endpoints |-> "none"]
    /\ attempts = [p \in Endpoints |-> 0]
    /\ task = [t \in Slots |-> NoTask]
    /\ dead = [p \in Endpoints |-> "none"]
    /\ posts = [p \in Endpoints |-> 0]
    /\ taken = [p \in Endpoints |-> 0]
    /\ unpaid = [p \in Endpoints |-> 0]
    /\ chains = [p \in Endpoints |-> 0]
    /\ stranded = [p \in Endpoints |-> FALSE]
    /\ cut = [p \in Endpoints |-> FALSE]
    /\ faults = MaxFaults /\ refusals = MaxRefusals
    /\ echoes = MaxEchoes /\ churn = MaxChurn

-----------------------------------------------------------------------------
(* Helpers                                                                 *)

Fault   == faults > 0 /\ faults' = faults - 1 /\ UNCHANGED <<refusals, echoes, churn>>
Refusal == refusals > 0 /\ refusals' = refusals - 1 /\ UNCHANGED <<faults, echoes, churn>>
Echo    == echoes > 0 /\ echoes' = echoes - 1 /\ UNCHANGED <<faults, refusals, churn>>
Churn   == churn > 0 /\ churn' = churn - 1 /\ UNCHANGED <<faults, refusals, echoes>>

Free(t) == task[t].pc = "free"

\* A task after its handler returned an error: retried, or archived when spent.
Retried(t) ==
    IF task[t].left > 0
    THEN [NewTask(task[t].of, RetryDelay) EXCEPT !.left = task[t].left - 1]
    ELSE NoTask

\* DeadLetterErrorHandler captures a task that asynq archives; when the process is
\* gone or the insert fails there is no row.
DeadLettered(t) ==
    LET p == task[t].of IN
    IF task[t].left > 0
    THEN UNCHANGED dead
    ELSE \E c \in {"captured", "missed"} :
           dead' = [dead EXCEPT ![p] = IF @ = "captured" THEN @ ELSE c]

TaskFails(t) == task' = [task EXCEPT ![t] = Retried(t)] /\ DeadLettered(t)

Goto(t, pc) == task' = [task EXCEPT ![t].pc = pc] /\ UNCHANGED dead

Return(t) == task' = [task EXCEPT ![t] = NoTask] /\ UNCHANGED dead

\* The table's entry for a failed attempt; the last one is reused.
Delay(n) == Backoff[IF n <= Len(Backoff) THEN n ELSE Len(Backoff)]

-----------------------------------------------------------------------------
(* Dispatch and Ping                                                       *)

\* The loop goes on while endpoints are left.
Loop(left) == phase' = (IF left = {} THEN "done" ELSE "next") /\ todo' = left

\* Dispatch lists the endpoints and keeps the active, subscribed ones.
Dispatch ==
    /\ phase = "idle"
    /\ Loop({p \in Endpoints : exists[p] /\ active[p]})
    /\ UNCHANGED <<cur, endpointVars, rowVars, task, dead, historyVars, budgetVars>>

\* Ping is for one endpoint, active or not.
Ping(p) ==
    /\ phase = "idle" /\ exists[p]
    /\ Loop({p})
    /\ UNCHANGED <<cur, endpointVars, rowVars, task, dead, historyVars, budgetVars>>

\* enqueueDelivery, first half: the row.  A failed insert (a deleted endpoint among
\* others) is logged and the loop goes on.
CreateDelivery(p) ==
    /\ phase = "next" /\ p \in todo
    /\ \/ /\ exists[p]
          /\ row' = [row EXCEPT ![p] = "pending"]
          /\ phase' = "enqueue" /\ cur' = p /\ todo' = todo \ {p}
          /\ UNCHANGED budgetVars
       \/ ~exists[p] /\ Loop(todo \ {p}) /\ UNCHANGED <<row, cur, budgetVars>>
       \/ exists[p] /\ Fault /\ Loop(todo \ {p}) /\ UNCHANGED <<row, cur>>
    /\ UNCHANGED <<attempts, endpointVars, task, dead, historyVars>>

\* Second half: the task.  An error is logged and the row stays as it is.
EnqueueWebhookDeliver ==
    /\ phase = "enqueue"
    /\ Loop(todo) /\ cur' = None
    /\ \/ /\ \E s \in Slots : Free(s) /\ task' = [task EXCEPT ![s] = NewTask(cur, 0)]
          /\ UNCHANGED <<stranded, budgetVars>>
       \/ /\ Refusal
          /\ stranded' = [stranded EXCEPT ![cur] = TRUE]
          /\ UNCHANGED task
    /\ UNCHANGED <<endpointVars, rowVars, dead, posts, taken, unpaid, chains, cut>>

\* The emitting process dies in the loop.
DispatchDies ==
    /\ phase \in {"next", "enqueue"}
    /\ Refusal
    /\ stranded' = [p \in Endpoints |-> stranded[p] \/ p = cur]
    /\ phase' = "done" /\ todo' = {} /\ cur' = None
    /\ UNCHANGED <<endpointVars, rowVars, task, dead, posts, taken, unpaid, chains, cut>>

-----------------------------------------------------------------------------
(* deliver                                                                 *)

\* Mutant: whatever is still there is POSTed.
OpenAny(p) == row[p] # "none"

\* A settled delivery is not POSTed again.
Open(p) == row[p] = "pending"

\* GetWebhookDeliveryJob.  A vanished or settled delivery ends the task; an inactive
\* endpoint ends the delivery.
Load(t) ==
    LET p == task[t].of IN
    /\ task[t].pc = "queued" /\ task[t].wait = 0
    /\ \/ /\ ~Open(p)
          /\ Return(t)
          /\ UNCHANGED budgetVars
       \/ /\ Open(p)
          /\ task' = [task EXCEPT ![t] =
                        [@ EXCEPT !.pc = IF active[p] THEN "post" ELSE "giveup",
                                  !.n = IF active[p] THEN attempts[p] + 1 ELSE attempts[p],
                                  !.ttl = Timeout]]
          /\ UNCHANGED <<dead, budgetVars>>
       \/ Fault /\ TaskFails(t)
    /\ cut' = [cut EXCEPT ![p] = @ \/ task'[t].pc = "giveup"]
    /\ UNCHANGED <<dispatchVars, endpointVars, rowVars, posts, taken, unpaid, chains, stranded>>

\* Mutant: the last attempt is thought to be the one before.
AfterFailureEarly(n) == IF n + 1 >= MaxAttempts THEN "giveup" ELSE "retry"

\* A failed attempt is retried until the schedule is exhausted.
AfterFailure(n) == IF n >= MaxAttempts THEN "giveup" ELSE "retry"

\* VetURL, then the POST.  Only a 2xx is a success.
Post(t) ==
    LET p == task[t].of IN
    /\ task[t].pc = "post"
    /\ \E outcome \in Outcomes :
         /\ Goto(t, CASE outcome = "ok" -> "ack"
                      [] outcome = "blocked" -> "giveup"
                      [] OTHER -> AfterFailure(task[t].n))
         /\ posts' = [posts EXCEPT ![p] = IF outcome = "blocked" THEN @ ELSE @ + 1]
         /\ taken' = [taken EXCEPT ![p] = IF outcome \in Received THEN @ + 1 ELSE @]
         /\ unpaid' = [unpaid EXCEPT ![p] = IF outcome = "hidden" THEN @ + 1 ELSE @]
         /\ cut' = [cut EXCEPT ![p] = @ \/ outcome = "blocked"]
    /\ UNCHANGED <<dispatchVars, endpointVars, rowVars, chains, stranded, budgetVars>>

\* A write that may fail, or commit without its reply; either is a failed task.
Settle(t, write, next) ==
    \/ write /\ next /\ UNCHANGED budgetVars
    \/ Fault /\ TaskFails(t) /\ (write \/ UNCHANGED rowVars)

\* MarkWebhookDeliveryDelivered, guarded on 'pending'.
SetDelivered(p, n) ==
    /\ row' = [row EXCEPT ![p] = IF @ = "pending" THEN "delivered" ELSE @]
    /\ attempts' = [attempts EXCEPT ![p] = IF row[p] = "pending" THEN n ELSE @]

MarkWebhookDelivered(t) ==
    LET p == task[t].of IN
    /\ task[t].pc = "ack"
    /\ Settle(t, SetDelivered(p, task[t].n), Return(t))
    /\ unpaid' = [unpaid EXCEPT ![p] = IF row'[p] = "pending" THEN @ + 1 ELSE @]
    /\ UNCHANGED <<dispatchVars, endpointVars, posts, taken, chains, stranded, cut>>

\* MarkWebhookDeliveryRetrying, guarded on 'pending'.
SetRetrying(p, n) ==
    /\ attempts' = [attempts EXCEPT ![p] = IF row[p] = "pending" THEN n ELSE @]
    /\ UNCHANGED row

MarkWebhookRetrying(t) ==
    /\ task[t].pc = "retry"
    /\ Settle(t, SetRetrying(task[t].of, task[t].n), Goto(t, "requeue"))
    /\ UNCHANGED <<dispatchVars, endpointVars, historyVars>>

\* Mutant: the next attempt is queued only for the first failures.
RequeueOnce(t) ==
    /\ task[t].pc = "requeue"
    /\ task' = [task EXCEPT ![t] = IF task[t].n = 1 THEN NewTask(task[t].of, Delay(1)) ELSE NoTask]
    /\ UNCHANGED <<dispatchVars, endpointVars, rowVars, dead, historyVars, budgetVars>>

\* EnqueueWebhookDeliverIn: the next attempt is a task of its own, keyed on its due
\* second, so that another task's attempt for the same second stands for both.  When
\* the queue refuses it, or takes it and the reply is lost, this task fails instead.
Requeue(t) ==
    LET p == task[t].of  next == NewTask(p, Delay(task[t].n)) IN
    /\ task[t].pc = "requeue"
    /\ \/ /\ task' = [task EXCEPT ![t] = next]
          /\ UNCHANGED <<dead, chains, budgetVars>>
       \/ /\ \E s \in Slots : task[s].pc = "queued" /\ task[s].of = p /\ task[s].wait = next.wait
          /\ Return(t)
          /\ UNCHANGED <<chains, budgetVars>>
       \/ Fault /\ TaskFails(t) /\ UNCHANGED chains
       \/ /\ Echo
          /\ \E s \in Slots : Free(s) /\ task' = [task EXCEPT ![s] = next, ![t] = Retried(t)]
          /\ DeadLettered(t)
          /\ chains' = [chains EXCEPT ![p] = @ + 1]
    /\ UNCHANGED <<dispatchVars, endpointVars, rowVars, posts, taken, unpaid, stranded, cut>>

\* MarkWebhookDeliveryFailed, guarded on 'pending'.
SetFailed(p, n) ==
    /\ row' = [row EXCEPT ![p] = IF @ = "pending" THEN "failed" ELSE @]
    /\ attempts' = [attempts EXCEPT ![p] = IF row[p] = "pending" THEN n ELSE @]

MarkWebhookFailed(t) ==
    /\ task[t].pc = "giveup"
    /\ Settle(t, SetFailed(task[t].of, task[t].n), Return(t))
    /\ UNCHANGED <<dispatchVars, endpointVars, historyVars>>

\* The handler dies or outlives its timeout.
Abort(t) ==
    LET p == task[t].of IN
    /\ task[t].pc \in Running
    /\ Fault
    /\ TaskFails(t)
    /\ unpaid' = [unpaid EXCEPT ![p] = IF task[t].pc = "ack" THEN @ + 1 ELSE @]
    /\ UNCHANGED <<dispatchVars, endpointVars, rowVars, posts, taken, chains, stranded, cut>>

-----------------------------------------------------------------------------
(* The clock and the operators                                             *)

Countdown(n) == IF n > 0 THEN n - 1 ELSE n

\* No execution outlives its timeout.
Tick ==
    /\ \A t \in Slots : task[t].pc \in Running => task[t].ttl > 0
    /\ task' = [t \in Slots |-> [task[t] EXCEPT !.wait = Countdown(@), !.ttl = Countdown(@)]]
    /\ UNCHANGED <<dispatchVars, endpointVars, rowVars, dead, historyVars, budgetVars>>

\* Update: the endpoint is switched off or on.
Update(p) ==
    /\ exists[p]
    /\ Churn
    /\ active' = [active EXCEPT ![p] = ~@]
    /\ UNCHANGED <<dispatchVars, exists, rowVars, task, dead, historyVars>>

\* Delete: the deliveries cascade.
Delete(p) ==
    /\ exists[p]
    /\ Churn
    /\ exists' = [exists EXCEPT ![p] = FALSE]
    /\ row' = [row EXCEPT ![p] = "none"]
    /\ UNCHANGED <<dispatchVars, active, attempts, task, dead, historyVars>>

\* An operator replays the dead letter: the row is claimed, then the task queued.  A
\* refused enqueue gives the claim back; a process that dies in between does not.
Replay(p) ==
    /\ dead[p] = "captured"
    /\ Churn
    /\ \/ /\ dead' = [dead EXCEPT ![p] = "none"]
          /\ \E s \in Slots :
               /\ Free(s)
               /\ task' = [task EXCEPT ![s] = [NewTask(p, 0) EXCEPT !.left = ReplayRetry]]
          /\ chains' = [chains EXCEPT ![p] = @ + 1]
       \/ /\ dead' = [dead EXCEPT ![p] = "missed"]
          /\ UNCHANGED <<task, chains>>
    /\ UNCHANGED <<dispatchVars, endpointVars, rowVars, posts, taken, unpaid, stranded, cut>>

-----------------------------------------------------------------------------
Work(t) ==
    \/ Load(t) \/ Post(t) \/ MarkWebhookDelivered(t) \/ MarkWebhookRetrying(t)
    \/ Requeue(t) \/ MarkWebhookFailed(t)

Next ==
    \/ Dispatch \/ EnqueueWebhookDeliver \/ DispatchDies
    \/ \E p \in Endpoints : Ping(p) \/ CreateDelivery(p) \/ Update(p) \/ Delete(p) \/ Replay(p)
    \/ \E t \in Slots : Work(t) \/ Abort(t)
    \/ Tick

Spec == Init /\ [][Next]_vars

\* asynq runs a task that is due, a running handler keeps running, time passes and
\* an emitting process that does not die finishes its loop.
Fairness ==
    /\ \A t \in Slots : WF_vars(Work(t))
    /\ WF_vars(EnqueueWebhookDeliver)
    /\ WF_vars(Tick)

FairSpec == Spec /\ Fairness

-----------------------------------------------------------------------------
(* Properties                                                              *)

\* The row and the queue agree: a pending delivery always has a task that will look
\* at it, through every backoff, crash and retry, unless the queue did not take its
\* first task or asynq archived its last.
PendingHasATask ==
    \A p \in Endpoints : row[p] = "pending" =>
      \/ \E t \in Slots : task[t].of = p
      \/ phase = "enqueue" /\ cur = p
      \/ stranded[p] \/ dead[p] # "none"

\* A receiver that took the delivery is sent it again only for a success the row
\* never learned of, or by a second task of the same delivery.
ReceiptsArePaidFor ==
    \A p \in Endpoints : taken[p] <= 1 + unpaid[p] + chains[p]

\* A delivery is not given up early: short of an inactive endpoint or a blocked URL,
\* 'failed' means that maxAttempts POSTs were really made, whatever crashed or ran
\* twice on the way.
GivesUpOnlyAfterTrying ==
    \A p \in Endpoints : row[p] = "failed" /\ ~cut[p] => posts[p] >= MaxAttempts

\* Every delivery whose task the queue took is settled in the end, or its task is
\* archived: asynq's own retry and the handler's backoff tasks, which share the work,
\* never go on for ever and never leave it to each other.
EveryDeliverySettles ==
    \A p \in Endpoints :
      row[p] = "pending" ~> row[p] # "pending" \/ stranded[p] \/ dead[p] # "none"
=============================================================================
