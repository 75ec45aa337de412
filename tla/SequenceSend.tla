---------------------------- MODULE SequenceSend ----------------------------
(***************************************************************************)
(* The step-send path of a linear campaign: asynq advance tasks, the       *)
(* workers that run AdvanceHandler (worker/sequence/advance.go), the       *)
(* control-plane operations they call (coreapi/inprocess/stepsendjob.go,   *)
(* senderpool.go), the enrollment state machine (app/enrollment) and the   *)
(* rows those operations write.                                            *)
(*                                                                         *)
(* One worker step is one database transaction or one provider call, so    *)
(* everything a job read before a step may be stale when the step runs.    *)
(* Time is kept as countdowns: what is left of a claim's lease, of a       *)
(* task's timeout, of a wait.  Tick moves all of them together.            *)
(***************************************************************************)
EXTENDS Integers

CONSTANTS
    Enrollments,      \* one per (campaign, contact)
    Workers,          \* concurrent executions of AdvanceHandler
    Mailboxes,        \* mailboxes of the workspace
    Pool,             \* campaign_senders rows at launch
    CampaignMailbox,  \* campaigns.mailbox_id, the fallback (ON DELETE RESTRICT)
    None,             \* SQL NULL for a mailbox, "no job" for a worker
    NSteps,           \* sequence_steps of the campaign
    Lease,            \* claimLeaseSeconds, in ticks
    Timeout,          \* sendTimeout: the asynq timeout of an advance task
    Grace,            \* the sweeper's reconcile window (5 minutes)
    MaxDelay,         \* largest wait before a step is due
    MinInterval,      \* mailboxes.min_interval_seconds
    Outcomes,         \* provider answers the run explores
    MaxTasks,         \* bound: advance tasks queued per enrollment
    MaxFaults,        \* bound: crashes, timeouts, lost replies, bad answers
    MaxChurn          \* bound: changes made by operators, contacts, health

Steps == 1..NSteps
NoDue == -1           \* next_due_at IS NULL

\* What mail.Sender.Send answers, and whether the message went out: a network
\* timeout or a severed connection may hide a delivery.
AllOutcomes == {"accepted", "transient", "timeout", "permanent", "severed"}
GoesOut     == {"accepted", "timeout", "severed"}
Retryable   == {"transient", "timeout"}

ASSUME SequenceSendAssumption ==
    /\ NSteps \in Nat \ {0}
    /\ Timeout \in Nat
    /\ Lease \in Nat /\ Timeout < Lease
    /\ Grace \in Nat /\ MaxDelay \in Nat /\ MinInterval \in Nat
    /\ MaxTasks \in Nat \ {0} /\ MaxFaults \in Nat /\ MaxChurn \in Nat
    /\ Pool \subseteq Mailboxes /\ CampaignMailbox \in Mailboxes
    /\ None \notin Mailboxes /\ None \notin Enrollments
    /\ Outcomes \subseteq AllOutcomes

VARIABLES
    \* sequence_enrollments
    status, step, due, pin, root,
    \* sends: row[e][s] is the row of (campaign, contact, step_order)
    row, rowMailbox, lease,
    \* campaigns.status and limits; suppressions; mailboxes
    campaign, suppressed, alive, capacity, slot,
    \* asynq: queued advance tasks
    queue,
    \* AdvanceHandler executions: control point, the job built, time left
    pc, job, ttl,
    \* what happened outside the database (history), and the budgets
    delivered,   \* messages of a step the provider accepted
    lost,        \* of those, the ones whose 'sent' UPDATE never committed
    hidden,      \* of those, the ones the provider answered with an error
    recorded,    \* steps whose 'sent' UPDATE has committed
    gaveUp,      \* steps finalised 'failed'
    from,        \* mailboxes the contact has had mail from
    late,        \* messages accepted since the enrollment was stopped
    reset,       \* the enrollment's mailbox was deleted
    faults, churn

enrollmentVars == <<status, step, due, pin, root>>
sendVars       == <<row, rowMailbox, lease>>
envVars        == <<campaign, suppressed, alive, capacity>>
historyVars    == <<delivered, lost, hidden, recorded, gaveUp, from, late, reset>>
budgetVars     == <<faults, churn>>
vars == <<enrollmentVars, sendVars, envVars, slot, queue, pc, job, ttl,
          historyVars, budgetVars>>

NoJob == [e |-> None, s |-> 0, m |-> None, due |-> NoDue, cap |-> "ok"]

PCs == {"idle", "resolve", "gate", "stop", "claim", "send", "ack",
        "advance", "release", "fail"}

\* The worker owns the claim on its step: it may still put mail on the wire,
\* or has and has not said so.
Claiming == {"send", "ack", "release", "fail"}

EnrollmentType ==
    /\ status \in [Enrollments -> {"active", "completed", "stopped"}]
    /\ step \in [Enrollments -> 0..NSteps]
    /\ due \in [Enrollments -> NoDue..(MaxDelay + Grace)]
    /\ pin \in [Enrollments -> Mailboxes \cup {None}]
    /\ root \in [Enrollments -> BOOLEAN]

SendType ==
    /\ row \in [Enrollments -> [Steps -> {"none", "sending", "sent", "failed"}]]
    /\ rowMailbox \in [Enrollments -> [Steps -> Mailboxes \cup {None}]]
    /\ lease \in [Enrollments -> [Steps -> 0..Lease]]

EnvType ==
    /\ campaign \in {"running", "paused", "limited", "newlead"}
    /\ suppressed \in [Enrollments -> BOOLEAN]
    /\ alive \in SUBSET Mailboxes
    /\ capacity \in [Mailboxes -> {"ok", "full", "zero"}]
    /\ slot \in [Mailboxes -> 0..MinInterval]
    /\ queue \in [Enrollments -> 0..MaxTasks]
    /\ faults \in 0..MaxFaults
    /\ churn \in 0..MaxChurn

Jobs == [e   : Enrollments \cup {None},
         s   : 0..NSteps,
         m   : Mailboxes \cup {None},
         due : NoDue..(MaxDelay + Grace),
         cap : {"ok", "full", "zero"}]

WorkerType ==
    /\ pc \in [Workers -> PCs]
    /\ job \in [Workers -> Jobs]
    /\ ttl \in [Workers -> 0..Timeout]

HistoryType ==
    /\ delivered \in [Enrollments -> [Steps -> Nat]]
    /\ lost \in [Enrollments -> [Steps -> Nat]]
    /\ hidden \in [Enrollments -> [Steps -> Nat]]
    /\ recorded \in [Enrollments -> SUBSET Steps]
    /\ gaveUp \in [Enrollments -> SUBSET Steps]
    /\ from \in [Enrollments -> SUBSET (Mailboxes \cup {None})]
    /\ late \in [Enrollments -> Nat]
    /\ reset \in [Enrollments -> BOOLEAN]

TypeOK == EnrollmentType /\ SendType /\ EnvType /\ WorkerType /\ HistoryType

-----------------------------------------------------------------------------
(* Launch: every list member enrolled, active, due, one advance task each. *)
Init ==
    /\ status = [e \in Enrollments |-> "active"]
    /\ step = [e \in Enrollments |-> 0]
    /\ due \in [Enrollments -> Grace..(MaxDelay + Grace)]
    /\ pin = [e \in Enrollments |-> None]
    /\ root = [e \in Enrollments |-> FALSE]
    /\ row = [e \in Enrollments |-> [s \in Steps |-> "none"]]
    /\ rowMailbox = [e \in Enrollments |-> [s \in Steps |-> None]]
    /\ lease = [e \in Enrollments |-> [s \in Steps |-> 0]]
    /\ campaign = "running"
    /\ suppressed = [e \in Enrollments |-> FALSE]
    /\ alive = Mailboxes
    /\ capacity = [m \in Mailboxes |-> "ok"]
    /\ slot = [m \in Mailboxes |-> 0]
    /\ queue \in [Enrollments -> {0, 1}]
    /\ pc = [w \in Workers |-> "idle"]
    /\ job = [w \in Workers |-> NoJob]
    /\ ttl = [w \in Workers |-> 0]
    /\ delivered = [e \in Enrollments |-> [s \in Steps |-> 0]]
    /\ lost = [e \in Enrollments |-> [s \in Steps |-> 0]]
    /\ hidden = [e \in Enrollments |-> [s \in Steps |-> 0]]
    /\ recorded = [e \in Enrollments |-> {}]
    /\ gaveUp = [e \in Enrollments |-> {}]
    /\ from = [e \in Enrollments |-> {}]
    /\ late = [e \in Enrollments |-> 0]
    /\ reset = [e \in Enrollments |-> FALSE]
    /\ faults = MaxFaults
    /\ churn = MaxChurn

-----------------------------------------------------------------------------
(* Helpers                                                                 *)

\* enqueueAdvance with a future due time.
Enqueue(e) == queue' = [queue EXCEPT ![e] = IF @ < MaxTasks THEN @ + 1 ELSE @]

\* enqueueAdvance of the next step.  With no delay its TaskID may be that of the
\* running task: the conflict counts as success and nothing is queued.
Schedule(e) == Enqueue(e) \/ UNCHANGED queue

Dequeue(e) == queue' = [queue EXCEPT ![e] = @ - 1]

Goto(w, p) == pc' = [pc EXCEPT ![w] = p] /\ UNCHANGED <<job, ttl>>

Return(w) ==
    /\ pc' = [pc EXCEPT ![w] = "idle"]
    /\ job' = [job EXCEPT ![w] = NoJob]
    /\ ttl' = [ttl EXCEPT ![w] = 0]

Fault == faults > 0 /\ faults' = faults - 1

\* The handler returns an error: asynq retries the task, or archives it once
\* its retries are spent.
TaskFails(w) ==
    /\ Return(w)
    /\ Enqueue(job[w].e) \/ UNCHANGED queue

\* A write has committed.  Its reply arrives and the handler goes on at p, or
\* the reply is lost and the handler returns an error.
Committed(w, p) ==
    \/ Goto(w, p) /\ UNCHANGED <<queue, faults>>
    \/ Fault /\ TaskFails(w)

\* The same where nothing is left to do after the reply but to schedule the
\* next step; scheduling may fail too.
CommittedLast(w, schedules) ==
    \/ /\ Return(w)
       /\ IF schedules THEN Schedule(job[w].e) ELSE UNCHANGED queue
       /\ UNCHANGED faults
    \/ Fault /\ TaskFails(w)

\* enrollment.Service.MarkStepStopped: StopEnrollment, guarded on 'active'.
MarkStepStopped(e) ==
    /\ status' = [status EXCEPT ![e] = IF @ = "active" THEN "stopped" ELSE @]
    /\ due' = [due EXCEPT ![e] = IF status[e] = "active" THEN NoDue ELSE @]
    /\ UNCHANGED <<step, pin, root>>

\* Mutant: AdvanceEnrollmentStep without its guard on 'active'.
MarkStepSentReopens(e, s, hasRoot) ==
    /\ root' = [root EXCEPT ![e] = @ \/ (s = 1 /\ hasRoot)]
    /\ step' = [step EXCEPT ![e] = s]
    /\ status' = [status EXCEPT ![e] = IF s = NSteps THEN "completed" ELSE "active"]
    /\ due' = [due EXCEPT ![e] = IF s = NSteps THEN NoDue ELSE Grace]
    /\ UNCHANGED pin

\* enrollment.Service.MarkStepSent: SetThreadRoot (step 1 only, write-once), then
\* CompleteEnrollment or AdvanceEnrollmentStep.  Both set current_step to the
\* job's step, guarded on 'active' and on nothing else.
MarkStepSent(e, s, hasRoot) ==
    /\ root' = [root EXCEPT ![e] = @ \/ (s = 1 /\ hasRoot)]
    /\ IF status[e] # "active"
       THEN UNCHANGED <<status, step, due>>
       ELSE /\ step' = [step EXCEPT ![e] = s]
            /\ IF s = NSteps
               THEN /\ status' = [status EXCEPT ![e] = "completed"]
                    /\ due' = [due EXCEPT ![e] = NoDue]
               ELSE /\ UNCHANGED status
                    /\ \E d \in 0..MaxDelay : due' = [due EXCEPT ![e] = d + Grace]
    /\ UNCHANGED pin

\* SetSendResult: an UPDATE by send id.  It matches nothing when the row is gone.
SetSendResult(e, s, result) ==
    /\ row' = [row EXCEPT ![e][s] = IF @ = "none" THEN @ ELSE result]
    /\ lease' = [lease EXCEPT ![e][s] = 0]
    /\ UNCHANGED rowMailbox

\* next_due_at is still ahead of the database's clock.
NotYetDue(d) == d > Grace

\* The campaign holds back the step of this order: not running, at its daily
\* limit, or (first step only) at its new-lead limit.
Held(s) ==
    \/ campaign \in {"paused", "limited"}
    \/ campaign = "newlead" /\ s = 1

-----------------------------------------------------------------------------
(* GetStepSendJob: the enrollment bundle is read                           *)

Take(w, e) == pc[w] = "idle" /\ queue[e] > 0

\* Not active, or no step after the cursor: the task is inert.
SkipInert(w, e) ==
    /\ Take(w, e)
    /\ status[e] = "active" => step[e] = NSteps /\ pin[e] # None
    /\ Dequeue(e)
    /\ UNCHANGED <<enrollmentVars, sendVars, envVars, slot, pc, job, ttl,
                   historyVars, budgetVars>>

\* threadLostItsMailbox: a cursor past 0 with no mailbox pinned.
TakeOrphan(w, e) ==
    /\ Take(w, e)
    /\ status[e] = "active" /\ step[e] > 0 /\ pin[e] = None
    /\ Dequeue(e)
    /\ pc' = [pc EXCEPT ![w] = "stop"]
    /\ job' = [job EXCEPT ![w] = [NoJob EXCEPT !.e = e]]
    /\ ttl' = [ttl EXCEPT ![w] = Timeout]
    /\ UNCHANGED <<enrollmentVars, sendVars, envVars, slot, historyVars, budgetVars>>

\* A step is due but the campaign holds it: the task is queued again.
TakeHeld(w, e) ==
    /\ Take(w, e)
    /\ status[e] = "active" /\ step[e] < NSteps
    /\ step[e] > 0 => pin[e] # None
    /\ Held(step[e] + 1)
    /\ \/ UNCHANGED <<queue, faults>>
       \/ Fault /\ Dequeue(e)
    /\ UNCHANGED <<enrollmentVars, sendVars, envVars, slot, pc, job, ttl,
                   historyVars, churn>>

\* The bundle names the step to send, the pinned mailbox and the due time.
TakeDue(w, e) ==
    /\ Take(w, e)
    /\ status[e] = "active" /\ step[e] < NSteps
    /\ step[e] > 0 => pin[e] # None
    /\ ~Held(step[e] + 1)
    /\ Dequeue(e)
    /\ pc' = [pc EXCEPT ![w] = "resolve"]
    /\ job' = [job EXCEPT ![w] = [e |-> e, s |-> step[e] + 1, m |-> pin[e],
                                  due |-> due[e], cap |-> "ok"]]
    /\ ttl' = [ttl EXCEPT ![w] = Timeout]
    /\ UNCHANGED <<enrollmentVars, sendVars, envVars, slot, historyVars, budgetVars>>

-----------------------------------------------------------------------------
(* GetStepSendJob: resolveSender, then the rest of the job and the gates   *)

Resolved(w, m, cap) ==
    /\ job' = [job EXCEPT ![w].m = m, ![w].cap = cap]
    /\ pc' = [pc EXCEPT ![w] = "gate"]
    /\ UNCHANGED <<status, step, due, root, sendVars, envVars, slot, queue, ttl,
                   historyVars, budgetVars>>

poolRows == Pool \cap alive
eligible == {m \in poolRows : capacity[m] = "ok"}

\* The thread has a mailbox and keeps it.
ResolvePinned(w) ==
    /\ pc[w] = "resolve" /\ job[w].m # None
    /\ Resolved(w, job[w].m, capacity[job[w].m])
    /\ UNCHANGED pin

\* Mutant: the loser of the race keeps its own choice.
ResolveClaimBlind(w) ==
    LET e == job[w].e IN
    /\ pc[w] = "resolve" /\ job[w].m = None
    /\ \E chosen \in IF poolRows = {} THEN {CampaignMailbox} ELSE eligible :
         /\ pin' = [pin EXCEPT ![e] = IF @ = None THEN chosen ELSE @]
         /\ Resolved(w, chosen, capacity[chosen])

\* claimEnrollmentSender: write-once; the loser of a race reads the winner's.
ResolveClaim(w) ==
    LET e == job[w].e IN
    /\ pc[w] = "resolve" /\ job[w].m = None
    /\ \E chosen \in IF poolRows = {} THEN {CampaignMailbox} ELSE eligible :
         LET stored == IF pin[e] = None THEN chosen ELSE pin[e] IN
         /\ pin' = [pin EXCEPT ![e] = stored]
         /\ Resolved(w, stored, capacity[stored])

\* exhaustedPoolSender: no pool member may send; nothing is pinned.
ResolveExhausted(w) ==
    /\ pc[w] = "resolve" /\ job[w].m = None
    /\ poolRows # {} /\ eligible = {}
    /\ Resolved(w, CampaignMailbox,
                IF \A m \in poolRows : capacity[m] = "zero" THEN "zero" ELSE "full")
    /\ UNCHANGED pin

\* The suppression lookup that completes the job, and AdvanceHandler's gates on
\* it in their order: suppressed, held back by capacity, no capacity at all.
Gate(w) ==
    LET e == job[w].e IN
    /\ pc[w] = "gate"
    /\ \/ /\ suppressed[e] \/ job[w].cap = "zero"
          /\ Goto(w, "stop")
          /\ UNCHANGED queue
       \/ /\ ~suppressed[e] /\ job[w].cap = "full"
          /\ Return(w)
          /\ Enqueue(e)
       \/ /\ ~suppressed[e] /\ job[w].cap = "ok"
          /\ Goto(w, "claim")
          /\ UNCHANGED queue
    /\ UNCHANGED <<enrollmentVars, sendVars, envVars, slot, historyVars, budgetVars>>

\* MarkStepStopped: suppressed, mailbox_removed or failed.
StopStep(w) ==
    /\ pc[w] = "stop"
    /\ MarkStepStopped(job[w].e)
    /\ CommittedLast(w, FALSE)
    /\ UNCHANGED <<sendVars, envVars, slot, historyVars, churn>>

-----------------------------------------------------------------------------
(* ClaimStepSend                                                           *)

\* Mutant: the reclaim ignores the age of the lease.
ClaimableAnyAge(e, s) == row[e][s] \in {"none", "sending"}

\* Mutant: the reclaim looks at the lease and not at the row's status.
ClaimableAnyStatus(e, s) == row[e][s] = "none" \/ lease[e][s] = 0

\* INSERT ... ON CONFLICT DO UPDATE matches: no row, or a stale 'sending' lease.
Claimable(e, s) ==
    \/ row[e][s] = "none"
    \/ row[e][s] = "sending" /\ lease[e][s] = 0

SlotFree(m) == m \in alive /\ slot[m] = 0

ClaimWon(w) ==
    LET e == job[w].e  s == job[w].s  m == job[w].m IN
    /\ pc[w] = "claim" /\ ~NotYetDue(job[w].due)
    /\ Claimable(e, s) /\ SlotFree(m)
    /\ row' = [row EXCEPT ![e][s] = "sending"]
    /\ rowMailbox' = [rowMailbox EXCEPT ![e][s] = IF @ = None THEN m ELSE @]
    /\ lease' = [lease EXCEPT ![e][s] = Lease]
    /\ slot' = [slot EXCEPT ![m] = MinInterval]
    /\ Committed(w, "send")
    /\ UNCHANGED <<enrollmentVars, envVars, historyVars, churn>>

\* Not due yet, or the mailbox's spacing slot is taken (the transaction rolls
\* back).  A deleted mailbox has no slot to reserve.
ClaimDeferred(w) ==
    LET e == job[w].e  s == job[w].s  m == job[w].m IN
    /\ pc[w] = "claim"
    /\ \/ NotYetDue(job[w].due)
       \/ /\ Claimable(e, s) /\ ~SlotFree(m)
          /\ m \in alive \/ row[e][s] = "sending"
    /\ Return(w)
    /\ Enqueue(e)
    /\ UNCHANGED <<enrollmentVars, sendVars, envVars, slot, historyVars, budgetVars>>

\* The INSERT names a deleted mailbox: the foreign key refuses it.
ClaimRefused(w) ==
    LET e == job[w].e  s == job[w].s IN
    /\ pc[w] = "claim" /\ ~NotYetDue(job[w].due)
    /\ row[e][s] = "none" /\ job[w].m \notin alive
    /\ TaskFails(w)
    /\ UNCHANGED <<enrollmentVars, sendVars, envVars, slot, historyVars, budgetVars>>

\* Mutant: any lost claim is taken for a delivered step.
ClaimLostAdvances(w) ==
    LET e == job[w].e  s == job[w].s IN
    /\ pc[w] = "claim" /\ ~NotYetDue(job[w].due) /\ ~Claimable(e, s)
    /\ Goto(w, "advance")
    /\ UNCHANGED <<enrollmentVars, sendVars, envVars, slot, queue, historyVars, budgetVars>>

\* The claim is lost.  ClaimAlreadySent recovers forward; ClaimSkip ends.
ClaimLost(w) ==
    LET e == job[w].e  s == job[w].s IN
    /\ pc[w] = "claim" /\ ~NotYetDue(job[w].due) /\ ~Claimable(e, s)
    /\ IF row[e][s] = "sent" THEN Goto(w, "advance") ELSE Return(w)
    /\ UNCHANGED <<enrollmentVars, sendVars, envVars, slot, queue, historyVars, budgetVars>>

-----------------------------------------------------------------------------
(* The provider call and what follows it                                   *)

\* sender.Send.  Every answer but "accepted" is a fault of the outside world.
Send(w) ==
    LET e == job[w].e  s == job[w].s  m == job[w].m IN
    /\ pc[w] = "send"
    /\ \E outcome \in Outcomes :
         /\ IF outcome = "accepted" THEN UNCHANGED faults ELSE Fault
         /\ Goto(w, IF outcome = "accepted" THEN "ack"
                    ELSE IF outcome \in Retryable THEN "release" ELSE "fail")
         /\ IF outcome \in GoesOut
            THEN /\ delivered' = [delivered EXCEPT ![e][s] = @ + 1]
                 /\ from' = [from EXCEPT ![e] = @ \cup {m}]
                 /\ late' = [late EXCEPT ![e] = IF status[e] = "stopped" \/ @ > 0
                                                THEN @ + 1 ELSE @]
            ELSE UNCHANGED <<delivered, from, late>>
         /\ hidden' = [hidden EXCEPT ![e][s] =
                       IF outcome \in GoesOut \ {"accepted"} THEN @ + 1 ELSE @]
    /\ UNCHANGED <<enrollmentVars, sendVars, envVars, slot, queue, lost,
                   recorded, gaveUp, reset, churn>>

MarkStepDelivered(w) ==
    /\ pc[w] = "ack"
    /\ SetSendResult(job[w].e, job[w].s, "sent")
    /\ recorded' = [recorded EXCEPT ![job[w].e] =
                      IF row[job[w].e][job[w].s] = "none" THEN @ ELSE @ \cup {job[w].s}]
    /\ Committed(w, "advance")
    /\ UNCHANGED <<enrollmentVars, envVars, slot, delivered, lost, hidden,
                   gaveUp, from, late, reset, churn>>

\* The thread root is read back from the row: on step 1 a vanished row is an error.
AdvanceStepCursor(w) ==
    LET e == job[w].e  s == job[w].s IN
    /\ pc[w] = "advance"
    /\ \/ /\ s = 1 /\ row[e][s] = "none"
          /\ TaskFails(w)
          /\ UNCHANGED <<enrollmentVars, faults>>
       \/ /\ s = 1 => row[e][s] # "none"
          /\ MarkStepSent(e, s, row[e][s] = "sent")
          /\ CommittedLast(w, s # NSteps)
    /\ UNCHANGED <<sendVars, envVars, slot, historyVars, churn>>

\* ReleaseSend expires the lease, guarded on 'sending'; the error goes to asynq.
ReleaseStepSend(w) ==
    LET e == job[w].e  s == job[w].s IN
    /\ pc[w] = "release"
    /\ lease' = [lease EXCEPT ![e][s] = IF row[e][s] = "sending" THEN 0 ELSE @]
    /\ TaskFails(w)
    /\ UNCHANGED <<enrollmentVars, row, rowMailbox, envVars, slot, historyVars, budgetVars>>

\* Permanent failure: the row and the cursor in one transaction.
FinalizeStepSend(w) ==
    LET e == job[w].e  s == job[w].s IN
    /\ pc[w] = "fail"
    /\ SetSendResult(e, s, "failed")
    /\ MarkStepSent(e, s, FALSE)
    /\ gaveUp' = [gaveUp EXCEPT ![e] = @ \cup {s}]
    /\ CommittedLast(w, s # NSteps)
    /\ UNCHANGED <<envVars, slot, delivered, lost, hidden, recorded, from, late,
                   reset, churn>>

\* A crash, a failed statement, an expired task context: the execution ends with
\* no further effect.  A message accepted and not yet recorded is lost to the
\* database.
Abort(w) ==
    LET e == job[w].e  s == job[w].s IN
    /\ pc[w] # "idle"
    /\ Fault
    /\ TaskFails(w)
    /\ lost' = IF pc[w] = "ack" THEN [lost EXCEPT ![e][s] = @ + 1] ELSE lost
    /\ UNCHANGED <<enrollmentVars, sendVars, envVars, slot, delivered, hidden,
                   recorded, gaveUp, from, late, reset, churn>>

-----------------------------------------------------------------------------
(* The sweeper, the clock, and everyone else                               *)

\* Mutant: the sweeper only re-drives enrollments that never started.
SweepUnstarted(e) ==
    /\ status[e] = "active" /\ due[e] = 0 /\ step[e] = 0
    /\ Enqueue(e)
    /\ UNCHANGED <<enrollmentVars, sendVars, envVars, slot, pc, job, ttl,
                   historyVars, budgetVars>>

\* SweepHandler: active and past the reconcile window.
Sweep(e) ==
    /\ status[e] = "active" /\ due[e] = 0
    /\ Enqueue(e)
    /\ UNCHANGED <<enrollmentVars, sendVars, envVars, slot, pc, job, ttl,
                   historyVars, budgetVars>>

Countdown(n) == IF n > 0 THEN n - 1 ELSE n

\* No execution outlives its timeout: it is aborted or moves on before time does.
Tick ==
    /\ \A w \in Workers : pc[w] # "idle" => ttl[w] > 0
    /\ due' = [e \in Enrollments |-> Countdown(due[e])]
    /\ lease' = [e \in Enrollments |-> [s \in Steps |-> Countdown(lease[e][s])]]
    /\ slot' = [m \in Mailboxes |-> Countdown(slot[m])]
    /\ ttl' = [w \in Workers |-> Countdown(ttl[w])]
    /\ job' = [w \in Workers |-> [job[w] EXCEPT !.due = Countdown(@)]]
    /\ UNCHANGED <<status, step, pin, root, row, rowMailbox, envVars, queue, pc,
                   historyVars, budgetVars>>

Churn == churn > 0 /\ churn' = churn - 1

\* A reply, a bounce or an unsubscribe stops the enrollment.
Halt(e) ==
    /\ status[e] = "active"
    /\ Churn
    /\ MarkStepStopped(e)
    /\ UNCHANGED <<sendVars, envVars, slot, queue, pc, job, ttl, historyVars, faults>>

\* DeferEnrollment: an out-of-office reply pushes the due time out.
DeferEnrollment(e) ==
    /\ status[e] = "active"
    /\ Churn
    /\ due' = [due EXCEPT ![e] = MaxDelay + Grace]
    /\ UNCHANGED <<status, step, pin, root, sendVars, envVars, slot, queue, pc,
                   job, ttl, historyVars, faults>>

Suppress(e) ==
    /\ ~suppressed[e]
    /\ Churn
    /\ suppressed' = [suppressed EXCEPT ![e] = TRUE]
    /\ UNCHANGED <<enrollmentVars, sendVars, campaign, alive, capacity, slot,
                   queue, pc, job, ttl, historyVars, faults>>

\* Pause, relaunch, a limit reached or reset at midnight.
SetCampaign(c) ==
    /\ campaign # c
    /\ Churn
    /\ campaign' = c
    /\ UNCHANGED <<enrollmentVars, sendVars, suppressed, alive, capacity, slot,
                   queue, pc, job, ttl, historyVars, faults>>

\* A mailbox reaches its cap, is paused by its health, or is set to zero.
SetCapacity(m, c) ==
    /\ capacity[m] # c
    /\ Churn
    /\ capacity' = [capacity EXCEPT ![m] = c]
    /\ UNCHANGED <<enrollmentVars, sendVars, campaign, suppressed, alive, slot,
                   queue, pc, job, ttl, historyVars, faults>>

\* mailbox.Service.Delete: sends and pool rows cascade, the pin is set to NULL;
\* campaigns.mailbox_id restricts.
DeleteMailbox(m) ==
    /\ m \in alive /\ m # CampaignMailbox
    /\ Churn
    /\ alive' = alive \ {m}
    /\ pin' = [e \in Enrollments |-> IF pin[e] = m THEN None ELSE pin[e]]
    /\ reset' = [e \in Enrollments |-> reset[e] \/ pin[e] = m]
    /\ row' = [e \in Enrollments |-> [s \in Steps |->
                 IF rowMailbox[e][s] = m THEN "none" ELSE row[e][s]]]
    /\ rowMailbox' = [e \in Enrollments |-> [s \in Steps |->
                 IF rowMailbox[e][s] = m THEN None ELSE rowMailbox[e][s]]]
    /\ lease' = [e \in Enrollments |-> [s \in Steps |->
                 IF rowMailbox[e][s] = m THEN 0 ELSE lease[e][s]]]
    /\ UNCHANGED <<status, step, due, root, campaign, suppressed, capacity, slot,
                   queue, pc, job, ttl, delivered, lost, hidden, recorded,
                   gaveUp, from, late, faults>>

-----------------------------------------------------------------------------
\* One step of the handler that has begun.
Work(w) ==
    \/ ResolvePinned(w) \/ ResolveClaim(w) \/ ResolveExhausted(w)
    \/ Gate(w) \/ StopStep(w)
    \/ ClaimWon(w) \/ ClaimDeferred(w) \/ ClaimRefused(w) \/ ClaimLost(w)
    \/ Send(w) \/ MarkStepDelivered(w) \/ AdvanceStepCursor(w)
    \/ ReleaseStepSend(w) \/ FinalizeStepSend(w)

Start(w, e) == SkipInert(w, e) \/ TakeOrphan(w, e) \/ TakeHeld(w, e) \/ TakeDue(w, e)

Environment ==
    \/ \E e \in Enrollments : Halt(e) \/ DeferEnrollment(e) \/ Suppress(e)
    \/ \E c \in {"running", "paused", "limited", "newlead"} : SetCampaign(c)
    \/ \E m \in Mailboxes, c \in {"ok", "full", "zero"} : SetCapacity(m, c)
    \/ \E m \in Mailboxes : DeleteMailbox(m)

Next ==
    \/ \E w \in Workers : Work(w) \/ Abort(w)
    \/ \E w \in Workers, e \in Enrollments : Start(w, e)
    \/ \E e \in Enrollments : Sweep(e)
    \/ Tick
    \/ Environment

Spec == Init /\ [][Next]_vars

\* asynq keeps running its tasks, a running handler keeps running, the sweeper
\* keeps sweeping and time passes.
Fairness ==
    /\ \A w \in Workers : WF_vars(Work(w))
    /\ \A e \in Enrollments : WF_vars(\E w \in Workers : Start(w, e))
    /\ \A e \in Enrollments : WF_vars(Sweep(e))
    /\ WF_vars(Tick)

FairSpec == Spec /\ Fairness

-----------------------------------------------------------------------------
(* Properties                                                              *)

\* The claim of ClaimStepSend is exclusive: as long as the thread's mailbox is not
\* deleted, no two executions are between winning a step's claim and settling it,
\* whatever crashes, timeouts, lost replies and sweeps happen in between.  This is
\* what claimLeaseSeconds > sendTimeout is for.
ClaimExclusive ==
    \A v, w \in Workers :
      (v # w /\ pc[v] \in Claiming /\ pc[w] \in Claiming /\ ~reset[job[v].e])
        => <<job[v].e, job[v].s>> # <<job[w].e, job[w].s>>

\* A contact gets the same step again only for a delivery the database never
\* learned of: each duplicate is paid for by one message whose 'sent' UPDATE did
\* not commit or whose acceptance the provider reported as an error.
DuplicatesArePaidFor ==
    \A e \in Enrollments, s \in Steps :
      ~reset[e] => delivered[e][s] <= 1 + lost[e][s] + hidden[e][s]

\* Steps go out in order: no step is mailed before every earlier one was mailed or
\* was given up as 'failed', even when tasks of one enrollment race or a slow
\* worker moves the cursor back.
InOrder ==
    \A e \in Enrollments, r, s \in Steps :
      (r < s /\ delivered[e][s] > 0) => delivered[e][r] > 0 \/ r \in gaveUp[e]

\* One voice per thread: everything a contact receives comes from the mailbox
\* pinned to its enrollment, although racing workers resolve the sender from
\* bundles read before any mailbox was pinned.
OneVoice == \A e \in Enrollments : ~reset[e] => from[e] \subseteq {pin[e]}

\* A stop is checked when the job is built and never again, so mail may still go
\* out after it; but at most one message, unless the provider hid a delivery.
AtMostOneAfterStop ==
    \A e \in Enrollments :
      (~reset[e] /\ late[e] > 1) => \E s \in Steps : lost[e][s] + hidden[e][s] > 0

\* A completed enrollment has every step behind it: mailed or given up.
CompletedMeansDone ==
    \A e \in Enrollments :
      status[e] = "completed" => \A s \in Steps : delivered[e][s] > 0 \/ s \in gaveUp[e]

\* A stop is terminal and wins: neither a cursor advance that was under way nor a
\* later task reopens, completes or moves a stopped or completed enrollment.
TerminalIsFinal ==
    [][\A e \in Enrollments :
         status[e] # "active" =>
           status'[e] = status[e] /\ step'[e] = step[e] /\ due'[e] = due[e]]_vars

\* Lost tasks, crashes and collapsed task ids never strand an enrollment: once the
\* campaign and the mailboxes stay open, it completes or stops.
Open == campaign = "running" /\ \A m \in Mailboxes : capacity[m] = "ok"
EveryEnrollmentEnds ==
    <>[]Open => \A e \in Enrollments : <>(status[e] # "active")

\* FinalizeStepSend: "a 'failed' row always has an advanced cursor".
FailedRowHasAdvancedCursor ==
    \A e \in Enrollments, s \in Steps :
      (status[e] = "active" /\ row[e][s] = "failed") => step[e] >= s
=============================================================================
