----------------------------- MODULE WarmupSend -----------------------------
(***************************************************************************)
(* One mailbox's warmup mail for one day: the sends its ticks make and the *)
(* replies it owes for the warmup mail it received from its one partner.   *)
(*                                                                         *)
(* A tick rebuilds its job from the database, so a retried tick is just    *)
(* another tick; a sweep adds one every five minutes.  An engagement is one*)
(* task of the queue, named after its receipt, enqueued by the poll that   *)
(* recorded it and retried a few times; nothing sweeps for receipts nobody *)
(* engaged.  A send's id is derived from the number of sends so far today, *)
(* a reply's from the receipt it answers, and the row with that id is the  *)
(* delivery claim.  The lane the job was built under travels with it and   *)
(* the claim compares it with the sender's lane again.  A worker may die   *)
(* anywhere; its claim is taken over once it is older than the lease, which*)
(* is longer than a task may run.                                          *)
(*                                                                         *)
(* The mailbox may be in a low-volume lane, a full-volume lane or sealed.  *)
(* Ramps, spacing and content are left out; partner selection is reduced   *)
(* to the budget of the pair.                                              *)
(***************************************************************************)
EXTENDS WarmupPolicy, FiniteSets

CONSTANTS
    Workers,        \* concurrent task handlers
    Receipts,       \* warmup messages the partner sends it, all to be answered
    Volume,         \* today's volume of the full lane (EffectiveDailyVolume)
    LaneVolume,     \* the ceiling of a probation or recovery lane
    PairCap,        \* PairDailyCap, for the pair and both directions
    MaxRetry,       \* retries of an engagement's task (sendMaxRetry)
    MaxFaults,      \* bound: crashes, lost writes and refused deliveries
    MaxMoves        \* bound: lane changes

ASSUME WarmupSendAssumption ==
    /\ Volume \in Nat /\ LaneVolume \in Nat /\ PairCap \in Nat
    /\ MaxRetry \in Nat /\ MaxFaults \in Nat /\ MaxMoves \in Nat
    /\ IsFiniteSet(Workers) /\ Workers # {}
    /\ Receipts \intersect (0..Volume) = {}

VARIABLES
    lane,       \* the mailbox's current pool lane
    send,       \* the warmup_sends rows, by id
    work,       \* what each worker is doing
    receipt,    \* the warmup_receipts rows
    sentToday,  \* warmup_daily_stats.sent
    replies,    \* warmup_daily_stats.replies
    task,       \* each receipt's engagement task in the queue
    left,       \* the retries that task has left
    toEnqueue,  \* receipts recorded by a poll that has not enqueued their task yet
    faults,     \* faults so far
    moves,      \* lane changes so far
    copies,     \* ghost: messages that left, by id
    lost        \* ghost: of those, the ones no row will ever learn of, by id

queueVars == <<task, left, toEnqueue>>
vars == <<lane, send, work, receipt, sentToday, replies, faults, moves, copies, lost,
          queueVars>>

LaneSet == {"probation", "healthy", "quarantine"}

deriveWarmupSendID(index) == index
deriveWarmupReplySendID(r) == r
TickIds == {deriveWarmupSendID(i) : i \in 0..Volume}
SendIds == TickIds \union {deriveWarmupReplySendID(r) : r \in Receipts}

LaneDailyVolume(l) ==
    CASE l = "healthy" -> Volume
      [] l = "probation" -> IF Volume < LaneVolume THEN Volume ELSE LaneVolume
      [] OTHER -> 0

NoRow == [status |-> "none", lane |-> "none", stale |-> FALSE]
Idle == [at |-> "idle"]

Holds(w, id) ==
    work[w] # Idle /\ work[w].at \in {"claimed", "delivered", "refused"} /\ work[w].id = id

CountWarmupPairSendsToday ==
    Cardinality({id \in SendIds : send[id].status \in {"sending", "sent"}})

(* As if the budget were compared with <=. *)
WithinPairBudgetInclusive == CountWarmupPairSendsToday <= PairCap

WithinPairBudget == CountWarmupPairSendsToday < PairCap

-----------------------------------------------------------------------------
(* Building a job *)

(* A tick: skip when sealed, when today's volume is reached or when no      *)
(* partner has budget left; otherwise the next index names the send.        *)
WarmupSendJob(w) ==
    /\ work[w] = Idle
    /\ LaneMaySend(lane)
    /\ sentToday < LaneDailyVolume(lane)
    /\ WithinPairBudget
    /\ work' = [work EXCEPT ![w] =
           [at |-> "built", kind |-> "tick", id |-> deriveWarmupSendID(sentToday),
            lane |-> lane, replied |-> FALSE]]
    /\ UNCHANGED <<lane, send, receipt, sentToday, replies, faults, moves, copies, lost, queueVars>>

(* An engagement's task starts: a reply is built when the lanes and the     *)
(* budget allow one.  The partner may have left the lane.  The guard of the *)
(* receipt is not read here, so a task of a receipt already engaged runs.   *)
WarmupEngageJob(w, r) ==
    /\ work[w] = Idle
    /\ task[r] = "queued"
    /\ task' = [task EXCEPT ![r] = "running"]
    /\ \E partnerLane \in LaneSet :
           LET doReply == LaneMaySend(lane) /\ partnerLane = lane /\ WithinPairBudget
           IN work' = [work EXCEPT ![w] =
                  [at |-> IF doReply THEN "built" ELSE "finish", kind |-> "engage",
                   id |-> deriveWarmupReplySendID(r), lane |-> lane, replied |-> FALSE]]
    /\ UNCHANGED <<lane, send, receipt, sentToday, replies, faults, moves, copies, lost,
                   left, toEnqueue>>

(* A handler's error spends one of its task's retries; with none left the   *)
(* task is archived.  A tick's task is not followed: the sweep adds others. *)
TaskFails(job) ==
    /\ IF job.kind = "tick" THEN UNCHANGED <<task, left>>
       ELSE IF left[job.id] > 0
       THEN /\ task' = [task EXCEPT ![job.id] = "queued"]
            /\ left' = [left EXCEPT ![job.id] = @ - 1]
       ELSE /\ task' = [task EXCEPT ![job.id] = "archived"]
            /\ UNCHANGED left
    /\ UNCHANGED toEnqueue

(* Rescue or mark-read fails before the reply, or a statement of the        *)
(* engagement does before or after it: the handler returns the error.       *)
EngageStepFails(w) ==
    /\ work[w] # Idle
    /\ work[w].kind = "engage"
    /\ work[w].at \in {"built", "finish"}
    /\ faults < MaxFaults
    /\ faults' = faults + 1
    /\ TaskFails(work[w])
    /\ work' = [work EXCEPT ![w] = Idle]
    /\ UNCHANGED <<lane, send, receipt, sentToday, replies, moves, copies, lost>>

-----------------------------------------------------------------------------
(* Claim, deliver, finalize *)

(* As if a row that was already sent could be claimed again. *)
ReclaimableWhenSent(row, job) ==
    /\ row.status \in {"queued", "sent"} \/ (row.status = "sending" /\ row.stale)
    /\ row.lane = job.lane

(* The rows a conflicting insert may take over. *)
Reclaimable(row, job) ==
    /\ row.status = "queued" \/ (row.status = "sending" /\ row.stale)
    /\ row.lane = job.lane

ClaimWins(job) ==
    /\ lane = job.lane
    /\ LaneMaySend(lane)
    /\ send[job.id] = NoRow \/ Reclaimable(send[job.id], job)

(* Where a worker goes that will send nothing: a tick is over, an engagement *)
(* still has to be recorded.                                                *)
WithoutSending(job, replied) ==
    IF job.kind = "tick" THEN Idle
    ELSE [job EXCEPT !.at = "finish", !.replied = replied]

ClaimWarmupSend(w) ==
    /\ work[w] # Idle
    /\ work[w].at = "built"
    /\ LET job == work[w]
       IN IF ClaimWins(job)
          THEN /\ send' = [send EXCEPT ![job.id] =
                      [status |-> "sending", lane |-> job.lane, stale |-> FALSE]]
               /\ work' = [work EXCEPT ![w].at = "claimed"]
          ELSE /\ work' = [work EXCEPT ![w] =
                      WithoutSending(job, send[job.id].status = "sent")]
               /\ UNCHANGED send
    /\ UNCHANGED <<lane, receipt, sentToday, replies, faults, moves, copies, lost, queueVars>>

(* The message is handed over. *)
Delivers(w) ==
    /\ work[w] # Idle
    /\ work[w].at = "claimed"
    /\ copies' = [copies EXCEPT ![work[w].id] = @ + 1]
    /\ work' = [work EXCEPT ![w].at = "delivered"]
    /\ UNCHANGED <<lane, send, receipt, sentToday, replies, faults, moves, lost, queueVars>>

(* The provider answers an error; a timeout may hide that the message left. *)
Refused(w) ==
    /\ work[w] # Idle
    /\ work[w].at = "claimed"
    /\ faults < MaxFaults
    /\ faults' = faults + 1
    /\ work' = [work EXCEPT ![w].at = "refused"]
    /\ \/ UNCHANGED <<copies, lost>>
       \/ /\ copies' = [copies EXCEPT ![work[w].id] = @ + 1]
          /\ lost' = [lost EXCEPT ![work[w].id] = @ + 1]
    /\ UNCHANGED <<lane, send, receipt, sentToday, replies, moves, queueVars>>

Finalize(id, status) ==
    IF send[id].status = "sending" THEN [send EXCEPT ![id].status = status] ELSE send

Released == "queued"

(* A retryable refusal: the claim is released and the task fails, to be     *)
(* tried again.                                                             *)
ReleaseWarmupSend(w) ==
    /\ work[w] # Idle
    /\ work[w].at = "refused"
    /\ send' = Finalize(work[w].id, Released)
    /\ TaskFails(work[w])
    /\ work' = [work EXCEPT ![w] = Idle]
    /\ UNCHANGED <<lane, receipt, sentToday, replies, faults, moves, copies, lost>>

(* A permanent refusal: the row is failed; an engagement goes on. *)
FailWarmupSend(w) ==
    /\ work[w] # Idle
    /\ work[w].at = "refused"
    /\ send' = Finalize(work[w].id, "failed")
    /\ work' = [work EXCEPT ![w] = WithoutSending(work[w], FALSE)]
    /\ UNCHANGED <<lane, receipt, sentToday, replies, faults, moves, copies, lost, queueVars>>

(* The row, the thread and the counter move in one transaction, or none of  *)
(* them does.                                                               *)
MarkWarmupSent(w) ==
    /\ work[w] # Idle
    /\ work[w].at = "delivered"
    /\ sentToday' = IF send[work[w].id].status = "sending" THEN sentToday + 1 ELSE sentToday
    /\ send' = Finalize(work[w].id, "sent")
    /\ work' = [work EXCEPT ![w] = WithoutSending(work[w], TRUE)]
    /\ UNCHANGED <<lane, receipt, replies, faults, moves, copies, lost, queueVars>>

(* As if every engagement counted as a reply. *)
EngagedAlwaysCounts(r, replied) ==
    /\ receipt' = [receipt EXCEPT ![r] = "engaged"]
    /\ replies' = replies + 1

Engaged(r, replied) ==
    IF receipt[r] = "engaged"
    THEN UNCHANGED <<receipt, replies>>
    ELSE /\ receipt' = [receipt EXCEPT ![r] = "engaged"]
         /\ replies' = IF replied THEN replies + 1 ELSE replies

MarkWarmupEngaged(w) ==
    /\ work[w] # Idle
    /\ work[w].at = "finish"
    /\ Engaged(work[w].id, work[w].replied)
    /\ task' = [task EXCEPT ![work[w].id] = "none"]
    /\ work' = [work EXCEPT ![w] = Idle]
    /\ UNCHANGED <<lane, send, sentToday, faults, moves, copies, lost, left, toEnqueue>>

-----------------------------------------------------------------------------
(* The world *)

(* The worker dies, its task times out or its next write fails: the queue   *)
(* retries the task at the cost of a retry.  A message that had left is     *)
(* lost to the database.                                                    *)
Crash(w) ==
    /\ work[w] # Idle
    /\ faults < MaxFaults
    /\ faults' = faults + 1
    /\ lost' = IF work[w].at = "delivered"
               THEN [lost EXCEPT ![work[w].id] = @ + 1] ELSE lost
    /\ TaskFails(work[w])
    /\ work' = [work EXCEPT ![w] = Idle]
    /\ UNCHANGED <<lane, send, receipt, sentToday, replies, moves, copies>>

(* The claim of a worker that is gone grows older than the lease. *)
LeaseRunsOut(id) ==
    /\ send[id].status = "sending"
    /\ ~send[id].stale
    /\ \A w \in Workers : ~Holds(w, id)
    /\ send' = [send EXCEPT ![id].stale = TRUE]
    /\ UNCHANGED <<lane, work, receipt, sentToday, replies, faults, moves, copies, lost, queueVars>>

(* A poll records a receipt and has still to enqueue its engagement.        *)
RecordWarmupReceipt(r) ==
    /\ receipt[r] = "none"
    /\ receipt' = [receipt EXCEPT ![r] = "received"]
    /\ toEnqueue' = toEnqueue \union {r}
    /\ UNCHANGED <<lane, send, work, sentToday, replies, faults, moves, copies, lost, task, left>>

(* The task's id is the receipt's: while one is in the queue, archived ones *)
(* included, a second is a silent no-op.                                    *)
Queue(r) ==
    /\ task' = [task EXCEPT ![r] = IF @ = "none" THEN "queued" ELSE @]
    /\ left' = [left EXCEPT ![r] = IF task[r] = "none" THEN MaxRetry ELSE @]

(* As if the poll went on past a message whose task was not enqueued.       *)
ForgottenOnError(r) == toEnqueue \ {r}

(* The poll fails with the enqueue, so its cursor stays before the message  *)
(* and the next one finds the receipt again.                                *)
KeptOnError(r) == toEnqueue

(* The task is enqueued and the cursor may pass the message, after which    *)
(* nothing enqueues it again; or the enqueue fails, with or without effect; *)
(* or a later poll finds the receipt engaged.                               *)
EnqueueWarmupEngage(r) ==
    /\ r \in toEnqueue
    /\ \/ Queue(r) /\ toEnqueue' = toEnqueue \ {r} /\ UNCHANGED faults
       \/ /\ faults < MaxFaults
          /\ faults' = faults + 1
          /\ Queue(r) \/ UNCHANGED <<task, left>>
          /\ toEnqueue' = KeptOnError(r)
       \/ /\ receipt[r] = "engaged"
          /\ toEnqueue' = toEnqueue \ {r}
          /\ UNCHANGED <<task, left, faults>>
    /\ UNCHANGED <<lane, send, work, receipt, sentToday, replies, moves, copies, lost>>

LaneMoves ==
    /\ moves < MaxMoves
    /\ moves' = moves + 1
    /\ lane' \in LaneSet \ {lane}
    /\ UNCHANGED <<send, work, receipt, sentToday, replies, faults, copies, lost, queueVars>>

-----------------------------------------------------------------------------

Init ==
    /\ lane \in {"probation", "healthy"}
    /\ send = [id \in SendIds |-> NoRow]
    /\ work = [w \in Workers |-> Idle]
    /\ receipt = [r \in Receipts |-> "none"]
    /\ sentToday = 0
    /\ replies = 0
    /\ task = [r \in Receipts |-> "none"]
    /\ left = [r \in Receipts |-> 0]
    /\ toEnqueue = {}
    /\ faults = 0
    /\ moves = 0
    /\ copies = [id \in SendIds |-> 0]
    /\ lost = [id \in SendIds |-> 0]

Handle(w) ==
    \/ ClaimWarmupSend(w)
    \/ Delivers(w)
    \/ Refused(w)
    \/ ReleaseWarmupSend(w)
    \/ FailWarmupSend(w)
    \/ MarkWarmupSent(w)
    \/ MarkWarmupEngaged(w)

Next ==
    \/ \E w \in Workers :
           \/ WarmupSendJob(w)
           \/ \E r \in Receipts : WarmupEngageJob(w, r)
           \/ Handle(w)
           \/ EngageStepFails(w)
           \/ Crash(w)
    \/ \E id \in SendIds : LeaseRunsOut(id)
    \/ \E r \in Receipts : RecordWarmupReceipt(r) \/ EnqueueWarmupEngage(r)
    \/ LaneMoves

(* A started task runs on; a poll that failed is followed by another; and    *)
(* the queue serves its tasks in order, so a queued engagement is not passed *)
(* over for ever although workers are sometimes busy.  Nothing is promised   *)
(* about ticks, faults, lanes or arriving mail, nor that a task is enqueued  *)
(* a second time.                                                            *)
Fairness ==
    /\ \A w \in Workers : WF_vars(Handle(w))
    /\ \A r \in Receipts :
           /\ WF_vars(EnqueueWarmupEngage(r))
           /\ SF_vars(\E w \in Workers : WarmupEngageJob(w, r))

Spec == Init /\ [][Next]_vars /\ Fairness

-----------------------------------------------------------------------------
(* Properties *)

RowsTypeOK ==
    /\ lane \in LaneSet
    /\ send \in [SendIds -> [status : {"none", "queued", "sending", "sent", "failed"},
                             lane : LaneSet \union {"none"}, stale : BOOLEAN]]
    /\ work \in [Workers -> {Idle} \union
           [at : {"built", "claimed", "delivered", "refused", "finish"},
            kind : {"tick", "engage"}, id : SendIds, lane : LaneSet, replied : BOOLEAN]]
    /\ receipt \in [Receipts -> {"none", "received", "engaged"}]
    /\ sentToday \in Nat /\ replies \in Nat
    /\ faults \in 0..MaxFaults /\ moves \in 0..MaxMoves
    /\ copies \in [SendIds -> Nat] /\ lost \in [SendIds -> Nat]

QueueTypeOK ==
    /\ task \in [Receipts -> {"none", "queued", "running", "archived"}]
    /\ left \in [Receipts -> 0..MaxRetry]
    /\ toEnqueue \in SUBSET Receipts

(* Every variable holds the kind of value the code keeps there. *)
TypeOK == RowsTypeOK /\ QueueTypeOK

(* A message leaves twice under one id only when a worker died between      *)
(* handing it over and recording it, or was told that it had not left.      *)
DuplicatesArePaidFor == \A id \in SendIds : copies[id] <= 1 + lost[id]

(* The day's counters agree with the rows: sent counts exactly the rows     *)
(* that became sent, whoever marked them, and a reply is counted only when  *)
(* its row was sent.                                                        *)
CountersAgree ==
    /\ sentToday = Cardinality({id \in SendIds : send[id].status = "sent"})
    /\ replies <= Cardinality({r \in Receipts :
                      send[deriveWarmupReplySendID(r)].status = "sent"})

(* The pair's daily cap is checked when a job is built and spent when it is *)
(* claimed, with nothing between that serialises two jobs: the cap may be   *)
(* overshot, by no more than the other handlers at work.                    *)
PairBudgetHolds == CountWarmupPairSendsToday <= PairCap + Cardinality(Workers) - 1

(* Every received warmup message is engaged in the end, or its task spent   *)
(* every retry and lies in the archive.  A refused, withheld or taken-over   *)
(* reply, a failed enqueue, a dead worker or a busy queue never strands it   *)
(* between the two: a receipt nobody will engage has a dead letter.          *)
EventuallyEngaged ==
    \A r \in Receipts :
        receipt[r] = "received" ~> receipt[r] = "engaged" \/ task[r] = "archived"

(* The safety half of it: a receipt that waits is one a poll has still to   *)
(* enqueue, or one with a task, the archived ones included.                 *)
NotStranded ==
    \A r \in Receipts : receipt[r] = "received" => r \in toEnqueue \/ task[r] # "none"

(* The ledger's word for a row's status. *)
Fate(status) ==
    CASE status = "none" -> "draft"
      [] status \in {"queued", "sending"} -> "waiting"
      [] status = "sent" -> "sent"
      [] status = "failed" -> "abandoned"

Ledger == INSTANCE Outbox WITH
    Items <- SendIds, mailed <- copies, unknown <- lost,
    fate <- [id \in SendIds |-> Fate(send[id].status)]

(* Jobs, claims, lanes and stale leases are invisible from outside: every   *)
(* step of the warmup day is a step of the outbox or none.  A row is sent   *)
(* only for a message that left, a message leaves again only when no        *)
(* handler can still record an earlier one, and a sent or failed row stays  *)
(* as it is.                                                                *)
ImplementsOutbox == Ledger!Spec
=============================================================================
