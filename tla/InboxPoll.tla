------------------------------ MODULE InboxPoll ------------------------------
(***************************************************************************)
(* Reading one mailbox's inbox (worker/inbox/poll.go): the sweep fans out  *)
(* polls, a poll reads the stored cursor, fetches the mail above it, acts  *)
(* on every message and writes the cursor back.                            *)
(*                                                                         *)
(* A poll may outlast the sweep interval, so polls of one mailbox overlap, *)
(* and the cursor is written blindly.  Three transports share the handler: *)
(* IMAP counts UIDs and asks for the head first; Gmail and Graph hand out  *)
(* opaque cursors, here the position of the last message they cover.  A    *)
(* cursor is worthless once the server has changed epoch: a new            *)
(* UIDVALIDITY, or an expired history id or delta link.                    *)
(***************************************************************************)
EXTENDS Integers, Sequences, FiniteSets

CONSTANTS
    Workers,     \* concurrent executions of PollHandler
    Kind,        \* what each message is, by its number
    NOld,        \* messages that were there before the mailbox was connected
    Batch,       \* fetchBatchSize
    PageSize,    \* entries of one Graph delta page
    Ladder,      \* DefaultPollBackoff.Ladder, in ticks
    MaxTasks,    \* bound: poll tasks queued
    MaxFaults,   \* bound: crashes, failed calls and unreachable servers
    MaxChurn     \* bound: deletions, epochs, pauses

Messages  == DOMAIN Kind
Permanent == Ladder[Len(Ladder)]

\* What processInbound does to a message of a kind, in the order it does it.
Effects ==
    [reply     |-> <<"StoreInboundMessage", "MarkStepStopped", "CaptureCRMReply">>,
     optout    |-> <<"StoreInboundMessage", "AddSuppression", "MarkStepStopped">>,
     automated |-> <<"StoreInboundMessage", "DeferEnrollment", "RecordReplyClass">>,
     bounce    |-> <<"MarkStepStopped", "AddSuppression">>,
     complaint |-> <<"IngestComplaint">>,
     warmup    |-> <<"RecordWarmupReceipt", "EnqueueWarmupEngageIn">>]

ASSUME InboxPollAssumption ==
    /\ Kind \in Seq(DOMAIN Effects)
    /\ NOld \in 0..Len(Kind)
    /\ Batch \in Nat \ {0} /\ PageSize \in 1..Batch
    /\ Ladder \in Seq(Nat) /\ Ladder # <<>> /\ \A i \in DOMAIN Ladder : Ladder[i] <= Permanent
    /\ MaxTasks \in Nat \ {0} /\ MaxFaults \in Nat /\ MaxChurn \in Nat

VARIABLES
    provider,         \* the mailbox's transport
    box, epoch,       \* the server: messages by position, 0 where one was deleted
    arrived,          \* messages delivered to the inbox so far
    cur, curEpoch,    \* mailboxes: the cursor and its epoch; epoch 0 = never polled
    active,           \* mailboxes.status
    fails, wait,      \* inbox_poll_failures, time to inbox_poll_retry_after
    tasks,            \* asynq: queued polls
    poll,             \* executions of PollHandler
    done,             \* effects of a message that have been carried out
    safe,             \* history: mail that arrived when no epoch change was pending
    faults, churn

serverVars == <<provider, box, epoch, arrived>>
cursorVars == <<cur, curEpoch>>
statusVars == <<active, fails, wait>>
budgetVars == <<faults, churn>>
vars == <<serverVars, cursorVars, statusVars, tasks, poll, done, safe, budgetVars>>

Top == Len(box)      \* UIDNEXT - 1, the current history id, the newest delta link
Least(a, b) == IF a < b THEN a ELSE b
Most(a, b) == IF a < b THEN b ELSE a

Idle == [pc |-> "idle", from |-> 0, epoch |-> 0, seen |-> 0, head |-> 0,
         todo |-> {}, target |-> 0]

Finished(m) == done[m] = Len(Effects[Kind[m]])

TypeOK ==
    /\ provider \in {"smtp", "gmail", "m365"}
    /\ box \in Seq({0} \cup Messages)
    /\ epoch \in 1..(MaxChurn + 1)
    /\ arrived \in 0..Len(Kind)
    /\ cur \in 0..arrived
    /\ curEpoch \in 0..epoch
    /\ active \in BOOLEAN
    /\ fails \in 0..Len(Ladder)
    /\ wait \in 0..Permanent
    /\ tasks \in 0..MaxTasks
    /\ poll \in [Workers -> [pc : {"idle", "state", "fetch", "process", "commit"},
                             from : 0..arrived, epoch : 0..epoch, seen : 0..epoch,
                             head : 0..arrived, todo : SUBSET Messages,
                             target : 0..arrived]]
    /\ done \in [Messages -> Nat] /\ \A m \in Messages : done[m] <= Len(Effects[Kind[m]])
    /\ safe \subseteq Messages
    /\ faults \in 0..MaxFaults
    /\ churn \in 0..MaxChurn

Init ==
    /\ provider \in {"smtp", "gmail", "m365"}
    /\ box = [i \in 1..NOld |-> i]
    /\ epoch = 1
    /\ arrived = NOld
    /\ cur = 0 /\ curEpoch = 0
    /\ active = TRUE /\ fails = 0 /\ wait = 0
    /\ tasks = 0
    /\ poll = [w \in Workers |-> Idle]
    /\ done = [m \in Messages |-> 0]
    /\ safe = {}
    /\ faults = MaxFaults
    /\ churn = MaxChurn

Fault == faults > 0 /\ faults' = faults - 1
Churn == churn > 0 /\ churn' = churn - 1

-----------------------------------------------------------------------------
(* The sweep and the queue                                                 *)

\* ListActiveMailboxes
Due == active /\ wait = 0

\* SweepHandler: EnqueueInboxPoll, one task per interval.
Sweep ==
    /\ Due
    /\ tasks < MaxTasks
    /\ tasks' = tasks + 1
    /\ UNCHANGED <<serverVars, cursorVars, statusVars, poll, done, safe, budgetVars>>

Return(w) == poll' = [poll EXCEPT ![w] = Idle]

\* The error goes to asynq, which retries a few times and then gives the task up.
TaskFails(w) ==
    /\ Return(w)
    /\ \/ tasks < MaxTasks /\ tasks' = tasks + 1
       \/ UNCHANGED tasks

\* GetInboxPollJob: the status is not looked at again.
Start(w) ==
    /\ poll[w].pc = "idle" /\ tasks > 0
    /\ tasks' = tasks - 1
    /\ poll' = [poll EXCEPT ![w] =
                  [Idle EXCEPT !.pc = IF provider = "smtp" THEN "state" ELSE "fetch",
                               !.from = cur, !.epoch = curEpoch]]
    /\ UNCHANGED <<serverVars, cursorVars, statusVars, done, safe, budgetVars>>

-----------------------------------------------------------------------------
(* The provider                                                            *)

\* RecordInboxPollFailure: the rung after this many failures, the last one from then
\* on; failures beyond the ladder are not told apart.
RecordInboxPollFailure ==
    /\ fails' = Least(fails + 1, Len(Ladder))
    /\ wait' = Ladder[fails']

\* pollBackoff.note: the next rung, the cap for a refused credential (whose task is not
\* retried), nothing for our own shutdown or when the record cannot be written.
Note(w) ==
    /\ \/ RecordInboxPollFailure /\ TaskFails(w)
       \/ /\ fails' = Least(fails + 1, Len(Ladder)) /\ wait' = Permanent
          /\ Return(w) /\ UNCHANGED tasks
       \/ UNCHANGED <<fails, wait>> /\ TaskFails(w)
    /\ UNCHANGED active

\* On to the messages, or straight to the cursor when the poll only re-baselines.
Fetched(w, todo, target, seen) ==
    poll' = [poll EXCEPT ![w].pc = IF todo = {} THEN "commit" ELSE "process",
                         ![w].todo = todo, ![w].target = target, ![w].seen = seen]

\* Mutant: a mailbox that was never polled is read from the start.
StaleEver(p) == p.epoch # 0 /\ p.epoch # epoch

\* A first poll, or a cursor of another epoch.
Stale(p) == p.epoch = 0 \/ p.epoch # epoch

\* IMAP CurrentState, and the re-baseline to UIDNEXT - 1.
CurrentState(w) ==
    /\ poll[w].pc = "state"
    /\ \/ /\ IF Stale(poll[w])
             THEN Fetched(w, {}, Top, epoch)
             ELSE poll' = [poll EXCEPT ![w].pc = "fetch", ![w].seen = epoch, ![w].head = Top]
          /\ UNCHANGED <<statusVars, tasks, faults>>
       \/ Fault /\ Note(w)
    /\ UNCHANGED <<serverVars, cursorVars, done, safe, churn>>

\* The messages still there between two positions.
Window(lo, hi) == {box[i] : i \in lo + 1..Least(hi, Top)} \ {0}

\* Mutant: the cursor stays put when the window held no message.
scannedWindowTopStalls(sinceUID, head) ==
    IF Window(sinceUID, sinceUID + Batch) = {} THEN sinceUID ELSE Least(sinceUID + Batch, head)

scannedWindowTop(sinceUID, head) == Least(sinceUID + Batch, head)

\* A UIDVALIDITY that changes under the fetch is not looked at.
FetchIMAP(w) ==
    LET p == poll[w] IN
    Fetched(w, Window(p.from, p.from + Batch), scannedWindowTop(p.from, p.head), p.seen)

\* collectHistory: the head when the window is drained, else the last record taken.
collectHistory(from) == Least(from + Batch, Top)

\* GmailReader.Fetch, one messages.get for each id: one that fails, fails them all.
FetchGmail(w) ==
    LET from == poll[w].from IN
    /\ \A i \in from + 1..collectHistory(from) : box[i] # 0
    /\ Fetched(w, Window(from, from + Batch), collectHistory(from), epoch)

\* GraphReader.Fetch, collectDelta: at most Batch ids of a page, and the cursor of the
\* page's end.
FetchGraph(w) ==
    LET from == poll[w].from
        page == Window(from, from + PageSize)
        last == Top <= from + PageSize
        first == {m \in page : Cardinality({k \in page : k <= m}) <= Batch}
    IN  Fetched(w, IF last THEN page ELSE first, Least(from + PageSize, Top), epoch)

\* pollAPI's Fetch: an empty or expired cursor re-baselines.
FetchAPI(w) ==
    IF Stale(poll[w]) THEN Fetched(w, {}, Top, epoch)
    ELSE IF provider = "gmail" THEN FetchGmail(w) ELSE FetchGraph(w)

Fetch(w) ==
    /\ poll[w].pc = "fetch"
    /\ \/ /\ IF provider = "smtp" THEN FetchIMAP(w) ELSE FetchAPI(w)
          /\ UNCHANGED <<statusVars, tasks, faults>>
       \/ Fault /\ Note(w)
    /\ UNCHANGED <<serverVars, cursorVars, done, safe, churn>>

\* A message of the window is gone for good: messages.get fails on every poll, which
\* is a failure like any other.
FetchWedged(w) ==
    LET p == poll[w] IN
    /\ p.pc = "fetch" /\ provider = "gmail" /\ ~Stale(p)
    /\ \E i \in p.from + 1..collectHistory(p.from) : box[i] = 0
    /\ RecordInboxPollFailure
    /\ TaskFails(w)
    /\ UNCHANGED <<serverVars, cursorVars, active, done, safe, budgetVars>>

-----------------------------------------------------------------------------
(* The messages and the cursor                                             *)

\* The first n effects of a message; every one of them is idempotent.
Apply(m, n) == done' = [done EXCEPT ![m] = Most(@, n)]

\* The messages of a window are taken in the order they arrived in.
Processed(w, m) ==
    LET rest == poll[w].todo \ {m} IN
    poll' = [poll EXCEPT ![w].todo = rest, ![w].pc = IF rest = {} THEN "commit" ELSE "process"]

\* Mutant: a message that fails is skipped.
ProcessSkipping(w) ==
    /\ poll[w].pc = "process"
    /\ \E m \in poll[w].todo :
         /\ \A k \in poll[w].todo : m <= k
         /\ \/ Apply(m, Len(Effects[Kind[m]])) /\ UNCHANGED faults
            \/ Fault /\ \E n \in 0..Len(Effects[Kind[m]]) - 1 : Apply(m, n)
         /\ Processed(w, m)
    /\ UNCHANGED <<serverVars, cursorVars, statusVars, tasks, safe, churn>>

\* processInbound on the next message.  Any error ends the poll: what was done stays
\* done, the cursor stays where it is.
Process(w) ==
    /\ poll[w].pc = "process"
    /\ \E m \in poll[w].todo :
         /\ \A k \in poll[w].todo : m <= k
         /\ \/ /\ Apply(m, Len(Effects[Kind[m]]))
               /\ Processed(w, m)
               /\ UNCHANGED <<tasks, faults>>
            \/ /\ Fault
               /\ \E n \in 0..Len(Effects[Kind[m]]) - 1 : Apply(m, n)
               /\ TaskFails(w)
    /\ UNCHANGED <<serverVars, cursorVars, statusVars, safe, churn>>

\* SetInboxCursor, SetInboxCursorString: written blindly, and the backoff is over.  A
\* lost answer fails the task, and the write may have happened.
SetInboxCursor(w) ==
    LET p == poll[w]
        written ==
          /\ cur' = p.target /\ curEpoch' = p.seen
          /\ fails' = 0 /\ wait' = 0
    IN
    /\ p.pc = "commit"
    /\ \/ written /\ Return(w) /\ UNCHANGED <<tasks, faults>>
       \/ /\ Fault
          /\ written \/ UNCHANGED <<cursorVars, fails, wait>>
          /\ TaskFails(w)
    /\ UNCHANGED <<serverVars, active, done, safe, churn>>

\* The process dies or the task runs out of time.
Crash(w) ==
    /\ poll[w].pc # "idle"
    /\ Fault
    /\ TaskFails(w)
    /\ UNCHANGED <<serverVars, cursorVars, statusVars, done, safe, churn>>

-----------------------------------------------------------------------------
(* The server, the operator and the clock                                  *)

\* No poll, running or to come, will jump to the head because of its epoch, and no
\* Gmail window is held up.
Settled ==
    /\ curEpoch = epoch
    /\ \A w \in Workers : poll[w].pc # "idle" => poll[w].epoch = epoch
    /\ provider = "gmail" => \A i \in DOMAIN box : box[i] # 0

Arrive ==
    /\ arrived < Len(Kind)
    /\ arrived' = arrived + 1
    /\ box' = Append(box, arrived + 1)
    /\ safe' = IF Settled THEN safe \cup {arrived + 1} ELSE safe
    /\ UNCHANGED <<provider, epoch, cursorVars, statusVars, tasks, poll, done, budgetVars>>

\* Somebody deletes a message.  Deleted for good, it takes down the Gmail windows that
\* hold it.
Delete(i) ==
    /\ Churn
    /\ box[i] # 0
    /\ box' = [box EXCEPT ![i] = 0]
    /\ safe' = IF provider = "gmail" THEN {} ELSE safe \ {box[i]}
    /\ UNCHANGED <<provider, epoch, arrived, cursorVars, statusVars, tasks, poll, done, faults>>

\* The messages still there, numbered from one in the order they arrived in.
Renumbered ==
    LET kept == {box[i] : i \in DOMAIN box} \ {0} IN
    {b \in [1..Cardinality(kept) -> kept] : \A i, j \in DOMAIN b : i < j => b[i] < b[j]}

\* The server renumbers the inbox, or forgets its old cursors.
NewEpoch ==
    /\ Churn
    /\ epoch' = epoch + 1
    /\ IF provider = "smtp" THEN box' \in Renumbered ELSE UNCHANGED box
    /\ safe' = {}
    /\ UNCHANGED <<provider, arrived, cursorVars, statusVars, tasks, poll, done, faults>>

\* UpdateMailboxStatus: pausing and resuming start the backoff over.
UpdateMailboxStatus ==
    /\ IF active THEN Churn ELSE UNCHANGED churn
    /\ active' = ~active
    /\ fails' = 0 /\ wait' = 0
    /\ UNCHANGED <<serverVars, cursorVars, tasks, poll, done, safe, faults>>

Tick ==
    /\ wait > 0
    /\ wait' = wait - 1
    /\ UNCHANGED <<serverVars, cursorVars, active, fails, tasks, poll, done, safe, budgetVars>>

-----------------------------------------------------------------------------
Work(w) ==
    CurrentState(w) \/ Fetch(w) \/ FetchWedged(w) \/ Process(w) \/ SetInboxCursor(w)

Next ==
    \/ Sweep
    \/ \E w \in Workers : Start(w) \/ Work(w) \/ Crash(w)
    \/ Arrive
    \/ \E i \in DOMAIN box : Delete(i)
    \/ NewEpoch
    \/ UpdateMailboxStatus
    \/ Tick

Spec == Init /\ [][Next]_vars

\* The sweep is periodic, a queued poll is started, a started poll runs on, and the
\* backoff elapses.
Fairness ==
    /\ WF_vars(Sweep)
    /\ WF_vars(\E w \in Workers : Start(w))
    /\ WF_vars(\E w \in Workers : Work(w))
    /\ WF_vars(Tick)

FairSpec == Spec /\ Fairness

-----------------------------------------------------------------------------
(* Properties                                                              *)

\* The cursor never passes a message that was not dealt with in full, whatever polls
\* overlap, fail half-way or commit late (poll.go: a failed message "leaves the cursor
\* where it is").  Mail around a change of epoch is given up on purpose.
NothingSkipped ==
    curEpoch = epoch =>
      \A i \in 1..cur : (box[i] # 0 /\ box[i] \in safe) => Finished(box[i])

\* What was in the mailbox when it was connected is never taken for a reply.
OldMailUntouched == \A m \in 1..NOld : done[m] = 0

\* Outages, refusals and overlapping polls delay a message but never lose it: a mailbox
\* that is not paused gets round to all the mail that arrives.
EveryMessageHeard ==
    \A m \in NOld + 1..Len(Kind) : m \in safe ~> (Finished(m) \/ m \notin safe \/ ~active)
=============================================================================
