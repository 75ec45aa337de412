-------------------------- MODULE PendingReplyProofs --------------------------
(***************************************************************************)
(* The safety of manual replies for every number of replies and workers,   *)
(* every lease, timeout and undo window: a reply goes out again only for a *)
(* delivery its row never learned of, and not at all once it was undone or *)
(* before it is due.                                                       *)
(*                                                                         *)
(* The claim is weaker than that of a composed email: the request whose    *)
(* enqueue failed gives its row up although the task may have been queued  *)
(* and an execution may already hold the row.  So an execution's row says  *)
(* 'sending', with a lease that outlives the execution, or 'failed', which *)
(* nobody claims again.                                                    *)
(***************************************************************************)
EXTENDS PendingReply, TLAPS

\* A row exists once the request has created it.
Uncreated == \A r \in Replies : api[r] \in {"idle", "admit", "create"} => row[r] = "none"

\* What an execution that holds a row knows of it: it is due, and it is this execution's
\* or was given up.
Claims ==
    \A w \in Workers :
      /\ pc[w] # "idle" => job[w] \in Replies
      /\ pc[w] \in Holding =>
           /\ due[job[w]] <= Overdue
           /\ \/ row[job[w]] = "sending" /\ lease[job[w]] > LeaseGrace + ttl[w]
              \/ row[job[w]] = "failed"

\* There is one execution per row.
OneClaim ==
    \A v, w \in Workers :
      pc[v] \in Holding /\ pc[w] \in Holding /\ job[v] = job[w] => v = w

\* Deliveries the row never learned of.
Excused(r) == lost[r] + hidden[r]

\* Everything that went out is excused while the reply may still be sent: no execution
\* is about to mark it, and the row is not settled.
Deliveries ==
    \A r \in Replies :
      /\ delivered[r] <= 1 + Excused(r)
      /\ (/\ row[r] \notin Terminal
          /\ \A w \in Workers : pc[w] = "mark" => job[w] # r) => delivered[r] <= Excused(r)

\* The same of an execution that has not sent yet, whatever became of its row.
Turn ==
    \A w \in Workers :
      pc[w] \in {"check", "send"} => delivered[job[w]] <= Excused(job[w])

ReplyInv == TypeOK /\ Uncreated /\ Claims /\ OneClaim /\ Deliveries /\ Turn

-----------------------------------------------------------------------------
(* What a step may do to the rows, the executions and the deliveries.       *)

sendVars == <<row, due, lease, workerVars, historyVars>>

\* The request's row, in the three ways it comes and goes without an execution.
Created(r) ==
    /\ row[r] = "none"
    /\ row' = [row EXCEPT ![r] = "scheduled"]
    /\ \E d \in 0..MaxDelay : due' = [due EXCEPT ![r] = d + Overdue]
    /\ UNCHANGED <<lease, workerVars, historyVars>>

Cancelled(r) ==
    /\ row[r] = "scheduled"
    /\ row' = [row EXCEPT ![r] = "cancelled"]
    /\ UNCHANGED <<due, lease, workerVars, historyVars>>

GivenUp(r) ==
    /\ row[r] \in Open
    /\ row' = [row EXCEPT ![r] = "failed"]
    /\ lease' = [lease EXCEPT ![r] = 0]
    /\ UNCHANGED <<due, workerVars, historyVars>>

Claimed(w, r) ==
    /\ pc[w] = "idle"
    /\ Claimable(r)
    /\ row' = [row EXCEPT ![r] = "sending"]
    /\ lease' = [lease EXCEPT ![r] = Lease + LeaseGrace]
    /\ \/ /\ pc' = [pc EXCEPT ![w] = "check"]
          /\ job' = [job EXCEPT ![w] = r]
          /\ ttl' = [ttl EXCEPT ![w] = Timeout]
       \/ UNCHANGED workerVars
    /\ UNCHANGED <<due, historyVars>>

\* The suppression list has been read.
Checked(w) ==
    /\ pc[w] = "check"
    /\ \E p \in {"send", "fail", "release"} : pc' = [pc EXCEPT ![w] = p]
    /\ UNCHANGED <<row, due, lease, job, ttl, historyVars>>

\* The provider has answered.
Sent(w) ==
    /\ pc[w] = "send"
    /\ \/ /\ pc' = [pc EXCEPT ![w] = "mark"]
          /\ delivered' = [delivered EXCEPT ![job[w]] = @ + 1]
          /\ hidden' = hidden
       \/ /\ pc' = [pc EXCEPT ![w] = "release"]
          /\ delivered' = delivered /\ hidden' = hidden
       \/ /\ pc' = [pc EXCEPT ![w] = "release"]
          /\ delivered' = [delivered EXCEPT ![job[w]] = @ + 1]
          /\ hidden' = [hidden EXCEPT ![job[w]] = @ + 1]
    /\ UNCHANGED <<row, due, lease, job, ttl, lost>>

\* The row has learned of the delivery, or missed it.
Marked(w) ==
    /\ pc[w] = "mark"
    /\ pc' = [pc EXCEPT ![w] = "record"]
    /\ \/ /\ row' = [row EXCEPT ![job[w]] = IF @ = "sending" THEN "sent" ELSE @]
          /\ lost' = lost
       \/ row' = row /\ lost' = [lost EXCEPT ![job[w]] = @ + 1]
    /\ UNCHANGED <<due, lease, job, ttl, delivered, hidden>>

\* An execution ends.  What it delivered and did not mark is lost to the row.
Ended(w) ==
    /\ pc[w] # "idle"
    /\ Return(w)
    /\ \/ /\ pc[w] = "mark" /\ lost' = [lost EXCEPT ![job[w]] = @ + 1]
          /\ row' = row /\ lease' = lease
       \/ pc[w] # "mark" /\ lost' = lost /\ row' = row /\ lease' = lease
       \/ /\ pc[w] \in {"release", "fail"} /\ lost' = lost
          /\ row[job[w]] \in Open
          /\ \E s \in {"scheduled", "failed"} : row' = [row EXCEPT ![job[w]] = s]
          /\ lease' = [lease EXCEPT ![job[w]] = 0]
    /\ UNCHANGED <<due, delivered, hidden>>

Ticked ==
    /\ \A w \in Workers : pc[w] # "idle" => ttl[w] > 0
    /\ due' = [r \in Replies |-> Countdown(due[r])]
    /\ lease' = [r \in Replies |-> Countdown(lease[r])]
    /\ ttl' = [w \in Workers |-> Countdown(ttl[w])]
    /\ UNCHANGED <<row, pc, job, historyVars>>

SendMove ==
    \/ \E r \in Replies : Created(r) \/ Cancelled(r) \/ GivenUp(r)
    \/ \E w \in Workers, r \in Replies : Claimed(w, r)
    \/ \E w \in Workers : Checked(w) \/ Sent(w) \/ Marked(w) \/ Ended(w)
    \/ Ticked
    \/ UNCHANGED sendVars

\* Every step of the system is one of these.
LEMMA SendMoves == ReplyInv /\ [Next]_vars => SendMove
<1> SUFFICES ASSUME ReplyInv, [Next]_vars PROVE SendMove
  OBVIOUS
<1> USE PendingReplyAssumption DEF sendVars, workerVars, historyVars, rowVars
<1>1. ASSUME NEW r \in Replies, Request(r)
      PROVE  Created(r) \/ GivenUp(r) \/ UNCHANGED sendVars
  <2>1. ASSUME NEW k \in {"immediate", "deferred"}, Submit(r, k) PROVE UNCHANGED sendVars
    BY <2>1 DEF Submit
  <2>2. CASE Admit(r) \/ EnqueuePendingInboxReply(r) \/ RequestDies(r)
    BY <2>2 DEF Admit, EnqueuePendingInboxReply, RequestDies
  <2>3. CASE CreatePendingReply(r)
    <3>1. row[r] = "none"
      BY <2>3 DEF CreatePendingReply, ReplyInv, Uncreated
    <3>2. SendAfter(r) \subseteq 0..MaxDelay
      BY DEF SendAfter
    <3> QED BY <2>3, <3>1, <3>2 DEF CreatePendingReply, Created
  <2>4. CASE MarkUnqueued(r)
    <3>1. CASE row[r] \in Open
      BY <2>4, <3>1 DEF MarkUnqueued, OrFault, FailRow, GivenUp
    <3>2. CASE row[r] \notin Open
      BY <2>4, <3>2 DEF MarkUnqueued, OrFault, FailRow, ReplyInv, TypeOK
    <3> QED BY <3>1, <3>2
  <2> QED BY <1>1, <2>1, <2>2, <2>3, <2>4 DEF Request
<1>2. ASSUME NEW r \in Replies, CancelPendingReply(r) PROVE Cancelled(r)
  BY <1>2 DEF CancelPendingReply, Cancelled
<1>3. ASSUME NEW r \in Replies, Sweep(r) PROVE UNCHANGED sendVars
  BY <1>3 DEF Sweep
<1>4. ASSUME NEW w \in Workers, NEW r \in Replies, Take(w, r)
      PROVE  Claimed(w, r) \/ UNCHANGED sendVars
  BY <1>4 DEF Take, ClaimPendingReply, NotClaimable, Claimed
<1>5. ASSUME NEW w \in Workers, Work(w) \/ Abort(w)
      PROVE  Checked(w) \/ Sent(w) \/ Marked(w) \/ Ended(w)
  <2>0. pc[w] # "idle" => job[w] \in Replies
    BY DEF ReplyInv, Claims
  <2>1. CASE CheckSuppression(w)
    BY <2>1 DEF CheckSuppression, OrFault, Goto, Checked
  <2>2. CASE Send(w)
    <3>1. PICK outcome \in AllOutcomes :
            /\ Goto(w, IF outcome = "accepted" THEN "mark" ELSE "release")
            /\ delivered' = [delivered EXCEPT ![job[w]] =
                               IF outcome \in GoesOut THEN @ + 1 ELSE @]
            /\ hidden' = [hidden EXCEPT ![job[w]] =
                            IF outcome = "ambiguous" THEN @ + 1 ELSE @]
      BY <2>2 DEF Send
    <3>2. /\ delivered' = IF outcome \in GoesOut THEN [delivered EXCEPT ![job[w]] = @ + 1]
                          ELSE delivered
          /\ hidden' = IF outcome = "ambiguous" THEN [hidden EXCEPT ![job[w]] = @ + 1]
                       ELSE hidden
      BY <3>1 DEF ReplyInv, TypeOK
    <3> QED BY <2>2, <3>1, <3>2 DEF Send, Goto, Sent, GoesOut, AllOutcomes
  <2>3. CASE MarkPendingReplySent(w)
    BY <2>3 DEF MarkPendingReplySent, OrFault, Goto, Marked
  <2>4. CASE RecordInboxReply(w)
    BY <2>4 DEF RecordInboxReply, Ended
  <2>5. CASE ReleasePendingReply(w)
    <3>1. CASE row[job[w]] = "sending"
      BY <2>5, <3>1 DEF ReleasePendingReply, OrFault, TaskFails, Ended, Open
    <3>2. CASE row[job[w]] # "sending"
      BY <2>5, <3>2 DEF ReleasePendingReply, OrFault, TaskFails, Ended, ReplyInv, TypeOK
    <3> QED BY <3>1, <3>2
  <2>6. CASE FailPendingReply(w)
    <3>1. CASE row[job[w]] \in Open
      BY <2>6, <3>1 DEF FailPendingReply, FailRow, OrFault, Ended
    <3>2. CASE row[job[w]] \notin Open
      BY <2>6, <3>2 DEF FailPendingReply, FailRow, OrFault, Ended, ReplyInv, TypeOK
    <3> QED BY <3>1, <3>2
  <2>7. CASE Abort(w)
    BY <2>7 DEF Abort, TaskFails, Ended
  <2> QED BY <1>5, <2>1, <2>2, <2>3, <2>4, <2>5, <2>6, <2>7 DEF Work
<1>6. Tick => Ticked
  BY DEF Tick, Ticked
<1>7. Suppress => UNCHANGED sendVars
  BY DEF Suppress
<1>8. UNCHANGED vars => UNCHANGED sendVars
  BY DEF vars
<1> QED BY <1>1, <1>2, <1>3, <1>4, <1>5, <1>6, <1>7, <1>8 DEF Next, SendMove

-----------------------------------------------------------------------------
(* Types                                                                   *)

\* An update with a value of the range keeps the function's type.
LEMMA Updated ==
    ASSUME NEW S, NEW T, NEW f \in [S -> T], NEW s \in S, NEW v \in T
    PROVE  [f EXCEPT ![s] = v] \in [S -> T]
OBVIOUS

\* The types of the rows, the executions and the deliveries.
SendTypeOK ==
    /\ row \in [Replies -> {"none"} \cup Open \cup Terminal]
    /\ due \in [Replies -> 0..(MaxDelay + Overdue)]
    /\ lease \in [Replies -> 0..(Lease + LeaseGrace)]
    /\ pc \in [Workers -> {"idle", "record"} \cup Holding]
    /\ job \in [Workers -> Replies \cup {None}]
    /\ ttl \in [Workers -> 0..Timeout]
    /\ delivered \in [Replies -> Nat]
    /\ lost \in [Replies -> Nat]
    /\ hidden \in [Replies -> Nat]

LEMMA SendTyped == ReplyInv /\ SendMove => SendTypeOK'
<1> SUFFICES ASSUME ReplyInv, SendMove PROVE SendTypeOK'
  OBVIOUS
<1> USE PendingReplyAssumption DEF workerVars, historyVars
<1>0. /\ Lease + LeaseGrace \in 0..(Lease + LeaseGrace) /\ 0 \in 0..(Lease + LeaseGrace)
      /\ 0 \in 0..Timeout /\ Timeout \in 0..Timeout
      /\ \A n \in Nat : n + 1 \in Nat
      /\ \A d \in 0..MaxDelay : d + Overdue \in 0..(MaxDelay + Overdue)
  OBVIOUS
<1>1. SendTypeOK /\ \A w \in Workers : pc[w] # "idle" => job[w] \in Replies
  BY DEF ReplyInv, TypeOK, SendTypeOK, Claims
<1>2. ASSUME NEW r \in Replies, Created(r) PROVE SendTypeOK'
  <2>1. row' \in [Replies -> {"none"} \cup Open \cup Terminal]
    BY <1>1, <1>2 DEF Created, SendTypeOK, Open
  <2>2. due' \in [Replies -> 0..(MaxDelay + Overdue)]
    <3>1. PICK d \in 0..MaxDelay : due' = [due EXCEPT ![r] = d + Overdue]
      BY <1>2 DEF Created
    <3>2. d + Overdue \in 0..(MaxDelay + Overdue)
      BY <1>0
    <3> QED BY <3>1, <3>2, <1>1, Updated DEF SendTypeOK
  <2> QED BY <1>1, <1>2, <2>1, <2>2 DEF Created, SendTypeOK
<1>3. ASSUME NEW r \in Replies, Cancelled(r) PROVE SendTypeOK'
  BY <1>1, <1>3 DEF Cancelled, SendTypeOK, Terminal
<1>4. ASSUME NEW r \in Replies, GivenUp(r) PROVE SendTypeOK'
  <2>1. row' \in [Replies -> {"none"} \cup Open \cup Terminal]
    BY <1>1, <1>4 DEF GivenUp, SendTypeOK, Terminal
  <2>2. lease' \in [Replies -> 0..(Lease + LeaseGrace)]
    BY <1>0, <1>1, <1>4, Updated DEF GivenUp, SendTypeOK
  <2> QED BY <1>1, <1>4, <2>1, <2>2 DEF GivenUp, SendTypeOK
<1>5. ASSUME NEW w \in Workers, NEW r \in Replies, Claimed(w, r) PROVE SendTypeOK'
  <2>1. row' \in [Replies -> {"none"} \cup Open \cup Terminal]
    BY <1>1, <1>5 DEF Claimed, SendTypeOK, Open
  <2>2. lease' \in [Replies -> 0..(Lease + LeaseGrace)]
    BY <1>0, <1>1, <1>5, Updated DEF Claimed, SendTypeOK
  <2>3. CASE UNCHANGED workerVars
    BY <1>1, <1>5, <2>1, <2>2, <2>3 DEF Claimed, SendTypeOK
  <2>4. CASE /\ pc' = [pc EXCEPT ![w] = "check"]
             /\ job' = [job EXCEPT ![w] = r]
             /\ ttl' = [ttl EXCEPT ![w] = Timeout]
    <3>1. pc' \in [Workers -> {"idle", "record"} \cup Holding]
      BY <1>1, <2>4 DEF SendTypeOK, Holding
    <3>2. job' \in [Workers -> Replies \cup {None}]
      BY <1>1, <2>4 DEF SendTypeOK
    <3>3. ttl' \in [Workers -> 0..Timeout]
      BY <1>0, <1>1, <2>4, Updated DEF SendTypeOK
    <3> QED BY <1>1, <1>5, <2>1, <2>2, <3>1, <3>2, <3>3 DEF Claimed, SendTypeOK
  <2> QED BY <1>5, <2>3, <2>4 DEF Claimed
<1>6. ASSUME NEW w \in Workers, Checked(w) PROVE SendTypeOK'
  BY <1>1, <1>6 DEF Checked, SendTypeOK, Holding
<1>7. ASSUME NEW w \in Workers, Sent(w) PROVE SendTypeOK'
  <2>1. job[w] \in Replies
    BY <1>1, <1>7 DEF Sent
  <2>2. delivered' \in [Replies -> Nat] /\ hidden' \in [Replies -> Nat]
    BY <1>0, <1>1, <1>7, <2>1 DEF Sent, SendTypeOK
  <2>3. pc' \in [Workers -> {"idle", "record"} \cup Holding]
    BY <1>1, <1>7 DEF Sent, SendTypeOK, Holding
  <2> QED BY <1>1, <1>7, <2>2, <2>3 DEF Sent, SendTypeOK
<1>8. ASSUME NEW w \in Workers, Marked(w) PROVE SendTypeOK'
  <2>1. job[w] \in Replies
    BY <1>1, <1>8 DEF Marked
  <2>2. lost' \in [Replies -> Nat]
    BY <1>0, <1>1, <1>8, <2>1 DEF Marked, SendTypeOK
  <2>3. row' \in [Replies -> {"none"} \cup Open \cup Terminal]
    BY <1>1, <1>8, <2>1 DEF Marked, SendTypeOK, Terminal
  <2>4. pc' \in [Workers -> {"idle", "record"} \cup Holding]
    BY <1>1, <1>8 DEF Marked, SendTypeOK
  <2> QED BY <1>1, <1>8, <2>2, <2>3, <2>4 DEF Marked, SendTypeOK
<1>9. ASSUME NEW w \in Workers, Ended(w) PROVE SendTypeOK'
  <2>1. job[w] \in Replies
    BY <1>1, <1>9 DEF Ended
  <2>2. lost' \in [Replies -> Nat]
    BY <1>0, <1>1, <1>9, <2>1 DEF Ended, SendTypeOK
  <2>3. row' \in [Replies -> {"none"} \cup Open \cup Terminal]
    BY <1>1, <1>9, <2>1 DEF Ended, SendTypeOK, Open, Terminal
  <2>4. lease' \in [Replies -> 0..(Lease + LeaseGrace)]
    <3>1. lease' = lease \/ lease' = [lease EXCEPT ![job[w]] = 0]
      BY <1>9 DEF Ended
    <3> QED BY <1>0, <1>1, <2>1, <3>1, Updated, SMTT(30) DEF SendTypeOK
  <2>5. ttl' \in [Workers -> 0..Timeout]
    BY <1>0, <1>1, <1>9, Updated DEF Ended, Return, SendTypeOK
  <2>6. /\ pc' \in [Workers -> {"idle", "record"} \cup Holding]
        /\ job' \in [Workers -> Replies \cup {None}]
    BY <1>1, <1>9 DEF Ended, Return, SendTypeOK
  <2> QED BY <1>1, <1>9, <2>2, <2>3, <2>4, <2>5, <2>6 DEF Ended, SendTypeOK
<1>10. CASE Ticked
  BY <1>1, <1>10 DEF Ticked, Countdown, SendTypeOK
<1>11. CASE UNCHANGED sendVars
  BY <1>1, <1>11 DEF sendVars, SendTypeOK
<1> QED BY <1>2, <1>3, <1>4, <1>5, <1>6, <1>7, <1>8, <1>9, <1>10, <1>11 DEF SendMove

\* The types of the request, the queue and the budgets.
RestTypeOK ==
    /\ api \in [Replies -> {"idle", "admit", "create", "enqueue", "unqueue",
                            "done", "refused", "error"}]
    /\ kind \in [Replies -> {"immediate", "deferred"}]
    /\ fresh \in [Replies -> 0..DedupWindow]
    /\ tasks \in [Replies -> 0..MaxTasks]
    /\ suppressed \in BOOLEAN
    /\ faults \in 0..MaxFaults
    /\ churn \in 0..MaxChurn

LEMMA RestTyped == ReplyInv /\ [Next]_vars => RestTypeOK'
<1> SUFFICES ASSUME ReplyInv, [Next]_vars PROVE RestTypeOK'
  OBVIOUS
<1> USE PendingReplyAssumption DEF apiVars, rowVars, budgetVars
<1>1. RestTypeOK /\ \A w \in Workers : pc[w] # "idle" => job[w] \in Replies
  BY DEF ReplyInv, TypeOK, RestTypeOK, Claims
<1>2. /\ Fault => faults' \in 0..MaxFaults
      /\ Churn => churn' \in 0..MaxChurn
  BY <1>1 DEF Fault, Churn, RestTypeOK
<1>3. ASSUME NEW r \in Replies
      PROVE  /\ Enqueue(r) => tasks' \in [Replies -> 0..MaxTasks]
             /\ tasks[r] > 0 /\ tasks' = [tasks EXCEPT ![r] = @ - 1] =>
                  tasks' \in [Replies -> 0..MaxTasks]
  <2>1. tasks[r] \in 0..MaxTasks
    BY <1>1 DEF RestTypeOK
  <2>2. /\ tasks[r] < MaxTasks => tasks[r] + 1 \in 0..MaxTasks
        /\ tasks[r] > 0 => tasks[r] - 1 \in 0..MaxTasks
    BY <2>1
  <2>3. ASSUME NEW n \in 0..MaxTasks, tasks' = [tasks EXCEPT ![r] = n]
        PROVE  tasks' \in [Replies -> 0..MaxTasks]
    BY <2>3, <1>1, Updated DEF RestTypeOK
  <2>4. Enqueue(r) => \E n \in 0..MaxTasks : tasks' = [tasks EXCEPT ![r] = n]
    BY <2>1, <2>2 DEF Enqueue
  <2>5. tasks[r] > 0 /\ tasks' = [tasks EXCEPT ![r] = @ - 1] =>
          \E n \in 0..MaxTasks : tasks' = [tasks EXCEPT ![r] = n]
    BY <2>2
  <2> QED BY <2>3, <2>4, <2>5
<1>4. ASSUME NEW w \in Workers, pc[w] # "idle", TaskFails(w)
      PROVE  tasks' \in [Replies -> 0..MaxTasks]
  BY <1>1, <1>3, <1>4 DEF TaskFails, RestTypeOK
<1>5. ASSUME NEW r \in Replies, Request(r) PROVE RestTypeOK'
  <2>1. ASSUME NEW k \in {"immediate", "deferred"}, Submit(r, k) PROVE RestTypeOK'
    BY <1>1, <2>1 DEF Submit, RestTypeOK
  <2>2. CASE Admit(r) \/ RequestDies(r)
    BY <1>1, <1>2, <2>2 DEF Admit, RequestDies, RestTypeOK
  <2>3. CASE CreatePendingReply(r)
    <3>1. fresh' \in [Replies -> 0..DedupWindow]
      <4>1. DedupWindow \in 0..DedupWindow
        OBVIOUS
      <4> QED BY <4>1, <1>1, <2>3, Updated DEF CreatePendingReply, RestTypeOK
    <3>2. api' = [api EXCEPT ![r] = "enqueue"]
      BY <2>3 DEF CreatePendingReply
    <3> QED BY <1>1, <2>3, <3>1, <3>2 DEF CreatePendingReply, RestTypeOK
  <2>4. CASE EnqueuePendingInboxReply(r)
    <3>1. tasks' \in [Replies -> 0..MaxTasks]
      BY <1>1, <1>3, <2>4 DEF EnqueuePendingInboxReply, RestTypeOK
    <3>2. api' \in [Replies -> {"idle", "admit", "create", "enqueue", "unqueue",
                                "done", "refused", "error"}]
      BY <1>1, <2>4 DEF EnqueuePendingInboxReply, RestTypeOK
    <3>3. faults' \in 0..MaxFaults
      BY <1>1, <1>2, <2>4 DEF EnqueuePendingInboxReply, RestTypeOK
    <3> QED BY <1>1, <2>4, <3>1, <3>2, <3>3 DEF EnqueuePendingInboxReply, RestTypeOK
  <2>5. CASE MarkUnqueued(r)
    BY <1>1, <1>2, <2>5 DEF MarkUnqueued, OrFault, FailRow, RestTypeOK
  <2> QED BY <1>5, <2>1, <2>2, <2>3, <2>4, <2>5 DEF Request
<1>6. ASSUME NEW r \in Replies, CancelPendingReply(r) \/ Sweep(r) PROVE RestTypeOK'
  BY <1>1, <1>3, <1>6 DEF CancelPendingReply, Sweep, RestTypeOK
<1>7. ASSUME NEW w \in Workers, NEW r \in Replies, Take(w, r) PROVE RestTypeOK'
  <2>1. tasks' \in [Replies -> 0..MaxTasks]
    BY <1>1, <1>3, <1>7 DEF Take, ClaimPendingReply, NotClaimable, RestTypeOK
  <2> QED BY <1>1, <1>2, <1>7, <2>1 DEF Take, ClaimPendingReply, NotClaimable, RestTypeOK
<1>8. ASSUME NEW w \in Workers, Work(w) \/ Abort(w) PROVE RestTypeOK'
  <2>1. CASE CheckSuppression(w) \/ Send(w) \/ MarkPendingReplySent(w)
    BY <1>1, <1>2, <2>1 DEF CheckSuppression, Send, MarkPendingReplySent, OrFault, RestTypeOK
  <2>2. CASE RecordInboxReply(w)
    BY <1>1, <2>2 DEF RecordInboxReply, RestTypeOK
  <2>3. CASE ReleasePendingReply(w)
    <3>1. tasks' \in [Replies -> 0..MaxTasks]
      BY <1>4, <2>3 DEF ReleasePendingReply
    <3> QED BY <1>1, <1>2, <2>3, <3>1 DEF ReleasePendingReply, OrFault, RestTypeOK
  <2>4. CASE FailPendingReply(w)
    BY <1>1, <1>2, <2>4 DEF FailPendingReply, FailRow, OrFault, RestTypeOK
  <2>5. CASE Abort(w)
    <3>1. tasks' \in [Replies -> 0..MaxTasks]
      BY <1>4, <2>5 DEF Abort
    <3> QED BY <1>1, <1>2, <2>5, <3>1 DEF Abort, RestTypeOK
  <2> QED BY <1>8, <2>1, <2>2, <2>3, <2>4, <2>5 DEF Work
<1>9. CASE Tick
  BY <1>1, <1>9 DEF Tick, Countdown, RestTypeOK
<1>10. CASE Suppress
  BY <1>1, <1>2, <1>10 DEF Suppress, RestTypeOK
<1>11. CASE UNCHANGED vars
  BY <1>1, <1>11 DEF vars, RestTypeOK
<1> QED BY <1>5, <1>6, <1>7, <1>8, <1>9, <1>10, <1>11 DEF Next

-----------------------------------------------------------------------------
(* The invariant                                                           *)

\* A request creates its row once.
LEMMA RowsAreCreatedOnce == ReplyInv /\ SendMove /\ [Next]_vars => Uncreated'
<1> SUFFICES ASSUME ReplyInv, SendMove, [Next]_vars,
                    NEW r \in Replies, api'[r] \in {"idle", "admit", "create"}
             PROVE  row'[r] = "none"
  BY DEF Uncreated
<1> USE DEF ReplyInv
<1>1. \/ \E q \in Replies : CreatePendingReply(q)
      \/ api[r] \in {"idle", "admit", "create"} /\ ~Created(r)
  <2>1. ASSUME NEW q \in Replies, Request(q), ~CreatePendingReply(q)
        PROVE  api[r] \in {"idle", "admit", "create"}
    BY <2>1 DEF Request, Submit, Admit, EnqueuePendingInboxReply, MarkUnqueued, RequestDies, apiVars, TypeOK
  <2>2. ASSUME NEW q \in Replies, Request(q), ~CreatePendingReply(q) PROVE ~Created(r)
    BY <2>2 DEF Request, Submit, Admit, EnqueuePendingInboxReply, MarkUnqueued, RequestDies, OrFault, FailRow, rowVars, Created, TypeOK
  <2>3. ASSUME NEW q \in Replies, CancelPendingReply(q) \/ Sweep(q)
        PROVE  api' = api /\ ~Created(r)
    BY <2>3 DEF CancelPendingReply, Sweep, apiVars, rowVars, Created, TypeOK
  <2>4. ASSUME NEW w \in Workers, NEW q \in Replies, Take(w, q)
        PROVE  api' = api /\ ~Created(r)
    BY <2>4 DEF Take, ClaimPendingReply, NotClaimable, Claimable, apiVars, rowVars, Created,
       TypeOK
  <2>5. ASSUME NEW w \in Workers, Work(w) \/ Abort(w) PROVE api' = api /\ ~Created(r)
    <3>1. pc[w] # "idle" /\ pc'[w] # pc[w] /\ api' = api
      BY <2>5 DEF Work, Abort, CheckSuppression, Send, MarkPendingReplySent,
         RecordInboxReply, ReleasePendingReply, FailPendingReply, TaskFails, Return, Goto,
         OrFault, apiVars, TypeOK
    <3> QED BY <3>1 DEF Created, workerVars
  <2>6. Tick \/ Suppress \/ UNCHANGED vars =>
          api' = api /\ ~Created(r)
    BY DEF Tick, Suppress, vars, apiVars, rowVars, Created, TypeOK
  <2> QED BY <2>1, <2>2, <2>3, <2>4, <2>5, <2>6 DEF Next
<1>2. ASSUME NEW q \in Replies, CreatePendingReply(q) PROVE row'[r] = "none"
  BY <1>2 DEF CreatePendingReply, Uncreated, TypeOK
<1>3. CASE api[r] \in {"idle", "admit", "create"} /\ ~Created(r)
  <2>1. row[r] = "none"
    BY <1>3 DEF Uncreated
  <2>2. ASSUME NEW q \in Replies, Created(q) PROVE row'[r] = "none"
    BY <1>3, <2>1, <2>2 DEF Created, TypeOK
  <2>3. ASSUME NEW q \in Replies, Cancelled(q) \/ GivenUp(q) PROVE row'[r] = "none"
    BY <2>1, <2>3 DEF Cancelled, GivenUp, Open, TypeOK
  <2>4. ASSUME NEW w \in Workers, NEW q \in Replies, Claimed(w, q) PROVE row'[r] = "none"
    BY <2>1, <2>4 DEF Claimed, Claimable, TypeOK
  <2>5. ASSUME NEW w \in Workers, Checked(w) \/ Sent(w) \/ Marked(w) \/ Ended(w)
        PROVE  row'[r] = "none"
    BY <2>1, <2>5 DEF Checked, Sent, Marked, Ended, Open, TypeOK
  <2>6. Ticked \/ UNCHANGED sendVars => row'[r] = "none"
    BY <2>1 DEF Ticked, sendVars
  <2> QED BY <2>2, <2>3, <2>4, <2>5, <2>6 DEF SendMove
<1> QED BY <1>1, <1>2, <1>3

\* The parts of the invariant that every step must be shown to keep.
Sound == Claims /\ OneClaim /\ Deliveries /\ Turn

\* Nobody holds a row that is free to be claimed, or one that was never created.
LEMMA ClaimableIsFree ==
    ASSUME ReplyInv, NEW r \in Replies, Claimable(r) \/ row[r] \in {"none", "scheduled"},
           NEW w \in Workers, pc[w] \in Holding
    PROVE  job[w] # r
<1>1. /\ job[w] \in Replies
      /\ \/ row[job[w]] = "sending" /\ lease[job[w]] > LeaseGrace + ttl[w]
         \/ row[job[w]] = "failed"
  BY DEF ReplyInv, Claims, Holding
<1>2. ttl[w] \in Nat /\ lease[job[w]] \in Nat /\ LeaseGrace \in Nat
  BY <1>1, PendingReplyAssumption DEF ReplyInv, TypeOK
<1> QED BY <1>1, <1>2 DEF Claimable

\* A row without an execution is created or undone.
LEMMA FreeRowKeeps ==
    ASSUME ReplyInv, NEW r \in Replies, Created(r) \/ Cancelled(r)
    PROVE  Sound'
<1> USE DEF ReplyInv, workerVars, historyVars
<1>1. /\ row[r] \in {"none", "scheduled"}
      /\ \A q \in Replies : q # r => row'[q] = row[q] /\ due'[q] = due[q]
      /\ lease' = lease /\ pc' = pc /\ job' = job /\ ttl' = ttl
      /\ delivered' = delivered /\ lost' = lost /\ hidden' = hidden
  BY DEF Created, Cancelled, TypeOK
<1>2. \A w \in Workers : pc[w] \in Holding => job[w] # r
  BY <1>1, ClaimableIsFree
<1>3. Claims'
  BY <1>1, <1>2 DEF Claims, Holding
<1>4. OneClaim' /\ Turn'
  BY <1>1 DEF OneClaim, Turn, Excused
<1>5. Deliveries'
  BY <1>1 DEF Deliveries, Excused, Terminal
<1> QED BY <1>3, <1>4, <1>5 DEF Sound

\* A request gives up a row an execution may hold.
LEMMA GivingUpKeeps ==
    ASSUME ReplyInv, NEW r \in Replies, GivenUp(r)
    PROVE  Sound'
<1> USE DEF ReplyInv, workerVars, historyVars
<1>1. /\ row'[r] = "failed"
      /\ \A q \in Replies : q # r => row'[q] = row[q] /\ lease'[q] = lease[q]
      /\ due' = due /\ pc' = pc /\ job' = job /\ ttl' = ttl
      /\ delivered' = delivered /\ lost' = lost /\ hidden' = hidden
  BY DEF GivenUp, TypeOK
<1>2. Claims'
  BY <1>1 DEF Claims, Holding
<1>3. OneClaim' /\ Turn'
  BY <1>1 DEF OneClaim, Turn, Excused
<1>4. Deliveries'
  BY <1>1 DEF Deliveries, Excused, Terminal
<1> QED BY <1>2, <1>3, <1>4 DEF Sound

LEMMA ClaimKeeps ==
    ASSUME ReplyInv, NEW w \in Workers, NEW r \in Replies, Claimed(w, r)
    PROVE  Sound'
<1> USE PendingReplyAssumption DEF ReplyInv, workerVars, historyVars
<1>1. /\ row'[r] = "sending" /\ lease'[r] = Lease + LeaseGrace
      /\ \A q \in Replies : q # r => row'[q] = row[q] /\ lease'[q] = lease[q]
      /\ row[r] \notin Terminal /\ due[r] <= Overdue /\ pc[w] = "idle"
      /\ due' = due /\ delivered' = delivered /\ lost' = lost /\ hidden' = hidden
  BY DEF Claimed, Claimable, Due, Terminal, TypeOK
<1>2. /\ \A v \in Workers : v # w => pc'[v] = pc[v] /\ job'[v] = job[v] /\ ttl'[v] = ttl[v]
      /\ pc'[w] # "idle" => pc'[w] = "check" /\ job'[w] = r /\ ttl'[w] = Timeout
  BY DEF Claimed, TypeOK
<1>3. \A v \in Workers : pc[v] \in Holding => job[v] # r
  BY ClaimableIsFree DEF Claimed
<1>4. Claims'
  <2> SUFFICES ASSUME NEW v \in Workers
               PROVE  /\ pc'[v] # "idle" => job'[v] \in Replies
                      /\ pc'[v] \in Holding =>
                           /\ due[job'[v]] <= Overdue
                           /\ \/ /\ row'[job'[v]] = "sending"
                                 /\ lease'[job'[v]] > LeaseGrace + ttl'[v]
                              \/ row'[job'[v]] = "failed"
    BY <1>1 DEF Claims
  <2>1. CASE v = w
    BY <2>1, <1>1, <1>2 DEF Holding
  <2>2. CASE v # w
    <3>1. pc[v] \in Holding => job[v] \in Replies /\ job[v] # r
      BY <1>3 DEF Claims, Holding
    <3> QED BY <2>2, <3>1, <1>1, <1>2 DEF Claims
  <2> QED BY <2>1, <2>2
<1>5. OneClaim'
  BY <1>2, <1>3 DEF OneClaim, Holding
<1>6. delivered[r] <= Excused(r)
  BY <1>1, <1>3 DEF Deliveries, Holding
<1>7. Deliveries'
  <2> SUFFICES ASSUME NEW q \in Replies, row'[q] \notin Terminal,
                      \A v \in Workers : pc'[v] = "mark" => job'[v] # q
               PROVE  delivered[q] <= Excused(q)
    BY <1>1 DEF Deliveries, Excused
  <2>1. CASE q = r
    BY <2>1, <1>6
  <2>2. CASE q # r
    <3>1. \A v \in Workers : pc[v] = "mark" => job[v] # q
      BY <1>1, <1>2
    <3> QED BY <2>2, <3>1, <1>1 DEF Deliveries
  <2> QED BY <2>1, <2>2
<1>8. Turn'
  BY <1>1, <1>2, <1>6 DEF Turn, Excused
<1> QED BY <1>4, <1>5, <1>7, <1>8 DEF Sound

LEMMA CheckKeeps ==
    ASSUME ReplyInv, NEW w \in Workers, Checked(w)
    PROVE  Sound'
<1> USE DEF ReplyInv, historyVars
<1>1. /\ pc[w] = "check" /\ pc'[w] \in {"send", "fail", "release"}
      /\ \A v \in Workers : v # w => pc'[v] = pc[v]
      /\ row' = row /\ due' = due /\ lease' = lease /\ job' = job /\ ttl' = ttl
      /\ delivered' = delivered /\ lost' = lost /\ hidden' = hidden
  BY DEF Checked, TypeOK
<1>2. Claims' /\ OneClaim'
  BY <1>1 DEF Claims, OneClaim, Holding
<1>3. Deliveries'
  BY <1>1 DEF Deliveries, Excused
<1>4. Turn'
  BY <1>1 DEF Turn, Excused
<1> QED BY <1>2, <1>3, <1>4 DEF Sound

\* What goes out is excused, or is about to be marked.
LEMMA SendKeeps ==
    ASSUME ReplyInv, NEW w \in Workers, Sent(w)
    PROVE  Sound'
<1> USE DEF ReplyInv
<1> DEFINE r == job[w]
<1>1. /\ pc[w] = "send" /\ pc'[w] \in {"mark", "release"} /\ r \in Replies
      /\ \A v \in Workers : v # w => pc'[v] = pc[v]
      /\ row' = row /\ due' = due /\ lease' = lease /\ job' = job /\ ttl' = ttl
      /\ lost' = lost
      /\ \A q \in Replies : q # r => delivered'[q] = delivered[q] /\ hidden'[q] = hidden[q]
  BY DEF Sent, Claims, TypeOK
<1>2. /\ delivered[r] \in Nat /\ lost[r] \in Nat /\ hidden[r] \in Nat
      /\ delivered[r] <= lost[r] + hidden[r]
  BY <1>1 DEF Turn, Excused, TypeOK
<1>3. \/ pc'[w] = "mark" /\ delivered'[r] = delivered[r] + 1 /\ hidden'[r] = hidden[r]
      \/ delivered'[r] = delivered[r] /\ hidden'[r] = hidden[r]
      \/ delivered'[r] = delivered[r] + 1 /\ hidden'[r] = hidden[r] + 1
  BY <1>1 DEF Sent, TypeOK
<1>4. \A v \in Workers : v # w /\ pc[v] \in Holding => job[v] # r
  BY <1>1 DEF OneClaim, Holding
<1>5. Claims' /\ OneClaim'
  BY <1>1 DEF Claims, OneClaim, Holding
<1>6. Deliveries'
  <2> SUFFICES ASSUME NEW q \in Replies
               PROVE  /\ delivered'[q] <= 1 + (lost[q] + hidden'[q])
                      /\ (/\ row[q] \notin Terminal
                          /\ \A v \in Workers : pc'[v] = "mark" => job[v] # q)
                           => delivered'[q] <= lost[q] + hidden'[q]
    BY <1>1 DEF Deliveries, Excused
  <2>1. CASE q = r
    BY <2>1, <1>2, <1>3
  <2>2. CASE q # r
    BY <2>2, <1>1 DEF Deliveries, Excused
  <2> QED BY <2>1, <2>2
<1>7. Turn'
  <2> SUFFICES ASSUME NEW v \in Workers, pc'[v] \in {"check", "send"}
               PROVE  delivered'[job[v]] <= lost[job[v]] + hidden'[job[v]]
    BY <1>1 DEF Turn, Excused
  <2>1. v # w /\ job[v] \in Replies /\ job[v] # r /\ pc[v] \in {"check", "send"}
    BY <1>1, <1>4 DEF Claims, Holding
  <2> QED BY <2>1, <1>1 DEF Turn, Excused
<1> QED BY <1>5, <1>6, <1>7 DEF Sound

\* The mark settles the row, unless it was given up, or the delivery counts as lost.
LEMMA MarkKeeps ==
    ASSUME ReplyInv, NEW w \in Workers, Marked(w)
    PROVE  Sound'
<1> USE DEF ReplyInv
<1> DEFINE r == job[w]
<1>1. /\ pc[w] = "mark" /\ pc'[w] = "record" /\ r \in Replies
      /\ \A v \in Workers : v # w => pc'[v] = pc[v]
      /\ due' = due /\ lease' = lease /\ job' = job /\ ttl' = ttl
      /\ delivered' = delivered /\ hidden' = hidden
      /\ \A q \in Replies : q # r => row'[q] = row[q] /\ lost'[q] = lost[q]
      /\ row[r] \in {"sending", "failed"}
  BY DEF Marked, Claims, Holding, TypeOK
<1>2. \/ row'[r] \in {"sent", "failed"} /\ lost'[r] = lost[r]
      \/ row'[r] = row[r] /\ lost'[r] = lost[r] + 1
  BY <1>1 DEF Marked, TypeOK
<1>3. /\ delivered[r] \in Nat /\ lost[r] \in Nat /\ hidden[r] \in Nat
      /\ delivered[r] <= 1 + (lost[r] + hidden[r])
  BY <1>1 DEF Deliveries, Excused, TypeOK
<1>4. \A v \in Workers : v # w /\ pc[v] \in Holding => job[v] # r
  BY <1>1 DEF OneClaim, Holding
<1>5. OneClaim'
  BY <1>1 DEF OneClaim, Holding
<1>6. Claims'
  BY <1>1, <1>4 DEF Claims, Holding
<1>7. Deliveries'
  <2> SUFFICES ASSUME NEW q \in Replies
               PROVE  /\ delivered[q] <= 1 + (lost'[q] + hidden[q])
                      /\ (/\ row'[q] \notin Terminal
                          /\ \A v \in Workers : pc'[v] = "mark" => job[v] # q)
                           => delivered[q] <= lost'[q] + hidden[q]
    BY <1>1 DEF Deliveries, Excused
  <2>1. CASE q = r
    BY <2>1, <1>2, <1>3 DEF Terminal
  <2>2. CASE q # r
    BY <2>2, <1>1 DEF Deliveries, Excused
  <2> QED BY <2>1, <2>2
<1>8. Turn'
  <2> SUFFICES ASSUME NEW v \in Workers, pc'[v] \in {"check", "send"}
               PROVE  delivered[job[v]] <= lost'[job[v]] + hidden[job[v]]
    BY <1>1 DEF Turn, Excused
  <2>1. v # w /\ job[v] \in Replies /\ job[v] # r /\ pc[v] \in {"check", "send"}
    BY <1>1, <1>4 DEF Claims, Holding
  <2> QED BY <2>1, <1>1 DEF Turn, Excused
<1> QED BY <1>5, <1>6, <1>7, <1>8 DEF Sound

\* An execution that ends before its mark has sent nothing that is not excused, and one
\* that ends at its mark is counted.
LEMMA EndKeeps ==
    ASSUME ReplyInv, NEW w \in Workers, Ended(w)
    PROVE  Sound'
<1> USE DEF ReplyInv
<1> DEFINE r == job[w]
<1>1. /\ pc[w] # "idle" /\ pc'[w] = "idle" /\ r \in Replies
      /\ \A v \in Workers : v # w => pc'[v] = pc[v] /\ job'[v] = job[v] /\ ttl'[v] = ttl[v]
      /\ due' = due /\ delivered' = delivered /\ hidden' = hidden
      /\ \A q \in Replies : q # r =>
           row'[q] = row[q] /\ lost'[q] = lost[q] /\ lease'[q] = lease[q]
  BY DEF Ended, Return, Claims, TypeOK
<1>2. \/ row'[r] = row[r] /\ lease'[r] = lease[r]
      \/ pc[w] \in Holding
  BY DEF Ended, Holding
<1>3. \/ pc[w] = "mark" /\ lost'[r] = lost[r] + 1 /\ row'[r] = row[r]
      \/ pc[w] # "mark" /\ lost'[r] = lost[r] /\ row'[r] = row[r]
      \/ pc[w] # "mark" /\ lost'[r] = lost[r] /\ row[r] \in Open
  BY <1>1 DEF Ended, TypeOK
<1>4. pc[w] \in Holding => \A v \in Workers : v # w /\ pc[v] \in Holding => job[v] # r
  BY DEF OneClaim
<1>5. OneClaim'
  BY <1>1 DEF OneClaim, Holding
<1>6. Claims'
  <2> SUFFICES ASSUME NEW v \in Workers, v # w
               PROVE  /\ pc[v] # "idle" => job[v] \in Replies
                      /\ pc[v] \in Holding =>
                           /\ due[job[v]] <= Overdue
                           /\ \/ /\ row'[job[v]] = "sending"
                                 /\ lease'[job[v]] > LeaseGrace + ttl[v]
                              \/ row'[job[v]] = "failed"
    BY <1>1 DEF Claims, Holding
  <2>1. pc[v] \in Holding => /\ job[v] \in Replies
                             /\ row'[job[v]] = row[job[v]] /\ lease'[job[v]] = lease[job[v]]
    BY <1>1, <1>2, <1>4 DEF Claims, Holding
  <2> QED BY <2>1 DEF Claims
<1>7. /\ delivered[r] \in Nat /\ lost[r] \in Nat /\ hidden[r] \in Nat
      /\ delivered[r] <= 1 + (lost[r] + hidden[r])
  BY <1>1 DEF Deliveries, Excused, TypeOK
<1>8. Deliveries'
  <2> SUFFICES ASSUME NEW q \in Replies
               PROVE  /\ delivered[q] <= 1 + (lost'[q] + hidden[q])
                      /\ (/\ row'[q] \notin Terminal
                          /\ \A v \in Workers : pc'[v] = "mark" => job'[v] # q)
                           => delivered[q] <= lost'[q] + hidden[q]
    BY <1>1 DEF Deliveries, Excused
  <2>1. CASE q = r /\ pc[w] = "mark"
    BY <2>1, <1>3, <1>7
  <2>2. CASE q = r /\ pc[w] # "mark"
    <3>1. lost'[r] = lost[r] /\ (row'[r] \notin Terminal => row[r] \notin Terminal)
      BY <2>2, <1>3 DEF Open, Terminal
    <3>2. (\A v \in Workers : pc'[v] = "mark" => job'[v] # r) =>
            \A v \in Workers : pc[v] = "mark" => job[v] # r
      BY <2>2, <1>1
    <3> QED BY <2>2, <3>1, <3>2, <1>7 DEF Deliveries, Excused
  <2>3. CASE q # r
    <3>1. (\A v \in Workers : pc'[v] = "mark" => job'[v] # q) =>
            \A v \in Workers : pc[v] = "mark" => job[v] # q
      BY <2>3, <1>1
    <3> QED BY <2>3, <3>1, <1>1 DEF Deliveries, Excused
  <2> QED BY <2>1, <2>2, <2>3
<1>9. Turn'
  <2> SUFFICES ASSUME NEW v \in Workers, pc'[v] \in {"check", "send"}
               PROVE  delivered[job[v]] <= lost'[job[v]] + hidden[job[v]]
    BY <1>1 DEF Turn, Excused
  <2>1. v # w /\ job[v] \in Replies /\ pc[v] \in {"check", "send"}
    BY <1>1 DEF Claims
  <2>2. delivered[job[v]] <= lost[job[v]] + hidden[job[v]]
    BY <2>1 DEF Turn, Excused
  <2>3. lost'[job[v]] = lost[job[v]] \/ lost'[job[v]] = lost[job[v]] + 1
    BY <2>1, <1>1, <1>3
  <2> QED BY <2>1, <2>2, <2>3 DEF TypeOK
<1> QED BY <1>5, <1>6, <1>8, <1>9 DEF Sound

\* The lease and the timeout run down together, and what is due stays due.
LEMMA TickKeeps ==
    ASSUME ReplyInv, Ticked
    PROVE  Sound'
<1> USE PendingReplyAssumption DEF ReplyInv, historyVars
<1>1. Claims'
  <2> SUFFICES ASSUME NEW w \in Workers, pc[w] \in Holding
               PROVE  /\ due'[job[w]] <= Overdue
                      /\ \/ /\ row[job[w]] = "sending"
                            /\ lease'[job[w]] > LeaseGrace + ttl'[w]
                         \/ row[job[w]] = "failed"
    BY DEF Ticked, Claims
  <2>1. /\ job[w] \in Replies /\ ttl[w] > 0 /\ due[job[w]] <= Overdue
        /\ \/ row[job[w]] = "sending" /\ lease[job[w]] > LeaseGrace + ttl[w]
           \/ row[job[w]] = "failed"
        /\ lease[job[w]] \in Nat /\ ttl[w] \in Nat /\ due[job[w]] \in Nat
    BY DEF Ticked, Claims, TypeOK, Holding
  <2>2. /\ lease'[job[w]] = Countdown(lease[job[w]]) /\ ttl'[w] = Countdown(ttl[w])
        /\ due'[job[w]] = Countdown(due[job[w]])
    BY <2>1 DEF Ticked
  <2> QED BY <2>1, <2>2 DEF Countdown
<1>2. OneClaim' /\ Turn' /\ Deliveries'
  BY DEF Ticked, OneClaim, Turn, Deliveries, Excused
<1> QED BY <1>1, <1>2 DEF Sound

\* The invariant is inductive.
LEMMA ReplyInductive == Spec => []ReplyInv
<1>1. Init => ReplyInv
  <2> SUFFICES ASSUME Init PROVE ReplyInv
    OBVIOUS
  <2>1. /\ 0 \in 0..(MaxDelay + Overdue) /\ 0 \in 0..(Lease + LeaseGrace)
        /\ 0 \in 0..DedupWindow /\ 0 \in 0..MaxTasks /\ 0 \in 0..Timeout
        /\ MaxFaults \in 0..MaxFaults /\ MaxChurn \in 0..MaxChurn
    BY PendingReplyAssumption
  <2>2. SendTypeOK
    BY <2>1 DEF Init, SendTypeOK
  <2>3. RestTypeOK
    BY <2>1 DEF Init, RestTypeOK
  <2>4. TypeOK
    BY <2>2, <2>3 DEF TypeOK, SendTypeOK, RestTypeOK
  <2> QED BY <2>4 DEF Init, ReplyInv, Uncreated, Claims, OneClaim, Deliveries, Turn, Excused,
      Holding
<1>2. ReplyInv /\ [Next]_vars => ReplyInv'
  <2> SUFFICES ASSUME ReplyInv, [Next]_vars PROVE ReplyInv'
    OBVIOUS
  <2>1. SendMove
    BY SendMoves
  <2>2. TypeOK'
    BY <2>1, SendTyped, RestTyped DEF TypeOK, SendTypeOK, RestTypeOK
  <2>3. Sound'
    <3>1. CASE UNCHANGED sendVars
      BY <3>1 DEF sendVars, workerVars, historyVars, ReplyInv, Claims, OneClaim, Deliveries,
         Turn, Excused, Sound
    <3> QED BY <2>1, <3>1, FreeRowKeeps, GivingUpKeeps, ClaimKeeps, CheckKeeps, SendKeeps,
        MarkKeeps, EndKeeps, TickKeeps DEF SendMove
  <2> QED BY <2>1, <2>2, <2>3, RowsAreCreatedOnce DEF ReplyInv, Sound
<1> QED BY <1>1, <1>2, PTL DEF Spec

\* Every variable of the reply path keeps its type.
THEOREM RepliesTyped == Spec => []TypeOK
<1>1. ReplyInv => TypeOK
  BY DEF ReplyInv
<1> QED BY <1>1, ReplyInductive, PTL

\* A reply goes out again only for a delivery the row never learned of, for any number of
\* replies and workers and any lease that is longer than the task's timeout.
THEOREM EveryReplyIsPaidFor == Spec => []RepliesArePaidFor
<1>1. ReplyInv => RepliesArePaidFor
  <2> SUFFICES ASSUME ReplyInv, NEW r \in Replies
               PROVE  delivered[r] <= 1 + lost[r] + hidden[r]
    BY DEF RepliesArePaidFor
  <2>1. delivered[r] \in Nat /\ lost[r] \in Nat /\ hidden[r] \in Nat
    BY DEF ReplyInv, TypeOK
  <2>2. delivered[r] <= 1 + (lost[r] + hidden[r])
    BY DEF ReplyInv, Deliveries, Excused
  <2> QED BY <2>1, <2>2
<1> QED BY <1>1, ReplyInductive, PTL

\* A step delivers a reply only for an execution that holds its row, and such a row is
\* due and was not undone: Undo is final, and no task is early.
THEOREM UndoIsFinal == Spec => UndoIsHonoured
<1>1. ReplyInv /\ [Next]_vars =>
        [\A r \in Replies :
           row[r] = "cancelled" \/ ~Due(r) => delivered'[r] = delivered[r]]_vars
  <2> SUFFICES ASSUME ReplyInv, [Next]_vars, NEW r \in Replies,
                      row[r] = "cancelled" \/ ~Due(r)
               PROVE  delivered'[r] = delivered[r]
    OBVIOUS
  <2>1. SendMove
    BY SendMoves
  <2>2. ASSUME NEW w \in Workers, Sent(w) PROVE delivered'[r] = delivered[r]
    <3>1. /\ job[w] \in Replies /\ due[job[w]] <= Overdue
          /\ row[job[w]] \in {"sending", "failed"}
      BY <2>2 DEF Sent, ReplyInv, Claims, Holding
    <3>2. job[w] # r
      BY <3>1 DEF Due
    <3> QED BY <2>2, <3>1, <3>2 DEF Sent, ReplyInv, TypeOK
  <2>3. CASE \E w \in Workers : Checked(w) \/ Marked(w) \/ Ended(w)
    BY <2>3 DEF Checked, Marked, Ended, historyVars
  <2>4. CASE \E q \in Replies : Created(q) \/ Cancelled(q) \/ GivenUp(q)
    BY <2>4 DEF Created, Cancelled, GivenUp, historyVars
  <2>5. CASE \E w \in Workers, q \in Replies : Claimed(w, q)
    BY <2>5 DEF Claimed, historyVars
  <2>6. CASE Ticked \/ UNCHANGED sendVars
    BY <2>6 DEF Ticked, sendVars, historyVars
  <2> QED BY <2>1, <2>2, <2>3, <2>4, <2>5, <2>6 DEF SendMove
<1> QED BY <1>1, ReplyInductive, PTL DEF Spec, UndoIsHonoured

-----------------------------------------------------------------------------
(* The outbox                                                              *)

\* The other half of the deliveries' account: what is excused did go out, and what an
\* execution is about to mark is not excused yet.
Known ==
    /\ \A r \in Replies : Excused(r) <= delivered[r]
    /\ \A w \in Workers : pc[w] = "mark" => Excused(job[w]) < delivered[job[w]]

\* A step without executions and deliveries in it leaves the account alone.
LEMMA KnownFrame ==
    ASSUME Known, UNCHANGED <<delivered, lost, hidden>>,
           \A w \in Workers : pc'[w] = "mark" => pc[w] = "mark" /\ job'[w] = job[w]
    PROVE  Known'
BY DEF Known, Excused

\* A delivery is counted once, when it is sent, and excused at most once after that.
LEMMA KnownStep == ReplyInv /\ Known /\ SendMove => Known'
<1> SUFFICES ASSUME ReplyInv, Known, SendMove PROVE Known'
  OBVIOUS
<1> USE DEF ReplyInv
<1>0. \A r \in Replies : delivered[r] \in Nat /\ lost[r] \in Nat /\ hidden[r] \in Nat
  BY DEF TypeOK
<1>1. CASE \E r \in Replies : Created(r) \/ Cancelled(r) \/ GivenUp(r)
  BY <1>1, KnownFrame DEF Created, Cancelled, GivenUp, workerVars, historyVars
<1>2. ASSUME NEW w \in Workers, NEW r \in Replies, Claimed(w, r) PROVE Known'
  <2>1. \A v \in Workers : pc'[v] = "mark" => pc[v] = "mark" /\ job'[v] = job[v]
    BY <1>2 DEF Claimed, workerVars, TypeOK
  <2> QED BY <1>2, <2>1, KnownFrame DEF Claimed, historyVars
<1>3. ASSUME NEW w \in Workers, Checked(w) PROVE Known'
  <2>1. \A v \in Workers : pc'[v] = "mark" => pc[v] = "mark" /\ job'[v] = job[v]
    BY <1>3 DEF Checked, TypeOK
  <2> QED BY <1>3, <2>1, KnownFrame DEF Checked, historyVars
<1>4. ASSUME NEW w \in Workers, Sent(w) PROVE Known'
  <2> DEFINE r == job[w]
  <2>1. /\ pc[w] = "send" /\ r \in Replies /\ job' = job /\ lost' = lost
        /\ \A v \in Workers : v # w => pc'[v] = pc[v]
        /\ \A q \in Replies : q # r => delivered'[q] = delivered[q] /\ hidden'[q] = hidden[q]
    BY <1>4 DEF Sent, Claims, TypeOK
  <2>2. \A v \in Workers : v # w /\ pc[v] = "mark" => job[v] # r /\ job[v] \in Replies
    BY <2>1 DEF OneClaim, Claims, Holding
  <2>3. \/ pc'[w] = "mark" /\ delivered'[r] = delivered[r] + 1 /\ hidden'[r] = hidden[r]
        \/ /\ pc'[w] = "release"
           /\ delivered'[r] = delivered[r] /\ hidden'[r] = hidden[r]
        \/ /\ pc'[w] = "release"
           /\ delivered'[r] = delivered[r] + 1 /\ hidden'[r] = hidden[r] + 1
    BY <1>4, <2>1 DEF Sent, TypeOK
  <2>4. lost[r] + hidden[r] <= delivered[r]
    BY <2>1 DEF Known, Excused
  <2>5. ASSUME NEW q \in Replies PROVE lost[q] + hidden'[q] <= delivered'[q]
    <3>1. CASE q = r
      BY <1>0, <2>1, <2>3, <2>4, <3>1
    <3>2. CASE q # r
      BY <2>1, <3>2 DEF Known, Excused
    <3> QED BY <3>1, <3>2
  <2>6. ASSUME NEW v \in Workers, pc'[v] = "mark"
        PROVE  lost[job[v]] + hidden'[job[v]] < delivered'[job[v]]
    <3>1. CASE v = w
      BY <1>0, <2>1, <2>3, <2>4, <2>6, <3>1
    <3>2. CASE v # w
      BY <2>1, <2>2, <2>6, <3>2 DEF Known, Excused
    <3> QED BY <3>1, <3>2
  <2> QED BY <2>1, <2>5, <2>6 DEF Known, Excused
<1>5. ASSUME NEW w \in Workers, Marked(w) \/ Ended(w) PROVE Known'
  <2> DEFINE r == job[w]
  <2>1. /\ r \in Replies /\ delivered' = delivered /\ hidden' = hidden
        /\ pc'[w] \in {"record", "idle"}
        /\ \A v \in Workers : v # w => pc'[v] = pc[v] /\ job'[v] = job[v]
        /\ \A q \in Replies : q # r => lost'[q] = lost[q]
        /\ \/ lost'[r] = lost[r]
           \/ pc[w] = "mark" /\ lost'[r] = lost[r] + 1
    BY <1>5 DEF Marked, Ended, Return, Claims, TypeOK
  <2>2. \A v \in Workers : v # w /\ pc[v] = "mark" =>
          job[v] \in Replies /\ (pc[w] = "mark" => job[v] # r)
    BY <2>1 DEF OneClaim, Claims, Holding
  <2>3. /\ lost[r] + hidden[r] <= delivered[r]
        /\ pc[w] = "mark" => lost[r] + hidden[r] < delivered[r]
    BY <2>1 DEF Known, Excused
  <2>4. ASSUME NEW q \in Replies PROVE lost'[q] + hidden[q] <= delivered[q]
    <3>1. CASE q = r
      BY <1>0, <2>1, <2>3, <3>1
    <3>2. CASE q # r
      BY <2>1, <3>2 DEF Known, Excused
    <3> QED BY <3>1, <3>2
  <2>5. ASSUME NEW v \in Workers, pc'[v] = "mark"
        PROVE  lost'[job'[v]] + hidden[job'[v]] < delivered[job'[v]]
    <3>1. v # w /\ pc[v] = "mark" /\ job'[v] = job[v] /\ job[v] \in Replies
      BY <2>1, <2>2, <2>5
    <3>2. lost'[job[v]] = lost[job[v]]
      BY <2>1, <2>2, <3>1
    <3> QED BY <3>1, <3>2 DEF Known, Excused
  <2> QED BY <2>1, <2>4, <2>5 DEF Known, Excused
<1>6. CASE Ticked \/ UNCHANGED sendVars
  BY <1>6, KnownFrame DEF Ticked, sendVars, workerVars, historyVars
<1> QED BY <1>1, <1>2, <1>3, <1>4, <1>5, <1>6 DEF SendMove

\* The ledger's entries change with the row they stand for.
LEMMA FateMoves ==
    ASSUME TypeOK, NEW r \in Replies, NEW s, row' = [row EXCEPT ![r] = s]
    PROVE  [q \in Replies |-> Fate(row[q])]' =
             [[q \in Replies |-> Fate(row[q])] EXCEPT ![r] = Fate(s)]
<1> DEFINE fates == [q \in Replies |-> Fate(row[q])]
           moved == [fates EXCEPT ![r] = Fate(s)]
<1>1. row'[r] = s /\ \A q \in Replies : q # r => row'[q] = row[q]
  BY DEF TypeOK
<1>2. moved = [q \in Replies |-> IF q = r THEN Fate(s) ELSE fates[q]]
  OBVIOUS
<1>3. \A q \in Replies : moved[q] = Fate(row'[q])
  BY <1>1, <1>2
<1>4. fates' = [q \in Replies |-> Fate(row'[q])]
  OBVIOUS
<1>5. moved = [q \in Replies |-> Fate(row'[q])]
  BY <1>2, <1>3
<1> QED BY <1>4, <1>5

\* A row that stays where it is in the ledger's eyes leaves the ledger's entries alone.
LEMMA FateStays ==
    ASSUME TypeOK, NEW r \in Replies, NEW s, row' = [row EXCEPT ![r] = s],
           Fate(s) = Fate(row[r])
    PROVE  [q \in Replies |-> Fate(row[q])]' = [q \in Replies |-> Fate(row[q])]
<1>1. row'[r] = s /\ \A q \in Replies : q # r => row'[q] = row[q]
  BY DEF TypeOK
<1> QED BY <1>1

\* The words of the ledger.
LEMMA Fates ==
    /\ Fate("none") = "draft" /\ Fate("scheduled") = "waiting"
    /\ Fate("sending") = "waiting" /\ Fate("sent") = "sent"
    /\ Fate("cancelled") = "undone" /\ Fate("failed") = "abandoned"
BY DEF Fate, Open

\* Every step of the reply path is a step of the outbox or none.
LEMMA OutboxStep == ReplyInv /\ Known /\ SendMove => [Ledger!Next]_(Ledger!vars)
<1> SUFFICES ASSUME ReplyInv, Known, SendMove PROVE Ledger!Next \/ UNCHANGED Ledger!vars
  OBVIOUS
<1> DEFINE fates == [q \in Replies |-> Fate(row[q])]
           excused == [q \in Replies |-> lost[q] + hidden[q]]
<1> USE DEF ReplyInv
<1>0. /\ \A r \in Replies : delivered[r] \in Nat /\ lost[r] \in Nat /\ hidden[r] \in Nat
      /\ \A r \in Replies : fates[r] = Fate(row[r]) /\ excused[r] = lost[r] + hidden[r]
  BY DEF TypeOK
<1>1. ASSUME NEW r \in Replies, Created(r) PROVE Ledger!Accept(r)
  <2>1. row[r] = "none" /\ fates' = [fates EXCEPT ![r] = Fate("scheduled")]
    BY <1>1, FateMoves DEF Created
  <2>2. delivered' = delivered /\ excused' = excused
    BY <1>1 DEF Created, historyVars
  <2> QED BY <1>0, <2>1, <2>2, Fates DEF Ledger!Accept
<1>2. ASSUME NEW r \in Replies, Cancelled(r) PROVE Ledger!Undo(r)
  <2>1. row[r] = "scheduled" /\ fates' = [fates EXCEPT ![r] = Fate("cancelled")]
    BY <1>2, FateMoves DEF Cancelled
  <2>2. \A w \in Workers : pc[w] = "mark" => job[w] # r
    BY <2>1 DEF Claims, Holding
  <2>3. delivered[r] = lost[r] + hidden[r]
    <3>1. delivered[r] <= lost[r] + hidden[r]
      BY <2>1, <2>2 DEF Deliveries, Excused, Terminal
    <3>2. lost[r] + hidden[r] <= delivered[r]
      BY DEF Known, Excused
    <3> QED BY <1>0, <3>1, <3>2
  <2>4. delivered' = delivered /\ excused' = excused
    BY <1>2 DEF Cancelled, historyVars
  <2> QED BY <1>0, <2>1, <2>3, <2>4, Fates DEF Ledger!Undo, Ledger!NoneKnown
<1>3. ASSUME NEW r \in Replies, GivenUp(r) PROVE Ledger!GiveUp(r)
  <2>1. row[r] \in Open /\ fates' = [fates EXCEPT ![r] = Fate("failed")]
    BY <1>3, FateMoves DEF GivenUp
  <2>2. delivered' = delivered /\ excused' = excused
    BY <1>3 DEF GivenUp, historyVars
  <2> QED BY <1>0, <2>1, <2>2, Fates DEF Ledger!GiveUp, Open
<1>4. ASSUME NEW w \in Workers, NEW r \in Replies, Claimed(w, r) PROVE UNCHANGED Ledger!vars
  <2>1. Fate(row[r]) = Fate("sending")
    BY <1>4, Fates DEF Claimed, Claimable
  <2>2. fates' = fates
    BY <1>4, <2>1, FateStays DEF Claimed
  <2> QED BY <1>4, <2>2 DEF Claimed, historyVars, Ledger!vars
<1>5. ASSUME NEW w \in Workers, NEW r \in Replies, r = job[w], Sent(w)
      PROVE  Ledger!Deliver(r) \/ UNCHANGED Ledger!vars
  <2>1. /\ row[r] \in {"sending", "failed"} /\ fates' = fates
        /\ lost' = lost
    BY <1>5 DEF Sent, Claims, Holding
  <2>2. delivered[r] = lost[r] + hidden[r]
    <3>1. delivered[r] <= lost[r] + hidden[r]
      BY <1>5 DEF Sent, Turn, Excused
    <3>2. lost[r] + hidden[r] <= delivered[r]
      BY <2>1 DEF Known, Excused
    <3> QED BY <1>0, <2>1, <3>1, <3>2
  <2>3. CASE delivered' = delivered /\ hidden' = hidden
    BY <2>1, <2>3 DEF Ledger!vars
  <2>4. ASSUME NEW n \in {0, 1}, delivered' = [delivered EXCEPT ![r] = @ + 1],
               hidden' = [hidden EXCEPT ![r] = @ + n]
        PROVE  Ledger!Deliver(r)
    <3>1. excused' = [excused EXCEPT ![r] = @ + n]
      <4>1. \A q \in Replies : lost'[q] + hidden'[q] =
              IF q = r THEN (lost[q] + hidden[q]) + n ELSE lost[q] + hidden[q]
        BY <1>0, <2>1, <2>4 DEF TypeOK
      <4> QED BY <2>1, <4>1
    <3>2. fates[r] \in {"waiting", "abandoned"} /\ delivered[r] = excused[r]
      BY <1>0, <2>1, <2>2, Fates
    <3> QED BY <2>1, <2>4, <3>1, <3>2 DEF Ledger!Deliver, Ledger!NoneKnown
  <2>5. hidden' = hidden => hidden' = [hidden EXCEPT ![r] = @ + 0]
    BY <1>0, <2>1 DEF TypeOK
  <2> QED BY <1>5, <2>3, <2>4, <2>5 DEF Sent
<1>6. ASSUME NEW r \in Replies, lost' = [lost EXCEPT ![r] = @ + 1], row' = row,
             delivered' = delivered, hidden' = hidden,
             lost[r] + hidden[r] < delivered[r]
      PROVE  Ledger!Forget(r)
  <2>1. excused' = [excused EXCEPT ![r] = @ + 1]
    <3>1. \A q \in Replies : lost'[q] + hidden'[q] =
            IF q = r THEN (lost[q] + hidden[q]) + 1 ELSE lost[q] + hidden[q]
      BY <1>0, <1>6 DEF TypeOK
    <3> QED BY <3>1
  <2>2. delivered[r] # excused[r]
    BY <1>0, <1>6
  <2> QED BY <1>6, <2>1, <2>2 DEF Ledger!Forget, Ledger!NoneKnown
<1>7. ASSUME NEW w \in Workers, pc[w] = "mark"
      PROVE  /\ lost[job[w]] + hidden[job[w]] < delivered[job[w]]
             /\ row[job[w]] \in {"sending", "failed"}
  BY <1>7 DEF Claims, Known, Excused, Holding
<1>8. ASSUME NEW w \in Workers, NEW r \in Replies, r = job[w], Marked(w)
      PROVE  Ledger!Record(r) \/ Ledger!Forget(r) \/ UNCHANGED Ledger!vars
  <2>1. /\ pc[w] = "mark" /\ delivered' = delivered /\ hidden' = hidden
    BY <1>8 DEF Marked
  <2>2. CASE row' = row /\ lost' = [lost EXCEPT ![r] = @ + 1]
    BY <1>6, <1>7, <1>8, <2>1, <2>2
  <2>3. CASE /\ row' = [row EXCEPT ![r] = IF @ = "sending" THEN "sent" ELSE @]
             /\ lost' = lost
    <3>1. CASE row[r] = "sending"
      <4>1. row' = [row EXCEPT ![r] = "sent"]
        BY <2>3, <3>1
      <4>2. fates' = [fates EXCEPT ![r] = Fate("sent")]
        BY <4>1, FateMoves
      <4>3. fates[r] = "waiting" /\ delivered[r] # excused[r]
        BY <1>0, <1>7, <1>8, <2>1, <3>1, Fates
      <4> QED BY <2>1, <2>3, <4>2, <4>3, Fates DEF Ledger!Record, Ledger!NoneKnown
    <3>2. CASE row[r] = "failed"
      <4>1. row' = [row EXCEPT ![r] = "failed"]
        BY <2>3, <3>2
      <4>2. fates' = fates
        BY <3>2, <4>1, FateStays
      <4> QED BY <2>1, <2>3, <4>2 DEF Ledger!vars
    <3> QED BY <1>7, <1>8, <2>1, <3>1, <3>2
  <2> QED BY <1>8, <2>2, <2>3 DEF Marked
<1>9. ASSUME NEW w \in Workers, NEW r \in Replies, r = job[w], Ended(w)
      PROVE  Ledger!GiveUp(r) \/ Ledger!Forget(r) \/ UNCHANGED Ledger!vars
  <2>1. delivered' = delivered /\ hidden' = hidden
    BY <1>9 DEF Ended
  <2>2. CASE pc[w] = "mark" /\ lost' = [lost EXCEPT ![r] = @ + 1] /\ row' = row
    BY <1>6, <1>7, <1>9, <2>1, <2>2
  <2>3. CASE lost' = lost /\ row' = row
    BY <2>1, <2>3 DEF Ledger!vars
  <2>4. ASSUME NEW s \in {"scheduled", "failed"}, row' = [row EXCEPT ![r] = s],
               row[r] \in Open, lost' = lost
        PROVE  Ledger!GiveUp(r) \/ UNCHANGED Ledger!vars
    <3>1. fates[r] = "waiting"
      BY <1>0, <2>1, <2>4, Fates DEF Open
    <3>2. CASE s = "scheduled"
      <4>1. fates' = fates
        BY <1>0, <2>1, <2>4, <3>1, <3>2, Fates, FateStays
      <4> QED BY <2>1, <2>4, <4>1 DEF Ledger!vars
    <3>3. CASE s = "failed"
      <4>1. fates' = [fates EXCEPT ![r] = Fate("failed")]
        BY <2>4, <3>3, FateMoves
      <4> QED BY <2>1, <2>4, <3>1, <4>1, Fates DEF Ledger!GiveUp
    <3> QED BY <3>2, <3>3
  <2> QED BY <1>9, <2>2, <2>3, <2>4 DEF Ended
<1>10. CASE \E w \in Workers : Checked(w)
  BY <1>10 DEF Checked, historyVars, Ledger!vars
<1>11. CASE Ticked \/ UNCHANGED sendVars
  BY <1>11 DEF Ticked, sendVars, historyVars, Ledger!vars
<1>12. \A w \in Workers : Sent(w) \/ Marked(w) \/ Ended(w) => job[w] \in Replies
  BY DEF Sent, Marked, Ended, Claims
<1> QED BY <1>1, <1>2, <1>3, <1>4, <1>5, <1>8, <1>9, <1>10, <1>11, <1>12
    DEF SendMove, Ledger!Next

\* Whatever requests, workers, timeouts and sweeps do, what an observer sees of the replies
\* is the outbox: sent only on the strength of a delivery, delivered again only when no
\* earlier copy is known, undone only when none is, and settled once.
THEOREM RepliesImplementOutbox == Spec => ImplementsOutbox
<1>1. Init => Known /\ Ledger!Init
  <2> SUFFICES ASSUME Init PROVE Known /\ Ledger!Init
    OBVIOUS
  <2>1. Known
    BY DEF Init, Known, Excused
  <2>2. Ledger!Init
    BY Fates DEF Init, Ledger!Init
  <2> QED BY <2>1, <2>2
<1>2. ReplyInv /\ Known /\ [Next]_vars => Known' /\ [Ledger!Next]_(Ledger!vars)
  BY SendMoves, KnownStep, OutboxStep
<1> QED BY <1>1, <1>2, ReplyInductive, PTL DEF Spec, ImplementsOutbox, Ledger!Spec
=============================================================================
