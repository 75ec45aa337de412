------------------------- MODULE SequenceSendProofs -------------------------
(***************************************************************************)
(* The step-send path for every number of enrollments, workers, mailboxes  *)
(* and steps and every Timeout < Lease: it is type correct; steps go out   *)
(* in order, a step's claim is exclusive and duplicates are accounted for, *)
(* a thread speaks with one voice, an ended enrollment stays ended; and    *)
(* SequenceSend implements StepDelivery.                                   *)
(*                                                                         *)
(* Each part has an inductive invariant, a predicate X-Undisturbed that    *)
(* says what most actions do to the state the invariant is about, a lemma  *)
(* per action that does more, and a step lemma that goes through Next.     *)
(***************************************************************************)
EXTENDS SequenceDelivery, FiniteSetTheorems, TLAPS

-----------------------------------------------------------------------------
(* Type correctness                                                        *)

\* A worker that is not idle carries a job: an enrollment and, unless it is only
\* there to stop a thread that lost its mailbox, a step.
JobOK ==
    \A w \in Workers :
      pc[w] # "idle" =>
        /\ job[w].e \in Enrollments
        /\ pc[w] # "stop" => job[w].s \in Steps

\* Past resolveSender the job names a mailbox.
SenderOK ==
    \A w \in Workers :
      pc[w] \in {"gate", "claim"} \cup Claiming => job[w].m \in Mailboxes

TypeInv == TypeOK /\ JobOK /\ SenderOK

LEMMA NoJobType == NoJob \in Jobs
BY SequenceSendAssumption DEF NoJob, Jobs, NoDue

LEMMA EnqueueType ==
    ASSUME queue \in [Enrollments -> 0..MaxTasks], NEW e \in Enrollments,
           Enqueue(e) \/ Schedule(e)
    PROVE  queue' \in [Enrollments -> 0..MaxTasks]
BY SequenceSendAssumption DEF Enqueue, Schedule

LEMMA ReturnType == ASSUME WorkerType, NEW w \in Workers, Return(w) PROVE WorkerType'
BY NoJobType, SequenceSendAssumption DEF Return, WorkerType, PCs

LEMMA GotoType ==
    ASSUME WorkerType, NEW w \in Workers, NEW p \in PCs, Goto(w, p) PROVE WorkerType'
BY DEF Goto, WorkerType

LEMMA ResolvedType ==
    ASSUME WorkerType, NEW w \in Workers, NEW m \in Mailboxes \cup {None},
           NEW cap \in {"ok", "full", "zero"}, Resolved(w, m, cap)
    PROVE  WorkerType'
<1>1. job' \in [Workers -> Jobs]
  <2>1. [job[w] EXCEPT !.m = m, !.cap = cap] \in Jobs
    BY DEF WorkerType, Jobs
  <2>2. job' = [job EXCEPT ![w] = [job[w] EXCEPT !.m = m, !.cap = cap]]
    BY DEF Resolved, WorkerType, Jobs
  <2> QED
    BY <2>1, <2>2 DEF WorkerType
<1>2. pc' \in [Workers -> PCs] /\ ttl' \in [Workers -> 0..Timeout]
  BY DEF Resolved, WorkerType, PCs
<1> QED
  BY <1>1, <1>2 DEF WorkerType

LEMMA MarkStepSentType ==
    ASSUME EnrollmentType, NEW e \in Enrollments, NEW s \in Steps, NEW r \in BOOLEAN,
           MarkStepSent(e, s, r)
    PROVE  EnrollmentType'
<1>1. step' \in [Enrollments -> 0..NSteps]
  BY SequenceSendAssumption DEF EnrollmentType, MarkStepSent, Steps
<1>2. due' \in [Enrollments -> NoDue..(MaxDelay + Grace)]
  BY SequenceSendAssumption DEF EnrollmentType, MarkStepSent, NoDue
<1>3. status' \in [Enrollments -> {"active", "completed", "stopped"}]
  BY SequenceSendAssumption DEF EnrollmentType, MarkStepSent
<1>4. pin' \in [Enrollments -> Mailboxes \cup {None}]
  BY SequenceSendAssumption DEF EnrollmentType, MarkStepSent
<1>5. root' \in [Enrollments -> BOOLEAN]
  BY SequenceSendAssumption DEF EnrollmentType, MarkStepSent
<1> QED
  BY <1>1, <1>2, <1>3, <1>4, <1>5 DEF EnrollmentType

LEMMA SetSendResultType ==
    ASSUME SendType, NEW e \in Enrollments, NEW s \in Steps,
           NEW result \in {"sent", "failed"}, SetSendResult(e, s, result)
    PROVE  SendType'
BY SequenceSendAssumption DEF SendType, SetSendResult

QueueType == queue \in [Enrollments -> 0..MaxTasks] /\ faults \in 0..MaxFaults

LEMMA TaskFailsType ==
    ASSUME WorkerType, QueueType, NEW w \in Workers, job[w].e \in Enrollments,
           TaskFails(w)
    PROVE  WorkerType' /\ queue' \in [Enrollments -> 0..MaxTasks]
BY ReturnType, EnqueueType DEF TaskFails, QueueType

LEMMA CommittedType ==
    ASSUME WorkerType, QueueType, NEW w \in Workers, NEW p \in PCs,
           job[w].e \in Enrollments, Committed(w, p)
    PROVE  WorkerType' /\ QueueType'
<1>1. CASE Goto(w, p) /\ UNCHANGED <<queue, faults>>
  BY <1>1, GotoType DEF QueueType
<1>2. CASE Fault /\ TaskFails(w)
  BY <1>2, TaskFailsType, SequenceSendAssumption DEF QueueType, Fault
<1> QED
  BY <1>1, <1>2 DEF Committed

LEMMA CommittedLastType ==
    ASSUME WorkerType, QueueType, NEW w \in Workers, NEW b \in BOOLEAN,
           job[w].e \in Enrollments, CommittedLast(w, b)
    PROVE  WorkerType' /\ QueueType'
<1>1. CASE Fault /\ TaskFails(w)
  BY <1>1, TaskFailsType, SequenceSendAssumption DEF QueueType, Fault
<1>2. CASE Return(w) /\ (Schedule(job[w].e) \/ UNCHANGED queue) /\ UNCHANGED faults
  BY <1>2, ReturnType, EnqueueType DEF QueueType
<1> QED
  BY <1>1, <1>2 DEF CommittedLast


LEMMA TypeInit == Init => TypeInv
<1> SUFFICES ASSUME Init PROVE TypeInv
  OBVIOUS
<1> USE SequenceSendAssumption DEF Init
<1>1. EnrollmentType
  BY DEF EnrollmentType, NoDue
<1>2. SendType
  BY DEF SendType
<1>3. EnvType
  BY DEF EnvType
<1>4. WorkerType
  BY NoJobType DEF WorkerType, PCs
<1>5. HistoryType
  BY DEF HistoryType
<1>6. JobOK /\ SenderOK
  BY DEF JobOK, SenderOK, Claiming
<1> QED
  BY <1>1, <1>2, <1>3, <1>4, <1>5, <1>6 DEF TypeInv, TypeOK

LEMMA ResolvePinnedType ==
    ASSUME TypeInv, NEW w \in Workers, ResolvePinned(w)
    PROVE  TypeInv'
<1> USE DEF TypeInv, TypeOK
<1>1. EnrollmentType' /\ SendType' /\ EnvType' /\ HistoryType'
  BY DEF ResolvePinned, Resolved, EnrollmentType, enrollmentVars, SendType, sendVars, EnvType, envVars, budgetVars, HistoryType, historyVars
<1>2. WorkerType'
  BY ResolvedType DEF ResolvePinned, WorkerType, Jobs, EnvType, JobOK
<1>3. JobOK' /\ SenderOK'
  BY DEF ResolvePinned, Resolved, JobOK, SenderOK, WorkerType, Jobs, Claiming
<1> QED
  BY <1>1, <1>2, <1>3

LEMMA ResolveClaimType ==
    ASSUME TypeInv, NEW w \in Workers, ResolveClaim(w)
    PROVE  TypeInv'
<1> USE DEF TypeInv, TypeOK
<1> PICK chosen \in Mailboxes :
      LET stored == IF pin[job[w].e] = None THEN chosen ELSE pin[job[w].e] IN
      /\ pin' = [pin EXCEPT ![job[w].e] = stored]
      /\ Resolved(w, stored, capacity[stored])
  BY SequenceSendAssumption DEF ResolveClaim, poolRows, eligible
<1> DEFINE stored == IF pin[job[w].e] = None THEN chosen ELSE pin[job[w].e]
<1> stored \in Mailboxes /\ job[w].e \in Enrollments
  BY SequenceSendAssumption DEF EnrollmentType, JobOK, ResolveClaim
<1> pin' = [pin EXCEPT ![job[w].e] = stored] /\ Resolved(w, stored, capacity[stored])
  OBVIOUS
<1> HIDE DEF stored
<1>1. SendType' /\ EnvType' /\ HistoryType'
  BY DEF Resolved, SendType, sendVars, EnvType, envVars, budgetVars, HistoryType, historyVars
<1>2. EnrollmentType'
  BY DEF Resolved, EnrollmentType
<1>3. WorkerType'
  BY ResolvedType DEF EnvType
<1>4. JobOK' /\ SenderOK'
  BY DEF ResolveClaim, Resolved, JobOK, SenderOK, WorkerType, Jobs, Claiming
<1> QED
  BY <1>1, <1>2, <1>3, <1>4

LEMMA ResolveExhaustedType ==
    ASSUME TypeInv, NEW w \in Workers, ResolveExhausted(w)
    PROVE  TypeInv'
<1> USE DEF TypeInv, TypeOK
<1>1. EnrollmentType' /\ SendType' /\ EnvType' /\ HistoryType'
  BY DEF ResolveExhausted, Resolved, EnrollmentType, enrollmentVars, SendType, sendVars, EnvType, envVars, budgetVars, HistoryType, historyVars
<1>2. WorkerType'
  BY ResolvedType, SequenceSendAssumption DEF ResolveExhausted
<1>3. JobOK' /\ SenderOK'
  BY SequenceSendAssumption DEF ResolveExhausted, Resolved, JobOK, SenderOK, WorkerType, Jobs, Claiming
<1> QED
  BY <1>1, <1>2, <1>3

LEMMA GateType ==
    ASSUME TypeInv, NEW w \in Workers, Gate(w)
    PROVE  TypeInv'
<1> USE DEF TypeInv, TypeOK
<1>1. EnrollmentType' /\ SendType' /\ HistoryType'
  BY DEF Gate, EnrollmentType, enrollmentVars, SendType, sendVars, HistoryType, historyVars
<1>2. EnvType'
  BY EnqueueType DEF Gate, JobOK, envVars, budgetVars, EnvType
<1>3. WorkerType'
  BY GotoType, ReturnType DEF Gate, PCs
<1>4. JobOK' /\ SenderOK'
  BY DEF Gate, Goto, Return, Enqueue, JobOK, SenderOK, WorkerType, Jobs, Claiming
<1> QED
  BY <1>1, <1>2, <1>3, <1>4

LEMMA StopStepType ==
    ASSUME TypeInv, NEW w \in Workers, StopStep(w)
    PROVE  TypeInv'
<1> USE DEF TypeInv, TypeOK
<1> job[w].e \in Enrollments /\ (pc[w] # "stop" => job[w].s \in Steps)
  BY DEF StopStep, JobOK, Claiming
<1>1. SendType' /\ HistoryType'
  BY DEF StopStep, SendType, sendVars, HistoryType, historyVars
<1>2. EnrollmentType'
  BY SequenceSendAssumption DEF StopStep, MarkStepStopped, EnrollmentType, NoDue
<1>3. WorkerType' /\ EnvType'
  BY CommittedLastType DEF StopStep, EnvType, QueueType, envVars
<1>4. JobOK' /\ SenderOK'
  BY DEF StopStep, MarkStepStopped, CommittedLast, Return, TaskFails, JobOK, SenderOK, WorkerType, Jobs, Claiming
<1> QED
  BY <1>1, <1>2, <1>3, <1>4

LEMMA ClaimWonType ==
    ASSUME TypeInv, NEW w \in Workers, ClaimWon(w)
    PROVE  TypeInv'
<1> USE DEF TypeInv, TypeOK
<1> job[w].e \in Enrollments /\ job[w].s \in Steps
  BY DEF ClaimWon, JobOK, Claiming
<1>1. EnrollmentType' /\ HistoryType'
  BY DEF ClaimWon, EnrollmentType, enrollmentVars, HistoryType, historyVars
<1>2. SendType'
  BY SequenceSendAssumption DEF ClaimWon, SendType, SenderOK, Claiming
<1>3. WorkerType' /\ EnvType'
  BY CommittedType, SequenceSendAssumption DEF ClaimWon, EnvType, QueueType, envVars, PCs, SlotFree
<1>4. JobOK' /\ SenderOK'
  BY DEF ClaimWon, Committed, Goto, TaskFails, Return, JobOK, SenderOK, WorkerType, Jobs, Claiming
<1> QED
  BY <1>1, <1>2, <1>3, <1>4

LEMMA ClaimDeferredType ==
    ASSUME TypeInv, NEW w \in Workers, ClaimDeferred(w)
    PROVE  TypeInv'
<1> USE DEF TypeInv, TypeOK
<1> job[w].e \in Enrollments /\ job[w].s \in Steps
  BY DEF ClaimDeferred, JobOK, Claiming
<1>1. EnrollmentType' /\ SendType' /\ HistoryType'
  BY DEF ClaimDeferred, EnrollmentType, enrollmentVars, SendType, sendVars, HistoryType, historyVars
<1>2. EnvType'
  BY EnqueueType DEF ClaimDeferred, envVars, budgetVars, EnvType
<1>3. WorkerType'
  BY ReturnType DEF ClaimDeferred
<1>4. JobOK' /\ SenderOK'
  BY DEF ClaimDeferred, Return, JobOK, SenderOK, WorkerType, Jobs, Claiming
<1> QED
  BY <1>1, <1>2, <1>3, <1>4

LEMMA ClaimRefusedType ==
    ASSUME TypeInv, NEW w \in Workers, ClaimRefused(w)
    PROVE  TypeInv'
<1> USE DEF TypeInv, TypeOK
<1> job[w].e \in Enrollments /\ job[w].s \in Steps
  BY DEF ClaimRefused, JobOK, Claiming
<1>1. EnrollmentType' /\ SendType' /\ HistoryType'
  BY DEF ClaimRefused, EnrollmentType, enrollmentVars, SendType, sendVars, HistoryType, historyVars
<1>2. WorkerType' /\ EnvType'
  BY TaskFailsType DEF ClaimRefused, EnvType, QueueType, envVars, budgetVars
<1>3. JobOK' /\ SenderOK'
  BY DEF ClaimRefused, TaskFails, Return, JobOK, SenderOK, WorkerType, Jobs, Claiming
<1> QED
  BY <1>1, <1>2, <1>3

LEMMA ClaimLostType ==
    ASSUME TypeInv, NEW w \in Workers, ClaimLost(w)
    PROVE  TypeInv'
<1> USE DEF TypeInv, TypeOK
<1>1. EnrollmentType' /\ SendType' /\ EnvType' /\ HistoryType'
  BY DEF ClaimLost, EnrollmentType, enrollmentVars, SendType, sendVars, EnvType, envVars, budgetVars, HistoryType, historyVars
<1>2. WorkerType'
  BY GotoType, ReturnType DEF ClaimLost, PCs
<1>3. JobOK' /\ SenderOK'
  BY DEF ClaimLost, Goto, Return, JobOK, SenderOK, WorkerType, Jobs, Claiming
<1> QED
  BY <1>1, <1>2, <1>3

LEMMA ProviderSendType ==
    ASSUME TypeInv, NEW w \in Workers, Send(w)
    PROVE  TypeInv'
<1> USE DEF TypeInv, TypeOK
<1> job[w].e \in Enrollments /\ job[w].s \in Steps
  BY DEF Send, JobOK, Claiming
<1>1. EnrollmentType' /\ SendType'
  BY DEF Send, EnrollmentType, enrollmentVars, SendType, sendVars
<1>2. EnvType'
  BY SequenceSendAssumption DEF Send, Fault, envVars, EnvType
<1>3. WorkerType'
  BY GotoType DEF Send, PCs
<1>4. HistoryType'
  <2> DEFINE e == job[w].e
  <2> DEFINE s == job[w].s
  <2>1. job[w].m \in Mailboxes
    BY DEF Send, SenderOK, Claiming
  <2>2. hidden' \in [Enrollments -> [Steps -> Nat]]
    BY DEF Send, HistoryType
  <2>3. CASE UNCHANGED <<delivered, from, late>>
    BY <2>2, <2>3 DEF Send, HistoryType
  <2>4. CASE /\ delivered' = [delivered EXCEPT ![e][s] = @ + 1]
             /\ from' = [from EXCEPT ![e] = @ \cup {job[w].m}]
             /\ late' = [late EXCEPT ![e] = IF status[e] = "stopped" \/ @ > 0
                                             THEN @ + 1 ELSE @]
    <3>1. delivered' \in [Enrollments -> [Steps -> Nat]]
      BY <2>4 DEF HistoryType
    <3>2. from' \in [Enrollments -> SUBSET (Mailboxes \cup {None})]
      BY <2>1, <2>4 DEF HistoryType
    <3>3. late' \in [Enrollments -> Nat]
      BY <2>4 DEF HistoryType
    <3> QED
      BY <2>2, <3>1, <3>2, <3>3 DEF Send, HistoryType
  <2> QED
    BY <2>3, <2>4 DEF Send
<1>5. JobOK' /\ SenderOK'
  BY DEF Send, Goto, JobOK, SenderOK, WorkerType, Jobs, Claiming
<1> QED
  BY <1>1, <1>2, <1>3, <1>4, <1>5

LEMMA MarkStepDeliveredType ==
    ASSUME TypeInv, NEW w \in Workers, MarkStepDelivered(w)
    PROVE  TypeInv'
<1> USE DEF TypeInv, TypeOK
<1> job[w].e \in Enrollments /\ job[w].s \in Steps
  BY DEF MarkStepDelivered, JobOK, Claiming
<1>1. EnrollmentType'
  BY DEF MarkStepDelivered, EnrollmentType, enrollmentVars
<1>2. SendType'
  BY SetSendResultType DEF MarkStepDelivered
<1>3. HistoryType'
  BY DEF MarkStepDelivered, HistoryType
<1>4. WorkerType' /\ EnvType'
  BY CommittedType DEF MarkStepDelivered, EnvType, QueueType, envVars, PCs
<1>5. JobOK' /\ SenderOK'
  BY DEF MarkStepDelivered, Committed, Goto, TaskFails, Return, JobOK, SenderOK, WorkerType, Jobs, Claiming
<1> QED
  BY <1>1, <1>2, <1>3, <1>4, <1>5

LEMMA AdvanceStepCursorType ==
    ASSUME TypeInv, NEW w \in Workers, AdvanceStepCursor(w)
    PROVE  TypeInv'
<1> USE DEF TypeInv, TypeOK
<1> job[w].e \in Enrollments /\ job[w].s \in Steps
  BY DEF AdvanceStepCursor, JobOK, Claiming
<1>1. SendType' /\ HistoryType'
  BY DEF AdvanceStepCursor, SendType, sendVars, HistoryType, historyVars
<1>2. EnrollmentType'
  BY MarkStepSentType DEF AdvanceStepCursor, EnrollmentType, enrollmentVars
<1>3. WorkerType' /\ EnvType'
  BY CommittedLastType, TaskFailsType DEF AdvanceStepCursor, EnvType, QueueType, envVars
<1>4. JobOK' /\ SenderOK'
  BY DEF AdvanceStepCursor, CommittedLast, TaskFails, Return, JobOK, SenderOK, WorkerType, Jobs, Claiming
<1> QED
  BY <1>1, <1>2, <1>3, <1>4

LEMMA ReleaseStepSendType ==
    ASSUME TypeInv, NEW w \in Workers, ReleaseStepSend(w)
    PROVE  TypeInv'
<1> USE DEF TypeInv, TypeOK
<1> job[w].e \in Enrollments /\ job[w].s \in Steps
  BY DEF ReleaseStepSend, JobOK, Claiming
<1>1. EnrollmentType' /\ HistoryType'
  BY DEF ReleaseStepSend, EnrollmentType, enrollmentVars, HistoryType, historyVars
<1>2. SendType'
  BY SequenceSendAssumption DEF ReleaseStepSend, SendType
<1>3. WorkerType' /\ EnvType'
  BY TaskFailsType DEF ReleaseStepSend, EnvType, QueueType, envVars, budgetVars
<1>4. JobOK' /\ SenderOK'
  BY DEF ReleaseStepSend, TaskFails, Return, JobOK, SenderOK, WorkerType, Jobs, Claiming
<1> QED
  BY <1>1, <1>2, <1>3, <1>4

LEMMA FinalizeStepSendType ==
    ASSUME TypeInv, NEW w \in Workers, FinalizeStepSend(w)
    PROVE  TypeInv'
<1> USE DEF TypeInv, TypeOK
<1> job[w].e \in Enrollments /\ job[w].s \in Steps
  BY DEF FinalizeStepSend, JobOK, Claiming
<1>1. EnrollmentType'
  BY MarkStepSentType DEF FinalizeStepSend
<1>2. SendType'
  BY SetSendResultType DEF FinalizeStepSend
<1>3. HistoryType'
  BY DEF FinalizeStepSend, HistoryType
<1>4. WorkerType' /\ EnvType'
  BY CommittedLastType DEF FinalizeStepSend, EnvType, QueueType, envVars
<1>5. JobOK' /\ SenderOK'
  BY DEF FinalizeStepSend, CommittedLast, TaskFails, Return, JobOK, SenderOK, WorkerType, Jobs, Claiming
<1> QED
  BY <1>1, <1>2, <1>3, <1>4, <1>5

LEMMA AbortType ==
    ASSUME TypeInv, NEW w \in Workers, Abort(w)
    PROVE  TypeInv'
<1> USE DEF TypeInv, TypeOK
<1> job[w].e \in Enrollments /\ (pc[w] # "stop" => job[w].s \in Steps)
  BY DEF Abort, JobOK, Claiming
<1>1. EnrollmentType' /\ SendType'
  BY DEF Abort, EnrollmentType, enrollmentVars, SendType, sendVars
<1>2. HistoryType'
  BY DEF Abort, HistoryType, JobOK
<1>3. WorkerType' /\ EnvType'
  BY TaskFailsType, SequenceSendAssumption DEF Abort, Fault, EnvType, QueueType, envVars
<1>4. JobOK' /\ SenderOK'
  BY DEF Abort, TaskFails, Return, JobOK, SenderOK, WorkerType, Jobs, Claiming
<1> QED
  BY <1>1, <1>2, <1>3, <1>4

LEMMA SkipInertType ==
    ASSUME TypeInv, NEW w \in Workers, NEW e \in Enrollments, SkipInert(w, e)
    PROVE  TypeInv'
<1> USE DEF TypeInv, TypeOK
<1>1. EnrollmentType' /\ SendType' /\ WorkerType' /\ HistoryType'
  BY DEF SkipInert, EnrollmentType, enrollmentVars, SendType, sendVars, WorkerType, HistoryType, historyVars
<1>2. EnvType'
  BY SequenceSendAssumption DEF SkipInert, Take, Dequeue, envVars, budgetVars, EnvType
<1>3. JobOK' /\ SenderOK'
  BY DEF SkipInert, Take, Dequeue, JobOK, SenderOK, WorkerType, Jobs, Claiming
<1> QED
  BY <1>1, <1>2, <1>3

LEMMA TakeOrphanType ==
    ASSUME TypeInv, NEW w \in Workers, NEW e \in Enrollments, TakeOrphan(w, e)
    PROVE  TypeInv'
<1> USE DEF TypeInv, TypeOK
<1>0. job' \in [Workers -> Jobs]
  <2>1. [NoJob EXCEPT !.e = e] \in Jobs
    BY SequenceSendAssumption DEF NoJob, NoDue, Jobs
  <2> QED
    BY <2>1 DEF TakeOrphan, WorkerType
<1>1. EnrollmentType' /\ SendType' /\ HistoryType'
  BY DEF TakeOrphan, EnrollmentType, enrollmentVars, SendType, sendVars, HistoryType, historyVars
<1>2. EnvType'
  BY SequenceSendAssumption DEF TakeOrphan, Take, Dequeue, envVars, budgetVars, EnvType
<1>3. WorkerType'
  BY <1>0, SequenceSendAssumption DEF TakeOrphan, WorkerType, PCs
<1>4. JobOK' /\ SenderOK'
  BY DEF TakeOrphan, Take, JobOK, SenderOK, WorkerType, Jobs, Claiming
<1> QED
  BY <1>1, <1>2, <1>3, <1>4

LEMMA TakeHeldType ==
    ASSUME TypeInv, NEW w \in Workers, NEW e \in Enrollments, TakeHeld(w, e)
    PROVE  TypeInv'
<1> USE DEF TypeInv, TypeOK
<1>1. EnrollmentType' /\ SendType' /\ WorkerType' /\ HistoryType'
  BY DEF TakeHeld, EnrollmentType, enrollmentVars, SendType, sendVars, WorkerType, HistoryType, historyVars
<1>2. EnvType'
  BY SequenceSendAssumption DEF TakeHeld, Take, Dequeue, Fault, envVars, budgetVars, EnvType
<1>3. JobOK' /\ SenderOK'
  BY DEF TakeHeld, Take, Dequeue, Fault, JobOK, SenderOK, WorkerType, Jobs, Claiming
<1> QED
  BY <1>1, <1>2, <1>3

LEMMA TakeDueType ==
    ASSUME TypeInv, NEW w \in Workers, NEW e \in Enrollments, TakeDue(w, e)
    PROVE  TypeInv'
<1> USE DEF TypeInv, TypeOK
<1>0. job' \in [Workers -> Jobs]
  <2>1. [e |-> e, s |-> step[e] + 1, m |-> pin[e], due |-> due[e], cap |-> "ok"] \in Jobs
    BY SequenceSendAssumption DEF TakeDue, NoDue, Jobs, EnrollmentType
  <2> QED
    BY <2>1 DEF TakeDue, WorkerType
<1>1. EnrollmentType' /\ SendType' /\ HistoryType'
  BY DEF TakeDue, EnrollmentType, enrollmentVars, SendType, sendVars, HistoryType, historyVars
<1>2. EnvType'
  BY SequenceSendAssumption DEF TakeDue, Take, Dequeue, envVars, budgetVars, EnvType
<1>3. WorkerType'
  BY <1>0, SequenceSendAssumption DEF TakeDue, WorkerType, PCs
<1>4. JobOK' /\ SenderOK'
  BY SequenceSendAssumption DEF TakeDue, JobOK, SenderOK, WorkerType, Jobs, Claiming, EnrollmentType, Steps
<1> QED
  BY <1>1, <1>2, <1>3, <1>4

LEMMA SweepType ==
    ASSUME TypeInv, NEW e \in Enrollments, Sweep(e)
    PROVE  TypeInv'
<1> USE DEF TypeInv, TypeOK
<1>1. EnrollmentType' /\ SendType' /\ WorkerType' /\ HistoryType'
  BY DEF Sweep, EnrollmentType, enrollmentVars, SendType, sendVars, WorkerType, HistoryType, historyVars
<1>2. EnvType'
  BY EnqueueType DEF Sweep, envVars, budgetVars, EnvType
<1>3. JobOK' /\ SenderOK'
  BY DEF Sweep, Enqueue, JobOK, SenderOK, WorkerType, Jobs, Claiming
<1> QED
  BY <1>1, <1>2, <1>3

LEMMA TickType ==
    ASSUME TypeInv, Tick
    PROVE  TypeInv'
<1> USE DEF TypeInv, TypeOK
<1>0. ASSUME NEW w \in Workers
      PROVE  /\ job'[w] \in Jobs
             /\ job'[w].e = job[w].e /\ job'[w].s = job[w].s /\ job'[w].m = job[w].m
  <2>1. job'[w] = [job[w] EXCEPT !.due = Countdown(@)]
    BY DEF Tick
  <2>2. job[w] \in Jobs
    BY DEF WorkerType
  <2>3. Countdown(job[w].due) \in NoDue..(MaxDelay + Grace)
    BY <2>2, SequenceSendAssumption DEF Jobs, Countdown, NoDue
  <2> QED
    BY <2>1, <2>2, <2>3 DEF Jobs
<1>1. HistoryType'
  BY DEF Tick, HistoryType, historyVars
<1>2. EnrollmentType'
  BY SequenceSendAssumption DEF Tick, Countdown, EnrollmentType, NoDue
<1>3. SendType'
  BY SequenceSendAssumption DEF Tick, Countdown, SendType
<1>4. EnvType'
  BY SequenceSendAssumption DEF Tick, Countdown, EnvType, envVars, budgetVars
<1>5. WorkerType'
  BY <1>0, SequenceSendAssumption DEF Tick, Countdown, WorkerType
<1>6. JobOK' /\ SenderOK'
  BY <1>0 DEF Tick, JobOK, SenderOK
<1> QED
  BY <1>1, <1>2, <1>3, <1>4, <1>5, <1>6

LEMMA HaltType ==
    ASSUME TypeInv, NEW e \in Enrollments, Halt(e)
    PROVE  TypeInv'
<1> USE DEF TypeInv, TypeOK
<1>1. SendType' /\ WorkerType' /\ HistoryType'
  BY DEF Halt, SendType, sendVars, WorkerType, HistoryType, historyVars
<1>2. EnrollmentType'
  BY SequenceSendAssumption DEF Halt, MarkStepStopped, EnrollmentType, NoDue
<1>3. EnvType'
  BY SequenceSendAssumption DEF Halt, Churn, EnvType, envVars
<1>4. JobOK' /\ SenderOK'
  BY DEF Halt, JobOK, SenderOK, WorkerType, Jobs, Claiming
<1> QED
  BY <1>1, <1>2, <1>3, <1>4

LEMMA DeferEnrollmentType ==
    ASSUME TypeInv, NEW e \in Enrollments, DeferEnrollment(e)
    PROVE  TypeInv'
<1> USE DEF TypeInv, TypeOK
<1>1. SendType' /\ WorkerType' /\ HistoryType'
  BY DEF DeferEnrollment, SendType, sendVars, WorkerType, HistoryType, historyVars
<1>2. EnrollmentType'
  BY SequenceSendAssumption DEF DeferEnrollment, EnrollmentType, NoDue
<1>3. EnvType'
  BY SequenceSendAssumption DEF DeferEnrollment, Churn, EnvType, envVars
<1>4. JobOK' /\ SenderOK'
  BY DEF DeferEnrollment, JobOK, SenderOK, WorkerType, Jobs, Claiming
<1> QED
  BY <1>1, <1>2, <1>3, <1>4

LEMMA SuppressType ==
    ASSUME TypeInv, NEW e \in Enrollments, Suppress(e)
    PROVE  TypeInv'
<1> USE DEF TypeInv, TypeOK
<1>1. EnrollmentType' /\ SendType' /\ WorkerType' /\ HistoryType'
  BY DEF Suppress, EnrollmentType, enrollmentVars, SendType, sendVars, WorkerType, HistoryType, historyVars
<1>2. EnvType'
  BY SequenceSendAssumption DEF Suppress, Churn, EnvType
<1>3. JobOK' /\ SenderOK'
  BY DEF Suppress, JobOK, SenderOK, WorkerType, Jobs, Claiming
<1> QED
  BY <1>1, <1>2, <1>3

LEMMA SetCampaignType ==
    ASSUME TypeInv, NEW c \in {"running", "paused", "limited", "newlead"}, SetCampaign(c)
    PROVE  TypeInv'
<1> USE DEF TypeInv, TypeOK
<1>1. EnrollmentType' /\ SendType' /\ WorkerType' /\ HistoryType'
  BY DEF SetCampaign, EnrollmentType, enrollmentVars, SendType, sendVars, WorkerType, HistoryType, historyVars
<1>2. EnvType'
  BY SequenceSendAssumption DEF SetCampaign, Churn, EnvType
<1>3. JobOK' /\ SenderOK'
  BY DEF SetCampaign, JobOK, SenderOK, WorkerType, Jobs, Claiming
<1> QED
  BY <1>1, <1>2, <1>3

LEMMA SetCapacityType ==
    ASSUME TypeInv, NEW m \in Mailboxes, NEW c \in {"ok", "full", "zero"}, SetCapacity(m, c)
    PROVE  TypeInv'
<1> USE DEF TypeInv, TypeOK
<1>1. EnrollmentType' /\ SendType' /\ WorkerType' /\ HistoryType'
  BY DEF SetCapacity, EnrollmentType, enrollmentVars, SendType, sendVars, WorkerType, HistoryType, historyVars
<1>2. EnvType'
  BY SequenceSendAssumption DEF SetCapacity, Churn, EnvType
<1>3. JobOK' /\ SenderOK'
  BY DEF SetCapacity, JobOK, SenderOK, WorkerType, Jobs, Claiming
<1> QED
  BY <1>1, <1>2, <1>3

LEMMA DeleteMailboxType ==
    ASSUME TypeInv, NEW m \in Mailboxes, DeleteMailbox(m)
    PROVE  TypeInv'
<1> USE DEF TypeInv, TypeOK
<1>1. WorkerType'
  BY DEF DeleteMailbox, WorkerType
<1>2. EnrollmentType'
  BY DEF DeleteMailbox, EnrollmentType
<1>3. SendType'
  BY SequenceSendAssumption DEF DeleteMailbox, SendType
<1>4. EnvType'
  BY SequenceSendAssumption DEF DeleteMailbox, Churn, EnvType
<1>5. HistoryType'
  BY DEF DeleteMailbox, HistoryType
<1>6. JobOK' /\ SenderOK'
  BY DEF DeleteMailbox, JobOK, SenderOK, WorkerType, Jobs, Claiming
<1> QED
  BY <1>1, <1>2, <1>3, <1>4, <1>5, <1>6

LEMMA TypeStep == TypeInv /\ [Next]_vars => TypeInv'
<1> SUFFICES ASSUME TypeInv, [Next]_vars PROVE TypeInv'
  OBVIOUS
<1>1. CASE UNCHANGED vars
  BY <1>1 DEF vars, enrollmentVars, sendVars, envVars, historyVars, budgetVars, TypeInv,
     TypeOK, EnrollmentType, SendType, EnvType, WorkerType, HistoryType, JobOK, SenderOK
<1>2. ASSUME NEW w \in Workers, Work(w) \/ Abort(w) PROVE TypeInv'
  BY <1>2, ResolvePinnedType, ResolveClaimType, ResolveExhaustedType, GateType,
     StopStepType, ClaimWonType, ClaimDeferredType, ClaimRefusedType, ClaimLostType,
     ProviderSendType, MarkStepDeliveredType, AdvanceStepCursorType, ReleaseStepSendType,
     FinalizeStepSendType, AbortType DEF Work
<1>3. ASSUME NEW w \in Workers, NEW e \in Enrollments, Start(w, e) PROVE TypeInv'
  BY <1>3, SkipInertType, TakeOrphanType, TakeHeldType, TakeDueType DEF Start
<1>4. CASE \E e \in Enrollments : Sweep(e)
  BY <1>4, SweepType
<1>5. CASE Tick
  BY <1>5, TickType
<1>6. CASE Environment
  BY <1>6, HaltType, DeferEnrollmentType, SuppressType, SetCampaignType,
     SetCapacityType, DeleteMailboxType DEF Environment
<1> QED
  BY <1>1, <1>2, <1>3, <1>4, <1>5, <1>6 DEF Next

\* Every state the send path can reach is well typed, and every worker that runs a
\* task carries the enrollment, the step and the mailbox its control point needs.
THEOREM TypeCorrect == Spec => []TypeOK
<1>1. Spec => []TypeInv
  BY TypeInit, TypeStep, PTL DEF Spec
<1>2. TypeInv => TypeOK
  BY DEF TypeInv
<1> QED
  BY <1>1, <1>2, PTL

-----------------------------------------------------------------------------
(* Order                                                                   *)

\* The step was mailed, or was given up as 'failed'.
Settled(e, s) == delivered[e][s] > 0 \/ s \in gaveUp[e]

SentRowsWereDelivered ==
    \A e \in Enrollments, s \in Steps : row[e][s] = "sent" => delivered[e][s] > 0

\* A job is only built for a step whose predecessors are settled, and only moves
\* the cursor once its own step is.
WorkersAreInOrder ==
    \A w \in Workers :
      pc[w] # "idle" =>
        /\ \A r \in Steps : r < job[w].s => Settled(job[w].e, r)
        /\ pc[w] = "ack" => delivered[job[w].e][job[w].s] > 0
        /\ pc[w] = "advance" => Settled(job[w].e, job[w].s)

CursorIsInOrder ==
    \A e \in Enrollments :
      /\ \A r \in Steps : r <= step[e] => Settled(e, r)
      /\ status[e] = "completed" => step[e] = NSteps

OrderInv == SentRowsWereDelivered /\ WorkersAreInOrder /\ CursorIsInOrder /\ InOrder

\* What a step that sends nothing, settles nothing and moves no cursor does to the
\* state OrderInv is about.
OrderUndisturbed ==
    /\ UNCHANGED <<step, gaveUp, delivered>>
    /\ \A e \in Enrollments : status'[e] = "completed" => status[e] = "completed"
    /\ \A e \in Enrollments, s \in Steps : row'[e][s] = "sent" => row[e][s] = "sent"
    /\ \A v \in Workers :
         pc'[v] # "idle" =>
           /\ pc[v] # "idle" /\ job'[v].e = job[v].e /\ job'[v].s = job[v].s
           /\ pc'[v] \in {"ack", "advance"} => pc'[v] = pc[v]

LEMMA OrderFrame ==
    ASSUME TypeInv, OrderInv, OrderUndisturbed PROVE OrderInv'
<1>1. SentRowsWereDelivered' /\ InOrder'
  BY DEF OrderInv, SentRowsWereDelivered, InOrder, OrderUndisturbed
<1>2. CursorIsInOrder'
  BY DEF OrderInv, CursorIsInOrder, Settled, OrderUndisturbed
<1>3. WorkersAreInOrder'
  BY DEF OrderInv, WorkersAreInOrder, Settled, OrderUndisturbed
<1> QED
  BY <1>1, <1>2, <1>3 DEF OrderInv

LEMMA ClaimLostOrder == ASSUME TypeInv, OrderInv, NEW w \in Workers, ClaimLost(w) PROVE OrderInv'
<1> job[w].e \in Enrollments /\ job[w].s \in Steps
  BY DEF TypeInv, JobOK, ClaimLost
<1>1. UNCHANGED <<status, step, row, delivered, gaveUp>>
  BY DEF ClaimLost, enrollmentVars, sendVars, historyVars
<1>2. SentRowsWereDelivered' /\ InOrder' /\ CursorIsInOrder'
  BY <1>1 DEF OrderInv, SentRowsWereDelivered, InOrder, CursorIsInOrder, Settled
<1>3. WorkersAreInOrder'
  BY <1>1 DEF OrderInv, SentRowsWereDelivered, WorkersAreInOrder, Settled, ClaimLost,
     Goto, Return, TypeInv, TypeOK, WorkerType
<1> QED
  BY <1>2, <1>3 DEF OrderInv

LEMMA SendOrder == ASSUME TypeInv, OrderInv, NEW w \in Workers, Send(w) PROVE OrderInv'
<1> DEFINE e == job[w].e
           s == job[w].s
<1> e \in Enrollments /\ s \in Steps /\ pc[w] = "send"
  BY DEF TypeInv, JobOK, Send
<1>1. /\ UNCHANGED <<status, step, row, gaveUp, job>>
      /\ \E p \in {"ack", "release", "fail"} : pc' = [pc EXCEPT ![w] = p]
  BY DEF Send, enrollmentVars, sendVars, Goto
<1>2. /\ \A f \in Enrollments, r \in Steps : delivered'[f][r] >= delivered[f][r]
      /\ \A f \in Enrollments, r \in Steps :
           delivered'[f][r] # delivered[f][r] => f = e /\ r = s
      /\ pc'[w] = "ack" => delivered'[e][s] > 0
      /\ delivered' \in [Enrollments -> [Steps -> Nat]]
  <2>1. delivered \in [Enrollments -> [Steps -> Nat]] /\ pc \in [Workers -> PCs]
    BY DEF TypeInv, TypeOK, HistoryType, WorkerType
  <2>2. \/ UNCHANGED delivered /\ pc'[w] # "ack"
        \/ delivered' = [delivered EXCEPT ![e][s] = @ + 1]
    BY <2>1 DEF Send, Goto, GoesOut
  <2> QED
    BY <2>1, <2>2
<1> HIDE DEF e, s
<1>3. \A f \in Enrollments, r \in Steps : Settled(f, r) => Settled(f, r)'
  BY <1>1, <1>2 DEF Settled, TypeInv, TypeOK, HistoryType
<1>4. SentRowsWereDelivered'
  BY <1>1, <1>2 DEF OrderInv, SentRowsWereDelivered, TypeInv, TypeOK, HistoryType
<1>5. CursorIsInOrder'
  BY <1>1, <1>3 DEF OrderInv, CursorIsInOrder
<1>6. WorkersAreInOrder'
  BY <1>1, <1>2, <1>3 DEF OrderInv, WorkersAreInOrder, TypeInv, TypeOK, HistoryType,
     WorkerType, JobOK, e, s
<1>7. InOrder'
  <2>1. \A r \in Steps : r < s => Settled(e, r)
    BY DEF OrderInv, WorkersAreInOrder, e, s
  <2> QED
    BY <1>1, <1>2, <1>3, <2>1 DEF OrderInv, InOrder, Settled
<1> QED
  BY <1>4, <1>5, <1>6, <1>7 DEF OrderInv

LEMMA MarkStepDeliveredOrder ==
    ASSUME TypeInv, OrderInv, NEW w \in Workers, MarkStepDelivered(w) PROVE OrderInv'
<1> job[w].e \in Enrollments /\ job[w].s \in Steps /\ pc[w] = "ack"
  BY DEF TypeInv, JobOK, MarkStepDelivered
<1>1. UNCHANGED <<status, step, delivered, gaveUp>>
  BY DEF MarkStepDelivered, enrollmentVars
<1>2. InOrder' /\ CursorIsInOrder'
  BY <1>1 DEF OrderInv, InOrder, CursorIsInOrder, Settled
<1>3. SentRowsWereDelivered'
  BY <1>1 DEF OrderInv, SentRowsWereDelivered, WorkersAreInOrder, MarkStepDelivered,
     SetSendResult, TypeInv, TypeOK, SendType
<1>4. WorkersAreInOrder'
  BY <1>1 DEF OrderInv, WorkersAreInOrder, Settled, MarkStepDelivered, Committed,
     Goto, TaskFails, Return, TypeInv, TypeOK, WorkerType
<1> QED
  BY <1>2, <1>3, <1>4 DEF OrderInv

\* Both operations that move the cursor set it to a step that is settled.
LEMMA CursorOrder ==
    ASSUME TypeInv, CursorIsInOrder, NEW e \in Enrollments, NEW s \in Steps,
           NEW r \in BOOLEAN, MarkStepSent(e, s, r),
           \A f \in Enrollments, q \in Steps : Settled(f, q) => Settled(f, q)',
           \A q \in Steps : q <= s => Settled(e, q)'
    PROVE  CursorIsInOrder'
BY SequenceSendAssumption DEF CursorIsInOrder, MarkStepSent, TypeInv, TypeOK, EnrollmentType, Steps

LEMMA AdvanceStepCursorOrder ==
    ASSUME TypeInv, OrderInv, NEW w \in Workers, AdvanceStepCursor(w) PROVE OrderInv'
<1> DEFINE e == job[w].e
           s == job[w].s
<1> e \in Enrollments /\ s \in Steps /\ pc[w] = "advance"
  BY DEF TypeInv, JobOK, AdvanceStepCursor
<1>1. UNCHANGED <<row, delivered, gaveUp>>
  BY DEF AdvanceStepCursor, sendVars, historyVars
<1>2. \A f \in Enrollments, q \in Steps : Settled(f, q) => Settled(f, q)'
  BY <1>1 DEF Settled
<1>3. SentRowsWereDelivered' /\ InOrder'
  BY <1>1 DEF OrderInv, SentRowsWereDelivered, InOrder
<1>4. WorkersAreInOrder'
  <2>1. pc' = [pc EXCEPT ![w] = "idle"] /\ job' = [job EXCEPT ![w] = NoJob]
    BY DEF AdvanceStepCursor, CommittedLast, TaskFails, Return
  <2> QED
    BY <1>1, <2>1 DEF OrderInv, WorkersAreInOrder, Settled, TypeInv, TypeOK, WorkerType
<1>5. CursorIsInOrder'
  <2>1. CASE UNCHANGED enrollmentVars
    BY <1>2, <2>1 DEF OrderInv, CursorIsInOrder, enrollmentVars
  <2>2. CASE MarkStepSent(e, s, row[e][s] = "sent")
    <3>1. \A q \in Steps : q <= s => Settled(e, q)
      BY DEF OrderInv, WorkersAreInOrder, Steps
    <3> QED
      BY <1>2, <2>2, <3>1, CursorOrder DEF OrderInv
  <2> QED
    BY <2>1, <2>2 DEF AdvanceStepCursor
<1> QED
  BY <1>3, <1>4, <1>5 DEF OrderInv

LEMMA FinalizeStepSendOrder ==
    ASSUME TypeInv, OrderInv, NEW w \in Workers, FinalizeStepSend(w) PROVE OrderInv'
<1> PICK e \in Enrollments, s \in Steps : e = job[w].e /\ s = job[w].s /\ pc[w] = "fail"
  BY DEF TypeInv, JobOK, FinalizeStepSend
<1>1. UNCHANGED delivered /\ gaveUp' = [gaveUp EXCEPT ![e] = @ \cup {s}]
  BY DEF FinalizeStepSend
<1>2. \A f \in Enrollments, q \in Steps : Settled(f, q) => Settled(f, q)'
  BY <1>1 DEF Settled, TypeInv, TypeOK, HistoryType
<1>3. SentRowsWereDelivered'
  BY <1>1 DEF OrderInv, SentRowsWereDelivered, FinalizeStepSend, SetSendResult, TypeInv, TypeOK, SendType
<1>4. InOrder'
  BY <1>1, <1>2 DEF OrderInv, InOrder, Settled
<1>5. WorkersAreInOrder'
  <2>1. pc' = [pc EXCEPT ![w] = "idle"] /\ job' = [job EXCEPT ![w] = NoJob]
    BY DEF FinalizeStepSend, CommittedLast, TaskFails, Return
  <2> QED
    BY <1>1, <1>2, <2>1 DEF OrderInv, WorkersAreInOrder, TypeInv, TypeOK, WorkerType, JobOK
<1>6. CursorIsInOrder'
  <2>1. \A q \in Steps : q <= s => Settled(e, q)'
    <3>1. Settled(e, s)'
      BY <1>1 DEF Settled, TypeInv, TypeOK, HistoryType
    <3>2. \A q \in Steps : q < s => Settled(e, q)
      BY DEF OrderInv, WorkersAreInOrder
    <3> QED
      BY <1>2, <3>1, <3>2 DEF Steps
  <2> QED
    BY <1>2, <2>1, CursorOrder DEF OrderInv, FinalizeStepSend
<1> QED
  BY <1>3, <1>4, <1>5, <1>6 DEF OrderInv

LEMMA TakeOrder ==
    ASSUME TypeInv, OrderInv, NEW w \in Workers, NEW e \in Enrollments,
           TakeOrphan(w, e) \/ TakeDue(w, e)
    PROVE  OrderInv'
<1>1. UNCHANGED <<status, step, row, delivered, gaveUp>>
  BY DEF TakeOrphan, TakeDue, enrollmentVars, sendVars, historyVars
<1>2. SentRowsWereDelivered' /\ InOrder' /\ CursorIsInOrder'
  BY <1>1 DEF OrderInv, SentRowsWereDelivered, InOrder, CursorIsInOrder, Settled
<1>3. /\ \E j \in {[NoJob EXCEPT !.e = e],
                   [e |-> e, s |-> step[e] + 1, m |-> pin[e], due |-> due[e], cap |-> "ok"]} :
           job' = [job EXCEPT ![w] = j]
      /\ \E p \in {"stop", "resolve"} : pc' = [pc EXCEPT ![w] = p]
  BY DEF TakeOrphan, TakeDue
<1>4. WorkersAreInOrder'
  BY <1>1, <1>3 DEF OrderInv, WorkersAreInOrder, CursorIsInOrder, Settled, NoJob, Steps,
     TypeInv, TypeOK, WorkerType, EnrollmentType
<1> QED
  BY <1>2, <1>4 DEF OrderInv

LEMMA OrderInit == Init => OrderInv
BY SequenceSendAssumption DEF Init, OrderInv, SentRowsWereDelivered, WorkersAreInOrder,
   CursorIsInOrder, InOrder, Settled, Steps

LEMMA OrderStep ==
    TypeInv /\ OrderInv /\ [Next]_vars => OrderInv'
<1> SUFFICES ASSUME TypeInv, OrderInv, [Next]_vars PROVE OrderInv'
  OBVIOUS
<1>1. ASSUME NEW w \in Workers, ResolvePinned(w) PROVE OrderUndisturbed
  BY <1>1 DEF ResolvePinned, Resolved, sendVars, historyVars, OrderUndisturbed, TypeInv,
     TypeOK, WorkerType
<1>2. ASSUME NEW w \in Workers, ResolveClaim(w) PROVE OrderUndisturbed
  BY <1>2 DEF ResolveClaim, Resolved, sendVars, historyVars, OrderUndisturbed, TypeInv,
     TypeOK, WorkerType
<1>3. ASSUME NEW w \in Workers, ResolveExhausted(w) PROVE OrderUndisturbed
  BY <1>3 DEF ResolveExhausted, Resolved, sendVars, historyVars, OrderUndisturbed,
     TypeInv, TypeOK, WorkerType
<1>4. ASSUME NEW w \in Workers, Gate(w) PROVE OrderUndisturbed
  BY <1>4 DEF Gate, Goto, Return, enrollmentVars, sendVars, historyVars,
     OrderUndisturbed, TypeInv, TypeOK, WorkerType
<1>5. ASSUME NEW w \in Workers, StopStep(w) PROVE OrderUndisturbed
  BY <1>5 DEF StopStep, Return, MarkStepStopped, CommittedLast, TaskFails, sendVars,
     historyVars, OrderUndisturbed, TypeInv, TypeOK, WorkerType
<1>6. ASSUME NEW w \in Workers, ClaimWon(w) PROVE OrderUndisturbed
  BY <1>6 DEF ClaimWon, Goto, Return, Committed, TaskFails, enrollmentVars, historyVars,
     OrderUndisturbed, TypeInv, TypeOK, WorkerType
<1>7. ASSUME NEW w \in Workers, ClaimDeferred(w) PROVE OrderUndisturbed
  BY <1>7 DEF ClaimDeferred, Return, enrollmentVars, sendVars, historyVars,
     OrderUndisturbed, TypeInv, TypeOK, WorkerType
<1>8. ASSUME NEW w \in Workers, ClaimRefused(w) PROVE OrderUndisturbed
  BY <1>8 DEF ClaimRefused, Return, TaskFails, enrollmentVars, sendVars, historyVars,
     OrderUndisturbed, TypeInv, TypeOK, WorkerType
<1>9. ASSUME NEW w \in Workers, ReleaseStepSend(w) PROVE OrderUndisturbed
  BY <1>9 DEF ReleaseStepSend, Return, TaskFails, enrollmentVars, historyVars,
     OrderUndisturbed, TypeInv, TypeOK, WorkerType
<1>10. ASSUME NEW w \in Workers, Abort(w) PROVE OrderUndisturbed
  BY <1>10 DEF Abort, Return, TaskFails, enrollmentVars, sendVars, OrderUndisturbed,
     TypeInv, TypeOK, WorkerType
<1>11. ASSUME NEW w \in Workers, NEW e \in Enrollments, SkipInert(w, e) PROVE OrderUndisturbed
  BY <1>11 DEF SkipInert, enrollmentVars, sendVars, historyVars, OrderUndisturbed
<1>12. ASSUME NEW w \in Workers, NEW e \in Enrollments, TakeHeld(w, e) PROVE OrderUndisturbed
  BY <1>12 DEF TakeHeld, enrollmentVars, sendVars, historyVars, OrderUndisturbed
<1>13. ASSUME NEW e \in Enrollments, Sweep(e) PROVE OrderUndisturbed
  BY <1>13 DEF Sweep, enrollmentVars, sendVars, historyVars, OrderUndisturbed
<1>14. ASSUME Tick PROVE OrderUndisturbed
  BY <1>14 DEF Tick, historyVars, OrderUndisturbed, TypeInv, TypeOK, WorkerType, Jobs
<1>15. ASSUME NEW e \in Enrollments, Halt(e) PROVE OrderUndisturbed
  BY <1>15 DEF Halt, MarkStepStopped, sendVars, historyVars, OrderUndisturbed
<1>16. ASSUME NEW e \in Enrollments, DeferEnrollment(e) PROVE OrderUndisturbed
  BY <1>16 DEF DeferEnrollment, sendVars, historyVars, OrderUndisturbed
<1>17. ASSUME NEW e \in Enrollments, Suppress(e) PROVE OrderUndisturbed
  BY <1>17 DEF Suppress, enrollmentVars, sendVars, historyVars, OrderUndisturbed
<1>18. ASSUME NEW c, SetCampaign(c) PROVE OrderUndisturbed
  BY <1>18 DEF SetCampaign, enrollmentVars, sendVars, historyVars, OrderUndisturbed
<1>19. ASSUME NEW m \in Mailboxes, NEW c, SetCapacity(m, c) PROVE OrderUndisturbed
  BY <1>19 DEF SetCapacity, enrollmentVars, sendVars, historyVars, OrderUndisturbed
<1>20. ASSUME NEW m \in Mailboxes, DeleteMailbox(m) PROVE OrderUndisturbed
  BY <1>20 DEF DeleteMailbox, OrderUndisturbed
<1>21. CASE UNCHANGED vars
  BY <1>21, OrderFrame DEF vars, enrollmentVars, sendVars, historyVars, OrderUndisturbed
<1>22. ASSUME NEW w \in Workers, Work(w) \/ Abort(w) PROVE OrderInv'
  BY <1>22, <1>1, <1>2, <1>3, <1>4, <1>5, <1>6, <1>7, <1>8, <1>9, <1>10,
     AdvanceStepCursorOrder, ClaimLostOrder, FinalizeStepSendOrder,
     MarkStepDeliveredOrder, SendOrder, OrderFrame DEF Work
<1>23. ASSUME NEW w \in Workers, NEW e \in Enrollments, Start(w, e) PROVE OrderInv'
  BY <1>23, <1>11, <1>12, TakeOrder, OrderFrame DEF Start
<1>24. CASE \E e \in Enrollments : Sweep(e)
  BY <1>24, <1>13, OrderFrame
<1>25. CASE Tick
  BY <1>25, <1>14, OrderFrame
<1>26. CASE Environment
  BY <1>26, <1>15, <1>16, <1>17, <1>18, <1>19, <1>20, OrderFrame DEF Environment
<1> QED
  BY <1>21, <1>22, <1>23, <1>24, <1>25, <1>26 DEF Next

\* Steps go out in order, whatever the tasks of one enrollment do to each other.
THEOREM StepsGoOutInOrder == Spec => []InOrder
<1>1. TypeInv /\ OrderInv /\ [Next]_vars => TypeInv' /\ OrderInv'
  BY TypeStep, OrderStep
<1>2. OrderInv => InOrder
  BY DEF OrderInv
<1> QED
  BY <1>1, <1>2, TypeInit, OrderInit, PTL DEF Spec

\* An enrollment that is reported completed has every step mailed or given up.
THEOREM CompletionIsEarned == Spec => []CompletedMeansDone
<1>1. TypeInv /\ OrderInv /\ [Next]_vars => TypeInv' /\ OrderInv'
  BY TypeStep, OrderStep
<1>2. OrderInv => CompletedMeansDone
  BY SequenceSendAssumption DEF OrderInv, CursorIsInOrder, CompletedMeansDone, Settled, Steps
<1> QED
  BY <1>1, <1>2, TypeInit, OrderInit, PTL DEF Spec

-----------------------------------------------------------------------------
(* One voice                                                               *)

\* A row names the mailbox its thread is pinned to.
RowsSpeakForThePin ==
    \A e \in Enrollments, s \in Steps :
      ~reset[e] =>
        IF row[e][s] = "none" THEN rowMailbox[e][s] = None
        ELSE rowMailbox[e][s] = pin[e] /\ pin[e] \in Mailboxes

\* The worker has a sender it may send from.
HasSender(w) ==
    \/ pc[w] = "resolve" /\ job[w].m # None
    \/ pc[w] = "gate" /\ job[w].cap = "ok"
    \/ pc[w] \in {"claim"} \cup Claiming

WorkersSpeakForThePin ==
    \A w \in Workers :
      HasSender(w) /\ ~reset[job[w].e] => job[w].m = pin[job[w].e]

MailSpeaksForThePin ==
    \A e \in Enrollments : ~reset[e] => \A m \in from[e] : m = pin[e] /\ m \in Mailboxes

SenderInv == RowsSpeakForThePin /\ WorkersSpeakForThePin /\ MailSpeaksForThePin

\* What a step that resolves no sender, writes no row and sends nothing does to the
\* state SenderInv is about.
SenderUndisturbed ==
    /\ UNCHANGED <<pin, rowMailbox, from, reset>>
    /\ \A e \in Enrollments, s \in Steps : row'[e][s] = "none" <=> row[e][s] = "none"
    /\ \A v \in Workers :
         HasSender(v)' => HasSender(v) /\ job'[v].e = job[v].e /\ job'[v].m = job[v].m

LEMMA SenderFrame == ASSUME TypeInv, SenderInv, SenderUndisturbed PROVE SenderInv'
<1>1. RowsSpeakForThePin' /\ MailSpeaksForThePin'
  BY DEF SenderInv, RowsSpeakForThePin, MailSpeaksForThePin, SenderUndisturbed
<1>2. WorkersSpeakForThePin'
  BY DEF SenderInv, WorkersSpeakForThePin, SenderUndisturbed
<1> QED
  BY <1>1, <1>2 DEF SenderInv

\* The write-once pin: either the pin was empty and nothing spoke for it yet, or
\* the worker takes the pin that is there.
LEMMA ResolveClaimSender ==
    ASSUME TypeInv, SenderInv, NEW w \in Workers, ResolveClaim(w) PROVE SenderInv'
<1> PICK e \in Enrollments, chosen \in Mailboxes :
      LET stored == IF pin[e] = None THEN chosen ELSE pin[e] IN
      /\ e = job[w].e
      /\ pin' = [pin EXCEPT ![e] = stored]
      /\ Resolved(w, stored, capacity[stored])
  BY SequenceSendAssumption DEF ResolveClaim, poolRows, eligible, TypeInv, JobOK
<1> PICK stored \in Mailboxes :
      /\ stored = IF pin[e] = None THEN chosen ELSE pin[e]
      /\ pin' = [pin EXCEPT ![e] = stored]
      /\ job' = [job EXCEPT ![w] = [job[w] EXCEPT !.m = stored, !.cap = capacity[stored]]]
      /\ pc' = [pc EXCEPT ![w] = "gate"]
  BY DEF Resolved, TypeInv, TypeOK, EnrollmentType, WorkerType, Jobs
<1>1. UNCHANGED <<row, rowMailbox, from, reset>>
  BY DEF Resolved, sendVars, historyVars
<1>2. RowsSpeakForThePin' /\ MailSpeaksForThePin'
  BY <1>1, SequenceSendAssumption DEF SenderInv, RowsSpeakForThePin, MailSpeaksForThePin, TypeInv,
     TypeOK, EnrollmentType
<1>3. WorkersSpeakForThePin'
  <2> SUFFICES ASSUME NEW v \in Workers, HasSender(v)', ~reset[job'[v].e]
               PROVE  job'[v].m = pin'[job'[v].e]
    BY <1>1 DEF WorkersSpeakForThePin
  <2>1. CASE v = w
    BY <2>1 DEF TypeInv, TypeOK, EnrollmentType, WorkerType, Jobs
  <2>2. CASE v # w
    <3>1. HasSender(v) /\ job'[v] = job[v]
      BY <2>2 DEF HasSender, TypeInv, TypeOK, WorkerType
    <3>2. job[v].m = pin[job[v].e] /\ job[v].m # None /\ job[v].e \in Enrollments
      BY <3>1, SequenceSendAssumption DEF SenderInv, WorkersSpeakForThePin, HasSender,
         TypeInv, SenderOK, JobOK, Claiming
    <3> QED
      BY <3>1, <3>2 DEF TypeInv, TypeOK, EnrollmentType
  <2> QED
    BY <2>1, <2>2
<1> QED
  BY <1>2, <1>3 DEF SenderInv

LEMMA ClaimWonSender ==
    ASSUME TypeInv, SenderInv, NEW w \in Workers, ClaimWon(w) PROVE SenderInv'
<1> PICK e \in Enrollments, s \in Steps, m \in Mailboxes :
      e = job[w].e /\ s = job[w].s /\ m = job[w].m /\ pc[w] = "claim"
  BY DEF TypeInv, JobOK, SenderOK, ClaimWon
<1>1. UNCHANGED <<pin, from, reset>>
  BY DEF ClaimWon, enrollmentVars, historyVars
<1>2. ~reset[e] => m = pin[e]
  BY DEF SenderInv, WorkersSpeakForThePin, HasSender
<1>3. RowsSpeakForThePin'
  BY <1>1, <1>2, SequenceSendAssumption DEF SenderInv, RowsSpeakForThePin, ClaimWon, Claimable, TypeInv,
     TypeOK, SendType
<1>4. MailSpeaksForThePin'
  BY <1>1 DEF SenderInv, MailSpeaksForThePin
<1>5. WorkersSpeakForThePin'
  BY <1>1 DEF SenderInv, WorkersSpeakForThePin, HasSender, ClaimWon, Committed, Goto,
     TaskFails, Return, TypeInv, TypeOK, WorkerType, Claiming
<1> QED
  BY <1>3, <1>4, <1>5 DEF SenderInv

LEMMA SendSender ==
    ASSUME TypeInv, SenderInv, NEW w \in Workers, Send(w) PROVE SenderInv'
<1> PICK e \in Enrollments, m \in Mailboxes :
      e = job[w].e /\ m = job[w].m /\ pc[w] = "send"
  BY DEF TypeInv, JobOK, SenderOK, Send, Claiming
<1>1. UNCHANGED <<pin, row, rowMailbox, reset, job>>
  BY DEF Send, enrollmentVars, sendVars, Goto
<1>2. ~reset[e] => m = pin[e]
  BY DEF SenderInv, WorkersSpeakForThePin, HasSender, Claiming
<1>3. RowsSpeakForThePin'
  BY <1>1 DEF SenderInv, RowsSpeakForThePin
<1>4. MailSpeaksForThePin'
  <2>1. UNCHANGED from \/ from' = [from EXCEPT ![e] = @ \cup {m}]
    BY DEF Send
  <2>2. \A f \in Enrollments : \A n \in from'[f] : n \in from[f] \/ (f = e /\ n = m)
    BY <2>1 DEF TypeInv, TypeOK, HistoryType
  <2> QED
    BY <1>1, <1>2, <2>2 DEF SenderInv, MailSpeaksForThePin
<1>5. WorkersSpeakForThePin'
  <2>1. \A v \in Workers : HasSender(v)' => HasSender(v)
    BY <1>1 DEF Send, Goto, HasSender, Claiming, TypeInv, TypeOK, WorkerType
  <2> QED
    BY <1>1, <2>1 DEF SenderInv, WorkersSpeakForThePin
<1> QED
  BY <1>3, <1>4, <1>5 DEF SenderInv

LEMMA TakeDueSender ==
    ASSUME TypeInv, SenderInv, NEW w \in Workers, NEW e \in Enrollments, TakeDue(w, e)
    PROVE  SenderInv'
<1>1. UNCHANGED <<pin, row, rowMailbox, from, reset>>
  BY DEF TakeDue, enrollmentVars, sendVars, historyVars
<1>2. RowsSpeakForThePin' /\ MailSpeaksForThePin'
  BY <1>1 DEF SenderInv, RowsSpeakForThePin, MailSpeaksForThePin
<1>3. WorkersSpeakForThePin'
  BY <1>1 DEF SenderInv, WorkersSpeakForThePin, HasSender, TakeDue, Claiming, TypeInv, TypeOK,
     WorkerType
<1> QED
  BY <1>2, <1>3 DEF SenderInv

\* A deletion that resets no thread touches none of the rows of that thread.
LEMMA DeleteMailboxSpares ==
    ASSUME TypeInv, SenderInv, NEW m \in Mailboxes, DeleteMailbox(m),
           NEW e \in Enrollments, ~reset'[e]
    PROVE  /\ ~reset[e] /\ pin'[e] = pin[e]
           /\ \A s \in Steps : /\ row'[e][s] = row[e][s]
                               /\ rowMailbox'[e][s] = rowMailbox[e][s]
                               /\ lease'[e][s] = lease[e][s]
BY SequenceSendAssumption DEF SenderInv, RowsSpeakForThePin, DeleteMailbox

LEMMA DeleteMailboxSender ==
    ASSUME TypeInv, SenderInv, NEW m \in Mailboxes, DeleteMailbox(m) PROVE SenderInv'
<1>1. UNCHANGED <<from, pc, job>>
  BY DEF DeleteMailbox
<1>2. RowsSpeakForThePin'
  BY DeleteMailboxSpares DEF SenderInv, RowsSpeakForThePin
<1>3. MailSpeaksForThePin'
  BY <1>1, DeleteMailboxSpares DEF SenderInv, MailSpeaksForThePin
<1>4. WorkersSpeakForThePin'
  <2> SUFFICES ASSUME NEW w \in Workers, HasSender(w), ~reset'[job[w].e]
               PROVE  job[w].m = pin'[job[w].e]
    BY <1>1 DEF WorkersSpeakForThePin, HasSender
  <2>1. job[w].e \in Enrollments
    BY DEF HasSender, TypeInv, JobOK, Claiming
  <2> QED
    BY <2>1, DeleteMailboxSpares DEF SenderInv, WorkersSpeakForThePin
<1> QED
  BY <1>2, <1>3, <1>4 DEF SenderInv

LEMMA SenderInit == Init => SenderInv
BY DEF Init, SenderInv, RowsSpeakForThePin, WorkersSpeakForThePin, HasSender,
   MailSpeaksForThePin, Claiming

LEMMA SenderStep ==
    TypeInv /\ SenderInv /\ [Next]_vars => SenderInv'
<1> SUFFICES ASSUME TypeInv, SenderInv, [Next]_vars PROVE SenderInv'
  OBVIOUS
<1>1. ASSUME NEW w \in Workers, ResolvePinned(w) PROVE SenderUndisturbed
  BY <1>1 DEF ResolvePinned, Resolved, sendVars, historyVars, SenderUndisturbed,
     HasSender, TypeInv, TypeOK, WorkerType
<1>2. ASSUME NEW w \in Workers, ResolveExhausted(w) PROVE SenderUndisturbed
  BY <1>2 DEF ResolveExhausted, Resolved, sendVars, historyVars, SenderUndisturbed,
     HasSender, Claiming, TypeInv, TypeOK, WorkerType
<1>3. ASSUME NEW w \in Workers, Gate(w) PROVE SenderUndisturbed
  BY <1>3 DEF Gate, Goto, Return, enrollmentVars, sendVars, historyVars,
     SenderUndisturbed, HasSender, Claiming, TypeInv, TypeOK, WorkerType
<1>4. ASSUME NEW w \in Workers, StopStep(w) PROVE SenderUndisturbed
  BY <1>4 DEF StopStep, Return, MarkStepStopped, CommittedLast, TaskFails, sendVars,
     historyVars, SenderUndisturbed, HasSender, Claiming, TypeInv, TypeOK, WorkerType
<1>5. ASSUME NEW w \in Workers, ClaimDeferred(w) PROVE SenderUndisturbed
  BY <1>5 DEF ClaimDeferred, Return, enrollmentVars, sendVars, historyVars,
     SenderUndisturbed, HasSender, Claiming, TypeInv, TypeOK, WorkerType
<1>6. ASSUME NEW w \in Workers, ClaimRefused(w) PROVE SenderUndisturbed
  BY <1>6 DEF ClaimRefused, Return, TaskFails, enrollmentVars, sendVars, historyVars,
     SenderUndisturbed, HasSender, Claiming, TypeInv, TypeOK, WorkerType
<1>7. ASSUME NEW w \in Workers, ClaimLost(w) PROVE SenderUndisturbed
  BY <1>7 DEF ClaimLost, Goto, Return, enrollmentVars, sendVars, historyVars,
     SenderUndisturbed, HasSender, Claiming, TypeInv, TypeOK, WorkerType
<1>8. ASSUME NEW w \in Workers, MarkStepDelivered(w) PROVE SenderUndisturbed
  BY <1>8 DEF MarkStepDelivered, Goto, Return, SetSendResult, Committed, TaskFails,
     enrollmentVars, SenderUndisturbed, HasSender, Claiming, TypeInv, TypeOK, WorkerType
<1>9. ASSUME NEW w \in Workers, AdvanceStepCursor(w) PROVE SenderUndisturbed
  BY <1>9 DEF AdvanceStepCursor, Return, MarkStepSent, CommittedLast, TaskFails,
     enrollmentVars, sendVars, historyVars, SenderUndisturbed, HasSender, Claiming,
     TypeInv, TypeOK, WorkerType
<1>10. ASSUME NEW w \in Workers, ReleaseStepSend(w) PROVE SenderUndisturbed
  BY <1>10 DEF ReleaseStepSend, Return, TaskFails, enrollmentVars, historyVars,
     SenderUndisturbed, HasSender, Claiming, TypeInv, TypeOK, WorkerType
<1>11. ASSUME NEW w \in Workers, FinalizeStepSend(w) PROVE SenderUndisturbed
  BY <1>11 DEF FinalizeStepSend, Return, MarkStepSent, SetSendResult, CommittedLast,
     TaskFails, SenderUndisturbed, HasSender, Claiming, TypeInv, TypeOK, WorkerType
<1>12. ASSUME NEW w \in Workers, Abort(w) PROVE SenderUndisturbed
  BY <1>12 DEF Abort, Return, TaskFails, enrollmentVars, sendVars, SenderUndisturbed,
     HasSender, Claiming, TypeInv, TypeOK, WorkerType
<1>13. ASSUME NEW w \in Workers, NEW e \in Enrollments, SkipInert(w, e) PROVE SenderUndisturbed
  BY <1>13 DEF SkipInert, enrollmentVars, sendVars, historyVars, SenderUndisturbed,
     HasSender
<1>14. ASSUME NEW w \in Workers, NEW e \in Enrollments, TakeOrphan(w, e) PROVE SenderUndisturbed
  BY <1>14 DEF TakeOrphan, Take, enrollmentVars, sendVars, historyVars,
     SenderUndisturbed, HasSender, Claiming
<1>15. ASSUME NEW w \in Workers, NEW e \in Enrollments, TakeHeld(w, e) PROVE SenderUndisturbed
  BY <1>15 DEF TakeHeld, enrollmentVars, sendVars, historyVars, SenderUndisturbed,
     HasSender
<1>16. ASSUME NEW e \in Enrollments, Sweep(e) PROVE SenderUndisturbed
  BY <1>16 DEF Sweep, enrollmentVars, sendVars, historyVars, SenderUndisturbed,
     HasSender
<1>17. ASSUME Tick PROVE SenderUndisturbed
  BY <1>17 DEF Tick, historyVars, SenderUndisturbed, HasSender, TypeInv, TypeOK,
     WorkerType, Jobs
<1>18. ASSUME NEW e \in Enrollments, Halt(e) PROVE SenderUndisturbed
  BY <1>18 DEF Halt, MarkStepStopped, sendVars, historyVars, SenderUndisturbed,
     HasSender
<1>19. ASSUME NEW e \in Enrollments, DeferEnrollment(e) PROVE SenderUndisturbed
  BY <1>19 DEF DeferEnrollment, sendVars, historyVars, SenderUndisturbed, HasSender
<1>20. ASSUME NEW e \in Enrollments, Suppress(e) PROVE SenderUndisturbed
  BY <1>20 DEF Suppress, enrollmentVars, sendVars, historyVars, SenderUndisturbed,
     HasSender
<1>21. ASSUME NEW c, SetCampaign(c) PROVE SenderUndisturbed
  BY <1>21 DEF SetCampaign, enrollmentVars, sendVars, historyVars, SenderUndisturbed,
     HasSender
<1>22. ASSUME NEW m \in Mailboxes, NEW c, SetCapacity(m, c) PROVE SenderUndisturbed
  BY <1>22 DEF SetCapacity, enrollmentVars, sendVars, historyVars, SenderUndisturbed,
     HasSender
<1>23. CASE UNCHANGED vars
  BY <1>23, SenderFrame DEF vars, enrollmentVars, sendVars, historyVars,
     SenderUndisturbed, HasSender
<1>24. ASSUME NEW w \in Workers, Work(w) \/ Abort(w) PROVE SenderInv'
  BY <1>24, <1>1, <1>2, <1>3, <1>4, <1>5, <1>6, <1>7, <1>8, <1>9, <1>10, <1>11, <1>12,
     ClaimWonSender, ResolveClaimSender, SendSender, SenderFrame DEF Work
<1>25. ASSUME NEW w \in Workers, NEW e \in Enrollments, Start(w, e) PROVE SenderInv'
  BY <1>25, <1>13, <1>14, <1>15, TakeDueSender, SenderFrame DEF Start
<1>26. CASE \E e \in Enrollments : Sweep(e)
  BY <1>26, <1>16, SenderFrame
<1>27. CASE Tick
  BY <1>27, <1>17, SenderFrame
<1>28. CASE Environment
  BY <1>28, <1>18, <1>19, <1>20, <1>21, <1>22, DeleteMailboxSender, SenderFrame DEF Environment
<1> QED
  BY <1>23, <1>24, <1>25, <1>26, <1>27, <1>28 DEF Next

\* A contact hears from the pinned mailbox only, however many workers resolve the
\* sender of a fresh enrollment at once.
THEOREM ThreadsKeepTheirVoice == Spec => []OneVoice
<1>1. TypeInv /\ SenderInv /\ [Next]_vars => TypeInv' /\ SenderInv'
  BY TypeStep, SenderStep
<1>2. SenderInv => OneVoice
  BY DEF SenderInv, MailSpeaksForThePin, OneVoice
<1> QED
  BY <1>1, <1>2, TypeInit, SenderInit, PTL DEF Spec

-----------------------------------------------------------------------------
(* Claims and the ledger of deliveries                                     *)

\* A worker that holds a claim has less time left than its lease.
HolderHasLease ==
    \A w \in Workers :
      LET e == job[w].e  s == job[w].s IN
      pc[w] \in Claiming /\ ~reset[e] => row[e][s] = "sending" /\ lease[e][s] > ttl[w]

\* A worker holds an accepted message it has not reported yet.
Acking(e, s) == \E w \in Workers : pc[w] = "ack" /\ job[w].e = e /\ job[w].s = s

\* Every delivery is on the row, in a worker's hands, or one of the two kinds the
\* database never learns of.
Accounts ==
    \A e \in Enrollments, s \in Steps :
      ~reset[e] =>
        delivered[e][s] = lost[e][s] + hidden[e][s]
                          + (IF row[e][s] = "sent" \/ Acking(e, s) THEN 1 ELSE 0)

LeaseInv == HolderHasLease /\ ClaimExclusive /\ Accounts

\* What a step that neither claims nor settles a step does to the state LeaseInv is
\* about.
LeaseUndisturbed ==
    /\ UNCHANGED <<row, lease, delivered, lost, hidden, reset>>
    /\ \A v \in Workers :
         pc[v] \in Claiming \/ pc'[v] \in Claiming =>
           /\ pc'[v] = pc[v] /\ ttl'[v] = ttl[v]
           /\ job'[v].e = job[v].e /\ job'[v].s = job[v].s

LEMMA LeaseFrame == ASSUME TypeInv, LeaseInv, LeaseUndisturbed PROVE LeaseInv'
<1>1. HolderHasLease'
  BY DEF LeaseInv, HolderHasLease, LeaseUndisturbed
<1>2. ClaimExclusive'
  BY DEF LeaseInv, ClaimExclusive, LeaseUndisturbed
<1>3. \A e, s : Acking(e, s)' <=> Acking(e, s)
  BY DEF Acking, LeaseUndisturbed, Claiming
<1>4. Accounts'
  BY <1>3 DEF LeaseInv, Accounts, LeaseUndisturbed
<1> QED
  BY <1>1, <1>2, <1>4 DEF LeaseInv

\* A claim is won only when no other execution holds the step: a holder's lease has
\* not run out.
LEMMA ClaimWonLease ==
    ASSUME TypeInv, LeaseInv, NEW w \in Workers, ClaimWon(w) PROVE LeaseInv'
<1> PICK e \in Enrollments, s \in Steps : e = job[w].e /\ s = job[w].s /\ pc[w] = "claim"
  BY DEF TypeInv, JobOK, ClaimWon
<1>1. /\ UNCHANGED <<delivered, lost, hidden, reset>>
      /\ row' = [row EXCEPT ![e][s] = "sending"]
      /\ lease' = [lease EXCEPT ![e][s] = Lease]
      /\ \/ pc' = [pc EXCEPT ![w] = "send"] /\ UNCHANGED <<job, ttl>>
         \/ /\ pc' = [pc EXCEPT ![w] = "idle"]
            /\ job' = [job EXCEPT ![w] = NoJob]
            /\ ttl' = [ttl EXCEPT ![w] = 0]
  BY DEF ClaimWon, historyVars, Committed, Goto, TaskFails, Return
<1>2. \A v \in Workers : pc[v] \in Claiming /\ ~reset[e] => job[v].e # e \/ job[v].s # s
  BY DEF LeaseInv, HolderHasLease, ClaimWon, Claimable, TypeInv, TypeOK, WorkerType
<1>3. \A v \in Workers : v # w => pc'[v] = pc[v] /\ job'[v] = job[v] /\ ttl'[v] = ttl[v]
  BY <1>1 DEF TypeInv, TypeOK, WorkerType
<1>4. pc'[w] \in Claiming => job'[w] = job[w] /\ ttl'[w] = ttl[w]
  BY <1>1 DEF TypeInv, TypeOK, WorkerType, Claiming
<1>5. HolderHasLease'
  BY <1>1, <1>2, <1>3, <1>4, SequenceSendAssumption DEF LeaseInv, HolderHasLease, TypeInv, TypeOK,
     WorkerType, SendType, JobOK, Claiming
<1>6. ClaimExclusive'
  BY <1>1, <1>2, <1>3, <1>4 DEF LeaseInv, ClaimExclusive
<1>7. Accounts'
  <2>1. \A f, r : Acking(f, r)' <=> Acking(f, r)
    BY <1>1, <1>3 DEF Acking, TypeInv, TypeOK, WorkerType
  <2>2. row[e][s] # "sent"
    BY DEF ClaimWon, Claimable
  <2> QED
    BY <1>1, <2>1, <2>2 DEF LeaseInv, Accounts, TypeInv, TypeOK, SendType
<1> QED
  BY <1>5, <1>6, <1>7 DEF LeaseInv

\* The provider call: the message is on the ledger under the worker's own entry.
LEMMA SendLease ==
    ASSUME TypeInv, LeaseInv, NEW w \in Workers, Send(w) PROVE LeaseInv'
<1> PICK e \in Enrollments, s \in Steps : e = job[w].e /\ s = job[w].s /\ pc[w] = "send"
  BY DEF TypeInv, JobOK, Send
<1>1. /\ UNCHANGED <<row, lease, lost, reset, job, ttl>>
      /\ \E p \in {"ack", "release", "fail"} : pc' = [pc EXCEPT ![w] = p]
  BY DEF Send, sendVars, Goto
<1>2. \A v \in Workers : pc'[v] \in Claiming <=> pc[v] \in Claiming
  BY <1>1 DEF Claiming, TypeInv, TypeOK, WorkerType
<1>3. HolderHasLease' /\ ClaimExclusive'
  BY <1>1, <1>2 DEF LeaseInv, HolderHasLease, ClaimExclusive
<1>4. \A f, r : (f # e \/ r # s) => (Acking(f, r)' <=> Acking(f, r))
  BY <1>1 DEF Acking, TypeInv, TypeOK, WorkerType
<1>5. ~reset[e] => ~Acking(e, s) /\ row[e][s] = "sending"
  BY DEF LeaseInv, HolderHasLease, ClaimExclusive, Acking, Claiming
<1>6. ~reset[e] => (Acking(e, s)' <=> pc'[w] = "ack")
  BY <1>1, <1>5 DEF Acking, TypeInv, TypeOK, WorkerType
<1>7. /\ \A f \in Enrollments, r \in Steps :
           (f # e \/ r # s) =>
             delivered'[f][r] = delivered[f][r] /\ hidden'[f][r] = hidden[f][r]
      /\ pc'[w] = "ack" =>
           delivered'[e][s] = delivered[e][s] + 1 /\ hidden'[e][s] = hidden[e][s]
      /\ pc'[w] # "ack" =>
           \E n \in {0, 1} : /\ delivered'[e][s] = delivered[e][s] + n
                             /\ hidden'[e][s] = hidden[e][s] + n
  <2>1. PICK outcome \in Outcomes :
          /\ pc'[w] = "ack" <=> outcome = "accepted"
          /\ IF outcome \in GoesOut THEN delivered' = [delivered EXCEPT ![e][s] = @ + 1]
             ELSE UNCHANGED delivered
          /\ hidden' = [hidden EXCEPT ![e][s] =
                          IF outcome \in GoesOut \ {"accepted"} THEN @ + 1 ELSE @]
    BY DEF Send, Goto, TypeInv, TypeOK, WorkerType
  <2>2. delivered \in [Enrollments -> [Steps -> Nat]] /\ hidden \in [Enrollments -> [Steps -> Nat]]
    BY DEF TypeInv, TypeOK, HistoryType
  <2>3. CASE outcome \notin GoesOut
    BY <2>1, <2>2, <2>3 DEF GoesOut
  <2>4. CASE outcome = "accepted"
    BY <2>1, <2>2, <2>4 DEF GoesOut
  <2>5. CASE outcome \in GoesOut \ {"accepted"}
    BY <2>1, <2>2, <2>5
  <2> QED
    BY <2>3, <2>4, <2>5
<1>8. Accounts'
  <2> SUFFICES ASSUME NEW f \in Enrollments, NEW r \in Steps, ~reset[f]
               PROVE  delivered'[f][r] = lost[f][r] + hidden'[f][r]
                        + (IF row[f][r] = "sent" \/ Acking(f, r)' THEN 1 ELSE 0)
    BY <1>1 DEF Accounts
  <2>1. /\ delivered[f][r] = lost[f][r] + hidden[f][r]
                             + (IF row[f][r] = "sent" \/ Acking(f, r) THEN 1 ELSE 0)
        /\ lost[f][r] \in Nat /\ hidden[f][r] \in Nat
    BY DEF LeaseInv, Accounts, TypeInv, TypeOK, HistoryType
  <2>2. CASE f # e \/ r # s
    BY <1>4, <1>7, <2>1, <2>2
  <2>3. CASE f = e /\ r = s
    BY <1>5, <1>6, <1>7, <2>1, <2>3
  <2> QED
    BY <2>2, <2>3
<1> QED
  BY <1>3, <1>8 DEF LeaseInv

\* A holder that leaves: the lease and the row of its own step may change, and
\* whatever it leaves on the row or on the books must balance the ledger.
LEMMA HolderLeaves ==
    ASSUME TypeInv, LeaseInv, NEW w \in Workers, pc[w] \in Claiming,
           NEW e \in Enrollments, NEW s \in Steps, e = job[w].e, s = job[w].s,
           UNCHANGED reset,
           pc'[w] \notin Claiming,
           \A v \in Workers :
             v # w => pc'[v] = pc[v] /\ job'[v] = job[v] /\ ttl'[v] = ttl[v],
           \A f \in Enrollments, r \in Steps :
             (f # e \/ r # s) =>
               /\ row'[f][r] = row[f][r] /\ lease'[f][r] = lease[f][r]
               /\ delivered'[f][r] = delivered[f][r]
               /\ lost'[f][r] = lost[f][r] /\ hidden'[f][r] = hidden[f][r],
           ~reset[e] =>
             delivered'[e][s] = lost'[e][s] + hidden'[e][s]
                                + (IF row'[e][s] = "sent" THEN 1 ELSE 0)
    PROVE  LeaseInv'
<1>1. \A v \in Workers :
        (v # w /\ pc[v] \in Claiming /\ ~reset[e]) => job[v].e # e \/ job[v].s # s
  BY DEF LeaseInv, ClaimExclusive
<1>2. HolderHasLease'
  BY <1>1 DEF LeaseInv, HolderHasLease, TypeInv, JobOK, Claiming
<1>3. ClaimExclusive'
  BY DEF LeaseInv, ClaimExclusive
<1>4. \A f \in Enrollments, r \in Steps :
        (f # e \/ r # s) => (Acking(f, r)' <=> Acking(f, r))
  BY DEF Acking, Claiming
<1>5. ~reset[e] => ~Acking(e, s)'
  BY <1>1 DEF Acking, Claiming
<1>6. Accounts'
  BY <1>4, <1>5 DEF LeaseInv, Accounts
<1> QED
  BY <1>2, <1>3, <1>6 DEF LeaseInv

LEMMA MarkStepDeliveredLease ==
    ASSUME TypeInv, LeaseInv, NEW w \in Workers, MarkStepDelivered(w) PROVE LeaseInv'
<1> PICK e \in Enrollments, s \in Steps : e = job[w].e /\ s = job[w].s /\ pc[w] = "ack"
  BY DEF TypeInv, JobOK, MarkStepDelivered
<1>1. /\ UNCHANGED <<delivered, lost, hidden, reset>>
      /\ SetSendResult(e, s, "sent")
      /\ pc'[w] \notin Claiming
      /\ \A v \in Workers :
           v # w => pc'[v] = pc[v] /\ job'[v] = job[v] /\ ttl'[v] = ttl[v]
  BY DEF MarkStepDelivered, Committed, Goto, TaskFails, Return, Claiming, TypeInv, TypeOK,
     WorkerType
<1>2. ~reset[e] => row[e][s] = "sending" /\ Acking(e, s)
  BY DEF LeaseInv, HolderHasLease, Acking, Claiming
<1>3. ~reset[e] => delivered[e][s] = lost[e][s] + hidden[e][s] + 1
  BY <1>2 DEF LeaseInv, Accounts
<1>4. ~reset[e] => row'[e][s] = "sent"
  BY <1>1, <1>2 DEF SetSendResult, TypeInv, TypeOK, SendType
<1>5. \A f \in Enrollments, r \in Steps :
        (f # e \/ r # s) => row'[f][r] = row[f][r] /\ lease'[f][r] = lease[f][r]
  BY <1>1 DEF SetSendResult, TypeInv, TypeOK, SendType
<1> QED
  BY <1>1, <1>3, <1>4, <1>5, HolderLeaves DEF Claiming

\* A holder at another control point than "ack" has nothing on the ledger.
LEMMA HolderOwesNothing ==
    ASSUME TypeInv, LeaseInv, NEW w \in Workers, pc[w] \in Claiming \ {"ack"},
           ~reset[job[w].e]
    PROVE  /\ row[job[w].e][job[w].s] = "sending"
           /\ delivered[job[w].e][job[w].s]
                = lost[job[w].e][job[w].s] + hidden[job[w].e][job[w].s]
<1> PICK e \in Enrollments, s \in Steps : e = job[w].e /\ s = job[w].s
  BY DEF TypeInv, JobOK, Claiming
<1>1. row[e][s] = "sending"
  BY DEF LeaseInv, HolderHasLease
<1>2. ~Acking(e, s)
  BY DEF LeaseInv, ClaimExclusive, Acking, Claiming
<1>3. delivered[e][s] = lost[e][s] + hidden[e][s] + 0
  BY <1>1, <1>2 DEF LeaseInv, Accounts
<1>4. lost[e][s] \in Nat /\ hidden[e][s] \in Nat
  BY DEF TypeInv, TypeOK, HistoryType
<1> QED
  BY <1>1, <1>3, <1>4

LEMMA ReleaseStepSendLease ==
    ASSUME TypeInv, LeaseInv, NEW w \in Workers, ReleaseStepSend(w) PROVE LeaseInv'
<1> PICK e \in Enrollments, s \in Steps : e = job[w].e /\ s = job[w].s /\ pc[w] = "release"
  BY DEF TypeInv, JobOK, ReleaseStepSend
<1>1. /\ UNCHANGED <<row, delivered, lost, hidden, reset>>
      /\ pc'[w] \notin Claiming
      /\ \A v \in Workers :
           v # w => pc'[v] = pc[v] /\ job'[v] = job[v] /\ ttl'[v] = ttl[v]
      /\ \A f \in Enrollments, r \in Steps :
           (f # e \/ r # s) => lease'[f][r] = lease[f][r]
  BY DEF ReleaseStepSend, historyVars, TaskFails, Return, Claiming, TypeInv, TypeOK, WorkerType,
     SendType
<1>2. ~reset[e] => delivered'[e][s] = lost'[e][s] + hidden'[e][s]
                            + (IF row'[e][s] = "sent" THEN 1 ELSE 0)
  BY <1>1, HolderOwesNothing DEF Claiming, TypeInv, TypeOK, HistoryType
<1> QED
  BY <1>1, <1>2, HolderLeaves DEF Claiming

LEMMA FinalizeStepSendLease ==
    ASSUME TypeInv, LeaseInv, NEW w \in Workers, FinalizeStepSend(w) PROVE LeaseInv'
<1> PICK e \in Enrollments, s \in Steps : e = job[w].e /\ s = job[w].s /\ pc[w] = "fail"
  BY DEF TypeInv, JobOK, FinalizeStepSend
<1>1. /\ UNCHANGED <<delivered, lost, hidden, reset>>
      /\ SetSendResult(e, s, "failed")
      /\ pc'[w] \notin Claiming
      /\ \A v \in Workers :
           v # w => pc'[v] = pc[v] /\ job'[v] = job[v] /\ ttl'[v] = ttl[v]
  BY DEF FinalizeStepSend, CommittedLast, TaskFails, Return, Claiming, TypeInv, TypeOK, WorkerType
<1>2. row'[e][s] # "sent" \/ reset[e]
  BY <1>1, HolderOwesNothing DEF SetSendResult, TypeInv, TypeOK, SendType, Claiming
<1>3. \A f \in Enrollments, r \in Steps :
        (f # e \/ r # s) => row'[f][r] = row[f][r] /\ lease'[f][r] = lease[f][r]
  BY <1>1 DEF SetSendResult, TypeInv, TypeOK, SendType
<1>4. ~reset[e] => delivered'[e][s] = lost'[e][s] + hidden'[e][s]
                            + (IF row'[e][s] = "sent" THEN 1 ELSE 0)
  BY <1>1, <1>2, HolderOwesNothing DEF Claiming, TypeInv, TypeOK, HistoryType
<1> QED
  BY <1>1, <1>3, <1>4, HolderLeaves DEF Claiming

LEMMA AbortLease ==
    ASSUME TypeInv, LeaseInv, NEW w \in Workers, Abort(w) PROVE LeaseInv'
<1>1. /\ UNCHANGED <<row, lease, delivered, hidden, reset>>
      /\ pc' = [pc EXCEPT ![w] = "idle"]
      /\ pc'[w] \notin Claiming
      /\ \A v \in Workers :
           v # w => pc'[v] = pc[v] /\ job'[v] = job[v] /\ ttl'[v] = ttl[v]
  BY DEF Abort, sendVars, TaskFails, Return, Claiming, TypeInv, TypeOK, WorkerType
<1>2. CASE pc[w] \notin Claiming
  <2>1. UNCHANGED lost
    BY <1>2 DEF Abort, Claiming
  <2> QED
    BY <1>1, <1>2, <2>1, LeaseFrame DEF LeaseUndisturbed
<1>3. CASE pc[w] \in Claiming
  <2> PICK e \in Enrollments, s \in Steps : e = job[w].e /\ s = job[w].s
    BY <1>3 DEF TypeInv, JobOK, Claiming
  <2>1. CASE pc[w] = "ack"
    <3>1. lost' = [lost EXCEPT ![e][s] = @ + 1]
      BY <2>1 DEF Abort
    <3>2. ~reset[e] => row[e][s] = "sending" /\ Acking(e, s)
      BY <2>1 DEF LeaseInv, HolderHasLease, Acking, Claiming
    <3>3. ~reset[e] => delivered[e][s] = lost[e][s] + hidden[e][s] + 1
      BY <3>2 DEF LeaseInv, Accounts
    <3>4. /\ lost'[e][s] = lost[e][s] + 1
          /\ \A f \in Enrollments, r \in Steps :
               (f # e \/ r # s) => lost'[f][r] = lost[f][r]
          /\ lost[e][s] \in Nat /\ hidden[e][s] \in Nat /\ delivered[e][s] \in Nat
      BY <3>1 DEF TypeInv, TypeOK, HistoryType
    <3>5. ~reset[e] => delivered'[e][s] = lost'[e][s] + hidden'[e][s]
                                + (IF row'[e][s] = "sent" THEN 1 ELSE 0)
      BY <1>1, <3>2, <3>3, <3>4
    <3> QED
      BY <1>1, <1>3, <3>4, <3>5, HolderLeaves
  <2>2. CASE pc[w] # "ack"
    <3>1. UNCHANGED lost
      BY <2>2 DEF Abort
    <3>2. ~reset[e] => delivered'[e][s] = lost'[e][s] + hidden'[e][s]
                                + (IF row'[e][s] = "sent" THEN 1 ELSE 0)
      BY <1>1, <1>3, <2>2, <3>1, HolderOwesNothing DEF TypeInv, TypeOK, HistoryType
    <3> QED
      BY <1>1, <1>3, <3>1, <3>2, HolderLeaves
  <2> QED
    BY <2>1, <2>2
<1> QED
  BY <1>2, <1>3

\* Time runs equally for a holder and for its lease.
LEMMA TickLease == ASSUME TypeInv, LeaseInv, Tick PROVE LeaseInv'
<1>1. UNCHANGED <<row, delivered, lost, hidden, reset, pc>>
  BY DEF Tick, historyVars
<1>2. \A w \in Workers : job'[w].e = job[w].e /\ job'[w].s = job[w].s
  BY DEF Tick, TypeInv, TypeOK, WorkerType, Jobs
<1>3. HolderHasLease'
  <2> SUFFICES ASSUME NEW w \in Workers, pc[w] \in Claiming, ~reset[job[w].e]
               PROVE  /\ row[job[w].e][job[w].s] = "sending"
                      /\ lease'[job[w].e][job[w].s] > ttl'[w]
    BY <1>1, <1>2 DEF HolderHasLease
  <2> PICK e \in Enrollments, s \in Steps : e = job[w].e /\ s = job[w].s
    BY DEF TypeInv, JobOK, Claiming
  <2>1. row[e][s] = "sending" /\ lease[e][s] > ttl[w] /\ ttl[w] > 0
    BY DEF LeaseInv, HolderHasLease, Tick, Claiming
  <2>2. lease'[e][s] = lease[e][s] - 1 /\ ttl'[w] = ttl[w] - 1
    BY <2>1, SequenceSendAssumption DEF Tick, Countdown, TypeInv, TypeOK, SendType, WorkerType
  <2> QED
    BY <2>1, <2>2, SequenceSendAssumption DEF TypeInv, TypeOK, SendType, WorkerType
<1>4. ClaimExclusive'
  BY <1>1, <1>2 DEF LeaseInv, ClaimExclusive
<1>5. \A e, s : Acking(e, s)' <=> Acking(e, s)
  BY <1>1, <1>2 DEF Acking
<1>6. Accounts'
  BY <1>1, <1>5 DEF LeaseInv, Accounts
<1> QED
  BY <1>3, <1>4, <1>6 DEF LeaseInv

LEMMA DeleteMailboxLease ==
    ASSUME TypeInv, SenderInv, LeaseInv, NEW m \in Mailboxes, DeleteMailbox(m) PROVE LeaseInv'
<1>1. UNCHANGED <<pc, job, ttl, delivered, lost, hidden>>
  BY DEF DeleteMailbox
<1>2. HolderHasLease'
  BY <1>1, DeleteMailboxSpares DEF LeaseInv, HolderHasLease, TypeInv, JobOK, Claiming
<1>3. ClaimExclusive'
  BY <1>1, DeleteMailboxSpares DEF LeaseInv, ClaimExclusive, TypeInv, JobOK, Claiming
<1>4. Accounts'
  BY <1>1, DeleteMailboxSpares DEF LeaseInv, Accounts, Acking
<1> QED
  BY <1>2, <1>3, <1>4 DEF LeaseInv

LEMMA LeaseInit == Init => LeaseInv
BY DEF Init, LeaseInv, HolderHasLease, ClaimExclusive, Accounts, Acking, Claiming

LEMMA LeaseStep ==
    TypeInv /\ SenderInv /\ LeaseInv /\ [Next]_vars => LeaseInv'
<1> SUFFICES ASSUME TypeInv, SenderInv, LeaseInv, [Next]_vars PROVE LeaseInv'
  OBVIOUS
<1>1. ASSUME NEW w \in Workers, ResolvePinned(w) PROVE LeaseUndisturbed
  BY <1>1 DEF ResolvePinned, Resolved, sendVars, historyVars, LeaseUndisturbed,
     Claiming, TypeInv, TypeOK, WorkerType
<1>2. ASSUME NEW w \in Workers, ResolveClaim(w) PROVE LeaseUndisturbed
  BY <1>2 DEF ResolveClaim, Resolved, sendVars, historyVars, LeaseUndisturbed, Claiming,
     TypeInv, TypeOK, WorkerType
<1>3. ASSUME NEW w \in Workers, ResolveExhausted(w) PROVE LeaseUndisturbed
  BY <1>3 DEF ResolveExhausted, Resolved, sendVars, historyVars, LeaseUndisturbed,
     Claiming, TypeInv, TypeOK, WorkerType
<1>4. ASSUME NEW w \in Workers, Gate(w) PROVE LeaseUndisturbed
  BY <1>4 DEF Gate, Goto, Return, sendVars, historyVars, LeaseUndisturbed, Claiming,
     TypeInv, TypeOK, WorkerType
<1>5. ASSUME NEW w \in Workers, StopStep(w) PROVE LeaseUndisturbed
  BY <1>5 DEF StopStep, Return, CommittedLast, TaskFails, sendVars, historyVars,
     LeaseUndisturbed, Claiming, TypeInv, TypeOK, WorkerType
<1>6. ASSUME NEW w \in Workers, ClaimDeferred(w) PROVE LeaseUndisturbed
  BY <1>6 DEF ClaimDeferred, Return, sendVars, historyVars, LeaseUndisturbed, Claiming
<1>7. ASSUME NEW w \in Workers, ClaimRefused(w) PROVE LeaseUndisturbed
  BY <1>7 DEF ClaimRefused, Return, TaskFails, sendVars, historyVars, LeaseUndisturbed,
     Claiming
<1>8. ASSUME NEW w \in Workers, ClaimLost(w) PROVE LeaseUndisturbed
  BY <1>8 DEF ClaimLost, Goto, Return, sendVars, historyVars, LeaseUndisturbed,
     Claiming, TypeInv, TypeOK, WorkerType
<1>9. ASSUME NEW w \in Workers, AdvanceStepCursor(w) PROVE LeaseUndisturbed
  BY <1>9 DEF AdvanceStepCursor, Return, CommittedLast, TaskFails, sendVars,
     historyVars, LeaseUndisturbed, Claiming, TypeInv, TypeOK, WorkerType
<1>10. ASSUME NEW w \in Workers, NEW e \in Enrollments, SkipInert(w, e) PROVE LeaseUndisturbed
  BY <1>10 DEF SkipInert, sendVars, historyVars, LeaseUndisturbed
<1>11. ASSUME NEW w \in Workers, NEW e \in Enrollments, TakeOrphan(w, e) PROVE LeaseUndisturbed
  BY <1>11 DEF TakeOrphan, Take, sendVars, historyVars, LeaseUndisturbed, Claiming
<1>12. ASSUME NEW w \in Workers, NEW e \in Enrollments, TakeHeld(w, e) PROVE LeaseUndisturbed
  BY <1>12 DEF TakeHeld, sendVars, historyVars, LeaseUndisturbed
<1>13. ASSUME NEW w \in Workers, NEW e \in Enrollments, TakeDue(w, e) PROVE LeaseUndisturbed
  BY <1>13 DEF TakeDue, Take, sendVars, historyVars, LeaseUndisturbed, Claiming
<1>14. ASSUME NEW e \in Enrollments, Sweep(e) PROVE LeaseUndisturbed
  BY <1>14 DEF Sweep, sendVars, historyVars, LeaseUndisturbed
<1>15. ASSUME NEW e \in Enrollments, Halt(e) PROVE LeaseUndisturbed
  BY <1>15 DEF Halt, sendVars, historyVars, LeaseUndisturbed
<1>16. ASSUME NEW e \in Enrollments, DeferEnrollment(e) PROVE LeaseUndisturbed
  BY <1>16 DEF DeferEnrollment, sendVars, historyVars, LeaseUndisturbed
<1>17. ASSUME NEW e \in Enrollments, Suppress(e) PROVE LeaseUndisturbed
  BY <1>17 DEF Suppress, sendVars, historyVars, LeaseUndisturbed
<1>18. ASSUME NEW c, SetCampaign(c) PROVE LeaseUndisturbed
  BY <1>18 DEF SetCampaign, sendVars, historyVars, LeaseUndisturbed
<1>19. ASSUME NEW m \in Mailboxes, NEW c, SetCapacity(m, c) PROVE LeaseUndisturbed
  BY <1>19 DEF SetCapacity, sendVars, historyVars, LeaseUndisturbed
<1>20. CASE UNCHANGED vars
  BY <1>20, LeaseFrame DEF vars, sendVars, historyVars, LeaseUndisturbed
<1>21. ASSUME NEW w \in Workers, Work(w) \/ Abort(w) PROVE LeaseInv'
  BY <1>21, <1>1, <1>2, <1>3, <1>4, <1>5, <1>6, <1>7, <1>8, <1>9, AbortLease,
     ClaimWonLease, FinalizeStepSendLease, MarkStepDeliveredLease, ReleaseStepSendLease,
     SendLease, LeaseFrame DEF Work
<1>22. ASSUME NEW w \in Workers, NEW e \in Enrollments, Start(w, e) PROVE LeaseInv'
  BY <1>22, <1>10, <1>11, <1>12, <1>13, LeaseFrame DEF Start
<1>23. CASE \E e \in Enrollments : Sweep(e)
  BY <1>23, <1>14, LeaseFrame
<1>24. CASE Tick
  BY <1>24, TickLease
<1>25. CASE Environment
  BY <1>25, <1>15, <1>16, <1>17, <1>18, <1>19, DeleteMailboxLease, LeaseFrame DEF Environment
<1> QED
  BY <1>20, <1>21, <1>22, <1>23, <1>24, <1>25 DEF Next

LEMMA ClaimStep ==
    TypeInv /\ SenderInv /\ LeaseInv /\ [Next]_vars => TypeInv' /\ SenderInv' /\ LeaseInv'
BY TypeStep, SenderStep, LeaseStep

\* No two executions ever hold the claim on the same step of a thread.
THEOREM ClaimsAreExclusive == Spec => []ClaimExclusive
<1>1. LeaseInv => ClaimExclusive
  BY DEF LeaseInv
<1> QED
  BY <1>1, ClaimStep, TypeInit, SenderInit, LeaseInit, PTL DEF Spec

\* A step is delivered again only for a delivery the database never learned of.
THEOREM DuplicatesAreAccountedFor == Spec => []DuplicatesArePaidFor
<1>1. TypeInv /\ LeaseInv => DuplicatesArePaidFor
  BY DEF LeaseInv, Accounts, DuplicatesArePaidFor, TypeInv, TypeOK, HistoryType
<1> QED
  BY <1>1, ClaimStep, TypeInit, SenderInit, LeaseInit, PTL DEF Spec

-----------------------------------------------------------------------------
(* Mail after a stop                                                       *)

\* A step given up keeps its 'failed' row.
GaveUpInv ==
    \A e \in Enrollments, s \in Steps :
      ~reset[e] /\ s \in gaveUp[e] => row[e][s] = "failed"

GaveUpUndisturbed ==
    /\ UNCHANGED <<gaveUp, reset>>
    /\ \A e \in Enrollments, s \in Steps : row[e][s] = "failed" => row'[e][s] = "failed"

LEMMA GaveUpFrame == ASSUME TypeInv, GaveUpInv, GaveUpUndisturbed PROVE GaveUpInv'
BY DEF GaveUpInv, GaveUpUndisturbed

LEMMA MarkStepDeliveredGaveUp ==
    ASSUME TypeInv, LeaseInv, GaveUpInv, NEW w \in Workers, MarkStepDelivered(w)
    PROVE  GaveUpInv'
<1> PICK e \in Enrollments, s \in Steps : e = job[w].e /\ s = job[w].s /\ pc[w] = "ack"
  BY DEF TypeInv, JobOK, MarkStepDelivered
<1>1. ~reset[e] => row[e][s] = "sending"
  BY DEF LeaseInv, HolderHasLease, Claiming
<1> QED
  BY <1>1 DEF GaveUpInv, MarkStepDelivered, SetSendResult, TypeInv, TypeOK, SendType

LEMMA FinalizeStepSendGaveUp ==
    ASSUME TypeInv, LeaseInv, GaveUpInv, NEW w \in Workers, FinalizeStepSend(w)
    PROVE  GaveUpInv'
<1> PICK e \in Enrollments, s \in Steps : e = job[w].e /\ s = job[w].s /\ pc[w] = "fail"
  BY DEF TypeInv, JobOK, FinalizeStepSend
<1>1. ~reset[e] => row[e][s] = "sending"
  BY DEF LeaseInv, HolderHasLease, Claiming
<1>2. gaveUp' = [gaveUp EXCEPT ![e] = @ \cup {s}] /\ UNCHANGED reset
  BY DEF FinalizeStepSend
<1>3. \A f \in Enrollments, r \in Steps : r \in gaveUp'[f] => r \in gaveUp[f] \/ (f = e /\ r = s)
  BY <1>2 DEF TypeInv, TypeOK, HistoryType
<1>4. \A f \in Enrollments, r \in Steps :
        row'[f][r] = IF f = e /\ r = s /\ row[f][r] # "none" THEN "failed" ELSE row[f][r]
  BY DEF FinalizeStepSend, SetSendResult, TypeInv, TypeOK, SendType
<1> QED
  BY <1>1, <1>2, <1>3, <1>4 DEF GaveUpInv

LEMMA DeleteMailboxGaveUp ==
    ASSUME TypeInv, SenderInv, GaveUpInv, NEW m \in Mailboxes, DeleteMailbox(m)
    PROVE  GaveUpInv'
<1>1. UNCHANGED gaveUp
  BY DEF DeleteMailbox
<1> QED
  BY <1>1, DeleteMailboxSpares DEF GaveUpInv

LEMMA GaveUpInit == Init => GaveUpInv
BY DEF Init, GaveUpInv

LEMMA GaveUpStep ==
    TypeInv /\ SenderInv /\ LeaseInv /\ GaveUpInv /\ [Next]_vars => GaveUpInv'
<1> SUFFICES ASSUME TypeInv, SenderInv, LeaseInv, GaveUpInv, [Next]_vars PROVE GaveUpInv'
  OBVIOUS
<1>1. ASSUME NEW w \in Workers, ResolvePinned(w) PROVE GaveUpUndisturbed
  BY <1>1 DEF ResolvePinned, Resolved, sendVars, historyVars, GaveUpUndisturbed
<1>2. ASSUME NEW w \in Workers, ResolveClaim(w) PROVE GaveUpUndisturbed
  BY <1>2 DEF ResolveClaim, Resolved, sendVars, historyVars, GaveUpUndisturbed
<1>3. ASSUME NEW w \in Workers, ResolveExhausted(w) PROVE GaveUpUndisturbed
  BY <1>3 DEF ResolveExhausted, Resolved, sendVars, historyVars, GaveUpUndisturbed
<1>4. ASSUME NEW w \in Workers, Gate(w) PROVE GaveUpUndisturbed
  BY <1>4 DEF Gate, sendVars, historyVars, GaveUpUndisturbed
<1>5. ASSUME NEW w \in Workers, StopStep(w) PROVE GaveUpUndisturbed
  BY <1>5 DEF StopStep, sendVars, historyVars, GaveUpUndisturbed
<1>6. ASSUME NEW w \in Workers, ClaimWon(w) PROVE GaveUpUndisturbed
  BY <1>6 DEF ClaimWon, Claimable, historyVars, GaveUpUndisturbed, Claimable
<1>7. ASSUME NEW w \in Workers, ClaimDeferred(w) PROVE GaveUpUndisturbed
  BY <1>7 DEF ClaimDeferred, sendVars, historyVars, GaveUpUndisturbed
<1>8. ASSUME NEW w \in Workers, ClaimRefused(w) PROVE GaveUpUndisturbed
  BY <1>8 DEF ClaimRefused, sendVars, historyVars, GaveUpUndisturbed
<1>9. ASSUME NEW w \in Workers, ClaimLost(w) PROVE GaveUpUndisturbed
  BY <1>9 DEF ClaimLost, sendVars, historyVars, GaveUpUndisturbed
<1>10. ASSUME NEW w \in Workers, Send(w) PROVE GaveUpUndisturbed
  BY <1>10 DEF Send, sendVars, GaveUpUndisturbed
<1>11. ASSUME NEW w \in Workers, AdvanceStepCursor(w) PROVE GaveUpUndisturbed
  BY <1>11 DEF AdvanceStepCursor, sendVars, historyVars, GaveUpUndisturbed
<1>12. ASSUME NEW w \in Workers, ReleaseStepSend(w) PROVE GaveUpUndisturbed
  BY <1>12 DEF ReleaseStepSend, historyVars, GaveUpUndisturbed
<1>13. ASSUME NEW w \in Workers, Abort(w) PROVE GaveUpUndisturbed
  BY <1>13 DEF Abort, sendVars, GaveUpUndisturbed
<1>14. ASSUME NEW w \in Workers, NEW e \in Enrollments, SkipInert(w, e) PROVE GaveUpUndisturbed
  BY <1>14 DEF SkipInert, sendVars, historyVars, GaveUpUndisturbed
<1>15. ASSUME NEW w \in Workers, NEW e \in Enrollments, TakeOrphan(w, e) PROVE GaveUpUndisturbed
  BY <1>15 DEF TakeOrphan, sendVars, historyVars, GaveUpUndisturbed
<1>16. ASSUME NEW w \in Workers, NEW e \in Enrollments, TakeHeld(w, e) PROVE GaveUpUndisturbed
  BY <1>16 DEF TakeHeld, sendVars, historyVars, GaveUpUndisturbed
<1>17. ASSUME NEW w \in Workers, NEW e \in Enrollments, TakeDue(w, e) PROVE GaveUpUndisturbed
  BY <1>17 DEF TakeDue, sendVars, historyVars, GaveUpUndisturbed
<1>18. ASSUME NEW e \in Enrollments, Sweep(e) PROVE GaveUpUndisturbed
  BY <1>18 DEF Sweep, sendVars, historyVars, GaveUpUndisturbed
<1>19. ASSUME Tick PROVE GaveUpUndisturbed
  BY <1>19 DEF Tick, historyVars, GaveUpUndisturbed
<1>20. ASSUME NEW e \in Enrollments, Halt(e) PROVE GaveUpUndisturbed
  BY <1>20 DEF Halt, sendVars, historyVars, GaveUpUndisturbed
<1>21. ASSUME NEW e \in Enrollments, DeferEnrollment(e) PROVE GaveUpUndisturbed
  BY <1>21 DEF DeferEnrollment, sendVars, historyVars, GaveUpUndisturbed
<1>22. ASSUME NEW e \in Enrollments, Suppress(e) PROVE GaveUpUndisturbed
  BY <1>22 DEF Suppress, sendVars, historyVars, GaveUpUndisturbed
<1>23. ASSUME NEW c, SetCampaign(c) PROVE GaveUpUndisturbed
  BY <1>23 DEF SetCampaign, sendVars, historyVars, GaveUpUndisturbed
<1>24. ASSUME NEW m \in Mailboxes, NEW c, SetCapacity(m, c) PROVE GaveUpUndisturbed
  BY <1>24 DEF SetCapacity, sendVars, historyVars, GaveUpUndisturbed
<1>25. CASE UNCHANGED vars
  BY <1>25, GaveUpFrame DEF vars, sendVars, historyVars, GaveUpUndisturbed
<1>26. ASSUME NEW w \in Workers, Work(w) \/ Abort(w) PROVE GaveUpInv'
  BY <1>26, <1>1, <1>2, <1>3, <1>4, <1>5, <1>6, <1>7, <1>8, <1>9, <1>10, <1>11, <1>12,
     <1>13, FinalizeStepSendGaveUp, MarkStepDeliveredGaveUp, GaveUpFrame DEF Work
<1>27. ASSUME NEW w \in Workers, NEW e \in Enrollments, Start(w, e) PROVE GaveUpInv'
  BY <1>27, <1>14, <1>15, <1>16, <1>17, GaveUpFrame DEF Start
<1>28. CASE \E e \in Enrollments : Sweep(e)
  BY <1>28, <1>18, GaveUpFrame
<1>29. CASE Tick
  BY <1>29, <1>19, GaveUpFrame
<1>30. CASE Environment
  BY <1>30, <1>20, <1>21, <1>22, <1>23, <1>24, DeleteMailboxGaveUp, GaveUpFrame DEF Environment
<1> QED
  BY <1>25, <1>26, <1>27, <1>28, <1>29, <1>30 DEF Next

\* The database knows of every delivery to this contact.
Clean(e) == ~reset[e] /\ \A s \in Steps : lost[e][s] = 0 /\ hidden[e][s] = 0

\* Once a message has gone out after the stop, every job that is left is for a step
\* that is settled: it finds the row 'sent' or 'failed' and sends nothing.
StopInv ==
    \A e \in Enrollments :
      /\ late[e] > 0 => status[e] = "stopped"
      /\ Clean(e) => late[e] <= 1
      /\ Clean(e) /\ late[e] > 0 =>
           \A w \in Workers :
             pc[w] \notin {"idle", "stop"} /\ job[w].e = e => Settled(e, job[w].s)

\* What a step does that sends nothing and starts no job for a step.
StopUndisturbed ==
    /\ UNCHANGED late
    /\ \A e \in Enrollments : status[e] = "stopped" => status'[e] = "stopped"
    /\ \A e \in Enrollments : ~reset'[e] => ~reset[e]
    /\ \A e \in Enrollments, s \in Steps :
         /\ Settled(e, s) => Settled(e, s)'
         /\ lost'[e][s] = 0 => lost[e][s] = 0
         /\ hidden'[e][s] = 0 => hidden[e][s] = 0
    /\ \A v \in Workers :
         pc'[v] \notin {"idle", "stop"} =>
           /\ pc[v] \notin {"idle", "stop"}
           /\ job'[v].e = job[v].e /\ job'[v].s = job[v].s

LEMMA StopFrame == ASSUME TypeInv, StopInv, StopUndisturbed PROVE StopInv'
<1>1. \A e \in Enrollments : Clean(e)' => Clean(e)
  BY DEF Clean, StopUndisturbed
<1>2. \A w \in Workers : pc[w] \notin {"idle", "stop"} => job[w].s \in Steps
  BY DEF TypeInv, JobOK
<1> QED
  BY <1>1, <1>2 DEF StopInv, StopUndisturbed

\* A worker about to send is not on a settled step, unless a delivery of that step
\* went unrecorded.
LEMMA SenderIsUnsettled ==
    ASSUME TypeInv, LeaseInv, GaveUpInv, NEW w \in Workers, pc[w] = "send", Clean(job[w].e)
    PROVE  ~Settled(job[w].e, job[w].s)
<1> job[w].e \in Enrollments /\ job[w].s \in Steps
  BY DEF TypeInv, JobOK
<1>1. /\ row[job[w].e][job[w].s] = "sending"
      /\ delivered[job[w].e][job[w].s] = 0 + 0
  BY HolderOwesNothing DEF Clean, Claiming
<1>2. job[w].s \notin gaveUp[job[w].e]
  BY <1>1 DEF GaveUpInv, Clean
<1> QED
  BY <1>1, <1>2 DEF Settled

LEMMA SendStop ==
    ASSUME TypeInv, OrderInv, LeaseInv, GaveUpInv, StopInv, NEW w \in Workers, Send(w)
    PROVE  StopInv'
<1> PICK e \in Enrollments, s \in Steps : e = job[w].e /\ s = job[w].s /\ pc[w] = "send"
  BY DEF TypeInv, JobOK, Send
<1>1. /\ UNCHANGED <<status, job, gaveUp, lost, reset>>
      /\ \A v \in Workers : pc'[v] \in {"idle", "stop"} <=> pc[v] \in {"idle", "stop"}
  BY DEF Send, Goto, enrollmentVars, TypeInv, TypeOK, WorkerType
<1>2. \A f \in Enrollments, r \in Steps :
        delivered'[f][r] >= delivered[f][r] /\ hidden'[f][r] >= hidden[f][r]
  <2>1. delivered \in [Enrollments -> [Steps -> Nat]] /\ hidden \in [Enrollments -> [Steps -> Nat]]
    BY DEF TypeInv, TypeOK, HistoryType
  <2>2. UNCHANGED delivered \/ delivered' = [delivered EXCEPT ![e][s] = @ + 1]
    BY DEF Send
  <2>3. \E b \in BOOLEAN : hidden' = [hidden EXCEPT ![e][s] = IF b THEN @ + 1 ELSE @]
    BY DEF Send
  <2> QED
    BY <2>1, <2>2, <2>3
<1>3. \A f \in Enrollments : Clean(f)' => Clean(f)
  <2>1. \A f \in Enrollments, r \in Steps :
          /\ hidden'[f][r] = 0 => hidden[f][r] = 0
          /\ lost'[f][r] = lost[f][r]
    <3>1. \A f \in Enrollments, r \in Steps : hidden[f][r] \in Nat
      BY DEF TypeInv, TypeOK, HistoryType
    <3> QED
      BY <1>1, <1>2, <3>1
  <2> QED
    BY <1>1, <2>1 DEF Clean
<1>4. \A f \in Enrollments, r \in Steps : Settled(f, r) => Settled(f, r)'
  <2>1. \A f \in Enrollments, r \in Steps : delivered[f][r] \in Nat /\ delivered'[f][r] \in Int
    BY ProviderSendType DEF TypeInv, TypeOK, HistoryType
  <2> QED
    BY <1>1, <1>2, <2>1 DEF Settled
<1>5. \/ UNCHANGED late
      \/ /\ late' = [late EXCEPT ![e] = IF status[e] = "stopped" \/ @ > 0 THEN @ + 1 ELSE @]
         /\ delivered' = [delivered EXCEPT ![e][s] = @ + 1]
  BY DEF Send
<1>6. CASE UNCHANGED late
  BY <1>1, <1>3, <1>4, <1>6 DEF StopInv, TypeInv, JobOK
<1>7. CASE ~UNCHANGED late
  <2>1. status[e] = "stopped"
    BY <1>5, <1>7 DEF StopInv, TypeInv, TypeOK, HistoryType
  <2>2. \A f \in Enrollments : late'[f] = IF f = e THEN late[f] + 1 ELSE late[f]
    BY <1>5, <1>7, <2>1 DEF TypeInv, TypeOK, HistoryType
  <2>3. Clean(e) => late[e] = 0
    <3>1. Clean(e) => ~Settled(e, s)
      BY SenderIsUnsettled
    <3>2. Clean(e) => ~(late[e] > 0)
      BY <3>1 DEF StopInv
    <3>3. late[e] \in Nat
      BY DEF TypeInv, TypeOK, HistoryType
    <3> QED
      BY <3>2, <3>3
  <2>4. Settled(e, s)'
    BY <1>5, <1>7 DEF Settled, TypeInv, TypeOK, HistoryType
  <2>5. ASSUME Clean(e), NEW v \in Workers, pc[v] \notin {"idle", "stop"}, job[v].e = e
        PROVE  Settled(e, job[v].s)'
    <3>1. ~Settled(e, s)
      BY <2>5, SenderIsUnsettled
    <3>2. job[v].s \in Steps /\ job[v].s <= s
      BY <2>5, <3>1 DEF OrderInv, WorkersAreInOrder, TypeInv, JobOK, Steps
    <3>3. CASE job[v].s = s
      BY <2>4, <3>3, <1>1
    <3>4. CASE job[v].s < s
      BY <1>1, <1>4, <3>2, <3>4 DEF OrderInv, WorkersAreInOrder
    <3> QED
      BY <3>2, <3>3, <3>4 DEF Steps
  <2>6. \A f \in Enrollments : f # e => late'[f] = late[f]
    BY <2>2
  <2>7. Clean(e)' => late'[e] <= 1
    BY <1>3, <2>2, <2>3
  <2>8. \A v \in Workers : pc[v] \notin {"idle", "stop"} => job[v].s \in Steps
    BY DEF TypeInv, JobOK
  <2>9. ASSUME NEW f \in Enrollments, Clean(f)', late'[f] > 0, NEW v \in Workers,
               pc'[v] \notin {"idle", "stop"}, job'[v].e = f
        PROVE  Settled(f, job[v].s)'
    <3>1. CASE f = e
      BY <1>1, <1>3, <2>5, <2>9, <3>1
    <3>2. CASE f # e
      BY <1>1, <1>3, <1>4, <2>6, <2>8, <2>9, <3>2 DEF StopInv
    <3> QED
      BY <3>1, <3>2
  <2> QED
    BY <1>1, <1>3, <2>1, <2>6, <2>7, <2>9 DEF StopInv
<1> QED
  BY <1>6, <1>7

LEMMA TakeDueStop ==
    ASSUME TypeInv, StopInv, NEW w \in Workers, NEW e \in Enrollments, TakeDue(w, e)
    PROVE  StopInv'
<1>1. UNCHANGED <<late, status, reset, lost, hidden, delivered, gaveUp>>
  BY DEF TakeDue, enrollmentVars, historyVars
<1>2. status[e] = "active" /\ job'[w].e = e
      /\ \A v \in Workers : v # w => pc'[v] = pc[v] /\ job'[v] = job[v]
  BY DEF TakeDue, TypeInv, TypeOK, WorkerType
<1> QED
  BY <1>1, <1>2 DEF StopInv, Clean, Settled

LEMMA StopInit == Init => StopInv
<1> SUFFICES ASSUME Init PROVE StopInv
  OBVIOUS
<1> SUFFICES ASSUME NEW e \in Enrollments PROVE ~(late[e] > 0) /\ late[e] <= 1
  BY DEF StopInv
<1> QED
  BY DEF Init

LEMMA MailAfterStopStep ==
    TypeInv /\ OrderInv /\ LeaseInv /\ GaveUpInv /\ StopInv /\ [Next]_vars => StopInv'
<1> SUFFICES ASSUME TypeInv, OrderInv, LeaseInv, GaveUpInv, StopInv, [Next]_vars PROVE StopInv'
  OBVIOUS
<1>1. ASSUME NEW w \in Workers, ResolvePinned(w) PROVE StopUndisturbed
  BY <1>1 DEF ResolvePinned, Resolved, historyVars, StopUndisturbed, Settled, TypeInv,
     TypeOK, WorkerType
<1>2. ASSUME NEW w \in Workers, ResolveClaim(w) PROVE StopUndisturbed
  BY <1>2 DEF ResolveClaim, Resolved, historyVars, StopUndisturbed, Settled, TypeInv,
     TypeOK, WorkerType
<1>3. ASSUME NEW w \in Workers, ResolveExhausted(w) PROVE StopUndisturbed
  BY <1>3 DEF ResolveExhausted, Resolved, historyVars, StopUndisturbed, Settled,
     TypeInv, TypeOK, WorkerType
<1>4. ASSUME NEW w \in Workers, Gate(w) PROVE StopUndisturbed
  BY <1>4 DEF Gate, Goto, Return, enrollmentVars, historyVars, StopUndisturbed, Settled,
     TypeInv, TypeOK, WorkerType
<1>5. ASSUME NEW w \in Workers, StopStep(w) PROVE StopUndisturbed
  BY <1>5 DEF StopStep, Return, MarkStepStopped, CommittedLast, TaskFails, historyVars,
     StopUndisturbed, Settled, TypeInv, TypeOK, WorkerType
<1>6. ASSUME NEW w \in Workers, ClaimWon(w) PROVE StopUndisturbed
  BY <1>6 DEF ClaimWon, Goto, Return, Committed, TaskFails, enrollmentVars, historyVars,
     StopUndisturbed, Settled, TypeInv, TypeOK, WorkerType
<1>7. ASSUME NEW w \in Workers, ClaimDeferred(w) PROVE StopUndisturbed
  BY <1>7 DEF ClaimDeferred, Return, enrollmentVars, historyVars, StopUndisturbed,
     Settled, TypeInv, TypeOK, WorkerType
<1>8. ASSUME NEW w \in Workers, ClaimRefused(w) PROVE StopUndisturbed
  BY <1>8 DEF ClaimRefused, Return, TaskFails, enrollmentVars, historyVars,
     StopUndisturbed, Settled, TypeInv, TypeOK, WorkerType
<1>9. ASSUME NEW w \in Workers, ClaimLost(w) PROVE StopUndisturbed
  BY <1>9 DEF ClaimLost, Goto, Return, enrollmentVars, historyVars, StopUndisturbed,
     Settled, TypeInv, TypeOK, WorkerType
<1>10. ASSUME NEW w \in Workers, MarkStepDelivered(w) PROVE StopUndisturbed
  BY <1>10 DEF MarkStepDelivered, Goto, Return, Committed, TaskFails, enrollmentVars,
     StopUndisturbed, Settled, TypeInv, TypeOK, WorkerType
<1>11. ASSUME NEW w \in Workers, AdvanceStepCursor(w) PROVE StopUndisturbed
  <2>1. \A e \in Enrollments : status[e] = "stopped" => status'[e] = "stopped"
    <3>1. UNCHANGED status \/ MarkStepSent(job[w].e, job[w].s, row[job[w].e][job[w].s] = "sent")
      BY <1>11 DEF AdvanceStepCursor, enrollmentVars
    <3> QED
      BY <3>1 DEF MarkStepSent, TypeInv, TypeOK, EnrollmentType
  <2>2. UNCHANGED historyVars /\ pc' = [pc EXCEPT ![w] = "idle"] /\ job' = [job EXCEPT ![w] = NoJob]
    BY <1>11 DEF AdvanceStepCursor, CommittedLast, TaskFails, Return
  <2> QED
    BY <2>1, <2>2 DEF StopUndisturbed, Settled, historyVars, TypeInv, TypeOK, WorkerType
<1>12. ASSUME NEW w \in Workers, ReleaseStepSend(w) PROVE StopUndisturbed
  BY <1>12 DEF ReleaseStepSend, Return, TaskFails, enrollmentVars, historyVars,
     StopUndisturbed, Settled, TypeInv, TypeOK, WorkerType
<1>13. ASSUME NEW w \in Workers, FinalizeStepSend(w) PROVE StopUndisturbed
  <2>1. \A e \in Enrollments : status[e] = "stopped" => status'[e] = "stopped"
    BY <1>13 DEF FinalizeStepSend, MarkStepSent, TypeInv, TypeOK, EnrollmentType
  <2>2. pc' = [pc EXCEPT ![w] = "idle"] /\ job' = [job EXCEPT ![w] = NoJob]
    BY <1>13 DEF FinalizeStepSend, CommittedLast, TaskFails, Return
  <2>3. \A e \in Enrollments, s \in Steps : Settled(e, s) => Settled(e, s)'
    BY <1>13 DEF FinalizeStepSend, Settled, TypeInv, TypeOK, HistoryType
  <2> QED
    BY <1>13, <2>1, <2>2, <2>3 DEF FinalizeStepSend, StopUndisturbed, TypeInv, TypeOK, WorkerType
<1>14. ASSUME NEW w \in Workers, Abort(w) PROVE StopUndisturbed
  BY <1>14 DEF Abort, Return, TaskFails, enrollmentVars, StopUndisturbed, Settled,
     TypeInv, TypeOK, WorkerType, HistoryType
<1>15. ASSUME NEW w \in Workers, NEW e \in Enrollments, SkipInert(w, e) PROVE StopUndisturbed
  BY <1>15 DEF SkipInert, enrollmentVars, historyVars, StopUndisturbed, Settled
<1>16. ASSUME NEW w \in Workers, NEW e \in Enrollments, TakeOrphan(w, e) PROVE StopUndisturbed
  BY <1>16 DEF TakeOrphan, Take, enrollmentVars, historyVars, StopUndisturbed, Settled
<1>17. ASSUME NEW w \in Workers, NEW e \in Enrollments, TakeHeld(w, e) PROVE StopUndisturbed
  BY <1>17 DEF TakeHeld, enrollmentVars, historyVars, StopUndisturbed, Settled
<1>18. ASSUME NEW e \in Enrollments, Sweep(e) PROVE StopUndisturbed
  BY <1>18 DEF Sweep, enrollmentVars, historyVars, StopUndisturbed, Settled
<1>19. ASSUME Tick PROVE StopUndisturbed
  BY <1>19 DEF Tick, historyVars, StopUndisturbed, Settled, TypeInv, TypeOK, WorkerType,
     Jobs
<1>20. ASSUME NEW e \in Enrollments, Halt(e) PROVE StopUndisturbed
  BY <1>20 DEF Halt, MarkStepStopped, historyVars, StopUndisturbed, Settled
<1>21. ASSUME NEW e \in Enrollments, DeferEnrollment(e) PROVE StopUndisturbed
  BY <1>21 DEF DeferEnrollment, historyVars, StopUndisturbed, Settled
<1>22. ASSUME NEW e \in Enrollments, Suppress(e) PROVE StopUndisturbed
  BY <1>22 DEF Suppress, enrollmentVars, historyVars, StopUndisturbed, Settled
<1>23. ASSUME NEW c, SetCampaign(c) PROVE StopUndisturbed
  BY <1>23 DEF SetCampaign, enrollmentVars, historyVars, StopUndisturbed, Settled
<1>24. ASSUME NEW m \in Mailboxes, NEW c, SetCapacity(m, c) PROVE StopUndisturbed
  BY <1>24 DEF SetCapacity, enrollmentVars, historyVars, StopUndisturbed, Settled
<1>25. ASSUME NEW m \in Mailboxes, DeleteMailbox(m) PROVE StopUndisturbed
  BY <1>25 DEF DeleteMailbox, StopUndisturbed, Settled, TypeInv, TypeOK, HistoryType
<1>26. CASE UNCHANGED vars
  BY <1>26, StopFrame DEF vars, enrollmentVars, historyVars, StopUndisturbed, Settled
<1>27. ASSUME NEW w \in Workers, Work(w) \/ Abort(w) PROVE StopInv'
  BY <1>27, <1>1, <1>2, <1>3, <1>4, <1>5, <1>6, <1>7, <1>8, <1>9, <1>10, <1>11, <1>12,
     <1>13, <1>14, SendStop, StopFrame DEF Work
<1>28. ASSUME NEW w \in Workers, NEW e \in Enrollments, Start(w, e) PROVE StopInv'
  BY <1>28, <1>15, <1>16, <1>17, TakeDueStop, StopFrame DEF Start
<1>29. CASE \E e \in Enrollments : Sweep(e)
  BY <1>29, <1>18, StopFrame
<1>30. CASE Tick
  BY <1>30, <1>19, StopFrame
<1>31. CASE Environment
  BY <1>31, <1>20, <1>21, <1>22, <1>23, <1>24, <1>25, StopFrame DEF Environment
<1> QED
  BY <1>26, <1>27, <1>28, <1>29, <1>30, <1>31 DEF Next

\* After a stop at most one more message reaches the contact, unless a delivery was
\* lost or hidden.
THEOREM StopsHoldBackMail == Spec => []AtMostOneAfterStop
<1> DEFINE Inv == TypeInv /\ OrderInv /\ SenderInv /\ LeaseInv /\ GaveUpInv /\ StopInv
<1>1. Init => Inv
  BY TypeInit, OrderInit, SenderInit, LeaseInit, GaveUpInit, StopInit
<1>2. Inv /\ [Next]_vars => Inv'
  BY TypeStep, OrderStep, SenderStep, LeaseStep, GaveUpStep, MailAfterStopStep
<1>3. Inv => AtMostOneAfterStop
  <2> SUFFICES ASSUME Inv, NEW e \in Enrollments, ~reset[e], late[e] > 1
               PROVE  \E s \in Steps : lost[e][s] + hidden[e][s] > 0
    BY DEF AtMostOneAfterStop
  <2>1. ~Clean(e)
    BY DEF StopInv, TypeInv, TypeOK, HistoryType
  <2>2. PICK s \in Steps : lost[e][s] # 0 \/ hidden[e][s] # 0
    BY <2>1 DEF Clean
  <2>3. lost[e][s] \in Nat /\ hidden[e][s] \in Nat
    BY DEF TypeInv, TypeOK, HistoryType
  <2> QED
    BY <2>2, <2>3
<1> QED
  BY <1>1, <1>2, <1>3, PTL DEF Spec

-----------------------------------------------------------------------------
(* Ended enrollments                                                       *)

EndedIsNotDue == \A e \in Enrollments : status[e] # "active" => due[e] = NoDue

EndedStays ==
    \A e \in Enrollments :
      status[e] # "active" =>
        status'[e] = status[e] /\ step'[e] = step[e] /\ due'[e] = due[e]

TerminalUndisturbed ==
    \A e \in Enrollments :
      IF status[e] = "active" THEN status'[e] # "active" => due'[e] = NoDue
      ELSE status'[e] = status[e] /\ step'[e] = step[e] /\ due'[e] = due[e]

LEMMA TerminalFrame ==
    ASSUME TypeInv, EndedIsNotDue, TerminalUndisturbed PROVE EndedStays /\ EndedIsNotDue'
BY DEF EndedIsNotDue, EndedStays, TerminalUndisturbed

\* The countdown of a due time that is NULL does not move.
LEMMA TickTerminal ==
    ASSUME TypeInv, EndedIsNotDue, Tick PROVE EndedStays /\ EndedIsNotDue'
BY DEF EndedIsNotDue, EndedStays, Tick, Countdown, NoDue

LEMMA TerminalStep ==
    TypeInv /\ EndedIsNotDue /\ [Next]_vars => EndedStays /\ EndedIsNotDue'
<1> SUFFICES ASSUME TypeInv, EndedIsNotDue, [Next]_vars PROVE EndedStays /\ EndedIsNotDue'
  OBVIOUS
<1>1. ASSUME NEW w \in Workers, ResolvePinned(w) PROVE TerminalUndisturbed
  BY <1>1 DEF ResolvePinned, Resolved, TerminalUndisturbed
<1>2. ASSUME NEW w \in Workers, ResolveClaim(w) PROVE TerminalUndisturbed
  BY <1>2 DEF ResolveClaim, Resolved, TerminalUndisturbed
<1>3. ASSUME NEW w \in Workers, ResolveExhausted(w) PROVE TerminalUndisturbed
  BY <1>3 DEF ResolveExhausted, Resolved, TerminalUndisturbed
<1>4. ASSUME NEW w \in Workers, Gate(w) PROVE TerminalUndisturbed
  BY <1>4 DEF Gate, enrollmentVars, TerminalUndisturbed
<1>5. ASSUME NEW w \in Workers, StopStep(w) PROVE TerminalUndisturbed
  BY <1>5 DEF StopStep, MarkStepStopped, TerminalUndisturbed, TypeInv, TypeOK,
     EnrollmentType
<1>6. ASSUME NEW w \in Workers, ClaimWon(w) PROVE TerminalUndisturbed
  BY <1>6 DEF ClaimWon, enrollmentVars, TerminalUndisturbed
<1>7. ASSUME NEW w \in Workers, ClaimDeferred(w) PROVE TerminalUndisturbed
  BY <1>7 DEF ClaimDeferred, enrollmentVars, TerminalUndisturbed
<1>8. ASSUME NEW w \in Workers, ClaimRefused(w) PROVE TerminalUndisturbed
  BY <1>8 DEF ClaimRefused, enrollmentVars, TerminalUndisturbed
<1>9. ASSUME NEW w \in Workers, ClaimLost(w) PROVE TerminalUndisturbed
  BY <1>9 DEF ClaimLost, enrollmentVars, TerminalUndisturbed
<1>10. ASSUME NEW w \in Workers, Send(w) PROVE TerminalUndisturbed
  BY <1>10 DEF Send, enrollmentVars, TerminalUndisturbed
<1>11. ASSUME NEW w \in Workers, MarkStepDelivered(w) PROVE TerminalUndisturbed
  BY <1>11 DEF MarkStepDelivered, enrollmentVars, TerminalUndisturbed
<1>12. ASSUME NEW w \in Workers, AdvanceStepCursor(w) PROVE TerminalUndisturbed
  BY <1>12 DEF AdvanceStepCursor, MarkStepSent, enrollmentVars, TerminalUndisturbed,
     TypeInv, TypeOK, EnrollmentType
<1>13. ASSUME NEW w \in Workers, ReleaseStepSend(w) PROVE TerminalUndisturbed
  BY <1>13 DEF ReleaseStepSend, enrollmentVars, TerminalUndisturbed
<1>14. ASSUME NEW w \in Workers, FinalizeStepSend(w) PROVE TerminalUndisturbed
  BY <1>14 DEF FinalizeStepSend, MarkStepSent, TerminalUndisturbed, TypeInv, TypeOK,
     EnrollmentType
<1>15. ASSUME NEW w \in Workers, Abort(w) PROVE TerminalUndisturbed
  BY <1>15 DEF Abort, enrollmentVars, TerminalUndisturbed
<1>16. ASSUME NEW w \in Workers, NEW e \in Enrollments, SkipInert(w, e) PROVE TerminalUndisturbed
  BY <1>16 DEF SkipInert, enrollmentVars, TerminalUndisturbed
<1>17. ASSUME NEW w \in Workers, NEW e \in Enrollments, TakeOrphan(w, e) PROVE TerminalUndisturbed
  BY <1>17 DEF TakeOrphan, enrollmentVars, TerminalUndisturbed
<1>18. ASSUME NEW w \in Workers, NEW e \in Enrollments, TakeHeld(w, e) PROVE TerminalUndisturbed
  BY <1>18 DEF TakeHeld, enrollmentVars, TerminalUndisturbed
<1>19. ASSUME NEW w \in Workers, NEW e \in Enrollments, TakeDue(w, e) PROVE TerminalUndisturbed
  BY <1>19 DEF TakeDue, enrollmentVars, TerminalUndisturbed
<1>20. ASSUME NEW e \in Enrollments, Sweep(e) PROVE TerminalUndisturbed
  BY <1>20 DEF Sweep, enrollmentVars, TerminalUndisturbed
<1>21. ASSUME NEW e \in Enrollments, Halt(e) PROVE TerminalUndisturbed
  BY <1>21 DEF Halt, MarkStepStopped, TerminalUndisturbed, TypeInv, TypeOK,
     EnrollmentType
<1>22. ASSUME NEW e \in Enrollments, DeferEnrollment(e) PROVE TerminalUndisturbed
  BY <1>22 DEF DeferEnrollment, TerminalUndisturbed
<1>23. ASSUME NEW e \in Enrollments, Suppress(e) PROVE TerminalUndisturbed
  BY <1>23 DEF Suppress, enrollmentVars, TerminalUndisturbed
<1>24. ASSUME NEW c, SetCampaign(c) PROVE TerminalUndisturbed
  BY <1>24 DEF SetCampaign, enrollmentVars, TerminalUndisturbed
<1>25. ASSUME NEW m \in Mailboxes, NEW c, SetCapacity(m, c) PROVE TerminalUndisturbed
  BY <1>25 DEF SetCapacity, enrollmentVars, TerminalUndisturbed
<1>26. ASSUME NEW m \in Mailboxes, DeleteMailbox(m) PROVE TerminalUndisturbed
  BY <1>26 DEF DeleteMailbox, TerminalUndisturbed
<1>27. CASE UNCHANGED vars
  BY <1>27, TerminalFrame DEF vars, enrollmentVars, TerminalUndisturbed
<1>28. ASSUME NEW w \in Workers, Work(w) \/ Abort(w) PROVE EndedStays /\ EndedIsNotDue'
  BY <1>28, <1>1, <1>2, <1>3, <1>4, <1>5, <1>6, <1>7, <1>8, <1>9, <1>10, <1>11, <1>12,
     <1>13, <1>14, <1>15, TerminalFrame DEF Work
<1>29. ASSUME NEW w \in Workers, NEW e \in Enrollments, Start(w, e) PROVE EndedStays /\ EndedIsNotDue'
  BY <1>29, <1>16, <1>17, <1>18, <1>19, TerminalFrame DEF Start
<1>30. CASE \E e \in Enrollments : Sweep(e)
  BY <1>30, <1>20, TerminalFrame
<1>31. CASE Tick
  BY <1>31, TickTerminal
<1>32. CASE Environment
  BY <1>32, <1>21, <1>22, <1>23, <1>24, <1>25, <1>26, TerminalFrame DEF Environment
<1> QED
  BY <1>27, <1>28, <1>29, <1>30, <1>31, <1>32 DEF Next

\* A stopped or completed enrollment never moves again.
THEOREM EndedEnrollmentsStayEnded == Spec => TerminalIsFinal
<1>1. Init => EndedIsNotDue
  BY DEF Init, EndedIsNotDue
<1>2. TypeInv /\ EndedIsNotDue /\ [Next]_vars => TypeInv' /\ EndedIsNotDue'
  BY TypeStep, TerminalStep
<1>3. TypeInv /\ EndedIsNotDue /\ [Next]_vars =>
        [\A e \in Enrollments :
           status[e] # "active" =>
             status'[e] = status[e] /\ step'[e] = step[e] /\ due'[e] = due[e]]_vars
  BY TerminalStep DEF EndedStays
<1> QED
  BY <1>1, <1>2, <1>3, TypeInit, PTL DEF Spec, TerminalIsFinal

-----------------------------------------------------------------------------
(* SequenceSend implements StepDelivery                                    *)

\* A step on record keeps its 'sent' row.
RecordedRowsAreSent ==
    \A e \in Enrollments, s \in Steps :
      ~reset[e] /\ s \in recorded[e] => row[e][s] = "sent"

\* The executions that hold an accepted message of the step and have not said so.
\* After a mailbox was deleted there may be several.
Acks(e, s) == {w \in Workers : pc[w] = "ack" /\ job[w].e = e /\ job[w].s = s}

\* Each of them holds a delivery of its own, which is neither lost nor hidden.
AcksAreDeliveries ==
    \A e \in Enrollments, s \in Steps :
      /\ IsFiniteSet(Acks(e, s))
      /\ lost[e][s] + hidden[e][s] + Cardinality(Acks(e, s)) <= delivered[e][s]

RecordInv == RecordedRowsAreSent /\ AcksAreDeliveries

RecordUndisturbed ==
    /\ UNCHANGED <<recorded, delivered, lost, hidden>>
    /\ \A e \in Enrollments : reset[e] => reset'[e]
    /\ \A e \in Enrollments, s \in Steps :
         ~reset'[e] /\ row[e][s] = "sent" => row'[e][s] = "sent"
    /\ \A v \in Workers :
         pc[v] = "ack" \/ pc'[v] = "ack" =>
           pc'[v] = pc[v] /\ job'[v].e = job[v].e /\ job'[v].s = job[v].s

LEMMA RecordFrame == ASSUME TypeInv, RecordInv, RecordUndisturbed PROVE RecordInv'
<1>1. RecordedRowsAreSent'
  BY DEF RecordInv, RecordedRowsAreSent, RecordUndisturbed
<1>2. \A e, s : Acks(e, s)' = Acks(e, s)
  BY DEF Acks, RecordUndisturbed
<1>3. AcksAreDeliveries'
  BY <1>2 DEF RecordInv, AcksAreDeliveries, RecordUndisturbed
<1> QED
  BY <1>1, <1>3 DEF RecordInv

\* An execution that holds an accepted message leaves a copy the sender knows of.
LEMMA AckIsKnown ==
    ASSUME TypeInv, RecordInv, NEW w \in Workers, pc[w] = "ack"
    PROVE  lost[job[w].e][job[w].s] + hidden[job[w].e][job[w].s] < delivered[job[w].e][job[w].s]
<1> PICK e \in Enrollments, s \in Steps : e = job[w].e /\ s = job[w].s
  BY DEF TypeInv, JobOK
<1>1. lost[e][s] \in Nat /\ hidden[e][s] \in Nat /\ delivered[e][s] \in Nat
  BY DEF TypeInv, TypeOK, HistoryType
<1>2. w \in Acks(e, s)
  BY DEF Acks
<1>3. IsFiniteSet(Acks(e, s)) /\ lost[e][s] + hidden[e][s] + Cardinality(Acks(e, s)) <= delivered[e][s]
  BY DEF RecordInv, AcksAreDeliveries
<1>4. Cardinality(Acks(e, s)) \in Nat /\ Cardinality(Acks(e, s)) # 0
  BY <1>2, <1>3, FS_CardinalityType, FS_EmptySet
<1> QED
  BY <1>1, <1>3, <1>4

\* An execution that leaves "ack" takes one delivery with it.
LEMMA AckLeaves ==
    ASSUME TypeInv, RecordInv, NEW w \in Workers, NEW e \in Enrollments, NEW s \in Steps,
           e = job[w].e, s = job[w].s, pc[w] = "ack", pc'[w] # "ack",
           \A v \in Workers : v # w => pc'[v] = pc[v] /\ job'[v] = job[v]
    PROVE  /\ \A f, r : <<f, r>> # <<e, s>> => Acks(f, r)' = Acks(f, r)
           /\ IsFiniteSet(Acks(e, s)')
           /\ Cardinality(Acks(e, s)') = Cardinality(Acks(e, s)) - 1
           /\ Cardinality(Acks(e, s)) \in Nat
<1>1. \A f, r : <<f, r>> # <<e, s>> => Acks(f, r)' = Acks(f, r)
  BY DEF Acks
<1>2. Acks(e, s)' = Acks(e, s) \ {w}
  BY DEF Acks
<1>3. w \in Acks(e, s) /\ IsFiniteSet(Acks(e, s))
  BY DEF Acks, RecordInv, AcksAreDeliveries
<1>4. IsFiniteSet(Acks(e, s) \ {w}) /\ Cardinality(Acks(e, s) \ {w}) = Cardinality(Acks(e, s)) - 1
  BY <1>3, FS_RemoveElement
<1> QED
  BY <1>1, <1>2, <1>3, <1>4, FS_CardinalityType

LEMMA SendRecord ==
    ASSUME TypeInv, LeaseInv, RecordInv, NEW w \in Workers, Send(w) PROVE RecordInv'
<1> PICK e \in Enrollments, s \in Steps : e = job[w].e /\ s = job[w].s /\ pc[w] = "send"
  BY DEF TypeInv, JobOK, Send
<1>1. PICK outcome \in Outcomes :
        /\ pc' = [pc EXCEPT ![w] = IF outcome = "accepted" THEN "ack"
                                   ELSE IF outcome \in Retryable THEN "release" ELSE "fail"]
        /\ delivered' = IF outcome \in GoesOut THEN [delivered EXCEPT ![e][s] = @ + 1] ELSE delivered
        /\ hidden' = [hidden EXCEPT ![e][s] =
                        IF outcome \in GoesOut \ {"accepted"} THEN @ + 1 ELSE @]
  BY DEF Send, Goto
<1>2. UNCHANGED <<job, lost, recorded, reset, row>>
  BY DEF Send, Goto, sendVars
<1>3. RecordedRowsAreSent'
  BY <1>2 DEF RecordInv, RecordedRowsAreSent
<1>4. \A f \in Enrollments, r \in Steps :
        /\ lost'[f][r] = lost[f][r] /\ lost[f][r] \in Nat
        /\ hidden[f][r] \in Nat /\ delivered[f][r] \in Nat
        /\ <<f, r>> # <<e, s>> => hidden'[f][r] = hidden[f][r] /\ delivered'[f][r] = delivered[f][r]
        /\ hidden'[e][s] = hidden[e][s] + IF outcome \in GoesOut \ {"accepted"} THEN 1 ELSE 0
        /\ delivered'[e][s] = delivered[e][s] + IF outcome \in GoesOut THEN 1 ELSE 0
  BY <1>1, <1>2 DEF TypeInv, TypeOK, HistoryType
<1>5. \A f, r : <<f, r>> # <<e, s>> => Acks(f, r)' = Acks(f, r)
  BY <1>1, <1>2 DEF Acks, TypeInv, TypeOK, WorkerType
<1>6. Acks(e, s)' = IF outcome = "accepted" THEN Acks(e, s) \cup {w} ELSE Acks(e, s)
  BY <1>1, <1>2 DEF Acks, TypeInv, TypeOK, WorkerType
<1>7. w \notin Acks(e, s) /\ IsFiniteSet(Acks(e, s)) /\ Cardinality(Acks(e, s)) \in Nat
  BY FS_CardinalityType DEF Acks, RecordInv, AcksAreDeliveries
<1>8. IsFiniteSet(Acks(e, s)') /\ Cardinality(Acks(e, s)')
        = Cardinality(Acks(e, s)) + IF outcome = "accepted" THEN 1 ELSE 0
  BY <1>6, <1>7, FS_AddElement, SMTT(30)
<1>9. "accepted" \in GoesOut
  BY DEF GoesOut
<1>10. lost'[e][s] + hidden'[e][s] + Cardinality(Acks(e, s)') <= delivered'[e][s]
  BY <1>4, <1>7, <1>8, <1>9 DEF RecordInv, AcksAreDeliveries
<1>11. AcksAreDeliveries'
  BY <1>4, <1>5, <1>8, <1>10 DEF RecordInv, AcksAreDeliveries
<1> QED
  BY <1>3, <1>11 DEF RecordInv

LEMMA MarkStepDeliveredRecord ==
    ASSUME TypeInv, LeaseInv, RecordInv, NEW w \in Workers, MarkStepDelivered(w)
    PROVE  RecordInv'
<1> PICK e \in Enrollments, s \in Steps : e = job[w].e /\ s = job[w].s /\ pc[w] = "ack"
  BY DEF TypeInv, JobOK, MarkStepDelivered
<1>1. /\ UNCHANGED <<lost, hidden, delivered, reset>>
      /\ pc'[w] # "ack"
      /\ \A v \in Workers : v # w => pc'[v] = pc[v] /\ job'[v] = job[v]
  BY DEF MarkStepDelivered, Committed, Goto, TaskFails, Return, TypeInv, TypeOK, WorkerType
<1>2. ~reset[e] => row[e][s] = "sending"
  BY DEF LeaseInv, HolderHasLease, Claiming
<1>3. /\ \A f \in Enrollments, r \in Steps :
           row'[f][r] = IF f = e /\ r = s /\ row[f][r] # "none" THEN "sent" ELSE row[f][r]
      /\ \A f \in Enrollments, r \in Steps :
           r \in recorded'[f] => r \in recorded[f] \/ (f = e /\ r = s)
  BY DEF MarkStepDelivered, SetSendResult, TypeInv, TypeOK, SendType, HistoryType
<1>4. RecordedRowsAreSent'
  BY <1>1, <1>2, <1>3 DEF RecordInv, RecordedRowsAreSent
<1>5. \A f \in Enrollments, r \in Steps :
        lost[f][r] \in Nat /\ hidden[f][r] \in Nat /\ delivered[f][r] \in Nat
  BY DEF TypeInv, TypeOK, HistoryType
<1>6. AcksAreDeliveries'
  BY <1>1, <1>5, AckLeaves DEF RecordInv, AcksAreDeliveries
<1> QED
  BY <1>4, <1>6 DEF RecordInv

LEMMA FinalizeStepSendRecord ==
    ASSUME TypeInv, LeaseInv, NEW w \in Workers, FinalizeStepSend(w) PROVE RecordUndisturbed
<1> PICK e \in Enrollments, s \in Steps : e = job[w].e /\ s = job[w].s /\ pc[w] = "fail"
  BY DEF TypeInv, JobOK, FinalizeStepSend
<1>1. UNCHANGED <<lost, hidden, delivered, recorded, reset>>
  BY DEF FinalizeStepSend
<1>2. ~reset[e] => row[e][s] = "sending"
  BY DEF LeaseInv, HolderHasLease, Claiming
<1>3. \A f \in Enrollments, r \in Steps :
        row'[f][r] = IF f = e /\ r = s /\ row[f][r] # "none" THEN "failed" ELSE row[f][r]
  BY DEF FinalizeStepSend, SetSendResult, TypeInv, TypeOK, SendType
<1>4. \A v \in Workers :
        pc[v] = "ack" \/ pc'[v] = "ack" => pc'[v] = pc[v] /\ job'[v] = job[v]
  BY DEF FinalizeStepSend, CommittedLast, TaskFails, Return, TypeInv, TypeOK, WorkerType
<1> QED
  BY <1>1, <1>2, <1>3, <1>4 DEF RecordUndisturbed

LEMMA AbortRecord ==
    ASSUME TypeInv, RecordInv, NEW w \in Workers, Abort(w), pc[w] = "ack" PROVE RecordInv'
<1> PICK e \in Enrollments, s \in Steps : e = job[w].e /\ s = job[w].s
  BY DEF TypeInv, JobOK
<1>1. /\ UNCHANGED <<hidden, delivered, recorded, reset, row>>
      /\ lost' = [lost EXCEPT ![e][s] = @ + 1]
      /\ pc'[w] # "ack"
      /\ \A v \in Workers : v # w => pc'[v] = pc[v] /\ job'[v] = job[v]
  BY DEF Abort, sendVars, TaskFails, Return, TypeInv, TypeOK, WorkerType
<1>2. RecordedRowsAreSent'
  BY <1>1 DEF RecordInv, RecordedRowsAreSent
<1>3. \A f \in Enrollments, r \in Steps :
        /\ lost[f][r] \in Nat /\ hidden[f][r] \in Nat /\ delivered[f][r] \in Nat
        /\ lost'[f][r] = IF f = e /\ r = s THEN lost[f][r] + 1 ELSE lost[f][r]
  BY <1>1 DEF TypeInv, TypeOK, HistoryType
<1>4. AcksAreDeliveries'
  BY <1>1, <1>3, AckLeaves DEF RecordInv, AcksAreDeliveries
<1> QED
  BY <1>2, <1>4 DEF RecordInv

LEMMA DeleteMailboxRecord ==
    ASSUME TypeInv, SenderInv, NEW m \in Mailboxes, DeleteMailbox(m) PROVE RecordUndisturbed
<1>1. UNCHANGED <<recorded, delivered, lost, hidden, pc, job>>
  BY DEF DeleteMailbox
<1>2. \A e \in Enrollments : reset[e] => reset'[e]
  BY DEF DeleteMailbox
<1> QED
  BY <1>1, <1>2, DeleteMailboxSpares DEF RecordUndisturbed

LEMMA RecordInit == Init => RecordInv
<1> SUFFICES ASSUME Init PROVE RecordInv
  OBVIOUS
<1>1. \A e, s : Acks(e, s) = {}
  BY DEF Init, Acks
<1>2. IsFiniteSet({}) /\ Cardinality({}) = 0
  BY FS_EmptySet
<1>3. AcksAreDeliveries
  <2> SUFFICES ASSUME NEW e \in Enrollments, NEW s \in Steps
               PROVE  /\ IsFiniteSet(Acks(e, s))
                      /\ lost[e][s] + hidden[e][s] + Cardinality(Acks(e, s)) <= delivered[e][s]
    BY DEF AcksAreDeliveries
  <2>1. lost[e][s] = 0 /\ hidden[e][s] = 0 /\ delivered[e][s] = 0
    BY DEF Init
  <2>2. IsFiniteSet(Acks(e, s)) /\ Cardinality(Acks(e, s)) = 0
    BY <1>1, <1>2
  <2> QED
    BY <2>1, <2>2
<1> QED
  BY <1>3 DEF Init, RecordInv, RecordedRowsAreSent

-----------------------------------------------------------------------------
\* A step that no one outside sees.
Invisible == RecordUndisturbed /\ UNCHANGED <<status, gaveUp, reset>>

LEMMA InvisibleStutters == ASSUME Invisible PROVE UNCHANGED Ledger!vars
BY DEF Invisible, RecordUndisturbed, Ledger!vars, Unknown

LEMMA LedgerSteps == Ledger!Steps = Steps
BY DEF Ledger!Steps, Steps

\* The copies the sender cannot know of, step by step.
LEMMA UnknownIs ==
    ASSUME TypeInv, NEW e \in Enrollments, NEW s \in Steps
    PROVE  Unknown[e][s] = lost[e][s] + hidden[e][s]
BY DEF Unknown

UnknownBy(e, s, n) ==
    \A f \in Enrollments, r \in Steps :
      lost'[f][r] + hidden'[f][r] =
        IF f = e /\ r = s THEN lost[f][r] + hidden[f][r] + n ELSE lost[f][r] + hidden[f][r]

LEMMA UnknownGrows ==
    ASSUME NEW e \in Enrollments, NEW s \in Steps, NEW n, UnknownBy(e, s, n)
    PROVE  Unknown' = [Unknown EXCEPT ![e][s] = @ + n]
<1> DEFINE G == [Unknown EXCEPT ![e][s] = @ + n]
           Row(f) == [r \in Steps |-> IF f = e /\ r = s THEN lost[f][r] + hidden[f][r] + n
                                      ELSE lost[f][r] + hidden[f][r]]
<1>1. Unknown' = [f \in Enrollments |-> Row(f)]
  BY DEF Unknown, UnknownBy
<1>2. G = [f \in Enrollments |-> G[f]]
  BY DEF Unknown
<1>3. ASSUME NEW f \in Enrollments PROVE G[f] = Row(f)
  <2>1. Unknown[f] = [r \in Steps |-> lost[f][r] + hidden[f][r]]
    BY DEF Unknown
  <2>2. CASE f # e
    BY <2>1, <2>2 DEF Unknown
  <2>3. CASE f = e
    <3>1. G[e] = [Unknown[e] EXCEPT ![s] = @ + n]
      BY DEF Unknown
    <3> QED
      BY <2>1, <2>3, <3>1
  <2> QED
    BY <2>2, <2>3
<1> HIDE DEF G, Row
<1>4. [f \in Enrollments |-> G[f]] = [f \in Enrollments |-> Row(f)]
  BY <1>3
<1> QED
  BY <1>1, <1>2, <1>4 DEF G

\* A provider call that puts a message on the wire is a delivery of the ledger.
LEMMA SendDelivers ==
    ASSUME TypeInv, OrderInv, LeaseInv, GaveUpInv, RecordInv, NEW w \in Workers, Send(w)
    PROVE  UNCHANGED Ledger!vars \/ Ledger!Deliver(job[w].e, job[w].s)
<1> PICK e \in Enrollments, s \in Steps : e = job[w].e /\ s = job[w].s /\ pc[w] = "send"
  BY DEF TypeInv, JobOK, Send
<1>1. PICK outcome \in Outcomes :
        /\ delivered' = IF outcome \in GoesOut THEN [delivered EXCEPT ![e][s] = @ + 1] ELSE delivered
        /\ hidden' = [hidden EXCEPT ![e][s] =
                        IF outcome \in GoesOut \ {"accepted"} THEN @ + 1 ELSE @]
  BY DEF Send
<1>2. UNCHANGED <<status, lost, recorded, gaveUp, reset>>
  BY DEF Send, enrollmentVars
<1>3. hidden \in [Enrollments -> [Steps -> Nat]] /\ lost \in [Enrollments -> [Steps -> Nat]]
  BY DEF TypeInv, TypeOK, HistoryType
<1>4. CASE outcome \notin GoesOut
  <2>1. hidden' = hidden
    BY <1>1, <1>3, <1>4
  <2> QED
    BY <1>1, <1>2, <1>4, <2>1 DEF Ledger!vars, Unknown
<1>5. CASE outcome \in GoesOut
  <2> DEFINE n == IF outcome = "accepted" THEN 0 ELSE 1
  <2>1. \A r \in 1..(s - 1) : Ledger!Behind(e, r)
    <3> TAKE r \in 1..(s - 1)
    <3>1. r \in Steps /\ r < s
      BY SequenceSendAssumption DEF Steps
    <3> QED
      BY <3>1 DEF OrderInv, WorkersAreInOrder, Settled, Ledger!Behind
  <2>2. reset[e] \/ (s \notin recorded[e] \cup gaveUp[e] /\ delivered[e][s] = Unknown[e][s])
    BY HolderOwesNothing, UnknownIs DEF Claiming, GaveUpInv, RecordInv, RecordedRowsAreSent
  <2>3. Unknown' = [Unknown EXCEPT ![e][s] = @ + n]
    <3>2. \A f \in Enrollments, r \in Steps :
            hidden'[f][r] = IF f = e /\ r = s THEN hidden[f][r] + n ELSE hidden[f][r]
      BY <1>1, <1>3, <1>5
    <3> HIDE DEF n
    <3>3. n \in Nat
      BY DEF n
    <3>4. UnknownBy(e, s, n)
      BY <3>2, <3>3, <1>2, <1>3 DEF UnknownBy
    <3> QED
      BY <3>4, UnknownGrows
  <2>4. n \in {0, 1}
    OBVIOUS
  <2> QED
    BY <1>1, <1>2, <1>5, <2>1, <2>2, <2>3, <2>4 DEF Ledger!Deliver
<1> QED
  BY <1>4, <1>5

\* The 'sent' UPDATE is an acknowledgement, unless the row is gone.
LEMMA MarkStepDeliveredAcknowledges ==
    ASSUME TypeInv, RecordInv, NEW w \in Workers, MarkStepDelivered(w)
    PROVE  UNCHANGED Ledger!vars \/ Ledger!Acknowledge(job[w].e, job[w].s)
<1> PICK e \in Enrollments, s \in Steps : e = job[w].e /\ s = job[w].s /\ pc[w] = "ack"
  BY DEF TypeInv, JobOK, MarkStepDelivered
<1>1. /\ UNCHANGED <<status, delivered, lost, hidden, gaveUp, reset>>
      /\ recorded' = [recorded EXCEPT ![e] = IF row[e][s] = "none" THEN @ ELSE @ \cup {s}]
  BY DEF MarkStepDelivered, enrollmentVars
<1>2. Unknown' = Unknown
  BY <1>1 DEF Unknown
<1>3. Unknown[e][s] < delivered[e][s]
  BY AckIsKnown, UnknownIs
<1>4. CASE row[e][s] = "none"
  <2>1. recorded' = recorded
    BY <1>1, <1>4 DEF TypeInv, TypeOK, HistoryType
  <2> QED
    BY <1>1, <1>2, <2>1 DEF Ledger!vars
<1>5. CASE row[e][s] # "none"
  BY <1>1, <1>2, <1>3, <1>5 DEF Ledger!Acknowledge
<1> QED
  BY <1>4, <1>5

\* The news of an accepted message dies with the execution that holds it.
LEMMA AbortForgets ==
    ASSUME TypeInv, RecordInv, NEW w \in Workers, Abort(w), pc[w] = "ack"
    PROVE  Ledger!Forget(job[w].e, job[w].s)
<1> PICK e \in Enrollments, s \in Steps : e = job[w].e /\ s = job[w].s
  BY DEF TypeInv, JobOK
<1>1. /\ UNCHANGED <<status, delivered, hidden, recorded, gaveUp, reset>>
      /\ lost' = [lost EXCEPT ![e][s] = @ + 1]
  BY DEF Abort, enrollmentVars
<1>2. lost \in [Enrollments -> [Steps -> Nat]] /\ hidden \in [Enrollments -> [Steps -> Nat]]
  BY DEF TypeInv, TypeOK, HistoryType
<1>4. UnknownBy(e, s, 1)
  BY <1>1, <1>2 DEF UnknownBy
<1>5. Unknown' = [Unknown EXCEPT ![e][s] = @ + 1]
  BY <1>4, UnknownGrows
<1>6. Unknown[e][s] < delivered[e][s]
  BY AckIsKnown, UnknownIs
<1> QED
  BY <1>1, <1>5, <1>6 DEF Ledger!Forget

\* A permanent failure is a step given up, and with the last step the enrollment.
LEMMA FinalizeStepSendGivesUp ==
    ASSUME TypeInv, OrderInv, LeaseInv, GaveUpInv, RecordInv, NEW w \in Workers, FinalizeStepSend(w)
    PROVE  Ledger!GiveUp(job[w].e, job[w].s)
<1> PICK e \in Enrollments, s \in Steps : e = job[w].e /\ s = job[w].s /\ pc[w] = "fail"
  BY DEF TypeInv, JobOK, FinalizeStepSend
<1>1. /\ UNCHANGED <<delivered, lost, hidden, recorded, reset>>
      /\ gaveUp' = [gaveUp EXCEPT ![e] = @ \cup {s}]
      /\ \/ UNCHANGED status
         \/ s = NSteps /\ status[e] = "active" /\ status' = [status EXCEPT ![e] = "completed"]
  BY DEF FinalizeStepSend, MarkStepSent
<1>2. Unknown' = Unknown
  BY <1>1 DEF Unknown
<1>3. \A r \in 1..(s - 1) : Ledger!Behind(e, r)
  <2> TAKE r \in 1..(s - 1)
  <2>1. r \in Steps /\ r < s
    BY SequenceSendAssumption DEF Steps
  <2> QED
    BY <2>1 DEF OrderInv, WorkersAreInOrder, Settled, Ledger!Behind
<1>4. reset[e] \/ s \notin recorded[e] \cup gaveUp[e]
  BY HolderOwesNothing DEF Claiming, GaveUpInv, RecordInv, RecordedRowsAreSent
<1> QED
  BY <1>1, <1>2, <1>3, <1>4 DEF Ledger!GiveUp

\* Moving the cursor past the last step completes the enrollment; otherwise it is
\* invisible.
LEMMA AdvanceStepCursorCompletes ==
    ASSUME TypeInv, OrderInv, NEW w \in Workers, AdvanceStepCursor(w)
    PROVE  RecordUndisturbed /\ (UNCHANGED Ledger!vars \/ Ledger!Complete(job[w].e))
<1> PICK e \in Enrollments, s \in Steps : e = job[w].e /\ s = job[w].s /\ pc[w] = "advance"
  BY DEF TypeInv, JobOK, AdvanceStepCursor
<1>1. UNCHANGED <<row, delivered, lost, hidden, recorded, gaveUp, reset>>
  BY DEF AdvanceStepCursor, sendVars, historyVars
<1>2. RecordUndisturbed
  BY <1>1 DEF RecordUndisturbed, AdvanceStepCursor, CommittedLast, TaskFails, Return, TypeInv,
     TypeOK, WorkerType
<1>3. \/ UNCHANGED status
      \/ s = NSteps /\ status[e] = "active" /\ status' = [status EXCEPT ![e] = "completed"]
  BY DEF AdvanceStepCursor, MarkStepSent, enrollmentVars
<1>4. Unknown' = Unknown
  BY <1>1 DEF Unknown
<1>5. ASSUME s = NSteps PROVE \A r \in Ledger!Steps : Ledger!Behind(e, r)
  <2> SUFFICES ASSUME NEW r \in Steps PROVE Settled(e, r)
    BY LedgerSteps DEF Settled, Ledger!Behind
  <2>1. r < s \/ r = s
    BY <1>5, SequenceSendAssumption DEF Steps
  <2> QED
    BY <2>1 DEF OrderInv, WorkersAreInOrder
<1> QED
  BY <1>1, <1>2, <1>3, <1>4, <1>5 DEF Ledger!vars, Ledger!Complete

\* A stop is a stop of the ledger, or finds the enrollment over.
LEMMA StopsAreStops ==
    ASSUME TypeInv, NEW e \in Enrollments, MarkStepStopped(e),
           UNCHANGED <<sendVars, historyVars>>
    PROVE  UNCHANGED Ledger!vars \/ Ledger!Stop(e)
<1>1. UNCHANGED <<delivered, lost, hidden, recorded, gaveUp, reset>>
  BY DEF historyVars
<1>2. Unknown' = Unknown
  BY <1>1 DEF Unknown
<1>3. status' = status \/ (status[e] = "active" /\ status' = [status EXCEPT ![e] = "stopped"])
  BY DEF MarkStepStopped, TypeInv, TypeOK, EnrollmentType
<1> QED
  BY <1>1, <1>2, <1>3 DEF Ledger!vars, Ledger!Stop

LEMMA DeleteMailboxWipes ==
    ASSUME TypeInv, NEW m \in Mailboxes, DeleteMailbox(m)
    PROVE  \E S \in SUBSET Enrollments : Ledger!Wipe(S)
<1> DEFINE S == {e \in Enrollments : pin[e] = m}
<1>1. UNCHANGED <<status, delivered, lost, hidden, recorded, gaveUp>>
  BY DEF DeleteMailbox
<1>2. Unknown' = Unknown
  BY <1>1 DEF Unknown
<1>3. reset' = [e \in Enrollments |-> reset[e] \/ e \in S]
  BY DEF DeleteMailbox
<1>4. S \in SUBSET Enrollments
  OBVIOUS
<1>5. Ledger!Wipe(S)
  BY <1>1, <1>2, <1>3 DEF Ledger!Wipe
<1> QED
  BY <1>4, <1>5

-----------------------------------------------------------------------------
LEMMA LedgerInit == Init => Ledger!Init
<1> SUFFICES ASSUME Init PROVE Ledger!Init
  OBVIOUS
<1>1. Unknown = [e \in Enrollments |-> [s \in Steps |-> 0]]
  BY DEF Init, Unknown
<1> QED
  BY <1>1, LedgerSteps DEF Init, Ledger!Init

DeliveryInv == TypeInv /\ OrderInv /\ SenderInv /\ LeaseInv /\ GaveUpInv /\ RecordInv

\* Every step of the send path keeps the record and is a step of the ledger or none.
LEMMA LedgerStep ==
    DeliveryInv /\ [Next]_vars => RecordInv' /\ [Ledger!Next]_(Ledger!vars)
<1> DEFINE Good == RecordInv' /\ (Ledger!Next \/ UNCHANGED Ledger!vars)
<1> SUFFICES ASSUME DeliveryInv, [Next]_vars PROVE Good
  OBVIOUS
<1> USE DEF DeliveryInv
<1>0. Invisible => Good
  BY RecordFrame, InvisibleStutters DEF Invisible
<1> HIDE DEF Good
<1>1. ASSUME NEW w \in Workers, ResolvePinned(w) PROVE Invisible
  BY <1>1 DEF ResolvePinned, Resolved, sendVars, historyVars, TypeInv, TypeOK, WorkerType,
     Invisible, RecordUndisturbed
<1>2. ASSUME NEW w \in Workers, ResolveClaim(w) PROVE Invisible
  BY <1>2 DEF ResolveClaim, Resolved, sendVars, historyVars, TypeInv, TypeOK, WorkerType,
     Invisible, RecordUndisturbed
<1>3. ASSUME NEW w \in Workers, ResolveExhausted(w) PROVE Invisible
  BY <1>3 DEF ResolveExhausted, Resolved, sendVars, historyVars, TypeInv, TypeOK,
     WorkerType, Invisible, RecordUndisturbed
<1>4. ASSUME NEW w \in Workers, Gate(w) PROVE Invisible
  BY <1>4 DEF Gate, Goto, Return, enrollmentVars, sendVars, historyVars, TypeInv, TypeOK,
     WorkerType, Invisible, RecordUndisturbed
<1>5. ASSUME NEW w \in Workers, ClaimWon(w) PROVE Invisible
  BY <1>5 DEF ClaimWon, Claimable, Goto, Return, Committed, TaskFails, enrollmentVars,
     historyVars, TypeInv, TypeOK, WorkerType, SendType, Invisible, RecordUndisturbed
<1>6. ASSUME NEW w \in Workers, ClaimDeferred(w) PROVE Invisible
  BY <1>6 DEF ClaimDeferred, Return, enrollmentVars, sendVars, historyVars, TypeInv,
     TypeOK, WorkerType, Invisible, RecordUndisturbed
<1>7. ASSUME NEW w \in Workers, ClaimRefused(w) PROVE Invisible
  BY <1>7 DEF ClaimRefused, Return, TaskFails, enrollmentVars, sendVars, historyVars,
     TypeInv, TypeOK, WorkerType, Invisible, RecordUndisturbed
<1>8. ASSUME NEW w \in Workers, ClaimLost(w) PROVE Invisible
  BY <1>8 DEF ClaimLost, Goto, Return, enrollmentVars, sendVars, historyVars, TypeInv,
     TypeOK, WorkerType, Invisible, RecordUndisturbed
<1>9. ASSUME NEW w \in Workers, ReleaseStepSend(w) PROVE Invisible
  BY <1>9 DEF ReleaseStepSend, Return, TaskFails, enrollmentVars, historyVars, TypeInv,
     TypeOK, WorkerType, Invisible, RecordUndisturbed
<1>10. ASSUME NEW w \in Workers, NEW e \in Enrollments, SkipInert(w, e) PROVE Invisible
  BY <1>10 DEF SkipInert, enrollmentVars, sendVars, historyVars, Invisible,
     RecordUndisturbed
<1>11. ASSUME NEW w \in Workers, NEW e \in Enrollments, TakeOrphan(w, e) PROVE Invisible
  BY <1>11 DEF TakeOrphan, Take, enrollmentVars, sendVars, historyVars, TypeInv, TypeOK,
     WorkerType, Invisible, RecordUndisturbed
<1>12. ASSUME NEW w \in Workers, NEW e \in Enrollments, TakeHeld(w, e) PROVE Invisible
  BY <1>12 DEF TakeHeld, enrollmentVars, sendVars, historyVars, Invisible,
     RecordUndisturbed
<1>13. ASSUME NEW w \in Workers, NEW e \in Enrollments, TakeDue(w, e) PROVE Invisible
  BY <1>13 DEF TakeDue, Take, enrollmentVars, sendVars, historyVars, TypeInv, TypeOK,
     WorkerType, Invisible, RecordUndisturbed
<1>14. ASSUME NEW e \in Enrollments, Sweep(e) PROVE Invisible
  BY <1>14 DEF Sweep, enrollmentVars, sendVars, historyVars, Invisible, RecordUndisturbed
<1>15. ASSUME Tick PROVE Invisible
  BY <1>15 DEF Tick, historyVars, TypeInv, TypeOK, WorkerType, Jobs, Invisible,
     RecordUndisturbed
<1>16. ASSUME NEW e \in Enrollments, DeferEnrollment(e) PROVE Invisible
  BY <1>16 DEF DeferEnrollment, sendVars, historyVars, Invisible, RecordUndisturbed
<1>17. ASSUME NEW e \in Enrollments, Suppress(e) PROVE Invisible
  BY <1>17 DEF Suppress, enrollmentVars, sendVars, historyVars, Invisible,
     RecordUndisturbed
<1>18. ASSUME NEW c, SetCampaign(c) PROVE Invisible
  BY <1>18 DEF SetCampaign, enrollmentVars, sendVars, historyVars, Invisible,
     RecordUndisturbed
<1>19. ASSUME NEW m \in Mailboxes, NEW c, SetCapacity(m, c) PROVE Invisible
  BY <1>19 DEF SetCapacity, enrollmentVars, sendVars, historyVars, Invisible,
     RecordUndisturbed
<1>20. ASSUME NEW w \in Workers, StopStep(w) PROVE Good
  <2>1. job[w].e \in Enrollments
    BY <1>20 DEF TypeInv, JobOK, StopStep
  <2>2. UNCHANGED <<sendVars, historyVars>> /\ MarkStepStopped(job[w].e)
    BY <1>20 DEF StopStep
  <2>3. RecordUndisturbed
    BY <1>20, <2>2 DEF StopStep, CommittedLast, TaskFails, Return, sendVars, historyVars,
       RecordUndisturbed, TypeInv, TypeOK, WorkerType
  <2>4. UNCHANGED Ledger!vars \/ Ledger!Stop(job[w].e)
    BY <2>1, <2>2, StopsAreStops
  <2> QED
    BY <2>1, <2>3, <2>4, RecordFrame DEF Good, Ledger!Next
<1>21. ASSUME NEW e \in Enrollments, Halt(e) PROVE Good
  <2>1. UNCHANGED <<sendVars, historyVars>> /\ MarkStepStopped(e) /\ UNCHANGED <<pc, job>>
    BY <1>21 DEF Halt
  <2>2. RecordUndisturbed
    BY <2>1 DEF sendVars, historyVars, RecordUndisturbed
  <2>3. UNCHANGED Ledger!vars \/ Ledger!Stop(e)
    BY <2>1, StopsAreStops
  <2> QED
    BY <2>2, <2>3, RecordFrame DEF Good, Ledger!Next
<1>22. ASSUME NEW w \in Workers, Send(w) PROVE Good
  <2>1. job[w].e \in Enrollments /\ job[w].s \in Ledger!Steps
    BY <1>22, LedgerSteps DEF TypeInv, JobOK, Send
  <2> QED
    BY <1>22, <2>1, SendDelivers, SendRecord DEF Good, Ledger!Next
<1>23. ASSUME NEW w \in Workers, MarkStepDelivered(w) PROVE Good
  <2>1. job[w].e \in Enrollments /\ job[w].s \in Ledger!Steps
    BY <1>23, LedgerSteps DEF TypeInv, JobOK, MarkStepDelivered
  <2> QED
    BY <1>23, <2>1, MarkStepDeliveredAcknowledges, MarkStepDeliveredRecord DEF Good, Ledger!Next
<1>24. ASSUME NEW w \in Workers, FinalizeStepSend(w) PROVE Good
  <2>1. job[w].e \in Enrollments /\ job[w].s \in Ledger!Steps
    BY <1>24, LedgerSteps DEF TypeInv, JobOK, FinalizeStepSend
  <2> QED
    BY <1>24, <2>1, FinalizeStepSendGivesUp, FinalizeStepSendRecord, RecordFrame DEF Good, Ledger!Next
<1>25. ASSUME NEW w \in Workers, AdvanceStepCursor(w) PROVE Good
  <2>1. job[w].e \in Enrollments /\ job[w].s \in Ledger!Steps
    BY <1>25, LedgerSteps DEF TypeInv, JobOK, AdvanceStepCursor
  <2> QED
    BY <1>25, <2>1, AdvanceStepCursorCompletes, RecordFrame DEF Good, Ledger!Next
<1>26. ASSUME NEW w \in Workers, Abort(w) PROVE Good
  <2>1. CASE pc[w] = "ack"
    <3>1. job[w].e \in Enrollments /\ job[w].s \in Ledger!Steps
      BY <2>1, LedgerSteps DEF TypeInv, JobOK
    <3> QED
      BY <1>26, <2>1, <3>1, AbortForgets, AbortRecord DEF Good, Ledger!Next
  <2>2. CASE pc[w] # "ack"
    <3>1. Invisible
      BY <1>26, <2>2 DEF Abort, Return, TaskFails, enrollmentVars, sendVars, Invisible,
         RecordUndisturbed, TypeInv, TypeOK, WorkerType
    <3> QED
      BY <3>1, <1>0
  <2> QED
    BY <2>1, <2>2
<1>27. ASSUME NEW m \in Mailboxes, DeleteMailbox(m) PROVE Good
  BY <1>27, DeleteMailboxRecord, DeleteMailboxWipes, RecordFrame DEF Good, Ledger!Next
<1>28. CASE UNCHANGED vars
  <2>1. Invisible
    BY <1>28 DEF vars, enrollmentVars, sendVars, historyVars, Invisible, RecordUndisturbed
  <2> QED
    BY <2>1, <1>0
<1>29. ASSUME NEW w \in Workers, Work(w) \/ Abort(w) PROVE Good
  BY <1>29, <1>0, <1>1, <1>2, <1>3, <1>4, <1>5, <1>6, <1>7, <1>8, <1>9, <1>20, <1>22, <1>23,
     <1>24, <1>25, <1>26 DEF Work
<1>30. ASSUME NEW w \in Workers, NEW e \in Enrollments, Start(w, e) PROVE Good
  BY <1>30, <1>0, <1>10, <1>11, <1>12, <1>13 DEF Start
<1>31. CASE \E e \in Enrollments : Sweep(e)
  BY <1>31, <1>0, <1>14
<1>32. CASE Tick
  BY <1>32, <1>0, <1>15
<1>33. CASE Environment
  BY <1>33, <1>0, <1>16, <1>17, <1>18, <1>19, <1>21, <1>27 DEF Environment
<1> QED
  BY <1>28, <1>29, <1>30, <1>31, <1>32, <1>33 DEF Next

\* The send path implements the ledger for every number of enrollments, workers,
\* mailboxes and steps: whatever crashes, races, lost replies and deleted mailboxes
\* do, a contact sees deliveries in order, no second copy of a recorded step, and an
\* enrollment that ends once.
THEOREM SendPathImplementsStepDelivery == Spec => ImplementsStepDelivery
<1>1. Init => DeliveryInv
  BY TypeInit, OrderInit, SenderInit, LeaseInit, GaveUpInit, RecordInit DEF DeliveryInv
<1>2. DeliveryInv /\ [Next]_vars => DeliveryInv'
  BY TypeStep, OrderStep, SenderStep, LeaseStep, GaveUpStep, LedgerStep DEF DeliveryInv
<1> QED
  BY <1>1, <1>2, LedgerInit, LedgerStep, PTL DEF Spec, ImplementsStepDelivery, Ledger!Spec
=============================================================================
