---------------------------- MODULE WarmupProofs ----------------------------
(***************************************************************************)
(* Warmup for any number of handlers, receipts and overlapping sweeps, any *)
(* volume, cap, cooldown, dwell and grace: the day's sending first, then the*)
(* containment policy.  The two specifications share the policy's words and*)
(* no state.                                                               *)
(*                                                                         *)
(* None of the sending properties is inductive.  What carries them: a claim*)
(* has one holder and its row shows it (Holding); what left under an id is *)
(* accounted for by the row, its holder or a loss (Accounts); a reply is   *)
(* reported only for a row that is sent (Tasks), and counted once, with its*)
(* receipt (Counters); and the cap is shared by the rows that spend it and *)
(* the handlers that were promised some of it (Budget).                    *)
(***************************************************************************)
EXTENDS WarmupSend, WarmupLanes, FiniteSetTheorems, TLAPS

JobType ==
    [at : {"built", "claimed", "delivered", "refused", "finish"},
     kind : {"tick", "engage"}, id : SendIds, lane : LaneSet, replied : BOOLEAN]

RowType ==
    [status : {"none", "queued", "sending", "sent", "failed"},
     lane : LaneSet \union {"none"}, stale : BOOLEAN]

\* The rows that became sent, and those that spend the pair's budget.
Sent == {id \in SendIds : send[id].status = "sent"}
Spent == {id \in SendIds : send[id].status \in {"sending", "sent"}}

\* The receipts a reply may have been counted for.
Answered == {r \in Receipts : receipt[r] = "engaged" /\ send[r].status = "sent"}

\* The handlers with a job that has not reached its claim.
Built == {w \in Workers : work[w].at = "built"}

Holding ==
    \A id \in SendIds : \A w \in Workers : Holds(w, id) =>
        /\ send[id].status = "sending" /\ ~send[id].stale
        /\ \A x \in Workers : Holds(x, id) => x = w

\* The message of this id has left and its handler has not recorded it yet.
InTransit(id) == \E w \in Workers : work[w].at = "delivered" /\ work[w].id = id

Accounts ==
    \A id \in SendIds :
        /\ copies[id] <= lost[id] + 1
        /\ send[id].status # "sent" /\ ~InTransit(id) => copies[id] <= lost[id]

Tasks ==
    \A w \in Workers : work[w] # Idle =>
        /\ work[w].kind = "engage" => work[w].id \in Receipts
        /\ work[w].at = "finish" => work[w].kind = "engage"
        /\ work[w].replied => /\ work[w].at = "finish"
                              /\ send[work[w].id].status = "sent"

Counters ==
    /\ IsFiniteSet(Sent)
    /\ sentToday = Cardinality(Sent)
    /\ replies <= Cardinality(Answered)

Budget ==
    /\ IsFiniteSet(Spent)
    /\ Cardinality(Spent) + Cardinality(Built) <= PairCap + Cardinality(Workers) - 1

WarmupInv == RowsTypeOK /\ Holding /\ Accounts /\ Tasks /\ Counters /\ Budget

-----------------------------------------------------------------------------
(* Facts used throughout                                                   *)

\* A derived id names a row.
LEMMA Ids ==
    /\ Receipts \subseteq SendIds
    /\ \A n \in Nat : n < LaneDailyVolume(lane) => n \in SendIds
BY WarmupSendAssumption
   DEF SendIds, TickIds, deriveWarmupSendID, deriveWarmupReplySendID, LaneDailyVolume

\* A handler is idle, or at one of the four stations of a job.
LEMMA Stations ==
    ASSUME RowsTypeOK, NEW w \in Workers
    PROVE  /\ work[w] = Idle <=> work[w].at = "idle"
           /\ work[w] # Idle => work[w] \in JobType
           /\ work[w] \in {Idle} \union JobType
           /\ \A id : Holds(w, id) <=> /\ work[w].at \in {"claimed", "delivered", "refused"}
                                       /\ work[w].id = id
<1>1. work[w] \in {Idle} \union JobType
  BY DEF RowsTypeOK, JobType
<1>2. work[w] \in JobType => work[w].at # "idle"
  BY DEF JobType
<1>3. Idle.at = "idle"
  BY DEF Idle
<1> QED BY <1>1, <1>2, <1>3 DEF Holds

\* A set that gains one element at most.
LEMMA OneMore ==
    ASSUME NEW S, IsFiniteSet(S), NEW x, NEW T \in SUBSET (S \union {x})
    PROVE  IsFiniteSet(T) /\ Cardinality(T) <= Cardinality(S) + 1
<1>1. /\ IsFiniteSet(S \union {x}) /\ Cardinality(S) \in Nat
      /\ Cardinality(S \union {x}) = IF x \in S THEN Cardinality(S) ELSE Cardinality(S) + 1
  BY FS_AddElement, FS_CardinalityType
<1>2. IsFiniteSet(T) /\ Cardinality(T) <= Cardinality(S \union {x}) /\ Cardinality(T) \in Nat
  BY <1>1, FS_Subset, FS_CardinalityType
<1> QED BY <1>1, <1>2

\* The counters are natural numbers, and what is counted is finite.
LEMMA Finite ==
    ASSUME WarmupInv
    PROVE  /\ IsFiniteSet(Sent) /\ IsFiniteSet(Spent) /\ IsFiniteSet(Built)
           /\ IsFiniteSet(Answered)
           /\ Cardinality(Sent) \in Nat /\ Cardinality(Spent) \in Nat
           /\ Cardinality(Built) \in Nat /\ Cardinality(Answered) \in Nat
           /\ Cardinality(Workers) \in Nat
           /\ Cardinality(Answered) <= Cardinality(Sent)
<1>1. IsFiniteSet(Sent) /\ IsFiniteSet(Spent)
  BY DEF WarmupInv, Counters, Budget
<1>2. Built \in SUBSET Workers
  BY DEF Built
<1>3. IsFiniteSet(Built)
  BY <1>2, WarmupSendAssumption, FS_Subset
<1>4. Answered \in SUBSET Sent
  BY Ids DEF Answered, Sent
<1>5. IsFiniteSet(Answered) /\ Cardinality(Answered) <= Cardinality(Sent)
  BY <1>1, <1>4, FS_Subset
<1> QED BY <1>1, <1>3, <1>5, WarmupSendAssumption, FS_CardinalityType

\* Nothing more is spent or promised.
LEMMA NoMore ==
    ASSUME WarmupInv, Spent' \subseteq Spent, Built' \subseteq Built
    PROVE  Budget'
<1>1. IsFiniteSet(Spent') /\ Cardinality(Spent') <= Cardinality(Spent)
  BY Finite, FS_Subset
<1>2. IsFiniteSet(Built') /\ Cardinality(Built') <= Cardinality(Built)
  BY Finite, FS_Subset
<1>3. Cardinality(Spent') \in Nat /\ Cardinality(Built') \in Nat
  BY <1>1, <1>2, FS_CardinalityType
<1>4. Cardinality(Spent) + Cardinality(Built) <= PairCap + Cardinality(Workers) - 1
  BY DEF WarmupInv, Budget
<1> QED BY <1>1, <1>2, <1>3, <1>4, Finite, WarmupSendAssumption DEF Budget

\* The rows that are sent stay the same, and the counters with them.
LEMMA CountsKept ==
    ASSUME WarmupInv, Sent' = Sent, Answered \subseteq Answered',
           sentToday' = sentToday, replies' = replies
    PROVE  Counters'
<1>1. Answered' \in SUBSET Sent
  <2>1. Answered' \subseteq Sent'
    BY Ids DEF Answered, Sent
  <2> QED BY <2>1
<1>2. IsFiniteSet(Answered') /\ Cardinality(Answered') \in Nat
  BY <1>1, Finite, FS_Subset, FS_CardinalityType
<1>3. Cardinality(Answered) <= Cardinality(Answered')
  BY <1>2, FS_Subset
<1>4. replies \in Nat /\ replies <= Cardinality(Answered) /\ sentToday = Cardinality(Sent)
  BY DEF WarmupInv, RowsTypeOK, Counters
<1> QED BY <1>2, <1>3, <1>4, Finite DEF Counters

-----------------------------------------------------------------------------
(* The moves a step can make                                               *)

\* Handler w turns to job j (or to none) and holds no claim before or after; the rows
\* and the messages stay as they are.
Turns(w, j) ==
    /\ work' = [work EXCEPT ![w] = j]
    /\ work[w].at \notin {"claimed", "delivered", "refused"}
    /\ \/ j = Idle
       \/ /\ j \in JobType /\ j.at \in {"built", "finish"}
          /\ j.kind = "engage" => j.id \in Receipts
          /\ j.at = "finish" => j.kind = "engage"
          /\ j.replied => j.at = "finish" /\ send[j.id].status = "sent"
    /\ UNCHANGED <<send, copies, lost>>

\* What w does when it turns leaves the other parts alone.
LEMMA TurnKeeps ==
    ASSUME WarmupInv, NEW w \in Workers, NEW j, Turns(w, j)
    PROVE  /\ work' \in [Workers -> {Idle} \union JobType]
           /\ Holding' /\ Accounts' /\ Tasks'
<1>1. work \in [Workers -> {Idle} \union JobType]
  BY DEF WarmupInv, RowsTypeOK, JobType
<1>2. work'[w] = j /\ \A x \in Workers : x # w => work'[x] = work[x]
  BY <1>1 DEF Turns
<1>3. work' \in [Workers -> {Idle} \union JobType]
  BY <1>1 DEF Turns
<1>4. Idle.at = "idle"
  BY DEF Idle
<1>5. /\ work[w].at \notin {"claimed", "delivered", "refused"}
      /\ work'[w].at \notin {"claimed", "delivered", "refused"}
  BY <1>2, <1>4 DEF Turns
<1>6. \A x \in Workers, id \in SendIds : Holds(x, id)' <=> Holds(x, id)
  BY <1>2, <1>5 DEF Holds
<1>7. \A id \in SendIds : InTransit(id)' <=> InTransit(id)
  BY <1>2, <1>5 DEF InTransit
<1>8. Holding'
  BY <1>6 DEF WarmupInv, Holding, Turns
<1>9. Accounts'
  BY <1>7 DEF WarmupInv, Accounts, Turns
<1>10. Tasks'
  <2> SUFFICES ASSUME NEW x \in Workers, work'[x] # Idle
               PROVE  /\ work'[x].kind = "engage" => work'[x].id \in Receipts
                      /\ work'[x].at = "finish" => work'[x].kind = "engage"
                      /\ work'[x].replied => /\ work'[x].at = "finish"
                                             /\ send'[work'[x].id].status = "sent"
    BY DEF Tasks
  <2>1. CASE x = w
    BY <1>2, <2>1 DEF Turns
  <2>2. CASE x # w
    BY <1>2, <2>2 DEF WarmupInv, Tasks, Turns
  <2> QED BY <2>1, <2>2
<1> QED BY <1>3, <1>8, <1>9, <1>10

\* A job is built within the budget, or has nothing to send.
LEMMA BuildKeeps ==
    ASSUME WarmupInv, NEW w \in Workers, NEW j, Turns(w, j), j \in JobType,
           j.at = "built" => WithinPairBudget,
           UNCHANGED <<lane, receipt, sentToday, replies, faults, moves>>
    PROVE  WarmupInv'
<1>1. /\ work' \in [Workers -> {Idle} \union JobType]
      /\ Holding' /\ Accounts' /\ Tasks'
  BY TurnKeeps
<1>2. RowsTypeOK'
  BY <1>1 DEF WarmupInv, RowsTypeOK, JobType, Turns
<1>3. Sent' = Sent /\ Spent' = Spent /\ Answered' = Answered
  BY DEF Sent, Spent, Answered, Turns
<1>4. Counters'
  BY <1>3, CountsKept
<1>5. Budget'
  <2>1. CASE j.at = "built"
    <3>1. Cardinality(Spent) < PairCap
      BY <2>1 DEF WithinPairBudget, CountWarmupPairSendsToday, Spent
    <3>2. Built' \in SUBSET Workers
      BY DEF Built
    <3>3. IsFiniteSet(Built') /\ Cardinality(Built') <= Cardinality(Workers)
      BY <3>2, WarmupSendAssumption, FS_Subset
    <3>4. Cardinality(Built') \in Nat
      BY <3>3, FS_CardinalityType
    <3> QED BY <1>3, <3>1, <3>3, <3>4, Finite, WarmupSendAssumption DEF Budget
  <2>2. CASE j.at # "built"
    <3>1. Built' \subseteq Built
      BY <2>2 DEF Built, Turns, WarmupInv, RowsTypeOK
    <3> QED BY <1>3, <3>1, NoMore
  <2> QED BY <2>1, <2>2
<1> QED BY <1>1, <1>2, <1>4, <1>5 DEF WarmupInv

\* A handler gives up, or has only to record an engagement.
LEMMA SkipKeeps ==
    ASSUME WarmupInv, NEW w \in Workers, NEW j, Turns(w, j),
           j = Idle \/ j.at = "finish",
           faults' \in 0..MaxFaults,
           UNCHANGED <<lane, receipt, sentToday, replies, moves>>
    PROVE  WarmupInv'
<1>1. /\ work' \in [Workers -> {Idle} \union JobType]
      /\ Holding' /\ Accounts' /\ Tasks'
  BY TurnKeeps
<1>2. RowsTypeOK'
  BY <1>1 DEF WarmupInv, RowsTypeOK, JobType, Turns
<1>3. Sent' = Sent /\ Spent' = Spent /\ Answered' = Answered
  BY DEF Sent, Spent, Answered, Turns
<1>4. Counters'
  BY <1>3, CountsKept
<1>5. Built' \subseteq Built
  <2>1. j.at # "built"
    BY DEF Idle
  <2> QED BY <2>1 DEF Built, Turns, WarmupInv, RowsTypeOK
<1>6. Budget'
  BY <1>3, <1>5, NoMore
<1> QED BY <1>1, <1>2, <1>4, <1>6 DEF WarmupInv

-----------------------------------------------------------------------------
(* The actions                                                             *)

\* A tick's job.
LEMMA TickJobKeeps ==
    ASSUME WarmupInv, NEW w \in Workers, WarmupSendJob(w)
    PROVE  WarmupInv'
<1> DEFINE j == [at |-> "built", kind |-> "tick", id |-> deriveWarmupSendID(sentToday),
                 lane |-> lane, replied |-> FALSE]
<1>1. sentToday \in SendIds /\ lane \in LaneSet
  BY Ids DEF WarmupInv, RowsTypeOK, WarmupSendJob
<1>2. j \in JobType
  BY <1>1 DEF JobType, deriveWarmupSendID
<1>3. Turns(w, j)
  BY <1>2, Stations DEF WarmupSendJob, Turns, WarmupInv
<1> QED BY <1>2, <1>3, BuildKeeps DEF WarmupSendJob

\* An engagement's job.
LEMMA EngageJobKeeps ==
    ASSUME WarmupInv, NEW w \in Workers, NEW r \in Receipts, WarmupEngageJob(w, r)
    PROVE  WarmupInv'
<1>1. PICK partnerLane \in LaneSet :
        work' = [work EXCEPT ![w] =
          [at |-> IF LaneMaySend(lane) /\ partnerLane = lane /\ WithinPairBudget
                  THEN "built" ELSE "finish",
           kind |-> "engage", id |-> deriveWarmupReplySendID(r), lane |-> lane,
           replied |-> FALSE]]
  BY DEF WarmupEngageJob
<1> DEFINE j == [at |-> IF LaneMaySend(lane) /\ partnerLane = lane /\ WithinPairBudget
                        THEN "built" ELSE "finish",
                 kind |-> "engage", id |-> deriveWarmupReplySendID(r), lane |-> lane,
                 replied |-> FALSE]
<1>2. r \in SendIds /\ lane \in LaneSet
  BY Ids DEF WarmupInv, RowsTypeOK
<1>3. j \in JobType
  BY <1>2 DEF JobType, deriveWarmupReplySendID
<1>4. Turns(w, j)
  BY <1>1, <1>3, Stations DEF WarmupEngageJob, Turns, WarmupInv, deriveWarmupReplySendID
<1>5. j.at = "built" => WithinPairBudget
  OBVIOUS
<1> QED BY <1>3, <1>4, <1>5, BuildKeeps DEF WarmupEngageJob

\* The claim is refused: the lane moved, the row is taken, sent or failed.
LEMMA ClaimLostKeeps ==
    ASSUME WarmupInv, NEW w \in Workers, ClaimWarmupSend(w), ~ClaimWins(work[w])
    PROVE  WarmupInv'
<1> DEFINE job == work[w]
           j == WithoutSending(job, send[job.id].status = "sent")
<1>1. job \in JobType /\ job.at = "built"
  BY Stations DEF ClaimWarmupSend, WarmupInv
<1>2. work' = [work EXCEPT ![w] = j]
  BY DEF ClaimWarmupSend
<1>3. job.kind = "engage" => job.id \in Receipts
  BY DEF ClaimWarmupSend, WarmupInv, Tasks
<1>4. CASE job.kind = "tick"
  <2>1. Turns(w, Idle)
    BY <1>1, <1>2, <1>4 DEF Turns, WithoutSending, ClaimWarmupSend
  <2> QED BY <2>1, SkipKeeps DEF ClaimWarmupSend, WarmupInv, RowsTypeOK
<1>5. CASE job.kind = "engage"
  <2> DEFINE r == (send[job.id].status = "sent")
  <2>1. j = [job EXCEPT !.at = "finish", !.replied = r]
    BY <1>5 DEF WithoutSending
  <2>2. r \in BOOLEAN
    OBVIOUS
  <2>3. j \in JobType /\ j.at = "finish" /\ j.kind = job.kind /\ j.id = job.id /\ j.replied = r
    <3> HIDE DEF r, job, j
    <3> QED BY <1>1, <2>1, <2>2 DEF JobType
  <2>4. Turns(w, j)
    <3> HIDE DEF j
    <3> QED BY <1>1, <1>2, <1>3, <1>5, <2>3 DEF Turns, ClaimWarmupSend
  <2> HIDE DEF j
  <2> QED BY <2>3, <2>4, SkipKeeps DEF ClaimWarmupSend, WarmupInv, RowsTypeOK
<1> QED BY <1>1, <1>4, <1>5 DEF JobType

\* The claim is won: nobody held the row, and it had not been sent.
LEMMA ClaimWonKeeps ==
    ASSUME WarmupInv, NEW w \in Workers, ClaimWarmupSend(w), ClaimWins(work[w])
    PROVE  WarmupInv'
<1> DEFINE job == work[w]
           id == job.id
           mine == [status |-> "sending", lane |-> job.lane, stale |-> FALSE]
<1>1. job \in JobType /\ job.at = "built"
  BY Stations DEF ClaimWarmupSend, WarmupInv
<1>2. id \in SendIds /\ job.lane \in LaneSet
  BY <1>1 DEF JobType
<1>3. /\ send' = [send EXCEPT ![id] = mine]
      /\ work' = [work EXCEPT ![w].at = "claimed"]
      /\ UNCHANGED <<lane, receipt, sentToday, replies, faults, moves, copies, lost>>
  BY DEF ClaimWarmupSend
<1>4. send \in [SendIds -> RowType] /\ work \in [Workers -> {Idle} \union JobType]
  BY DEF WarmupInv, RowsTypeOK, RowType, JobType
<1>5. /\ send[id].status # "sent"
      /\ send[id].status = "sending" => send[id].stale
  BY DEF ClaimWins, Reclaimable, NoRow
<1>6. \A x \in Workers : ~(work[x].at \in {"claimed", "delivered", "refused"} /\ work[x].id = id)
  BY <1>2, <1>5, Stations DEF WarmupInv, Holding
<1>7. mine \in RowType
  BY <1>2 DEF RowType
<1>8. [job EXCEPT !.at = "claimed"] \in JobType
  BY <1>1 DEF JobType
<1>9. /\ work'[w] = [job EXCEPT !.at = "claimed"]
      /\ \A x \in Workers : x # w => work'[x] = work[x]
      /\ send'[id] = mine
      /\ \A i \in SendIds : i # id => send'[i] = send[i]
  BY <1>2, <1>3, <1>4
<1>10. send' \in [SendIds -> RowType] /\ work' \in [Workers -> {Idle} \union JobType]
  BY <1>3, <1>4, <1>7, <1>8
<1>11. RowsTypeOK'
  BY <1>3, <1>10 DEF WarmupInv, RowsTypeOK, RowType, JobType
<1>12. /\ work'[w].at = "claimed" /\ work'[w].id = id
       /\ work'[w].kind = job.kind /\ work'[w].replied = job.replied
  BY <1>1, <1>9 DEF JobType
<1>13. send'[id].status = "sending" /\ ~send'[id].stale
  BY <1>9
<1> HIDE DEF mine
<1>14. Holding'
  <2> SUFFICES ASSUME NEW i \in SendIds, NEW x \in Workers, Holds(x, i)'
               PROVE  /\ send'[i].status = "sending" /\ ~send'[i].stale
                      /\ \A y \in Workers : Holds(y, i)' => y = x
    BY DEF Holding
  <2>1. CASE i = id
    <3>1. \A y \in Workers : Holds(y, i)' => y = w
      BY <1>6, <1>9, <2>1 DEF Holds
    <3> QED BY <1>13, <2>1, <3>1
  <2>2. CASE i # id
    <3>1. \A y \in Workers : Holds(y, i)' => y # w /\ Holds(y, i)
      BY <1>9, <1>12, <2>2 DEF Holds
    <3> QED BY <1>9, <2>2, <3>1 DEF WarmupInv, Holding
  <2> QED BY <2>1, <2>2
<1>15. Accounts'
  <2>1. \A i \in SendIds : InTransit(i)' <=> InTransit(i)
    BY <1>1, <1>9, <1>12 DEF InTransit
  <2>2. ~InTransit(id)
    BY <1>6 DEF InTransit
  <2> SUFFICES ASSUME NEW i \in SendIds
               PROVE  /\ copies[i] <= lost[i] + 1
                      /\ send'[i].status # "sent" /\ ~InTransit(i) => copies[i] <= lost[i]
    BY <1>3, <2>1 DEF Accounts
  <2>3. CASE i = id
    BY <1>5, <2>2, <2>3 DEF WarmupInv, Accounts
  <2>4. CASE i # id
    BY <1>9, <2>4 DEF WarmupInv, Accounts
  <2> QED BY <2>3, <2>4
<1>16. ~job.replied
  BY <1>1, Stations DEF ClaimWarmupSend, WarmupInv, Tasks
<1>17. Tasks'
  <2> SUFFICES ASSUME NEW x \in Workers, work'[x] # Idle
               PROVE  /\ work'[x].kind = "engage" => work'[x].id \in Receipts
                      /\ work'[x].at = "finish" => work'[x].kind = "engage"
                      /\ work'[x].replied => /\ work'[x].at = "finish"
                                             /\ send'[work'[x].id].status = "sent"
    BY DEF Tasks
  <2>1. CASE x = w
    BY <1>12, <1>16, <2>1 DEF WarmupInv, Tasks, ClaimWarmupSend
  <2>2. CASE x # w
    <3>1. work'[x] = work[x]
      BY <1>9, <2>2
    <3>2. work[x].id \in SendIds
      BY <1>4, <3>1 DEF JobType
    <3> QED BY <1>5, <1>9, <3>1, <3>2 DEF WarmupInv, Tasks
  <2> QED BY <2>1, <2>2
<1>18. Sent' = Sent /\ Spent' \subseteq Spent \union {id}
  BY <1>5, <1>9, <1>13 DEF Sent, Spent
<1>19. Answered' = Answered
  BY <1>3, <1>5, <1>9, <1>13, Ids DEF Answered
<1>20. Counters'
  BY <1>3, <1>18, <1>19, CountsKept
<1>21. Budget'
  <2>1. IsFiniteSet(Spent') /\ Cardinality(Spent') <= Cardinality(Spent) + 1
    BY <1>18, Finite, OneMore
  <2>2. w \in Built /\ Built' = Built \ {w}
    BY <1>1, <1>9, <1>12 DEF Built
  <2>3. Cardinality(Built') = Cardinality(Built) - 1
    BY <2>2, Finite, FS_RemoveElement
  <2>4. Cardinality(Spent') \in Nat
    BY <2>1, FS_CardinalityType
  <2>5. Cardinality(Spent) + Cardinality(Built) <= PairCap + Cardinality(Workers) - 1
    BY DEF WarmupInv, Budget
  <2> QED BY <2>1, <2>3, <2>4, <2>5, Finite, WarmupSendAssumption DEF Budget
<1> QED BY <1>11, <1>14, <1>15, <1>17, <1>20, <1>21 DEF WarmupInv

\* The provider's three answers to the message of one id: it left, it did not, or it left
\* and was refused all the same.
Answers(id, answer) ==
    \/ /\ answer = "delivered"
       /\ copies' = [copies EXCEPT ![id] = @ + 1] /\ lost' = lost
    \/ /\ answer = "refused"
       /\ copies' = copies /\ lost' = lost
    \/ /\ answer = "refused"
       /\ copies' = [copies EXCEPT ![id] = @ + 1] /\ lost' = [lost EXCEPT ![id] = @ + 1]

\* The provider answers, under a claim that its handler alone holds.
LEMMA AnswerKeeps ==
    ASSUME WarmupInv, NEW w \in Workers, NEW answer \in {"delivered", "refused"},
           work[w].at = "claimed", work' = [work EXCEPT ![w].at = answer],
           Answers(work[w].id, answer), faults' \in 0..MaxFaults,
           UNCHANGED <<lane, send, receipt, sentToday, replies, moves>>
    PROVE  WarmupInv'
<1> DEFINE job == work[w]
           id == job.id
<1>1. job \in JobType /\ job.at = "claimed"
  BY Stations DEF WarmupInv, Idle
<1>2. id \in SendIds
  BY <1>1 DEF JobType
<1>3. /\ work' = [work EXCEPT ![w].at = answer]
      /\ UNCHANGED <<lane, send, receipt, sentToday, replies, moves>>
  OBVIOUS
<1>4. /\ work \in [Workers -> {Idle} \union JobType]
      /\ copies \in [SendIds -> Nat] /\ lost \in [SendIds -> Nat]
  BY DEF WarmupInv, RowsTypeOK, JobType
<1>5. Holds(w, id)
  BY <1>1, Stations DEF WarmupInv
<1>6. /\ send[id].status = "sending"
      /\ \A x \in Workers : Holds(x, id) => x = w
  BY <1>2, <1>5 DEF WarmupInv, Holding
<1>7. [job EXCEPT !.at = answer] \in JobType
  BY <1>1 DEF JobType
<1>8. /\ work'[w] = [job EXCEPT !.at = answer]
      /\ \A x \in Workers : x # w => work'[x] = work[x]
      /\ \A i \in SendIds : i # id => copies'[i] = copies[i] /\ lost'[i] = lost[i]
      /\ \/ /\ answer = "delivered"
            /\ copies'[id] = copies[id] + 1 /\ lost'[id] = lost[id]
         \/ answer = "refused" /\ copies'[id] = copies[id] /\ lost'[id] = lost[id]
         \/ /\ answer = "refused"
            /\ copies'[id] = copies[id] + 1 /\ lost'[id] = lost[id] + 1
  BY <1>2, <1>3, <1>4 DEF Answers
<1>9. /\ work' \in [Workers -> {Idle} \union JobType]
      /\ copies' \in [SendIds -> Nat] /\ lost' \in [SendIds -> Nat]
  BY <1>2, <1>3, <1>4, <1>7 DEF Answers
<1>10. RowsTypeOK'
  BY <1>3, <1>9 DEF WarmupInv, RowsTypeOK, JobType
<1>11. /\ work'[w].at = answer /\ work'[w].id = id /\ work'[w].kind = job.kind
       /\ work'[w].replied = job.replied /\ work'[w] # Idle
  BY <1>1, <1>8 DEF JobType, Idle
<1>12. \A x \in Workers, i \in SendIds : Holds(x, i)' <=> Holds(x, i)
  BY <1>1, <1>5, <1>8, <1>11 DEF Holds
<1>13. Holding'
  BY <1>3, <1>12 DEF WarmupInv, Holding
<1>14. Accounts'
  <2>1. ~InTransit(id)
    BY <1>1, <1>6, Stations DEF InTransit, WarmupInv
  <2>2. copies[id] <= lost[id]
    BY <1>2, <1>6, <2>1 DEF WarmupInv, Accounts
  <2>3. answer = "delivered" => InTransit(id)'
    BY <1>11 DEF InTransit
  <2>4. \A i \in SendIds : i # id => (InTransit(i)' <=> InTransit(i))
    BY <1>1, <1>8, <1>11 DEF InTransit
  <2> SUFFICES ASSUME NEW i \in SendIds
               PROVE  /\ copies'[i] <= lost'[i] + 1
                      /\ send[i].status # "sent" /\ ~InTransit(i)' => copies'[i] <= lost'[i]
    BY <1>3 DEF Accounts
  <2>5. CASE i = id
    <3>1. copies[id] \in Nat /\ lost[id] \in Nat
      BY <1>2, <1>4
    <3> QED BY <1>8, <2>2, <2>3, <2>5, <3>1
  <2>6. CASE i # id
    BY <1>8, <2>4, <2>6 DEF WarmupInv, Accounts
  <2> QED BY <2>5, <2>6
<1>15. Tasks'
  BY <1>1, <1>3, <1>8, <1>11, Stations DEF WarmupInv, Tasks
<1>16. Sent' = Sent /\ Spent' = Spent /\ Answered' = Answered
  BY <1>3 DEF Sent, Spent, Answered
<1>17. Built' \subseteq Built
  BY <1>8, <1>11 DEF Built
<1>18. Counters' /\ Budget'
  BY <1>3, <1>16, <1>17, CountsKept, NoMore
<1> QED BY <1>10, <1>13, <1>14, <1>15, <1>18 DEF WarmupInv

\* The message is handed over.
LEMMA DeliveryKeeps ==
    ASSUME WarmupInv, NEW w \in Workers, Delivers(w)
    PROVE  WarmupInv'
<1>1. faults' \in 0..MaxFaults /\ Answers(work[w].id, "delivered")
  BY DEF Delivers, Answers, WarmupInv, RowsTypeOK
<1> QED BY <1>1, AnswerKeeps DEF Delivers

\* The message is refused, or so the handler is told.
LEMMA RefusalKeeps ==
    ASSUME WarmupInv, NEW w \in Workers, Refused(w)
    PROVE  WarmupInv'
<1>1. faults' \in 0..MaxFaults
  BY WarmupSendAssumption DEF Refused, WarmupInv, RowsTypeOK
<1>2. Answers(work[w].id, "refused")
  BY DEF Refused, Answers
<1> QED BY <1>1, <1>2, AnswerKeeps DEF Refused

\* A handler lets go of its claim without recording a send: refused for now, refused for
\* good, or dead.  s is what the row says afterwards.
LEMMA LetGoKeeps ==
    ASSUME WarmupInv, NEW w \in Workers, NEW j, NEW s \in {"sending", "queued", "failed"},
           work[w].at \in {"claimed", "delivered", "refused"},
           work' = [work EXCEPT ![w] = j],
           \/ j = Idle
           \/ /\ j \in JobType /\ j.at = "finish" /\ j.kind = "engage"
              /\ j.id \in Receipts /\ ~j.replied,
           send' = [send EXCEPT ![work[w].id].status = s],
           lost' = IF work[w].at = "delivered"
                   THEN [lost EXCEPT ![work[w].id] = @ + 1] ELSE lost,
           faults' \in 0..MaxFaults,
           UNCHANGED <<lane, receipt, sentToday, replies, moves, copies>>
    PROVE  WarmupInv'
<1> DEFINE job == work[w]
           id == job.id
<1>1. job \in JobType
  BY Stations DEF WarmupInv, Idle
<1>2. id \in SendIds
  BY <1>1 DEF JobType
<1>3. /\ work \in [Workers -> {Idle} \union JobType] /\ send \in [SendIds -> RowType]
      /\ copies \in [SendIds -> Nat] /\ lost \in [SendIds -> Nat]
  BY DEF WarmupInv, RowsTypeOK, RowType, JobType
<1>4. Holds(w, id)
  BY Stations DEF WarmupInv
<1>5. /\ send[id].status = "sending" /\ ~send[id].stale
      /\ \A x \in Workers : Holds(x, id) => x = w
  BY <1>2, <1>4 DEF WarmupInv, Holding
<1>6. [send[id] EXCEPT !.status = s] \in RowType
  <2>1. send[id] \in RowType
    BY <1>2, <1>3
  <2> QED BY <2>1 DEF RowType
<1>7. /\ work'[w] = j
      /\ \A x \in Workers : x # w => work'[x] = work[x]
      /\ send'[id] = [send[id] EXCEPT !.status = s]
      /\ \A i \in SendIds : i # id => send'[i] = send[i]
  BY <1>2, <1>3
<1>8. send'[id].status = s
  <2>1. send[id] \in RowType
    BY <1>2, <1>3
  <2> QED BY <1>7, <2>1 DEF RowType
<1>9. j.at \notin {"built", "claimed", "delivered", "refused"}
  BY DEF Idle
<1>10. /\ work' \in [Workers -> {Idle} \union JobType] /\ send' \in [SendIds -> RowType]
       /\ lost' \in [SendIds -> Nat]
  BY <1>2, <1>3, <1>6
<1>11. RowsTypeOK'
  BY <1>10 DEF WarmupInv, RowsTypeOK, RowType, JobType
<1>12. \A x \in Workers, i \in SendIds : Holds(x, i)' => x # w /\ i # id /\ Holds(x, i)
  BY <1>5, <1>7, <1>9 DEF Holds
<1>13. Holding'
  BY <1>7, <1>12 DEF WarmupInv, Holding
<1>14. Accounts'
  <2>1. \A i \in SendIds : i # id => (InTransit(i)' <=> InTransit(i))
    BY <1>7, <1>9 DEF InTransit
  <2>2. work[w].at # "delivered" => ~InTransit(id)
    BY <1>5, Stations DEF InTransit, WarmupInv
  <2>3. /\ lost'[id] = IF work[w].at = "delivered" THEN lost[id] + 1 ELSE lost[id]
        /\ \A i \in SendIds : i # id => lost'[i] = lost[i]
    BY <1>2, <1>3
  <2>4. /\ copies[id] <= lost[id] + 1
        /\ work[w].at # "delivered" => copies[id] <= lost[id]
    BY <1>2, <1>5, <2>2 DEF WarmupInv, Accounts
  <2>5. copies[id] <= lost'[id]
    BY <1>2, <1>3, <2>3, <2>4
  <2>6. copies[id] \in Nat /\ lost'[id] \in Nat
    BY <1>2, <1>3, <1>10
  <2> SUFFICES ASSUME NEW i \in SendIds
               PROVE  /\ copies[i] <= lost'[i] + 1
                      /\ send'[i].status # "sent" /\ ~InTransit(i)' => copies[i] <= lost'[i]
    BY DEF Accounts
  <2>7. CASE i = id
    BY <2>5, <2>6, <2>7
  <2>8. CASE i # id
    BY <1>7, <2>1, <2>3, <2>8 DEF WarmupInv, Accounts
  <2> QED BY <2>7, <2>8
<1>15. Tasks'
  <2> SUFFICES ASSUME NEW x \in Workers, work'[x] # Idle
               PROVE  /\ work'[x].kind = "engage" => work'[x].id \in Receipts
                      /\ work'[x].at = "finish" => work'[x].kind = "engage"
                      /\ work'[x].replied => /\ work'[x].at = "finish"
                                             /\ send'[work'[x].id].status = "sent"
    BY DEF Tasks
  <2>1. CASE x = w
    BY <1>7, <2>1
  <2>2. CASE x # w
    <3>1. work'[x] = work[x] /\ work[x].id \in SendIds
      BY <1>3, <1>7, <2>2 DEF JobType
    <3> QED BY <1>5, <1>7, <3>1 DEF WarmupInv, Tasks
  <2> QED BY <2>1, <2>2
<1>16. Sent' = Sent /\ Spent' \subseteq Spent
  BY <1>5, <1>7, <1>8 DEF Sent, Spent
<1>17. Answered' = Answered
  BY <1>5, <1>7, <1>8, Ids DEF Answered
<1>18. Built' \subseteq Built
  BY <1>7, <1>9 DEF Built
<1>19. Counters' /\ Budget'
  BY <1>16, <1>17, <1>18, CountsKept, NoMore
<1> QED BY <1>11, <1>13, <1>14, <1>15, <1>19 DEF WarmupInv

\* The row of a claim that is held is 'sending', so what its holder writes is written.
LEMMA HeldRow ==
    ASSUME WarmupInv, NEW w \in Workers, work[w].at \in {"claimed", "delivered", "refused"}
    PROVE  /\ work[w] \in JobType /\ work[w].id \in SendIds
           /\ send[work[w].id].status = "sending"
           /\ \A s : Finalize(work[w].id, s) = [send EXCEPT ![work[w].id].status = s]
           /\ send = [send EXCEPT ![work[w].id].status = "sending"]
<1>1. work[w] \in JobType
  BY Stations DEF WarmupInv, Idle
<1>2. work[w].id \in SendIds
  BY <1>1 DEF JobType
<1>3. send[work[w].id].status = "sending"
  BY <1>2, Stations DEF WarmupInv, Holding
<1>4. send \in [SendIds -> RowType]
  BY DEF WarmupInv, RowsTypeOK, RowType
<1>5. send = [send EXCEPT ![work[w].id].status = "sending"]
  <2>1. send[work[w].id] \in RowType
    BY <1>2, <1>4
  <2>2. [send[work[w].id] EXCEPT !.status = "sending"] = send[work[w].id]
    BY <1>3, <2>1 DEF RowType
  <2> QED BY <1>2, <1>4, <2>2
<1> QED BY <1>1, <1>2, <1>3, <1>5 DEF Finalize

\* A refusal that may pass: the claim is released.
LEMMA ReleaseKeeps ==
    ASSUME WarmupInv, NEW w \in Workers, ReleaseWarmupSend(w)
    PROVE  WarmupInv'
<1>1. work[w].at = "refused"
  BY DEF ReleaseWarmupSend
<1>2. faults' \in 0..MaxFaults
  BY DEF ReleaseWarmupSend, WarmupInv, RowsTypeOK
<1>3. send' = [send EXCEPT ![work[w].id].status = "queued"]
  BY <1>1, HeldRow DEF ReleaseWarmupSend, Released
<1> QED BY <1>1, <1>2, <1>3, LetGoKeeps DEF ReleaseWarmupSend

\* A refusal that will not: the row is failed and an engagement goes on.
LEMMA FailKeeps ==
    ASSUME WarmupInv, NEW w \in Workers, FailWarmupSend(w)
    PROVE  WarmupInv'
<1> DEFINE j == WithoutSending(work[w], FALSE)
<1>1. work[w].at = "refused" /\ work[w] \in JobType /\ work[w] # Idle
  BY HeldRow DEF FailWarmupSend
<1>2. faults' \in 0..MaxFaults
  BY DEF FailWarmupSend, WarmupInv, RowsTypeOK
<1>3. send' = [send EXCEPT ![work[w].id].status = "failed"]
  BY <1>1, HeldRow DEF FailWarmupSend
<1>4. \/ j = Idle
      \/ /\ j \in JobType /\ j.at = "finish" /\ j.kind = "engage"
         /\ j.id \in Receipts /\ ~j.replied
  <2>1. CASE work[w].kind = "tick"
    BY <2>1 DEF WithoutSending
  <2>2. CASE work[w].kind = "engage"
    <3>1. work[w].id \in Receipts
      BY <1>1, <2>2 DEF WarmupInv, Tasks
    <3>2. j = [work[w] EXCEPT !.at = "finish", !.replied = FALSE]
      BY <2>2 DEF WithoutSending
    <3> HIDE DEF j
    <3> QED BY <1>1, <2>2, <3>1, <3>2 DEF JobType
  <2> QED BY <1>1, <2>1, <2>2 DEF JobType
<1>5. work' = [work EXCEPT ![w] = j]
  BY DEF FailWarmupSend
<1> HIDE DEF j
<1> QED BY <1>1, <1>2, <1>3, <1>4, <1>5, LetGoKeeps DEF FailWarmupSend

\* The worker dies wherever it is.
LEMMA CrashKeeps ==
    ASSUME WarmupInv, NEW w \in Workers, Crash(w)
    PROVE  WarmupInv'
<1>1. faults' \in 0..MaxFaults
  BY WarmupSendAssumption DEF Crash, WarmupInv, RowsTypeOK
<1>2. CASE work[w].at \in {"claimed", "delivered", "refused"}
  <2>1. send' = [send EXCEPT ![work[w].id].status = "sending"]
    BY <1>2, HeldRow DEF Crash
  <2> QED BY <1>1, <1>2, <2>1, LetGoKeeps DEF Crash
<1>3. CASE work[w].at \notin {"claimed", "delivered", "refused"}
  <2>1. Turns(w, Idle)
    BY <1>3 DEF Turns, Crash
  <2> QED BY <1>1, <2>1, SkipKeeps DEF Crash
<1> QED BY <1>2, <1>3

\* The send is recorded: one more row is sent and the counter says so.
LEMMA SentKeeps ==
    ASSUME WarmupInv, NEW w \in Workers, MarkWarmupSent(w)
    PROVE  WarmupInv'
<1> DEFINE job == work[w]
           id == job.id
           j == WithoutSending(job, TRUE)
<1>1. job.at = "delivered" /\ job # Idle
  BY DEF MarkWarmupSent
<1>2. /\ job \in JobType /\ id \in SendIds /\ send[id].status = "sending"
      /\ Finalize(id, "sent") = [send EXCEPT ![id].status = "sent"]
  BY <1>1, HeldRow
<1>3. /\ send' = [send EXCEPT ![id].status = "sent"]
      /\ sentToday' = sentToday + 1
      /\ work' = [work EXCEPT ![w] = j]
      /\ UNCHANGED <<lane, receipt, replies, faults, moves, copies, lost>>
  BY <1>2 DEF MarkWarmupSent
<1>4. /\ work \in [Workers -> {Idle} \union JobType] /\ send \in [SendIds -> RowType]
      /\ copies \in [SendIds -> Nat] /\ lost \in [SendIds -> Nat]
  BY DEF WarmupInv, RowsTypeOK, RowType, JobType
<1>5. \A x \in Workers : Holds(x, id) => x = w
  BY <1>1, <1>2, Stations DEF WarmupInv, Holding
<1>6. \/ j = Idle
      \/ /\ j \in JobType /\ j.at = "finish" /\ j.kind = "engage" /\ j.id = id
         /\ j.id \in Receipts
  <2>1. CASE job.kind = "tick"
    BY <2>1 DEF WithoutSending
  <2>2. CASE job.kind = "engage"
    <3>1. id \in Receipts
      BY <1>1, <2>2 DEF WarmupInv, Tasks
    <3>2. j = [job EXCEPT !.at = "finish", !.replied = TRUE]
      BY <2>2 DEF WithoutSending
    <3> HIDE DEF j, job
    <3> QED BY <1>2, <2>2, <3>1, <3>2 DEF JobType
  <2> QED BY <1>2, <2>1, <2>2 DEF JobType
<1> HIDE DEF j
<1>7. send[id] \in RowType
  BY <1>2, <1>4
<1>8. [send[id] EXCEPT !.status = "sent"] \in RowType
  BY <1>7 DEF RowType
<1>9. /\ work'[w] = j
      /\ \A x \in Workers : x # w => work'[x] = work[x]
      /\ send'[id] = [send[id] EXCEPT !.status = "sent"]
      /\ \A i \in SendIds : i # id => send'[i] = send[i]
  BY <1>2, <1>3, <1>4
<1>10. send'[id].status = "sent"
  BY <1>7, <1>9 DEF RowType
<1>11. work' \in [Workers -> {Idle} \union JobType] /\ send' \in [SendIds -> RowType]
  BY <1>2, <1>3, <1>4, <1>6, <1>8
<1>12. RowsTypeOK'
  BY <1>3, <1>11 DEF WarmupInv, RowsTypeOK, RowType, JobType
<1>13. j.at \notin {"built", "claimed", "delivered", "refused"}
  BY <1>6 DEF Idle
<1>14. \A x \in Workers, i \in SendIds : Holds(x, i)' => x # w /\ i # id /\ Holds(x, i)
  BY <1>5, <1>9, <1>13 DEF Holds
<1>15. Holding'
  BY <1>9, <1>14 DEF WarmupInv, Holding
<1>16. Accounts'
  <2>1. \A i \in SendIds : i # id => (InTransit(i)' <=> InTransit(i))
    BY <1>9, <1>13 DEF InTransit
  <2> QED BY <1>2, <1>3, <1>9, <1>10, <2>1 DEF WarmupInv, Accounts
<1>17. Tasks'
  <2> SUFFICES ASSUME NEW x \in Workers, work'[x] # Idle
               PROVE  /\ work'[x].kind = "engage" => work'[x].id \in Receipts
                      /\ work'[x].at = "finish" => work'[x].kind = "engage"
                      /\ work'[x].replied => /\ work'[x].at = "finish"
                                             /\ send'[work'[x].id].status = "sent"
    BY DEF Tasks
  <2>1. CASE x = w
    BY <1>6, <1>9, <1>10, <2>1
  <2>2. CASE x # w
    <3>1. work'[x] = work[x] /\ work[x].id \in SendIds
      BY <1>4, <1>9, <2>2 DEF JobType
    <3>2. send[work[x].id].status = "sent" => send'[work[x].id].status = "sent"
      <4>1. CASE work[x].id = id
        BY <1>10, <4>1
      <4>2. CASE work[x].id # id
        BY <1>9, <3>1, <4>2
      <4> QED BY <4>1, <4>2
    <3> QED BY <3>1, <3>2 DEF WarmupInv, Tasks
  <2> QED BY <2>1, <2>2
<1>18. /\ id \notin Sent /\ Sent' = Sent \union {id} /\ Spent' = Spent
  <2> HIDE DEF id
  <2>1. id \notin Sent
    BY <1>2 DEF Sent
  <2>2. Sent' = Sent \union {id}
    BY <1>2, <1>9, <1>10 DEF Sent
  <2>3. Spent' = Spent
    <3>1. \A i \in SendIds : send'[i].status \in {"sending", "sent"}
                              <=> send[i].status \in {"sending", "sent"}
      BY <1>2, <1>9, <1>10
    <3> QED BY <3>1 DEF Spent
  <2> QED BY <2>1, <2>2, <2>3
<1>19. Built' \subseteq Built
  BY <1>9, <1>13 DEF Built
<1>20. Budget'
  BY <1>18, <1>19, NoMore
<1>21. Counters'
  <2>1. IsFiniteSet(Sent') /\ Cardinality(Sent') = Cardinality(Sent) + 1
    BY <1>18, Finite, FS_AddElement
  <2>2. sentToday = Cardinality(Sent) /\ replies <= Cardinality(Answered) /\ replies \in Nat
    BY DEF WarmupInv, Counters, RowsTypeOK
  <2>3. Answered \subseteq Answered' /\ Answered' \subseteq Sent'
    BY <1>3, <1>9, <1>10, Ids DEF Answered, Sent
  <2>4. IsFiniteSet(Answered') /\ Cardinality(Answered') \in Nat
    BY <2>1, <2>3, FS_Subset, FS_CardinalityType
  <2>5. Cardinality(Answered) <= Cardinality(Answered')
    BY <2>3, <2>4, FS_Subset
  <2> QED BY <1>3, <2>1, <2>2, <2>4, <2>5, Finite DEF Counters
<1> QED BY <1>12, <1>15, <1>16, <1>17, <1>20, <1>21 DEF WarmupInv

\* The engagement is recorded, and its reply counted unless it was already.
LEMMA EngagedKeeps ==
    ASSUME WarmupInv, NEW w \in Workers, MarkWarmupEngaged(w)
    PROVE  WarmupInv'
<1> DEFINE job == work[w]
           r == job.id
<1>1. job # Idle /\ job.at = "finish"
  BY DEF MarkWarmupEngaged
<1>3. r \in Receipts
  BY <1>1 DEF WarmupInv, Tasks
<1>4. Turns(w, Idle)
  BY <1>1 DEF Turns, MarkWarmupEngaged
<1>5. /\ work' \in [Workers -> {Idle} \union JobType]
      /\ Holding' /\ Accounts' /\ Tasks'
  BY <1>4, TurnKeeps
<1>6. UNCHANGED <<lane, send, sentToday, faults, moves, copies, lost>>
  BY DEF MarkWarmupEngaged
<1>7. receipt \in [Receipts -> {"none", "received", "engaged"}] /\ replies \in Nat
  BY DEF WarmupInv, RowsTypeOK
<1>8. /\ receipt' \in [Receipts -> {"none", "received", "engaged"}]
      /\ replies' \in Nat
      /\ \A x \in Receipts : receipt[x] = "engaged" => receipt'[x] = "engaged"
  BY <1>3, <1>7 DEF MarkWarmupEngaged, Engaged
<1>9. RowsTypeOK'
  BY <1>5, <1>6, <1>8 DEF WarmupInv, RowsTypeOK, JobType
<1>10. Sent' = Sent /\ Spent' = Spent /\ Answered \subseteq Answered'
  BY <1>6, <1>8 DEF Sent, Spent, Answered
<1>11. Built' \subseteq Built
  BY <1>4 DEF Turns, Built, Idle, WarmupInv, RowsTypeOK
<1>12. Budget'
  BY <1>10, <1>11, NoMore
<1>13. Counters'
  <2>1. CASE replies' = replies
    BY <1>6, <1>10, <2>1, CountsKept
  <2>2. CASE replies' # replies
    <3>1. /\ receipt[r] # "engaged" /\ job.replied
          /\ receipt' = [receipt EXCEPT ![r] = "engaged"] /\ replies' = replies + 1
      BY <2>2 DEF MarkWarmupEngaged, Engaged
    <3>2. send[r].status = "sent"
      BY <1>1, <3>1 DEF WarmupInv, Tasks
    <3>3. r \notin Answered /\ Answered' = Answered \union {r}
      BY <1>3, <1>6, <1>7, <3>1, <3>2 DEF Answered
    <3>4. Cardinality(Answered') = Cardinality(Answered) + 1
      BY <3>3, Finite, FS_AddElement
    <3>5. sentToday = Cardinality(Sent) /\ replies <= Cardinality(Answered)
      BY DEF WarmupInv, Counters
    <3> QED BY <1>6, <1>7, <1>10, <3>1, <3>4, <3>5, Finite DEF Counters
  <2> QED BY <2>1, <2>2
<1> QED BY <1>5, <1>9, <1>12, <1>13 DEF WarmupInv

\* A claim nobody holds grows stale.
LEMMA LeaseKeeps ==
    ASSUME WarmupInv, NEW id \in SendIds, LeaseRunsOut(id)
    PROVE  WarmupInv'
<1>1. /\ send[id].status = "sending" /\ \A w \in Workers : ~Holds(w, id)
      /\ send' = [send EXCEPT ![id].stale = TRUE]
      /\ UNCHANGED <<lane, work, receipt, sentToday, replies, faults, moves, copies, lost>>
  BY DEF LeaseRunsOut
<1>2. send \in [SendIds -> RowType]
  BY DEF WarmupInv, RowsTypeOK, RowType
<1>3. send[id] \in RowType
  BY <1>2
<1>4. /\ [send[id] EXCEPT !.stale = TRUE] \in RowType
      /\ [send[id] EXCEPT !.stale = TRUE].status = send[id].status
  BY <1>3 DEF RowType
<1>5. /\ send' \in [SendIds -> RowType]
      /\ \A i \in SendIds : /\ send'[i].status = send[i].status
                            /\ i # id => send'[i] = send[i]
  BY <1>1, <1>2, <1>4
<1>6. RowsTypeOK'
  BY <1>1, <1>5 DEF WarmupInv, RowsTypeOK, RowType
<1>7. Holding'
  <2>1. \A w \in Workers, i \in SendIds : Holds(w, i)' <=> Holds(w, i)
    BY <1>1 DEF Holds
  <2> QED BY <1>1, <1>5, <2>1 DEF WarmupInv, Holding
<1>8. Accounts'
  <2>1. \A i \in SendIds : InTransit(i)' <=> InTransit(i)
    BY <1>1 DEF InTransit
  <2> QED BY <1>1, <1>5, <2>1 DEF WarmupInv, Accounts
<1>9. Tasks'
  <2>1. \A w \in Workers : work[w] # Idle => work[w].id \in SendIds
    BY DEF WarmupInv, RowsTypeOK
  <2> QED BY <1>1, <1>5, <2>1 DEF WarmupInv, Tasks
<1>10. Sent' = Sent /\ Spent' = Spent
  BY <1>5 DEF Sent, Spent
<1>11. Answered' = Answered
  BY <1>1, <1>5, Ids DEF Answered
<1>12. Built' = Built
  BY <1>1 DEF Built
<1>13. Counters' /\ Budget'
  BY <1>1, <1>10, <1>11, <1>12, CountsKept, NoMore
<1> QED BY <1>6, <1>7, <1>8, <1>9, <1>13 DEF WarmupInv

\* Rescue, mark-read or a statement fails: the job is dropped, nothing was in hand.
LEMMA StepFailsKeeps ==
    ASSUME WarmupInv, NEW w \in Workers, EngageStepFails(w)
    PROVE  WarmupInv'
<1>1. Turns(w, Idle)
  BY DEF Turns, EngageStepFails
<1>2. faults' \in 0..MaxFaults
  BY WarmupSendAssumption DEF EngageStepFails, WarmupInv, RowsTypeOK
<1> QED BY <1>1, <1>2, SkipKeeps DEF EngageStepFails

\* Mail is received, a task is enqueued or the lane moves: the send path does not notice.
LEMMA WorldKeeps ==
    ASSUME WarmupInv,
           UNCHANGED <<send, work, sentToday, replies, copies, lost>>,
           lane' \in LaneSet, moves' \in 0..MaxMoves, faults' \in 0..MaxFaults,
           receipt' \in [Receipts -> {"none", "received", "engaged"}],
           \A r \in Receipts : receipt[r] = "engaged" => receipt'[r] = "engaged"
    PROVE  WarmupInv'
<1>1. RowsTypeOK'
  BY DEF WarmupInv, RowsTypeOK
<1>2. Holding'
  BY DEF WarmupInv, Holding, Holds
<1>3. Accounts'
  BY DEF WarmupInv, Accounts, InTransit
<1>4. Tasks'
  BY DEF WarmupInv, Tasks
<1>5. Sent' = Sent /\ Spent' = Spent /\ Built' = Built
  BY DEF Sent, Spent, Built
<1>6. Answered \subseteq Answered'
  BY DEF Answered
<1>7. Counters' /\ Budget'
  BY <1>5, <1>6, CountsKept, NoMore
<1> QED BY <1>1, <1>2, <1>3, <1>4, <1>7 DEF WarmupInv

\* The invariant holds at first: nothing was sent, nothing is promised.
LEMMA WarmupInvInit == Init => WarmupInv
<1> SUFFICES ASSUME Init PROVE WarmupInv
  OBVIOUS
<1>1. \A id \in SendIds : send[id].status = "none" /\ copies[id] = 0 /\ lost[id] = 0
  BY DEF Init, NoRow
<1>2. \A w \in Workers : work[w] = Idle /\ work[w].at = "idle"
  BY DEF Init, Idle
<1>3. RowsTypeOK
  <2>1. NoRow \in RowType
    BY DEF NoRow, RowType
  <2>2. send \in [SendIds -> RowType]
    BY <2>1 DEF Init
  <2> QED BY <2>2, WarmupSendAssumption DEF Init, RowsTypeOK, LaneSet, RowType
<1>4. Holding
  BY <1>2 DEF Holding, Holds
<1>5. Accounts
  BY <1>1 DEF Accounts
<1>6. Tasks
  BY <1>2 DEF Tasks
<1>7. Sent = {} /\ Spent = {} /\ Built = {}
  BY <1>1, <1>2 DEF Sent, Spent, Built
<1>8. Answered = {}
  BY <1>1, Ids DEF Answered
<1>9. Counters
  BY <1>7, <1>8, FS_EmptySet DEF Counters, Init
<1>10. Budget
  <2>1. Cardinality(Workers) \in Nat /\ Cardinality(Workers) # 0
    BY WarmupSendAssumption, FS_EmptySet, FS_CardinalityType
  <2>2. Cardinality(Spent) = 0 /\ Cardinality(Built) = 0 /\ IsFiniteSet(Spent)
    BY <1>7, FS_EmptySet
  <2> QED BY <2>1, <2>2, WarmupSendAssumption DEF Budget
<1> QED BY <1>3, <1>4, <1>5, <1>6, <1>9, <1>10 DEF WarmupInv

\* Every step keeps it.
LEMMA WarmupInvStep == WarmupInv /\ [Next]_vars => WarmupInv'
<1> SUFFICES ASSUME WarmupInv, [Next]_vars PROVE WarmupInv'
  OBVIOUS
<1>1. /\ lane \in LaneSet /\ moves \in 0..MaxMoves /\ faults \in 0..MaxFaults
      /\ receipt \in [Receipts -> {"none", "received", "engaged"}]
  BY DEF WarmupInv, RowsTypeOK
<1>2. CASE UNCHANGED vars
  BY <1>1, <1>2, WorldKeeps DEF vars
<1>3. ASSUME NEW w \in Workers, WarmupSendJob(w) PROVE WarmupInv'
  BY <1>3, TickJobKeeps
<1>4. ASSUME NEW w \in Workers, NEW r \in Receipts, WarmupEngageJob(w, r) PROVE WarmupInv'
  BY <1>4, EngageJobKeeps
<1>5. ASSUME NEW w \in Workers, ClaimWarmupSend(w) PROVE WarmupInv'
  BY <1>5, ClaimWonKeeps, ClaimLostKeeps
<1>6. ASSUME NEW w \in Workers, Delivers(w) \/ Refused(w) PROVE WarmupInv'
  BY <1>6, DeliveryKeeps, RefusalKeeps
<1>7. ASSUME NEW w \in Workers, MarkWarmupSent(w) PROVE WarmupInv'
  BY <1>7, SentKeeps
<1>8. ASSUME NEW w \in Workers, MarkWarmupEngaged(w) PROVE WarmupInv'
  BY <1>8, EngagedKeeps
<1>9. ASSUME NEW w \in Workers, ReleaseWarmupSend(w) PROVE WarmupInv'
  BY <1>9, ReleaseKeeps
<1>10. ASSUME NEW w \in Workers, FailWarmupSend(w) PROVE WarmupInv'
  BY <1>10, FailKeeps
<1>11. ASSUME NEW w \in Workers, Crash(w) PROVE WarmupInv'
  BY <1>11, CrashKeeps
<1>12. ASSUME NEW id \in SendIds, LeaseRunsOut(id) PROVE WarmupInv'
  BY <1>12, LeaseKeeps
<1>13. ASSUME NEW r \in Receipts, RecordWarmupReceipt(r) PROVE WarmupInv'
  <2>1. /\ receipt' \in [Receipts -> {"none", "received", "engaged"}]
        /\ \A x \in Receipts : receipt[x] = "engaged" => receipt'[x] = "engaged"
    BY <1>1, <1>13 DEF RecordWarmupReceipt
  <2> QED BY <1>1, <1>13, <2>1, WorldKeeps DEF RecordWarmupReceipt
<1>14. CASE LaneMoves
  <2>1. moves' \in 0..MaxMoves /\ lane' \in LaneSet
    BY <1>1, <1>14, WarmupSendAssumption DEF LaneMoves
  <2> QED BY <1>1, <1>14, <2>1, WorldKeeps DEF LaneMoves
<1>15. ASSUME NEW w \in Workers, EngageStepFails(w) PROVE WarmupInv'
  BY <1>15, StepFailsKeeps
<1>16. ASSUME NEW r \in Receipts, EnqueueWarmupEngage(r) PROVE WarmupInv'
  <2>1. faults' \in 0..MaxFaults
    BY <1>1, <1>16, WarmupSendAssumption DEF EnqueueWarmupEngage
  <2> QED BY <1>1, <1>16, <2>1, WorldKeeps DEF EnqueueWarmupEngage
<1> QED BY <1>2, <1>3, <1>4, <1>5, <1>6, <1>7, <1>8, <1>9, <1>10, <1>11, <1>12, <1>13,
           <1>14, <1>15, <1>16 DEF Next, Handle

-----------------------------------------------------------------------------
(* The theorems                                                            *)

\* The inductive invariant holds of every behaviour.
LEMMA WarmupInvHolds == Spec => []WarmupInv
BY WarmupInvInit, WarmupInvStep, PTL DEF Spec

\* What a step may do to the queue: a task starts, ends, fails or is enqueued, and the
\* receipts and the polls' debts move with it.
LEMMA QueueSteps ==
    ASSUME WarmupInv, [Next]_vars
    PROVE  \/ UNCHANGED <<queueVars, receipt>>
           \/ \E r \in Receipts :
                \/ /\ task' = [task EXCEPT ![r] = "running"]
                   /\ UNCHANGED <<left, toEnqueue, receipt>>
                \/ /\ left[r] > 0 /\ task' = [task EXCEPT ![r] = "queued"]
                   /\ left' = [left EXCEPT ![r] = @ - 1] /\ UNCHANGED <<toEnqueue, receipt>>
                \/ /\ task' = [task EXCEPT ![r] = "archived"]
                   /\ UNCHANGED <<left, toEnqueue, receipt>>
                \/ /\ task' = [task EXCEPT ![r] = "none"]
                   /\ UNCHANGED <<left, toEnqueue>>
                   /\ receipt' = [receipt EXCEPT ![r] = "engaged"]
                \/ /\ receipt' = [receipt EXCEPT ![r] = "received"]
                   /\ toEnqueue' = toEnqueue \union {r} /\ UNCHANGED <<task, left>>
                \/ Queue(r) /\ toEnqueue' \in {toEnqueue, toEnqueue \ {r}} /\ UNCHANGED receipt
                \/ /\ receipt[r] = "engaged" /\ toEnqueue' = toEnqueue \ {r}
                   /\ UNCHANGED <<task, left, receipt>>
<1>1. ASSUME NEW w \in Workers, work[w] # Idle, TaskFails(work[w]), UNCHANGED receipt
      PROVE  \/ UNCHANGED <<queueVars, receipt>>
             \/ \E r \in Receipts :
                  \/ /\ left[r] > 0 /\ task' = [task EXCEPT ![r] = "queued"]
                     /\ left' = [left EXCEPT ![r] = @ - 1] /\ UNCHANGED <<toEnqueue, receipt>>
                  \/ /\ task' = [task EXCEPT ![r] = "archived"]
                     /\ UNCHANGED <<left, toEnqueue, receipt>>
  <2>1. CASE work[w].kind = "tick"
    BY <1>1, <2>1 DEF TaskFails, queueVars
  <2>2. CASE work[w].kind # "tick"
    <3>1. work[w].id \in Receipts
      BY <1>1, <2>2, Stations DEF WarmupInv, Tasks, JobType
    <3> QED BY <1>1, <2>2, <3>1 DEF TaskFails
  <2> QED BY <2>1, <2>2
<1>2. ASSUME NEW w \in Workers, Crash(w) \/ EngageStepFails(w) \/ ReleaseWarmupSend(w)
      PROVE  work[w] # Idle /\ TaskFails(work[w]) /\ UNCHANGED receipt
  BY <1>2 DEF Crash, EngageStepFails, ReleaseWarmupSend
<1>3. ASSUME NEW w \in Workers, NEW r \in Receipts, WarmupEngageJob(w, r)
      PROVE  /\ task' = [task EXCEPT ![r] = "running"]
             /\ UNCHANGED <<left, toEnqueue, receipt>>
  BY <1>3 DEF WarmupEngageJob
<1>4. ASSUME NEW w \in Workers, MarkWarmupEngaged(w)
      PROVE  \E r \in Receipts : /\ task' = [task EXCEPT ![r] = "none"]
                                 /\ UNCHANGED <<left, toEnqueue>>
                                 /\ receipt' = [receipt EXCEPT ![r] = "engaged"]
  <2>1. work[w].id \in Receipts
    BY <1>4 DEF MarkWarmupEngaged, WarmupInv, Tasks
  <2>2. receipt' = [receipt EXCEPT ![work[w].id] = "engaged"]
    BY <1>4, <2>1 DEF MarkWarmupEngaged, Engaged, WarmupInv, RowsTypeOK
  <2> QED BY <1>4, <2>1, <2>2 DEF MarkWarmupEngaged
<1>5. ASSUME NEW r \in Receipts, EnqueueWarmupEngage(r)
      PROVE  \/ UNCHANGED <<queueVars, receipt>>
             \/ Queue(r) /\ toEnqueue' \in {toEnqueue, toEnqueue \ {r}} /\ UNCHANGED receipt
             \/ /\ receipt[r] = "engaged" /\ toEnqueue' = toEnqueue \ {r}
                /\ UNCHANGED <<task, left, receipt>>
  BY <1>5 DEF EnqueueWarmupEngage, KeptOnError, queueVars
<1>6. ASSUME NEW r \in Receipts, RecordWarmupReceipt(r)
      PROVE  /\ receipt' = [receipt EXCEPT ![r] = "received"]
             /\ toEnqueue' = toEnqueue \union {r} /\ UNCHANGED <<task, left>>
  BY <1>6 DEF RecordWarmupReceipt
<1>7. ASSUME NEW w \in Workers,
             \/ WarmupSendJob(w) \/ ClaimWarmupSend(w) \/ Delivers(w) \/ Refused(w)
             \/ FailWarmupSend(w) \/ MarkWarmupSent(w)
      PROVE  UNCHANGED <<queueVars, receipt>>
  BY <1>7 DEF WarmupSendJob, ClaimWarmupSend, Delivers, Refused, FailWarmupSend, MarkWarmupSent
<1>8. CASE (\E id \in SendIds : LeaseRunsOut(id)) \/ LaneMoves \/ UNCHANGED vars
  BY <1>8 DEF LeaseRunsOut, LaneMoves, vars
<1> QED BY <1>1, <1>2, <1>3, <1>4, <1>5, <1>6, <1>7, <1>8 DEF Next, Handle

\* The queue keeps its types and strands nobody.
LEMMA QueueKeeps ==
    WarmupInv /\ QueueTypeOK /\ NotStranded /\ [Next]_vars => QueueTypeOK' /\ NotStranded'
<1> SUFFICES ASSUME WarmupInv, QueueTypeOK, NotStranded, [Next]_vars
             PROVE  QueueTypeOK' /\ NotStranded'
  OBVIOUS
<1>1. receipt \in [Receipts -> {"none", "received", "engaged"}]
  BY DEF WarmupInv, RowsTypeOK
<1>2. CASE UNCHANGED <<queueVars, receipt>>
  BY <1>2 DEF queueVars, QueueTypeOK, NotStranded
<1>3. ASSUME NEW r \in Receipts,
             \/ task' = [task EXCEPT ![r] = "running"] /\ UNCHANGED left
             \/ /\ left[r] > 0 /\ task' = [task EXCEPT ![r] = "queued"]
                /\ left' = [left EXCEPT ![r] = @ - 1]
             \/ task' = [task EXCEPT ![r] = "archived"] /\ UNCHANGED left,
             UNCHANGED <<toEnqueue, receipt>>
      PROVE  QueueTypeOK' /\ NotStranded'
  <2>1. left[r] \in 0..MaxRetry
    BY DEF QueueTypeOK
  <2>2. left' \in [Receipts -> 0..MaxRetry]
    BY <1>3, <2>1, WarmupSendAssumption DEF QueueTypeOK
  <2>3. QueueTypeOK'
    BY <1>3, <2>2 DEF QueueTypeOK
  <2>4. NotStranded'
    BY <1>3 DEF QueueTypeOK, NotStranded
  <2> QED BY <2>3, <2>4
<1>4. ASSUME NEW r \in Receipts, task' = [task EXCEPT ![r] = "none"],
             UNCHANGED <<left, toEnqueue>>, receipt' = [receipt EXCEPT ![r] = "engaged"]
      PROVE  QueueTypeOK' /\ NotStranded'
  BY <1>1, <1>4 DEF QueueTypeOK, NotStranded
<1>5. ASSUME NEW r \in Receipts, receipt' = [receipt EXCEPT ![r] = "received"],
             toEnqueue' = toEnqueue \union {r}, UNCHANGED <<task, left>>
      PROVE  QueueTypeOK' /\ NotStranded'
  BY <1>1, <1>5 DEF QueueTypeOK, NotStranded
<1>6. ASSUME NEW r \in Receipts, Queue(r), toEnqueue' \in {toEnqueue, toEnqueue \ {r}},
             UNCHANGED receipt
      PROVE  QueueTypeOK' /\ NotStranded'
  <2>1. MaxRetry \in 0..MaxRetry
    BY WarmupSendAssumption
  <2>2. QueueTypeOK'
    BY <1>6, <2>1 DEF QueueTypeOK, Queue
  <2>3. task'[r] # "none" /\ \A x \in Receipts : x # r => task'[x] = task[x]
    BY <1>6 DEF QueueTypeOK, Queue
  <2>4. \A x \in Receipts : x # r => (x \in toEnqueue' <=> x \in toEnqueue)
    BY <1>6
  <2> QED BY <1>6, <2>2, <2>3, <2>4 DEF NotStranded
<1>7. ASSUME NEW r \in Receipts, receipt[r] = "engaged", toEnqueue' = toEnqueue \ {r},
             UNCHANGED <<task, left, receipt>>
      PROVE  QueueTypeOK' /\ NotStranded'
  BY <1>7 DEF QueueTypeOK, NotStranded
<1> QED BY <1>2, <1>3, <1>4, <1>5, <1>6, <1>7, QueueSteps

LEMMA QueueHolds == Spec => [](QueueTypeOK /\ NotStranded)
<1>1. Init => QueueTypeOK /\ NotStranded
  BY WarmupSendAssumption DEF Init, QueueTypeOK, NotStranded
<1> QED BY <1>1, QueueKeeps, WarmupInvHolds, PTL DEF Spec

\* Every variable of the warmup day keeps the kind of value the code keeps there.
THEOREM WarmupTyped == Spec => []TypeOK
<1>1. WarmupInv /\ QueueTypeOK => TypeOK
  BY DEF WarmupInv, TypeOK
<1> QED BY <1>1, WarmupInvHolds, QueueHolds, PTL

\* A receipt that is not engaged is still owed by a poll or has a task in the queue, which
\* may be an archived one: a failed enqueue, a retry or a late second enqueue loses none.
THEOREM NoReceiptIsStranded == Spec => []NotStranded
BY QueueHolds, PTL

\* A warmup message leaves twice under one id only when a worker was lost between handing
\* it over and recording it, however many handlers share the day.
THEOREM WarmupDuplicatesArePaidFor == Spec => []DuplicatesArePaidFor
<1>1. WarmupInv => DuplicatesArePaidFor
  <2> SUFFICES ASSUME WarmupInv, NEW id \in SendIds PROVE copies[id] <= 1 + lost[id]
    BY DEF DuplicatesArePaidFor
  <2>1. copies[id] \in Nat /\ lost[id] \in Nat
    BY DEF WarmupInv, RowsTypeOK
  <2> QED BY <2>1 DEF WarmupInv, Accounts
<1> QED BY <1>1, WarmupInvHolds, PTL

\* The daily statistics agree with the rows they count, whoever writes them and however
\* often a task is retried.
THEOREM WarmupCountersAgree == Spec => []CountersAgree
<1>1. WarmupInv => CountersAgree
  <2> SUFFICES ASSUME WarmupInv PROVE CountersAgree
    OBVIOUS
  <2> DEFINE R == {r \in Receipts : send[deriveWarmupReplySendID(r)].status = "sent"}
  <2>1. R \in SUBSET Sent /\ Answered \in SUBSET R
    BY Ids DEF Answered, Sent, deriveWarmupReplySendID
  <2>2. IsFiniteSet(R) /\ Cardinality(R) \in Nat
    BY <2>1, Finite, FS_Subset, FS_CardinalityType
  <2>3. Cardinality(Answered) <= Cardinality(R)
    BY <2>1, <2>2, FS_Subset
  <2>4. /\ sentToday = Cardinality(Sent) /\ replies <= Cardinality(Answered)
        /\ replies \in Nat
    BY DEF WarmupInv, Counters, RowsTypeOK
  <2>5. replies <= Cardinality(R)
    BY <2>2, <2>3, <2>4, Finite
  <2> QED BY <2>4, <2>5 DEF CountersAgree, Sent
<1> QED BY <1>1, WarmupInvHolds, PTL

\* The pair's daily cap is overshot by fewer messages than there are handlers: the cap is
\* looked at when a job is built and spent when it is claimed.
THEOREM PairBudgetIsBounded == Spec => []PairBudgetHolds
<1>1. WarmupInv => PairBudgetHolds
  <2> SUFFICES ASSUME WarmupInv PROVE PairBudgetHolds
    OBVIOUS
  <2>1. Cardinality(Spent) + Cardinality(Built) <= PairCap + Cardinality(Workers) - 1
    BY DEF WarmupInv, Budget
  <2>2. CountWarmupPairSendsToday = Cardinality(Spent)
    BY DEF CountWarmupPairSendsToday, Spent
  <2> QED BY <2>1, <2>2, Finite, WarmupSendAssumption DEF PairBudgetHolds
<1> QED BY <1>1, WarmupInvHolds, PTL

-----------------------------------------------------------------------------
(* The outbox                                                              *)

\* The other half of the messages' account: what is lost did leave, and a message in
\* transit is not lost yet.
Losses ==
    \A id \in SendIds :
        /\ lost[id] <= copies[id]
        /\ InTransit(id) => lost[id] < copies[id]

\* No message sets off and none is lost.
Quiet ==
    /\ UNCHANGED <<copies, lost>>
    /\ \A x \in Workers : work'[x].at = "delivered" =>
           work[x].at = "delivered" /\ work'[x].id = work[x].id

LEMMA QuietKeeps ==
    ASSUME Losses, Quiet
    PROVE  Losses'
<1>1. \A id \in SendIds : InTransit(id)' => InTransit(id)
  BY DEF Quiet, InTransit
<1> QED BY <1>1 DEF Losses, Quiet

\* A handler that turns to something else than a delivery is quiet.
LEMMA TurnIsQuiet ==
    ASSUME RowsTypeOK, NEW w \in Workers, NEW j, j.at # "delivered",
           work' = [work EXCEPT ![w] = j], UNCHANGED <<copies, lost>>
    PROVE  Quiet
<1>1. work'[w] = j /\ \A x \in Workers : x # w => work'[x] = work[x]
  BY DEF RowsTypeOK
<1> QED BY <1>1 DEF Quiet

\* A handler that will send nothing is not in transit.
LEMMA NothingToSend ==
    ASSUME NEW job \in JobType, NEW replied \in BOOLEAN
    PROVE  WithoutSending(job, replied).at # "delivered"
<1>1. CASE job.kind = "tick"
  BY <1>1 DEF WithoutSending, Idle
<1>2. CASE job.kind # "tick"
  BY <1>2 DEF WithoutSending, JobType
<1> QED BY <1>1, <1>2

\* Every step is quiet but the provider's answer and the death of a handler.
LEMMA QuietSteps ==
    ASSUME WarmupInv, [Next]_vars
    PROVE  Quiet \/ \E w \in Workers : Delivers(w) \/ Refused(w) \/ Crash(w)
<1> USE DEF WarmupInv
<1>1. ASSUME NEW w \in Workers, WarmupSendJob(w) PROVE Quiet
  BY <1>1, TurnIsQuiet DEF WarmupSendJob
<1>2. ASSUME NEW w \in Workers, NEW r \in Receipts, WarmupEngageJob(w, r) PROVE Quiet
  BY <1>2, TurnIsQuiet DEF WarmupEngageJob
<1>3. ASSUME NEW w \in Workers, ClaimWarmupSend(w) PROVE Quiet
  <2> DEFINE job == work[w]
  <2>1. job \in JobType
    BY <1>3, Stations DEF ClaimWarmupSend
  <2>2. CASE work' = [work EXCEPT ![w].at = "claimed"]
    <3> DEFINE j == [job EXCEPT !.at = "claimed"]
    <3>1. j.at # "delivered" /\ work' = [work EXCEPT ![w] = j]
      BY <2>1, <2>2 DEF JobType
    <3> HIDE DEF j
    <3> QED BY <1>3, <3>1, TurnIsQuiet DEF ClaimWarmupSend
  <2>3. CASE work' = [work EXCEPT ![w] = WithoutSending(job, send[job.id].status = "sent")]
    <3>1. WithoutSending(job, send[job.id].status = "sent").at # "delivered"
      BY <2>1, NothingToSend
    <3> QED BY <1>3, <2>3, <3>1, TurnIsQuiet DEF ClaimWarmupSend
  <2> QED BY <1>3, <2>2, <2>3 DEF ClaimWarmupSend
<1>4. ASSUME NEW w \in Workers, MarkWarmupSent(w) \/ FailWarmupSend(w) PROVE Quiet
  <2>1. work[w] \in JobType
    BY <1>4, Stations DEF MarkWarmupSent, FailWarmupSend
  <2>2. PICK b \in BOOLEAN : work' = [work EXCEPT ![w] = WithoutSending(work[w], b)]
    BY <1>4 DEF MarkWarmupSent, FailWarmupSend
  <2>3. WithoutSending(work[w], b).at # "delivered"
    BY <2>1, NothingToSend
  <2> QED BY <1>4, <2>2, <2>3, TurnIsQuiet DEF MarkWarmupSent, FailWarmupSend
<1>5. ASSUME NEW w \in Workers,
             MarkWarmupEngaged(w) \/ ReleaseWarmupSend(w) \/ EngageStepFails(w)
      PROVE  Quiet
  <2>1. Idle.at # "delivered"
    BY DEF Idle
  <2> QED BY <1>5, <2>1, TurnIsQuiet DEF MarkWarmupEngaged, ReleaseWarmupSend, EngageStepFails
<1>6. CASE \/ \E id \in SendIds : LeaseRunsOut(id)
           \/ \E r \in Receipts : RecordWarmupReceipt(r) \/ EnqueueWarmupEngage(r)
           \/ LaneMoves \/ UNCHANGED vars
  BY <1>6 DEF LeaseRunsOut, RecordWarmupReceipt, EnqueueWarmupEngage, LaneMoves, vars, Quiet
<1> QED BY <1>1, <1>2, <1>3, <1>4, <1>5, <1>6 DEF Next, Handle

\* A message is lost at most once after it left.
LEMMA LossesStep == WarmupInv /\ Losses /\ [Next]_vars => Losses'
<1> SUFFICES ASSUME WarmupInv, Losses, [Next]_vars PROVE Losses'
  OBVIOUS
<1>0. /\ \A id \in SendIds : copies[id] \in Nat /\ lost[id] \in Nat
      /\ work \in [Workers -> {Idle} \union JobType]
      /\ copies \in [SendIds -> Nat] /\ lost \in [SendIds -> Nat]
  BY DEF WarmupInv, RowsTypeOK, JobType
<1>1. ASSUME NEW w \in Workers, Delivers(w) \/ Refused(w) PROVE Losses'
  <2> DEFINE id == work[w].id
  <2>1. work[w] \in JobType /\ id \in SendIds /\ work[w].at = "claimed"
    BY <1>1, HeldRow DEF Delivers, Refused
  <2>2. /\ \A i \in SendIds : i # id => copies'[i] = copies[i] /\ lost'[i] = lost[i]
        /\ \A x \in Workers : x # w => work'[x] = work[x]
        /\ work'[w].id = id
        /\ \/ /\ copies'[id] = copies[id] + 1 /\ lost'[id] = lost[id]
           \/ /\ work'[w].at = "refused"
              /\ copies'[id] = copies[id] /\ lost'[id] = lost[id]
           \/ /\ work'[w].at = "refused"
              /\ copies'[id] = copies[id] + 1 /\ lost'[id] = lost[id] + 1
    BY <1>0, <1>1, <2>1 DEF Delivers, Refused, JobType
  <2>3. \A i \in SendIds : i # id /\ InTransit(i)' => InTransit(i)
    BY <2>2 DEF InTransit
  <2>6. work'[w].at = "refused" => ~InTransit(id)'
    <3>1. \A x \in Workers : x # w /\ work[x].at = "delivered" => work[x].id # id
      BY <2>1, Stations DEF WarmupInv, Holding
    <3> QED BY <2>2, <3>1 DEF InTransit
  <2> SUFFICES ASSUME NEW i \in SendIds
               PROVE  lost'[i] <= copies'[i] /\ (InTransit(i)' => lost'[i] < copies'[i])
    BY DEF Losses
  <2>4. CASE i = id
    <3>1. lost[id] <= copies[id]
      BY <2>1 DEF Losses
    <3> QED BY <1>0, <2>1, <2>2, <2>4, <2>6, <3>1
  <2>5. CASE i # id
    BY <2>2, <2>3, <2>5 DEF Losses
  <2> QED BY <2>4, <2>5
<1>2. ASSUME NEW w \in Workers, Crash(w) PROVE Losses'
  <2> DEFINE id == work[w].id
  <2>1. Idle.at # "delivered"
    BY DEF Idle
  <2>2. CASE work[w].at # "delivered"
    <3>1. Quiet
      BY <1>2, <2>1, <2>2, TurnIsQuiet DEF Crash, WarmupInv
    <3> QED BY <3>1, QuietKeeps
  <2>3. CASE work[w].at = "delivered"
    <3>1. id \in SendIds
      BY <2>3, HeldRow
    <3>2. /\ lost'[id] = lost[id] + 1 /\ copies' = copies
          /\ \A i \in SendIds : i # id => lost'[i] = lost[i]
          /\ work'[w] = Idle /\ \A x \in Workers : x # w => work'[x] = work[x]
      BY <1>0, <1>2, <2>3, <3>1 DEF Crash
    <3>3. \A i \in SendIds : InTransit(i)' => i # id /\ InTransit(i)
      <4>1. \A x \in Workers : x # w /\ work[x].at = "delivered" => work[x].id # id
        BY <2>3, <3>1, Stations DEF WarmupInv, Holding
      <4> QED BY <2>1, <3>2, <4>1 DEF InTransit
    <3>4. InTransit(id)
      BY <2>3 DEF InTransit
    <3> SUFFICES ASSUME NEW i \in SendIds
                 PROVE  lost'[i] <= copies[i] /\ (InTransit(i)' => lost'[i] < copies[i])
      BY <3>2 DEF Losses
    <3>5. CASE i = id
      <4>1. lost[id] < copies[id]
        BY <3>1, <3>4 DEF Losses
      <4> QED BY <1>0, <3>1, <3>2, <3>3, <3>5, <4>1
    <3>6. CASE i # id
      BY <3>2, <3>3, <3>6 DEF Losses
    <3> QED BY <3>5, <3>6
  <2> QED BY <2>2, <2>3
<1> QED BY <1>1, <1>2, QuietSteps, QuietKeeps

\* The words of the ledger.
LEMMA Fates ==
    /\ Fate("none") = "draft" /\ Fate("queued") = "waiting"
    /\ Fate("sending") = "waiting" /\ Fate("sent") = "sent" /\ Fate("failed") = "abandoned"
BY DEF Fate

\* The ledger's entries change with the row they stand for.
LEMMA FateMoves ==
    ASSUME NEW id \in SendIds, NEW s, send'[id].status = s,
           \A i \in SendIds : i # id => send'[i].status = send[i].status
    PROVE  [i \in SendIds |-> Fate(send[i].status)]' =
             [[i \in SendIds |-> Fate(send[i].status)] EXCEPT ![id] = Fate(s)]
<1> DEFINE fates == [i \in SendIds |-> Fate(send[i].status)]
           moved == [fates EXCEPT ![id] = Fate(s)]
<1>1. moved = [i \in SendIds |-> IF i = id THEN Fate(s) ELSE fates[i]]
  OBVIOUS
<1>2. \A i \in SendIds : moved[i] = Fate(send'[i].status)
  BY <1>1
<1>3. fates' = [i \in SendIds |-> Fate(send'[i].status)]
  OBVIOUS
<1>4. moved = [i \in SendIds |-> Fate(send'[i].status)]
  BY <1>1, <1>2
<1> QED BY <1>3, <1>4

\* Rows that stay where they are in the ledger's eyes leave its entries alone.
LEMMA FateStays ==
    ASSUME \A i \in SendIds : Fate(send'[i].status) = Fate(send[i].status)
    PROVE  [i \in SendIds |-> Fate(send[i].status)]' = [i \in SendIds |-> Fate(send[i].status)]
OBVIOUS

\* Every step of the warmup day is a step of the outbox or none.
LEMMA OutboxStep == WarmupInv /\ Losses /\ [Next]_vars => [Ledger!Next]_(Ledger!vars)
<1> SUFFICES ASSUME WarmupInv, Losses, [Next]_vars
             PROVE  Ledger!Next \/ UNCHANGED Ledger!vars
  OBVIOUS
<1> DEFINE fates == [i \in SendIds |-> Fate(send[i].status)]
<1>0. /\ \A id \in SendIds : copies[id] \in Nat /\ lost[id] \in Nat
      /\ \A id \in SendIds : fates[id] = Fate(send[id].status)
      /\ send \in [SendIds -> RowType]
  BY DEF WarmupInv, RowsTypeOK, RowType
<1>1. ASSUME UNCHANGED <<send, copies, lost>> PROVE UNCHANGED Ledger!vars
  BY <1>1 DEF Ledger!vars
\* A holder's row waits, and the handlers' claims name rows.
<1>2. ASSUME NEW w \in Workers, work[w].at \in {"claimed", "delivered", "refused"}
      PROVE  /\ work[w].id \in SendIds /\ send[work[w].id].status = "sending"
             /\ work[w].at # "delivered" => ~InTransit(work[w].id)
  <2>1. work[w].id \in SendIds /\ send[work[w].id].status = "sending"
    BY <1>2, HeldRow
  <2>2. \A x \in Workers : work[x].at = "delivered" /\ work[x].id = work[w].id => x = w
    BY <1>2, <2>1, Stations DEF WarmupInv, Holding
  <2> QED BY <2>1, <2>2 DEF InTransit
<1>3. ASSUME NEW w \in Workers, NEW id \in SendIds, id = work[w].id, ClaimWarmupSend(w)
      PROVE  Ledger!Accept(id) \/ UNCHANGED Ledger!vars
  <2>1. copies' = copies /\ lost' = lost
    BY <1>3 DEF ClaimWarmupSend
  <2>2. CASE ~ClaimWins(work[w])
    BY <1>1, <1>3, <2>2 DEF ClaimWarmupSend
  <2>3. CASE ClaimWins(work[w])
    <3>1. /\ send'[id].status = "sending"
          /\ \A i \in SendIds : i # id => send'[i].status = send[i].status
      BY <1>0, <1>3, <2>3 DEF ClaimWarmupSend
    <3>2. send[id].status \in {"none", "queued", "sending"}
      BY <1>3, <2>3 DEF ClaimWins, Reclaimable, NoRow
    <3>3. CASE send[id].status = "none"
      <4>1. fates' = [fates EXCEPT ![id] = Fate("sending")]
        BY <3>1, FateMoves
      <4> QED BY <1>0, <2>1, <3>3, <4>1, Fates DEF Ledger!Accept
    <3>4. CASE send[id].status # "none"
      <4>1. \A i \in SendIds : Fate(send'[i].status) = Fate(send[i].status)
        <5>1. Fate(send'[id].status) = Fate(send[id].status)
          BY <3>1, <3>2, <3>4, Fates
        <5> QED BY <3>1, <5>1
      <4>2. fates' = fates
        BY <4>1, FateStays
      <4> QED BY <2>1, <4>2 DEF Ledger!vars
    <3> QED BY <3>3, <3>4
  <2> QED BY <2>2, <2>3
<1>4. ASSUME NEW w \in Workers, NEW id \in SendIds, id = work[w].id,
             Delivers(w) \/ Refused(w)
      PROVE  Ledger!Deliver(id) \/ UNCHANGED Ledger!vars
  <2>1. work[w].at = "claimed" /\ send' = send
    BY <1>4 DEF Delivers, Refused
  <2>2. send[id].status = "sending" /\ ~InTransit(id)
    BY <1>2, <1>4, <2>1
  <2>3. copies[id] = lost[id]
    <3>1. copies[id] <= lost[id]
      BY <2>2 DEF WarmupInv, Accounts
    <3>2. lost[id] <= copies[id]
      BY DEF Losses
    <3> QED BY <1>0, <3>1, <3>2
  <2>4. lost' = lost => lost' = [lost EXCEPT ![id] = @ + 0]
    BY <1>0 DEF WarmupInv, RowsTypeOK
  <2>5. fates' = fates /\ fates[id] = "waiting"
    BY <1>0, <2>1, <2>2, Fates
  <2>6. ASSUME NEW n \in {0, 1}, copies' = [copies EXCEPT ![id] = @ + 1],
               lost' = [lost EXCEPT ![id] = @ + n]
        PROVE  Ledger!Deliver(id)
    BY <2>3, <2>5, <2>6 DEF Ledger!Deliver, Ledger!NoneKnown
  <2>7. CASE copies' = copies /\ lost' = lost
    BY <1>1, <2>1, <2>7
  <2> QED BY <1>4, <2>4, <2>6, <2>7 DEF Delivers, Refused
<1>5. ASSUME NEW w \in Workers, NEW id \in SendIds, id = work[w].id,
             work[w].at = "delivered"
      PROVE  lost[id] # copies[id]
  <2>1. InTransit(id)
    BY <1>5 DEF InTransit
  <2>2. lost[id] < copies[id]
    BY <2>1 DEF Losses
  <2> QED BY <1>0, <2>2
<1>6. ASSUME NEW w \in Workers, NEW id \in SendIds, id = work[w].id, MarkWarmupSent(w)
      PROVE  Ledger!Record(id)
  <2>1. work[w].at = "delivered" /\ copies' = copies /\ lost' = lost
    BY <1>6 DEF MarkWarmupSent
  <2>2. send[id].status = "sending" /\ send' = [send EXCEPT ![id].status = "sent"]
    BY <1>6, <2>1, HeldRow DEF MarkWarmupSent
  <2>3. /\ send'[id].status = "sent"
        /\ \A i \in SendIds : i # id => send'[i].status = send[i].status
    BY <1>0, <2>2 DEF RowType
  <2>4. fates' = [fates EXCEPT ![id] = Fate("sent")]
    BY <2>3, FateMoves
  <2>5. copies[id] # lost[id]
    BY <1>5, <1>6, <2>1
  <2> QED BY <1>0, <2>1, <2>2, <2>4, <2>5, Fates DEF Ledger!Record, Ledger!NoneKnown
<1>7. ASSUME NEW w \in Workers, NEW id \in SendIds, id = work[w].id, FailWarmupSend(w)
      PROVE  Ledger!GiveUp(id)
  <2>1. work[w].at = "refused" /\ copies' = copies /\ lost' = lost
    BY <1>7 DEF FailWarmupSend
  <2>2. send[id].status = "sending" /\ send' = [send EXCEPT ![id].status = "failed"]
    BY <1>7, <2>1, HeldRow DEF FailWarmupSend
  <2>3. /\ send'[id].status = "failed"
        /\ \A i \in SendIds : i # id => send'[i].status = send[i].status
    BY <1>0, <2>2 DEF RowType
  <2>4. fates' = [fates EXCEPT ![id] = Fate("failed")]
    BY <2>3, FateMoves
  <2> QED BY <1>0, <2>1, <2>2, <2>4, Fates DEF Ledger!GiveUp
<1>8. ASSUME NEW w \in Workers, NEW id \in SendIds, id = work[w].id, ReleaseWarmupSend(w)
      PROVE  UNCHANGED Ledger!vars
  <2>1. work[w].at = "refused" /\ copies' = copies /\ lost' = lost
    BY <1>8 DEF ReleaseWarmupSend
  <2>2. send[id].status = "sending" /\ send' = [send EXCEPT ![id].status = "queued"]
    BY <1>8, <2>1, HeldRow DEF ReleaseWarmupSend, Released
  <2>3. \A i \in SendIds : Fate(send'[i].status) = Fate(send[i].status)
    <3>1. /\ send'[id].status = "queued"
          /\ \A i \in SendIds : i # id => send'[i].status = send[i].status
      BY <1>0, <2>2 DEF RowType
    <3>2. Fate(send'[id].status) = Fate(send[id].status)
      BY <2>2, <3>1, Fates
    <3> QED BY <3>1, <3>2
  <2>4. fates' = fates
    BY <2>3, FateStays
  <2> QED BY <2>1, <2>4 DEF Ledger!vars
<1>9. ASSUME NEW w \in Workers, NEW id \in SendIds, id = work[w].id,
             work[w].at = "delivered", Crash(w)
      PROVE  Ledger!Forget(id)
  <2>1. copies' = copies /\ send' = send /\ lost' = [lost EXCEPT ![id] = @ + 1]
    BY <1>9 DEF Crash
  <2>2. copies[id] # lost[id]
    BY <1>5, <1>9
  <2> QED BY <2>1, <2>2 DEF Ledger!Forget, Ledger!NoneKnown
<1>10. ASSUME NEW id \in SendIds, LeaseRunsOut(id) PROVE UNCHANGED Ledger!vars
  <2>1. send' = [send EXCEPT ![id].stale = TRUE] /\ copies' = copies /\ lost' = lost
    BY <1>10 DEF LeaseRunsOut
  <2>2. \A i \in SendIds : send'[i].status = send[i].status
    BY <1>0, <2>1 DEF RowType
  <2>3. fates' = fates
    BY <2>2, FateStays
  <2> QED BY <2>1, <2>3 DEF Ledger!vars
<1>11. ASSUME NEW w \in Workers,
              \/ WarmupSendJob(w) \/ \E r \in Receipts : WarmupEngageJob(w, r)
              \/ MarkWarmupEngaged(w) \/ EngageStepFails(w)
              \/ (Crash(w) /\ work[w].at # "delivered")
       PROVE  UNCHANGED Ledger!vars
  BY <1>1, <1>11 DEF WarmupSendJob, WarmupEngageJob, MarkWarmupEngaged, EngageStepFails, Crash
<1>12. CASE \/ \E r \in Receipts : RecordWarmupReceipt(r) \/ EnqueueWarmupEngage(r)
            \/ LaneMoves \/ UNCHANGED vars
  BY <1>1, <1>12 DEF RecordWarmupReceipt, EnqueueWarmupEngage, LaneMoves, vars
<1>13. ASSUME NEW w \in Workers, work[w] # Idle
       PROVE  work[w].id \in SendIds
  BY <1>13, Stations DEF WarmupInv, JobType
<1>14. ASSUME NEW w \in Workers,
              \/ ClaimWarmupSend(w) \/ Delivers(w) \/ Refused(w) \/ MarkWarmupSent(w)
              \/ FailWarmupSend(w) \/ ReleaseWarmupSend(w) \/ Crash(w)
       PROVE  Ledger!Next \/ UNCHANGED Ledger!vars
  <2>1. work[w] # Idle
    BY <1>14 DEF ClaimWarmupSend, Delivers, Refused, MarkWarmupSent, FailWarmupSend,
                 ReleaseWarmupSend, Crash
  <2>2. PICK id \in SendIds : id = work[w].id
    BY <1>13, <2>1
  <2> QED BY <1>3, <1>4, <1>6, <1>7, <1>8, <1>9, <1>11, <1>14, <2>2 DEF Ledger!Next
<1>15. CASE \E w \in Workers :
              \/ WarmupSendJob(w) \/ (\E r \in Receipts : WarmupEngageJob(w, r))
              \/ Handle(w) \/ EngageStepFails(w) \/ Crash(w)
  BY <1>11, <1>14, <1>15 DEF Handle
<1> QED BY <1>10, <1>12, <1>15 DEF Next

\* Whatever ticks, engagements, leases, lane changes and crashes do, what the partner's
\* mailbox sees of a day's warmup is the outbox: a row is sent only for a message that
\* left, one leaves again only when no earlier one can be recorded, and it is settled once.
THEOREM WarmupImplementsOutbox == Spec => ImplementsOutbox
<1>1. Init => Losses /\ Ledger!Init
  <2> SUFFICES ASSUME Init PROVE Losses /\ Ledger!Init
    OBVIOUS
  <2>1. Losses
    BY DEF Init, Losses, InTransit, Idle
  <2>2. Ledger!Init
    BY Fates DEF Init, NoRow, Ledger!Init
  <2> QED BY <2>1, <2>2
<1>2. WarmupInv /\ Losses /\ [Next]_vars => Losses' /\ [Ledger!Next]_(Ledger!vars)
  BY LossesStep, OutboxStep
<1> QED BY <1>1, <1>2, WarmupInvHolds, PTL DEF Spec, ImplementsOutbox, Ledger!Spec

-----------------------------------------------------------------------------
(***************************************************************************)
(* The containment policy.                                                 *)
(*                                                                         *)
(* A sweep decides on what it read and writes later, so the invariant has  *)
(* speak about decisions that are not written yet: what the policy may     *)
(* decide at all (Sane, a fact about the pure functions), and what a       *)
(* decision that releases the mailbox still knows about the cooldown when no*)
(* quarantine has begun since it was made (Timely).                        *)
(***************************************************************************)

ParticipantType ==
    [health : Healths, lane : Lanes, blockedFor : 0..Max(PausedDwell, ThrottledDwell)]

DecisionType ==
    [from : [health : Healths, lane : Lanes], stale : BOOLEAN,
     health : Healths, lane : Lanes]

\* The cooldown of the latest quarantine is over, there was none, or a stale sweep has
\* cut it short.
Served ==
    \/ trail.quarantined = Never
    \/ trail.quarantined >= Cooldown
    \/ relapsed

\* What the policy may decide: a degraded mailbox is sealed, health improves by one
\* state, and nothing leaves quarantine for pending_auth.
Sane(d) ==
    /\ stateRank(d.health) >= 2 => d.lane \in SealedLanes
    /\ IsRecovery(d.from.health, d.health) =>
         stateRank(d.health) = stateRank(d.from.health) - 1
    /\ d.lane = "pending_auth" => d.from.lane \notin {"quarantine", "blocked"}

\* A release decided after the latest quarantine began respects its cooldown.
Timely(d) == LaneMaySend(d.lane) /\ ~d.stale => Served

Decisions ==
    \A e \in Evaluators : decided[e] # Undecided => Sane(decided[e]) /\ Timely(decided[e])

\* A row that is not contained has served its cooldown, and so has an address whose
\* trail would let a new row out.
Uncontained ==
    /\ row # NotEnrolled /\ row.lane \notin {"quarantine", "blocked"} => Served
    /\ trail.lane = "other" => Served

\* A quarantine has its clock, in the row and in the trail it will be carried from.
Anchored ==
    /\ ContainmentIsAnchored
    /\ trail.lane = "quarantine" => trail.quarantined # Never

LaneInv == LaneTypeOK /\ DegradedIsSealed /\ Decisions /\ Uncontained /\ Anchored

-----------------------------------------------------------------------------
(* The policy                                                              *)

\* Ranks name the states they are made from.
LEMMA Ranks ==
    /\ \A h \in Healths : stateRank(h) \in 0..3
    /\ \A n \in 0..3 : stateAtRank(n) \in Healths /\ stateRank(stateAtRank(n)) = n
    /\ stateRank("unknown") = 0 /\ stateRank("throttled") = 2
BY DEF Healths, stateRank, stateAtRank

\* The worst band is a rank.
LEMMA WorstBand == \A s \in EvidenceType : worstBand(s) \in 0..3
<1> SUFFICES ASSUME NEW s \in EvidenceType PROVE worstBand(s) \in 0..3
  OBVIOUS
<1>1. s.place = -1 \/ s.place \in 0..3
  BY DurationsAssumption DEF EvidenceType, None
<1>2. findingRank(s.reported) \in 0..3
  BY DEF findingRank, stateRank
<1> QED BY <1>1, <1>2 DEF worstBand, Max

\* The health that is stored: a state, and better than the old one by one rank at most.
LEMMA NextHealth ==
    ASSUME NEW r \in ParticipantType, NEW s \in EvidenceType
    PROVE  LET h == HoldRecoveryDuringBlock(r, evaluateHealth(r, s))
           IN  h \in Healths /\ stateRank(h) >= stateRank(r.health) - 1
<1> DEFINE g == evaluateHealth(r, s)
<1>1. r.health \in Healths /\ stateRank(r.health) \in 0..3 /\ worstBand(s) \in 0..3
  BY Ranks, WorstBand DEF ParticipantType
<1>2. "unknown" \in Healths
  BY DEF Healths
<1>3. g \in Healths /\ stateRank(g) >= stateRank(r.health) - 1
  <2>1. CASE g = r.health
    BY <1>1, <2>1
  <2>2. CASE g = "unknown" /\ ~(stateRank(r.health) > 0)
    BY <1>1, <1>2, <2>2, Ranks
  <2>3. CASE worstBand(s) < stateRank(r.health) /\ g = stateAtRank(stateRank(r.health) - 1)
    <3>1. stateRank(r.health) - 1 \in 0..3
      BY <1>1, <2>3
    <3> QED BY <1>1, <2>3, <3>1, Ranks
  <2>4. CASE ~(worstBand(s) < stateRank(r.health)) /\ g = stateAtRank(worstBand(s))
    BY <1>1, <2>4, Ranks
  <2> QED BY <2>1, <2>2, <2>3, <2>4 DEF evaluateHealth
<1> QED BY <1>1, <1>3 DEF HoldRecoveryDuringBlock

\* The lane: degraded mailboxes are sealed, containment ends in recovery only.
LEMMA NextLane ==
    ASSUME NEW r \in ParticipantType, NEW s, NEW t, NEW a \in BOOLEAN, NEW h \in Healths
    PROVE  LET l == evaluateLane(r, s, t, a, h)
           IN  /\ l \in Lanes
               /\ stateRank(h) >= 2 => l \in SealedLanes
               /\ l = "pending_auth" => r.lane \notin {"quarantine", "blocked"}
               /\ LaneMaySend(l) =>
                    \/ LaneMaySend(r.lane)
                    \/ t.quarantined = Never
                    \/ ~(t.quarantined < Cooldown)
<1> DEFINE l == evaluateLane(r, s, t, a, h)
<1>1. r.lane \in Lanes /\ stateRank("throttled") = 2
  BY Ranks DEF ParticipantType
<1>2. CASE r.lane = "blocked" \/ ~a \/ stateRank(h) >= 2
  <2>1. CASE r.lane = "blocked"
    BY <2>1 DEF evaluateLane, Lanes, SealedLanes, LaneMaySend
  <2>2. CASE r.lane = "quarantine" /\ (~a \/ stateRank(h) >= 2)
    BY <1>1, <2>2 DEF evaluateLane, Lanes, SealedLanes, LaneMaySend
  <2>3. CASE r.lane \notin {"blocked", "quarantine"} /\ ~a
    <3>1. l = "pending_auth"
      BY <2>3 DEF evaluateLane
    <3> QED BY <2>3, <3>1 DEF Lanes, SealedLanes, LaneMaySend
  <2>4. CASE r.lane \notin {"blocked", "quarantine"} /\ a /\ stateRank(h) >= 2
    <3>1. l = "quarantine"
      BY <1>1, <2>4 DEF evaluateLane
    <3> QED BY <2>4, <3>1 DEF Lanes, SealedLanes, LaneMaySend
  <2> QED BY <1>2, <2>1, <2>2, <2>3, <2>4
<1>3. CASE r.lane # "blocked" /\ a /\ ~(stateRank(h) >= 2)
  <2>1. CASE r.lane \in {"pending_auth", "quarantine"}
    BY <1>1, <1>3, <2>1 DEF evaluateLane, Lanes, SealedLanes, LaneMaySend
  <2>2. CASE r.lane \notin {"pending_auth", "quarantine"}
    <3>1. LaneMaySend(r.lane)
      BY <1>1, <1>3, <2>2 DEF Lanes, LaneMaySend
    <3>2. l \in {"healthy", "watch", "probation", r.lane}
      BY <1>1, <1>3, <2>2 DEF evaluateLane
    <3> QED BY <1>1, <1>3, <2>2, <3>1, <3>2 DEF Lanes
  <2> QED BY <2>1, <2>2
<1> QED BY <1>2, <1>3

\* What a sweep decides from a row it has just read.
LEMMA Decided ==
    ASSUME LaneInv, row # NotEnrolled
    PROVE  LET d == EvaluateParticipant(row, evidence, trail, auth)
           IN  d \in DecisionType /\ d # Undecided /\ Sane(d) /\ Timely(d)
<1> DEFINE h == HoldRecoveryDuringBlock(row, evaluateHealth(row, evidence))
           l == evaluateLane(row, evidence, trail, auth, h)
           d == EvaluateParticipant(row, evidence, trail, auth)
<1>1. row \in ParticipantType /\ evidence \in EvidenceType /\ auth \in BOOLEAN
  BY DEF LaneInv, LaneTypeOK, ParticipantType
<1>2. h \in Healths /\ stateRank(h) >= stateRank(row.health) - 1
  BY <1>1, NextHealth
<1>3. /\ l \in Lanes
      /\ stateRank(h) >= 2 => l \in SealedLanes
      /\ l = "pending_auth" => row.lane \notin {"quarantine", "blocked"}
      /\ LaneMaySend(l) => \/ LaneMaySend(row.lane)
                           \/ trail.quarantined = Never
                           \/ ~(trail.quarantined < Cooldown)
  <2> HIDE DEF h
  <2> QED BY <1>1, <1>2, NextLane
<1>4. d = [from |-> [health |-> row.health, lane |-> row.lane], stale |-> FALSE,
           health |-> h, lane |-> l]
  BY DEF EvaluateParticipant, Decision
<1> HIDE DEF h, l, d
<1>5. row.health \in Healths /\ row.lane \in Lanes
  BY <1>1 DEF ParticipantType
<1>6. d \in DecisionType
  BY <1>2, <1>3, <1>4, <1>5 DEF DecisionType
<1>7. d # Undecided
  <2>1. d.lane # "idle"
    BY <1>3, <1>4 DEF Lanes
  <2> QED BY <2>1 DEF Undecided
<1>8. Sane(d)
  <2>1. d.health = h /\ d.lane = l /\ d.from.health = row.health /\ d.from.lane = row.lane
    BY <1>4
  <2>2. stateRank(h) \in 0..3 /\ stateRank(row.health) \in 0..3
    BY <1>2, <1>5, Ranks
  <2> QED BY <2>1, <2>2, <1>2, <1>3 DEF Sane, IsRecovery
<1>9. Timely(d)
  <2>1. d.lane = l
    BY <1>4
  <2>2. LaneMaySend(row.lane) => Served
    BY DEF LaneInv, Uncontained, LaneMaySend
  <2>3. trail.quarantined \in Int /\ Cooldown \in Int
    BY DurationsAssumption DEF LaneInv, LaneTypeOK, Never
  <2> QED BY <2>1, <2>2, <2>3, <1>3 DEF Timely, Served
<1> QED BY <1>6, <1>7, <1>8, <1>9 DEF d

-----------------------------------------------------------------------------
(* The steps                                                               *)

\* What each variable's type says of its parts.
LEMMA Parts ==
    ASSUME LaneTypeOK
    PROVE  /\ row # NotEnrolled => row \in ParticipantType
           /\ trail.quarantined \in Never..Cooldown
           /\ trail.lapsed \in Never..Grace
           /\ \A e \in Evaluators : decided[e] # Undecided => decided[e] \in DecisionType
           /\ Cooldown \in Nat \ {0}
BY DurationsAssumption DEF LaneTypeOK, ParticipantType, DecisionType

\* A block is never longer than the longer dwell.
LEMMA Dwells ==
    ASSUME NEW h
    PROVE  warmupPausedUntil(h) \in 0..Max(PausedDwell, ThrottledDwell)
BY DurationsAssumption DEF warmupPausedUntil, Max

\* A decision is made.
LEMMA ReadKeeps ==
    ASSUME LaneInv, NEW e \in Evaluators, EvaluateRead(e)
    PROVE  LaneInv'
<1> DEFINE d == EvaluateParticipant(row, evidence, trail, auth)
<1>1. /\ row # NotEnrolled /\ decided' = [decided EXCEPT ![e] = d]
      /\ UNCHANGED <<row, trail, evidence, auth, underway, reports, relapsed>>
  BY DEF EvaluateRead
<1>2. d \in DecisionType /\ d # Undecided /\ Sane(d) /\ Timely(d)
  BY <1>1, Decided
<1> HIDE DEF d
<1>3. decided \in [Evaluators -> {Undecided} \union DecisionType]
  BY DEF LaneInv, LaneTypeOK, DecisionType
<1>4. decided' \in [Evaluators -> {Undecided} \union DecisionType]
  BY <1>1, <1>2, <1>3
<1>5. LaneTypeOK'
  BY <1>1, <1>4 DEF LaneInv, LaneTypeOK, DecisionType
<1>6. Decisions'
  <2> SUFFICES ASSUME NEW x \in Evaluators, decided'[x] # Undecided
               PROVE  /\ Sane(decided'[x])
                      /\ LaneMaySend(decided'[x].lane) /\ ~decided'[x].stale => Served'
    BY DEF Decisions, Timely
  <2>1. Served' <=> Served
    BY <1>1 DEF Served
  <2>2. CASE x = e
    <3>1. decided'[x] = d
      BY <1>1, <1>3, <2>2
    <3> QED BY <1>2, <2>1, <3>1 DEF Timely
  <2>3. CASE x # e
    <3>1. decided'[x] = decided[x]
      BY <1>1, <1>3, <2>3
    <3> QED BY <2>1, <3>1 DEF LaneInv, Decisions, Timely
  <2> QED BY <2>2, <2>3
<1>7. (DegradedIsSealed /\ Uncontained /\ Anchored)'
  BY <1>1 DEF LaneInv, DegradedIsSealed, Degraded, Uncontained, Anchored,
              ContainmentIsAnchored, Served
<1> QED BY <1>5, <1>6, <1>7 DEF LaneInv

\* Decisions are dropped; what the invariant says of the others stays.
LEMMA Dropped ==
    ASSUME LaneInv, \A e \in Evaluators : decided'[e] \in {Undecided, decided[e]},
           Served => Served'
    PROVE  Decisions'
<1> SUFFICES ASSUME NEW x \in Evaluators, decided'[x] # Undecided
             PROVE  /\ Sane(decided'[x])
                    /\ LaneMaySend(decided'[x].lane) /\ ~decided'[x].stale => Served'
  BY DEF Decisions, Timely
<1>1. decided'[x] = decided[x]
  OBVIOUS
<1> QED BY <1>1 DEF LaneInv, Decisions, Timely

\* A sweep fails between its decision and its write.
LEMMA FailureKeeps ==
    ASSUME LaneInv, NEW e \in Evaluators, EvaluationFails(e)
    PROVE  LaneInv'
<1>1. /\ decided' = [decided EXCEPT ![e] = Undecided]
      /\ UNCHANGED <<row, trail, evidence, auth, underway, reports, relapsed>>
  BY DEF EvaluationFails
<1>2. decided \in [Evaluators -> {Undecided} \union DecisionType]
  BY DEF LaneInv, LaneTypeOK, DecisionType
<1>3. /\ decided' \in [Evaluators -> {Undecided} \union DecisionType]
      /\ \A x \in Evaluators : decided'[x] \in {Undecided, decided[x]}
  BY <1>1, <1>2
<1>4. LaneTypeOK'
  BY <1>1, <1>3 DEF LaneInv, LaneTypeOK, DecisionType
<1>5. Served' <=> Served
  BY <1>1 DEF Served
<1>6. Decisions'
  BY <1>3, <1>5, Dropped
<1>7. (DegradedIsSealed /\ Uncontained /\ Anchored)'
  BY <1>1 DEF LaneInv, DegradedIsSealed, Degraded, Uncontained, Anchored,
              ContainmentIsAnchored, Served
<1> QED BY <1>4, <1>6, <1>7 DEF LaneInv

\* The world moves: nothing but the evidence for later decisions changes.
LEMMA SurroundingsKeep ==
    ASSUME LaneInv, UNCHANGED <<row, trail, decided, relapsed>>,
           evidence' \in EvidenceType, auth' \in BOOLEAN, underway' \in BOOLEAN,
           reports' \in 0..MaxReports
    PROVE  LaneInv'
<1>1. LaneTypeOK'
  BY DEF LaneInv, LaneTypeOK
<1>2. Decisions'
  <2>1. Served' <=> Served
    BY DEF Served
  <2> QED BY <2>1, Dropped
<1>3. (DegradedIsSealed /\ Uncontained /\ Anchored)'
  BY DEF LaneInv, DegradedIsSealed, Degraded, Uncontained, Anchored,
         ContainmentIsAnchored, Served
<1> QED BY <1>1, <1>2, <1>3 DEF LaneInv

\* Every step of the world is one of those.
LEMMA World ==
    ASSUME LaneInv,
           \/ ObservePlacement \/ LastArrival \/ PlacementsAge \/ PlacementsGone
           \/ ReportArrives \/ ReportsGone \/ AuthChanges
    PROVE  LaneInv'
<1>1. /\ evidence \in EvidenceType /\ auth \in BOOLEAN /\ underway \in BOOLEAN
      /\ reports \in 0..MaxReports
  BY DEF LaneInv, LaneTypeOK
<1>2. UNCHANGED <<row, trail, decided, relapsed>>
  BY DEF ObservePlacement, LastArrival, PlacementsAge, PlacementsGone, ReportArrives,
         ReportsGone, AuthChanges
<1>3. evidence' \in EvidenceType
  BY <1>1 DEF ObservePlacement, LastArrival, PlacementsAge, PlacementsGone, ReportArrives,
              ReportsGone, AuthChanges, EvidenceType
<1>4. auth' \in BOOLEAN
  BY <1>1 DEF ObservePlacement, LastArrival, PlacementsAge, PlacementsGone, ReportArrives,
              ReportsGone, AuthChanges
<1>5. underway' \in BOOLEAN
  BY <1>1 DEF ObservePlacement, LastArrival, PlacementsAge, PlacementsGone, ReportArrives,
              ReportsGone, AuthChanges
<1>6. reports' \in 0..MaxReports
  BY <1>1, DurationsAssumption
     DEF ObservePlacement, LastArrival, PlacementsAge, PlacementsGone, ReportArrives,
         ReportsGone, AuthChanges
<1> QED BY <1>2, <1>3, <1>4, <1>5, <1>6, SurroundingsKeep

\* The compare-and-set finds another row: the decision is dropped.
LEMMA MissedWriteKeeps ==
    ASSUME LaneInv, NEW e \in Evaluators, ApplyWarmupParticipantTransition(e),
           ~RowStillAsRead(decided[e])
    PROVE  LaneInv'
<1>1. decided \in [Evaluators -> {Undecided} \union DecisionType]
  BY DEF LaneInv, LaneTypeOK, DecisionType
<1>2. /\ decided' = [x \in Evaluators |->
              CASE x = e \/ decided[x] = Undecided -> Undecided
                [] OTHER -> [decided[x] EXCEPT !.stale = @ \/ FALSE]]
      /\ UNCHANGED <<row, trail, evidence, auth, underway, reports, relapsed>>
  BY DEF ApplyWarmupParticipantTransition
<1>3. \A x \in Evaluators : decided'[x] \in {Undecided, decided[x]}
  <2> SUFFICES ASSUME NEW x \in Evaluators, decided[x] # Undecided, x # e
               PROVE  decided'[x] = decided[x]
    BY <1>2
  <2>1. decided[x] \in DecisionType
    BY <1>1
  <2>2. decided'[x] = [decided[x] EXCEPT !.stale = @ \/ FALSE]
    BY <1>2
  <2>3. decided[x].stale \in BOOLEAN
    BY <2>1 DEF DecisionType
  <2>4. (decided[x].stale \/ FALSE) = decided[x].stale
    BY <2>3
  <2> QED BY <2>1, <2>2, <2>4 DEF DecisionType
<1>4. decided' \in [Evaluators -> {Undecided} \union DecisionType]
  <2>1. decided' = [x \in Evaluators |-> decided'[x]]
    BY <1>2
  <2> QED BY <1>1, <1>3, <2>1
<1>5. LaneTypeOK'
  BY <1>2, <1>4 DEF LaneInv, LaneTypeOK, DecisionType
<1>6. Served' <=> Served
  BY <1>2 DEF Served
<1>7. Decisions'
  BY <1>3, <1>6, Dropped
<1>8. (DegradedIsSealed /\ Uncontained /\ Anchored)'
  BY <1>2 DEF LaneInv, DegradedIsSealed, Degraded, Uncontained, Anchored,
              ContainmentIsAnchored, Served
<1> QED BY <1>5, <1>7, <1>8 DEF LaneInv

\* The write goes through: the row becomes the decision, and what it says of the
\* cooldown rests on what the sweep read, or on the ghost that says it was stale.
LEMMA WriteKeeps ==
    ASSUME LaneInv, NEW e \in Evaluators, ApplyWarmupParticipantTransition(e),
           RowStillAsRead(decided[e])
    PROVE  LaneInv'
<1> DEFINE d == decided[e]
<1>1. decided \in [Evaluators -> {Undecided} \union DecisionType]
  BY DEF LaneInv, LaneTypeOK, DecisionType
<1>2. /\ d # Undecided
      /\ row' = [health |-> d.health, lane |-> d.lane,
                 blockedFor |-> warmupPausedUntil(d.health)]
      /\ trail' = Recorded(d)
      /\ underway' = (underway \/ LaneMaySend(d.lane))
      /\ relapsed' = (~EntersQuarantine(d) /\ (relapsed \/ (d.stale /\ LaneMaySend(d.lane))))
      /\ UNCHANGED <<evidence, auth, reports>>
  BY DEF ApplyWarmupParticipantTransition
<1>3. d \in DecisionType
  BY <1>1, <1>2
<1>4. /\ d.health \in Healths /\ d.lane \in Lanes /\ d.stale \in BOOLEAN
      /\ d.from.health \in Healths /\ d.from.lane \in Lanes
  BY <1>3 DEF DecisionType
<1>5. Sane(d) /\ Timely(d)
  BY <1>2 DEF LaneInv, Decisions
<1>6. row # NotEnrolled /\ row.health = d.from.health /\ row.lane = d.from.lane
  BY DEF RowStillAsRead
<1>7. /\ trail.quarantined \in Never..Cooldown /\ trail.lapsed \in Never..Grace
      /\ Cooldown \in Nat \ {0} /\ Grace \in Nat
  BY Parts, DurationsAssumption DEF LaneInv
<1>8. /\ trail'.lane = (IF d.lane \in {"quarantine", "blocked"} THEN d.lane ELSE "other")
      /\ trail'.quarantined = (IF EntersQuarantine(d) THEN 0 ELSE trail.quarantined)
      /\ row'.lane = d.lane /\ row'.health = d.health
  BY <1>2 DEF Recorded
<1> DEFINE others == [x \in Evaluators |->
                 CASE x = e \/ decided[x] = Undecided -> Undecided
                   [] OTHER -> [decided[x] EXCEPT !.stale = @ \/ EntersQuarantine(d)]]
<1>9. decided' = others
  BY DEF ApplyWarmupParticipantTransition
<1>10. ~EntersQuarantine(d) /\ Served => Served'
  <2>1. CASE relapsed
    BY <1>2, <2>1 DEF Served
  <2>2. CASE ~relapsed
    BY <1>8, <2>2 DEF Served
  <2> QED BY <2>1, <2>2
<1>11. LaneTypeOK'
  <2>1. row' \in ParticipantType
    <3>1. warmupPausedUntil(d.health) \in 0..Max(PausedDwell, ThrottledDwell)
      BY Dwells
    <3> HIDE DEF d
    <3> QED BY <1>2, <1>4, <3>1 DEF ParticipantType
  <2>2. trail' \in [lane : {"quarantine", "blocked", "other"},
                    quarantined : Never..Cooldown, lapsed : Never..Grace]
    <3>1. 0 \in Never..Cooldown /\ 0 \in Never..Grace
      BY <1>7 DEF Never
    <3> HIDE DEF d
    <3> QED BY <1>2, <1>7, <3>1 DEF Recorded
  <2>3. underway' \in BOOLEAN /\ relapsed' \in BOOLEAN
    BY <1>2
  <2>4. decided' \in [Evaluators -> {Undecided} \union DecisionType]
    <3>1. \A x \in Evaluators : decided[x] # Undecided =>
            [decided[x] EXCEPT !.stale = @ \/ EntersQuarantine(d)] \in DecisionType
      <4> SUFFICES ASSUME NEW x \in Evaluators, decided[x] # Undecided
                   PROVE  [decided[x] EXCEPT !.stale = @ \/ EntersQuarantine(d)]
                            \in DecisionType
        OBVIOUS
      <4>1. decided[x] \in DecisionType
        BY <1>1
      <4>2. (decided[x].stale \/ EntersQuarantine(d)) \in BOOLEAN
        OBVIOUS
      <4> QED BY <4>1, <4>2 DEF DecisionType
    <3> QED BY <1>9, <3>1
  <2> QED BY <1>2, <2>1, <2>2, <2>3, <2>4 DEF LaneInv, LaneTypeOK, ParticipantType, DecisionType
<1>12. DegradedIsSealed'
  BY <1>5, <1>8, Ranks DEF DegradedIsSealed, Degraded, Sane
<1>13. d.lane \notin {"quarantine", "blocked"} => Served'
  <2> SUFFICES ASSUME d.lane \notin {"quarantine", "blocked"} PROVE Served'
    OBVIOUS
  <2>1. ~EntersQuarantine(d)
    BY DEF EntersQuarantine
  <2>2. CASE d.lane = "pending_auth"
    BY <1>5, <1>6, <1>10, <2>1, <2>2 DEF LaneInv, Uncontained, Sane
  <2>3. CASE LaneMaySend(d.lane) /\ d.stale
    BY <1>2, <2>1, <2>3 DEF Served
  <2>4. CASE LaneMaySend(d.lane) /\ ~d.stale
    BY <1>5, <1>10, <2>1, <2>4 DEF Timely
  <2> QED BY <1>4, <2>2, <2>3, <2>4 DEF Lanes, LaneMaySend
<1>14. Uncontained'
  BY <1>8, <1>13 DEF Uncontained
<1>15. d.lane = "quarantine" => trail'.quarantined # Never
  BY <1>6, <1>8 DEF EntersQuarantine, LaneInv, Anchored, ContainmentIsAnchored, Never
<1>16. Anchored'
  BY <1>8, <1>15 DEF Anchored, ContainmentIsAnchored
<1>17. Decisions'
  <2> SUFFICES ASSUME NEW x \in Evaluators, decided'[x] # Undecided
               PROVE  /\ Sane(decided'[x])
                      /\ LaneMaySend(decided'[x].lane) /\ ~decided'[x].stale => Served'
    BY DEF Decisions, Timely
  <2>1. /\ decided[x] # Undecided /\ x # e
        /\ decided'[x] = [decided[x] EXCEPT !.stale = @ \/ EntersQuarantine(d)]
    BY <1>9
  <2>2. decided[x] \in DecisionType /\ Sane(decided[x]) /\ Timely(decided[x])
    BY <1>1, <2>1 DEF LaneInv, Decisions
  <2>3. /\ decided'[x].lane = decided[x].lane /\ decided'[x].health = decided[x].health
        /\ decided'[x].from = decided[x].from
        /\ decided'[x].stale = (decided[x].stale \/ EntersQuarantine(d))
    BY <2>1, <2>2 DEF DecisionType
  <2>4. Sane(decided'[x])
    BY <2>2, <2>3 DEF Sane
  <2> QED BY <1>10, <2>2, <2>3, <2>4 DEF Timely
<1> QED BY <1>11, <1>12, <1>14, <1>16, <1>17 DEF LaneInv

\* The operator enables warmup: the new row starts where the trail says.
LEMMA EnableKeeps ==
    ASSUME LaneInv, UpsertWarmupParticipant
    PROVE  LaneInv'
<1>1. /\ row' = [health |-> "unknown", lane |-> EntryLane, blockedFor |-> 0]
      /\ underway' = (underway \/ LaneMaySend(EntryLane))
      /\ UNCHANGED <<trail, evidence, auth, decided, reports, relapsed>>
  BY DEF UpsertWarmupParticipant
<1>2. EntryLane \in Lanes /\ "unknown" \in Healths
  BY DEF EntryLane, Lanes, Healths
<1>3. 0 \in 0..Max(PausedDwell, ThrottledDwell)
  BY DurationsAssumption DEF Max
<1>4. row' \in ParticipantType
  BY <1>1, <1>2, <1>3 DEF ParticipantType
<1>5. LaneTypeOK'
  BY <1>1, <1>4 DEF LaneInv, LaneTypeOK, ParticipantType
<1>6. row'.lane = EntryLane /\ row'.health = "unknown"
  BY <1>1
<1>7. Served' <=> Served
  BY <1>1 DEF Served
<1>8. Decisions'
  BY <1>1, <1>7, Dropped
<1>9. DegradedIsSealed'
  BY <1>6, Ranks DEF DegradedIsSealed, Degraded
<1>10. trail.lane \in {"quarantine", "blocked", "other"}
  BY DEF LaneInv, LaneTypeOK
<1>11. Uncontained'
  BY <1>1, <1>6, <1>7, <1>10 DEF LaneInv, Uncontained, EntryLane
<1>12. Anchored'
  BY <1>1, <1>6 DEF LaneInv, Anchored, ContainmentIsAnchored, EntryLane
<1> QED BY <1>5, <1>8, <1>9, <1>11, <1>12 DEF LaneInv

\* The row goes, with warmup disabled or with its mailbox; the trail stays.
LEMMA LeavingKeeps ==
    ASSUME LaneInv, DisableWarmupParticipant \/ DeleteMailbox
    PROVE  LaneInv'
<1>1. row' = NotEnrolled /\ UNCHANGED <<trail, auth, reports, relapsed>>
  BY DEF DisableWarmupParticipant, DeleteMailbox, TrailAfterDelete
<1>2. evidence' \in EvidenceType /\ underway' \in BOOLEAN
  <2>1. NoEvidence \in EvidenceType
    BY DEF NoEvidence, EvidenceType
  <2> QED BY <2>1 DEF DisableWarmupParticipant, DeleteMailbox, LaneInv, LaneTypeOK
<1>3. decided \in [Evaluators -> {Undecided} \union DecisionType]
  BY DEF LaneInv, LaneTypeOK, DecisionType
<1>4. /\ decided' \in [Evaluators -> {Undecided} \union DecisionType]
      /\ \A x \in Evaluators : decided'[x] \in {Undecided, decided[x]}
  <2>1. decided' = decided \/ decided' = [x \in Evaluators |-> Undecided]
    BY DEF DisableWarmupParticipant, DeleteMailbox
  <2> QED BY <1>3, <2>1
<1>5. LaneTypeOK'
  BY <1>1, <1>2, <1>4 DEF LaneInv, LaneTypeOK, DecisionType
<1>6. Served' <=> Served
  BY <1>1 DEF Served
<1>7. Decisions'
  BY <1>4, <1>6, Dropped
<1>8. (DegradedIsSealed /\ Uncontained /\ Anchored)'
  BY <1>1, <1>6 DEF LaneInv, DegradedIsSealed, Degraded, Uncontained, Anchored,
                    ContainmentIsAnchored
<1> QED BY <1>5, <1>7, <1>8 DEF LaneInv

\* A day passes: a cooldown that was over stays over, and one that a stale sweep cut
\* short is remembered until it would have been over.
LEMMA DayKeeps ==
    ASSUME LaneInv, Tick
    PROVE  LaneInv'
<1> DEFINE q == trail.quarantined
           z == trail.lapsed
           nq == IF q = Never THEN Never ELSE Min(q + 1, Cooldown)
           nz == IF z = Never \/ z + 1 >= Grace THEN Never ELSE z + 1
<1>1. /\ \A e \in Evaluators : decided[e] = Undecided
      /\ row' = IF row = NotEnrolled THEN NotEnrolled
                                     ELSE [row EXCEPT !.blockedFor = Max(0, @ - 1)]
      /\ trail' = [trail EXCEPT !.quarantined = nq, !.lapsed = nz]
      /\ relapsed' = (relapsed /\ trail'.quarantined < Cooldown)
      /\ UNCHANGED <<evidence, auth, underway, decided, reports>>
  BY DEF Tick
<1>2. trail \in [lane : {"quarantine", "blocked", "other"},
                 quarantined : Never..Cooldown, lapsed : Never..Grace]
  BY DEF LaneInv, LaneTypeOK
<1>3. q \in Never..Cooldown /\ z \in Never..Grace /\ Cooldown \in Nat /\ Grace \in Nat
  BY <1>2, DurationsAssumption
<1>4. /\ nq \in Never..Cooldown /\ nz \in Never..Grace
      /\ nq = Never <=> q = Never
      /\ q >= Cooldown => nq >= Cooldown
  <2> HIDE DEF q, z
  <2> QED BY <1>3 DEF Min, Never
<1> HIDE DEF nq, nz
<1>5. /\ trail' \in [lane : {"quarantine", "blocked", "other"},
                     quarantined : Never..Cooldown, lapsed : Never..Grace]
      /\ trail'.lane = trail.lane /\ trail'.quarantined = nq
  BY <1>1, <1>2, <1>4
<1>6. /\ row' = NotEnrolled <=> row = NotEnrolled
      /\ row # NotEnrolled => /\ row' \in ParticipantType /\ row'.lane = row.lane
                        /\ row'.health = row.health
  <2>1. CASE row = NotEnrolled
    BY <1>1, <2>1
  <2>2. CASE row # NotEnrolled
    <3>1. row \in ParticipantType
      BY <2>2, Parts DEF LaneInv
    <3>2. Max(0, row.blockedFor - 1) \in 0..Max(PausedDwell, ThrottledDwell)
      BY <3>1, DurationsAssumption DEF ParticipantType, Max
    <3>3. row' = [row EXCEPT !.blockedFor = Max(0, row.blockedFor - 1)]
      BY <1>1, <2>2
    <3>4. row' \in ParticipantType /\ row'.lane = row.lane /\ row'.health = row.health
      BY <3>1, <3>2, <3>3 DEF ParticipantType
    <3>5. row' # NotEnrolled
      <4>1. row'.lane # "none"
        BY <3>4 DEF ParticipantType, Lanes
      <4> QED BY <4>1 DEF NotEnrolled
    <3> QED BY <2>2, <3>4, <3>5
  <2> QED BY <2>1, <2>2
<1>7. LaneTypeOK'
  <2>1. relapsed' \in BOOLEAN
    BY <1>1
  <2>2. row' \in {NotEnrolled} \union ParticipantType
    BY <1>6
  <2> QED BY <1>1, <1>5, <2>1, <2>2 DEF LaneInv, LaneTypeOK, ParticipantType
<1>8. Served => Served'
  <2>1. CASE relapsed
    <3>1. relapsed' \/ ~(nq < Cooldown)
      BY <1>1, <1>5, <2>1
    <3>2. nq \in Int /\ Cooldown \in Int
      BY <1>3, <1>4 DEF Never
    <3> QED BY <1>5, <3>1, <3>2 DEF Served
  <2>2. CASE ~relapsed
    BY <1>4, <1>5, <2>2 DEF Served
  <2> QED BY <2>1, <2>2
<1>9. Decisions'
  BY <1>1, <1>8, Dropped
<1>10. DegradedIsSealed'
  BY <1>6 DEF LaneInv, DegradedIsSealed, Degraded
<1>11. Uncontained'
  BY <1>5, <1>6, <1>8 DEF LaneInv, Uncontained
<1>12. Anchored'
  BY <1>4, <1>5, <1>6 DEF LaneInv, Anchored, ContainmentIsAnchored
<1> QED BY <1>7, <1>9, <1>10, <1>11, <1>12 DEF LaneInv

\* It holds at first.
LEMMA LaneInvInit == LaneInit => LaneInv
<1> SUFFICES ASSUME LaneInit PROVE LaneInv
  OBVIOUS
<1>1. LaneTypeOK
  <2>1. trail \in [lane : {"quarantine", "blocked", "other"},
                   quarantined : Never..Cooldown, lapsed : Never..Grace]
    <3>1. Never \in Never..Cooldown /\ Never \in Never..Grace
      BY DurationsAssumption DEF Never
    <3> QED BY <3>1 DEF LaneInit
  <2>2. evidence \in EvidenceType
    BY DEF LaneInit, NoEvidence, EvidenceType
  <2>3. decided \in [Evaluators -> {Undecided} \union DecisionType]
    BY DEF LaneInit
  <2>4. reports \in 0..MaxReports
    BY DurationsAssumption DEF LaneInit
  <2> QED BY <2>1, <2>2, <2>3, <2>4 DEF LaneInit, LaneTypeOK, DecisionType
<1>2. Served
  BY DEF LaneInit, Served
<1>3. DegradedIsSealed /\ Uncontained /\ Anchored
  BY <1>2 DEF LaneInit, DegradedIsSealed, Degraded, Uncontained, Anchored, ContainmentIsAnchored
<1>4. Decisions
  BY DEF LaneInit, Decisions
<1> QED BY <1>1, <1>3, <1>4 DEF LaneInv

\* Every step keeps it.
LEMMA LaneInvStep == LaneInv /\ [LaneNext]_laneVars => LaneInv'
<1> SUFFICES ASSUME LaneInv, [LaneNext]_laneVars PROVE LaneInv'
  OBVIOUS
<1>1. CASE UNCHANGED laneVars
  <2>1. /\ evidence' \in EvidenceType /\ auth' \in BOOLEAN /\ underway' \in BOOLEAN
        /\ reports' \in 0..MaxReports
    BY <1>1 DEF laneVars, LaneInv, LaneTypeOK
  <2> QED BY <1>1, <2>1, SurroundingsKeep DEF laneVars
<1>2. ASSUME NEW e \in Evaluators, EvaluateRead(e) PROVE LaneInv'
  BY <1>2, ReadKeeps
<1>3. ASSUME NEW e \in Evaluators, ApplyWarmupParticipantTransition(e) PROVE LaneInv'
  BY <1>3, WriteKeeps, MissedWriteKeeps
<1>4. ASSUME NEW e \in Evaluators, EvaluationFails(e) PROVE LaneInv'
  BY <1>4, FailureKeeps
<1>5. CASE UpsertWarmupParticipant
  BY <1>5, EnableKeeps
<1>6. CASE DisableWarmupParticipant \/ DeleteMailbox
  BY <1>6, LeavingKeeps
<1>7. CASE \/ ObservePlacement \/ LastArrival \/ PlacementsAge \/ PlacementsGone
           \/ ReportArrives \/ ReportsGone \/ AuthChanges
  BY <1>7, World
<1>8. CASE Tick
  BY <1>8, DayKeeps
<1> QED BY <1>1, <1>2, <1>3, <1>4, <1>5, <1>6, <1>7, <1>8 DEF LaneNext

\* Health is written by a sweep whose row is still what it read, or not at all.
LEMMA RecoveryStep ==
    ASSUME LaneInv, [LaneNext]_laneVars, row # NotEnrolled, row' # NotEnrolled,
           IsRecovery(row.health, row'.health)
    PROVE  stateRank(row'.health) = stateRank(row.health) - 1
<1>1. row \in ParticipantType /\ stateRank(row.health) \in 0..3
  BY Parts, Ranks DEF LaneInv, ParticipantType
<1>2. row'.health # row.health
  BY <1>1 DEF IsRecovery
<1>3. row' # row
  BY <1>2
<1>4. ~Tick
  <2> SUFFICES ASSUME Tick PROVE row'.health = row.health
    BY <1>2
  <2>1. row' = [row EXCEPT !.blockedFor = Max(0, @ - 1)]
    BY DEF Tick
  <2> QED BY <1>1, <2>1 DEF ParticipantType
<1>5. PICK e \in Evaluators : ApplyWarmupParticipantTransition(e)
  BY <1>3, <1>4
     DEF LaneNext, laneVars, EvaluateRead, EvaluationFails, UpsertWarmupParticipant,
         DisableWarmupParticipant, DeleteMailbox, ObservePlacement, LastArrival,
         PlacementsAge, PlacementsGone, ReportArrives, ReportsGone, AuthChanges
<1> DEFINE d == decided[e]
<1>6. d # Undecided /\ RowStillAsRead(d) /\ row' = [health |-> d.health, lane |-> d.lane,
                                   blockedFor |-> warmupPausedUntil(d.health)]
  BY <1>3, <1>5 DEF ApplyWarmupParticipantTransition
<1>7. row'.health = d.health /\ row.health = d.from.health
  BY <1>6 DEF RowStillAsRead
<1>8. Sane(d)
  BY <1>6 DEF LaneInv, Decisions
<1> QED BY <1>7, <1>8 DEF Sane

-----------------------------------------------------------------------------
(* The theorems                                                            *)

\* The inductive invariant holds of every behaviour.
LEMMA LaneInvHolds == LaneSpec => []LaneInv
BY LaneInvInit, LaneInvStep, PTL DEF LaneSpec

\* Every variable of the containment policy keeps the kind of value the code keeps there,
\* for any dwell, cooldown and grace.
THEOREM LanesTyped == LaneSpec => []LaneTypeOK
<1>1. LaneInv => LaneTypeOK
  BY DEF LaneInv
<1> QED BY <1>1, LaneInvHolds, PTL

\* A mailbox stored as throttled or paused is in no lane that may send, however many
\* sweeps overlap: a sweep derives the lane from the health it is going to store.
THEOREM DegradedMailboxesAreSealed == LaneSpec => []DegradedIsSealed
<1>1. LaneInv => DegradedIsSealed
  BY DEF LaneInv
<1> QED BY <1>1, LaneInvHolds, PTL

\* An address that entered quarantine is in no sending lane before its cooldown has passed,
\* across disabling, deleting and adding it again, unless a sweep that read the row before
\* the quarantine began writes over it.
THEOREM CooldownsAreServed == LaneSpec => []CooldownServed
<1>1. LaneInv => CooldownServed
  BY DEF LaneInv, Uncontained, Served, CooldownServed, LaneMaySend
<1> QED BY <1>1, LaneInvHolds, PTL

\* Every quarantined row has the moment its cooldown counts from, a new mailbox of an old
\* address included, so no quarantine is for ever by accident.
THEOREM QuarantinesAreAnchored == LaneSpec => []ContainmentIsAnchored
<1>1. LaneInv => ContainmentIsAnchored
  BY DEF LaneInv, Anchored
<1> QED BY <1>1, LaneInvHolds, PTL

\* Stored health improves by one state per write, also when a sweep that read an older row
\* writes after one that saw worse evidence.
THEOREM HealthRecoversGradually == LaneSpec => RecoveryIsGradual
<1>1. LaneInv /\ [LaneNext]_laneVars =>
        [row # NotEnrolled /\ row' # NotEnrolled /\ IsRecovery(row.health, row'.health)
           => stateRank(row'.health) = stateRank(row.health) - 1]_laneVars
  BY RecoveryStep
<1> QED BY <1>1, LaneInvHolds, PTL DEF LaneSpec, RecoveryIsGradual
=============================================================================
