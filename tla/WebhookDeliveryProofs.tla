------------------------ MODULE WebhookDeliveryProofs ------------------------
(***************************************************************************)
(* Webhook deliveries for any number of endpoints and tasks, any retry     *)
(* schedule and any number of faults.                                      *)
(*                                                                         *)
(* Endpoints do not meet: a step of one delivery leaves what the others    *)
(* are owed alone, so the invariant is a conjunction over endpoints and a  *)
(* step is checked for its own.  Per endpoint it says that its task was    *)
(* not queued before the loop came to it (Fresh), that a pending row has   *)
(* someone to look at it (Watched), how many tasks there can be (Counted)  *)
(* and what they may still do to the receiver (Receipts), and that an      *)
(* attempt that is written was made (Tried).                               *)
(***************************************************************************)
EXTENDS WebhookDelivery, FiniteSetTheorems, TLAPS

TaskType ==
    [pc : {"free", "queued"} \cup Running, of : Endpoints \cup {None}, left : Nat,
     wait : Nat, ttl : 0..Timeout, n : 0..MaxAttempts]

\* The tasks of a delivery, and those of them at one place of the handler.
Of(p) == {t \in Slots : task[t].of = p}
At(p, c) == {t \in Slots : task[t].of = p /\ task[t].pc = c}

\* A slot in use has a delivery, and a running attempt has its number.
Shape ==
    \A t \in Slots :
        /\ task[t].pc = "free" <=> task[t].of = None
        /\ task[t].pc \in {"post", "ack", "retry", "requeue"} => task[t].n > 0
        /\ task[t].pc = "retry" => task[t].n < MaxAttempts

\* The loop is at an endpoint it has taken off its list.
Looping == phase = "enqueue" => cur \in Endpoints /\ cur \notin todo

\* The loop has not created the row; nor queued the task.
Early(p) == phase = "idle" \/ p \in todo
Unqueued(p) == Early(p) \/ (phase = "enqueue" /\ cur = p)

Fresh(p) ==
    /\ Early(p) => row[p] = "none"
    /\ Unqueued(p) => /\ Of(p) = {} /\ dead[p] = "none"
                      /\ attempts[p] = 0 /\ taken[p] = 0

Watched(p) ==
    row[p] = "pending" =>
      \/ \E t \in Slots : task[t].of = p
      \/ phase = "enqueue" /\ cur = p
      \/ stranded[p] \/ dead[p] # "none"

Counted(p) == IsFiniteSet(Of(p)) /\ Cardinality(Of(p)) <= 1 + chains[p]

\* While the row is pending a success is recorded, known to be lost or about to be
\* recorded; once it is settled only an attempt that is already under way adds one.
Receipts(p) ==
    IF row[p] = "pending"
    THEN taken[p] <= unpaid[p] + Cardinality(At(p, "ack"))
    ELSE taken[p] + Cardinality(At(p, "post")) <= 1 + unpaid[p] + chains[p]

\* The number of an attempt, as a handler carries it and as the row keeps it, is no
\* higher than the number of POSTs.
Tried(p) ==
    /\ row[p] = "pending" => attempts[p] < MaxAttempts
    /\ ~cut[p] =>
         /\ attempts[p] <= posts[p]
         /\ row[p] = "failed" => posts[p] >= MaxAttempts
         /\ \A t \in Of(p) :
              /\ task[t].pc = "post" => task[t].n <= posts[p] + 1
              /\ task[t].pc \in {"ack", "retry", "requeue", "giveup"} => task[t].n <= posts[p]
              /\ task[t].pc = "giveup" => task[t].n >= MaxAttempts

Sound(p) == Fresh(p) /\ Watched(p) /\ Counted(p) /\ Receipts(p) /\ Tried(p)

HookInv == TypeOK /\ Shape /\ Looping /\ \A p \in Endpoints : Sound(p)

-----------------------------------------------------------------------------
(* Tasks                                                                   *)

\* What the type says of the tasks and the numbers a delivery has.
LEMMA Typed ==
    ASSUME HookInv
    PROVE  /\ task \in [Slots -> TaskType]
           /\ \A p \in Endpoints :
                /\ row[p] \in {"none", "pending", "delivered", "failed"}
                /\ attempts[p] \in 0..MaxAttempts
                /\ posts[p] \in Nat /\ taken[p] \in Nat /\ unpaid[p] \in Nat /\ chains[p] \in Nat
                /\ dead[p] \in {"none", "captured", "missed"}
           /\ MaxAttempts \in Nat \ {0} /\ None \notin Endpoints
BY WebhookAssumption DEF HookInv, TypeOK, TaskType

\* An empty slot.
LEMMA EmptySlot ==
    /\ NoTask \in TaskType
    /\ NoTask.pc = "free" /\ NoTask.of = None /\ NoTask.n = 0
BY WebhookAssumption DEF NoTask, TaskType

\* A queued task, with the retries every delivery starts with.
LEMMA FirstTask ==
    ASSUME NEW p \in Endpoints, NEW d \in Nat
    PROVE  /\ NewTask(p, d) \in TaskType /\ NewTask(p, d).pc = "queued"
           /\ NewTask(p, d).of = p /\ NewTask(p, d).n = 0 /\ NewTask(p, d).wait = d
BY EmptySlot, WebhookAssumption DEF NewTask, TaskType

\* The same, with retries of its own.
LEMMA QueuedTask ==
    ASSUME NEW p \in Endpoints, NEW d \in Nat, NEW r \in Nat
    PROVE  LET k == [NewTask(p, d) EXCEPT !.left = r]
           IN  k \in TaskType /\ k.pc = "queued" /\ k.of = p /\ k.n = 0
<1> HIDE DEF NewTask
<1> QED BY FirstTask DEF TaskType

\* The table answers for every attempt.
LEMMA Delays == ASSUME NEW n \in Nat, n > 0 PROVE Delay(n) \in Nat
<1>1. Backoff \in Seq(Nat) /\ Len(Backoff) \in Nat /\ Len(Backoff) > 0
  BY WebhookAssumption
<1> QED BY <1>1 DEF Delay

\* A task that failed is queued again or leaves.
LEMMA RetriedTask ==
    ASSUME HookInv, NEW t \in Slots, task[t].of \in Endpoints
    PROVE  /\ Retried(t) \in TaskType
           /\ task[t].left > 0 =>
                /\ Retried(t).pc = "queued" /\ Retried(t).of = task[t].of
                /\ Retried(t).n = 0
           /\ ~(task[t].left > 0) => Retried(t) = NoTask
           /\ Retried(t).of \in {task[t].of, None}
           /\ Retried(t).pc \in {"queued", "free"}
           /\ Retried(t).pc = "free" <=> Retried(t).of = None
<1>1. task[t] \in TaskType /\ None \notin Endpoints
  BY Typed
<1>2. task[t].left \in Nat /\ RetryDelay \in Nat
  BY <1>1, WebhookAssumption DEF TaskType
<1>3. CASE task[t].left > 0
  <2>1. task[t].left - 1 \in Nat
    BY <1>2, <1>3
  <2>2. Retried(t) = [NewTask(task[t].of, RetryDelay) EXCEPT !.left = task[t].left - 1]
    BY <1>3 DEF Retried
  <2> HIDE DEF Retried
  <2>3. /\ Retried(t) \in TaskType /\ Retried(t).pc = "queued"
        /\ Retried(t).of = task[t].of /\ Retried(t).n = 0
    BY <1>2, <2>1, <2>2, QueuedTask
  <2> QED BY <1>1, <1>3, <2>3
<1>4. CASE ~(task[t].left > 0)
  <2>1. Retried(t) = NoTask
    BY <1>4 DEF Retried
  <2> QED BY <1>4, <2>1, EmptySlot
<1> QED BY <1>3, <1>4

-----------------------------------------------------------------------------
(* One slot changes hands                                                  *)

\* Slot t, a task of p, becomes k: still a task of p, or free.
Changes(t, p, k) ==
    /\ task[t].of = p /\ k \in TaskType
    /\ task' = [task EXCEPT ![t] = k]
    /\ k.of \in {p, None}
    /\ k.pc = "free" <=> k.of = None

\* Everything but the tasks is the same for q.
SameRecord(q) ==
    /\ row'[q] = row[q] /\ attempts'[q] = attempts[q] /\ dead'[q] = dead[q]
    /\ posts'[q] = posts[q] /\ taken'[q] = taken[q] /\ unpaid'[q] = unpaid[q]
    /\ chains'[q] = chains[q] /\ stranded'[q] = stranded[q] /\ cut'[q] = cut[q]

\* The tasks of q are where they were.
SameTasks(q) ==
    \A t \in Slots : task[t].of = q \/ task'[t].of = q =>
        task'[t].of = task[t].of /\ task'[t].pc = task[t].pc /\ task'[t].n = task[t].n

\* The sets of p's tasks after the change.
LEMMA ChangedSets ==
    ASSUME HookInv, NEW t \in Slots, NEW p \in Endpoints, NEW k, Changes(t, p, k)
    PROVE  /\ task' \in [Slots -> TaskType]
           /\ task'[t] = k /\ \A x \in Slots : x # t => task'[x] = task[x]
           /\ t \in Of(p)
           /\ Of(p)' = IF k.of = p THEN Of(p) ELSE Of(p) \ {t}
           /\ \A c \in Running :
                At(p, c)' = IF k.pc = c THEN At(p, c) \union {t} ELSE At(p, c) \ {t}
           /\ \A q \in Endpoints : q # p => SameTasks(q)
<1>1. task \in [Slots -> TaskType] /\ None \notin Endpoints
  BY Typed
<1>2. task' \in [Slots -> TaskType]
  BY <1>1 DEF Changes
<1>3. task'[t] = k /\ \A x \in Slots : x # t => task'[x] = task[x]
  BY <1>1 DEF Changes
<1>4. t \in Of(p)
  BY DEF Of, Changes
<1>5. Of(p)' = IF k.of = p THEN Of(p) ELSE Of(p) \ {t}
  BY <1>1, <1>3 DEF Of, Changes
<1>6. ASSUME NEW c \in Running
      PROVE  At(p, c)' = IF k.pc = c THEN At(p, c) \union {t} ELSE At(p, c) \ {t}
  <2>1. c # "free"
    BY <1>6 DEF Running
  <2>2. k.pc = c => k.of = p
    BY <2>1 DEF Changes
  <2> QED BY <1>3, <2>2 DEF At
<1>7. ASSUME NEW q \in Endpoints, q # p PROVE SameTasks(q)
  BY <1>1, <1>3, <1>7 DEF SameTasks, Changes
<1> QED BY <1>2, <1>3, <1>4, <1>5, <1>6, <1>7

\* The numbers of p's tasks: at most one POST or acknowledgement for each.
LEMMA Numbers ==
    ASSUME HookInv, NEW p \in Endpoints
    PROVE  /\ IsFiniteSet(Of(p)) /\ Cardinality(Of(p)) \in Nat
           /\ \A c \in Running : /\ IsFiniteSet(At(p, c)) /\ Cardinality(At(p, c)) \in Nat
                                 /\ Cardinality(At(p, c)) <= Cardinality(Of(p))
           /\ Cardinality(At(p, "ack")) + Cardinality(At(p, "post")) <= Cardinality(Of(p))
           /\ Cardinality(Of(p)) <= 1 + chains[p]
<1>1. IsFiniteSet(Of(p)) /\ Cardinality(Of(p)) <= 1 + chains[p]
  BY DEF HookInv, Sound, Counted
<1>2. \A c : At(p, c) \in SUBSET Of(p)
  BY DEF At, Of
<1>3. ASSUME NEW c
      PROVE /\ IsFiniteSet(At(p, c)) /\ Cardinality(At(p, c)) \in Nat
            /\ Cardinality(At(p, c)) <= Cardinality(Of(p))
  BY <1>1, <1>2, FS_Subset, FS_CardinalityType
<1>4. Cardinality(At(p, "ack")) + Cardinality(At(p, "post")) <= Cardinality(Of(p))
  <2> DEFINE A == At(p, "ack")
             P == At(p, "post")
  <2>1. IsFiniteSet(A) /\ IsFiniteSet(P) /\ Cardinality(A) \in Nat /\ Cardinality(P) \in Nat
    BY <1>3
  <2>2. A \cap P = {} /\ A \cup P \in SUBSET Of(p)
    BY DEF At, Of
  <2> HIDE DEF A, P
  <2>3. Cardinality(A \cup P) = Cardinality(A) + Cardinality(P) - Cardinality(A \cap P)
    BY <2>1, FS_Union
  <2>4. Cardinality(A \cup P) <= Cardinality(Of(p))
    BY <1>1, <2>2, FS_Subset
  <2>5. Cardinality(A \cap P) = 0
    BY <2>2, FS_EmptySet
  <2> QED BY <2>1, <2>3, <2>4, <2>5 DEF A, P
<1> QED BY <1>1, <1>3, <1>4, FS_CardinalityType

\* One if the place is c, else none.
One(c, d) == IF c = d THEN 1 ELSE 0

\* The numbers after the change.
LEMMA ChangedNumbers ==
    ASSUME HookInv, NEW t \in Slots, NEW p \in Endpoints, NEW k, Changes(t, p, k),
           NEW c \in Running
    PROVE  Cardinality(At(p, c)') = Cardinality(At(p, c)) - One(task[t].pc, c) + One(k.pc, c)
<1>1. At(p, c)' = IF k.pc = c THEN At(p, c) \union {t} ELSE At(p, c) \ {t}
  BY ChangedSets
<1>2. t \in At(p, c) <=> task[t].pc = c
  BY DEF At, Changes
<1>3. IsFiniteSet(At(p, c)) /\ Cardinality(At(p, c)) \in Nat
  BY Numbers
<1>4. Cardinality(At(p, c) \union {t})
        = IF t \in At(p, c) THEN Cardinality(At(p, c)) ELSE Cardinality(At(p, c)) + 1
  BY <1>3, FS_AddElement
<1>5. Cardinality(At(p, c) \ {t})
        = IF t \in At(p, c) THEN Cardinality(At(p, c)) - 1 ELSE Cardinality(At(p, c))
  BY <1>3, FS_RemoveElement
<1>6. CASE k.pc = c
  BY <1>1, <1>2, <1>3, <1>4, <1>6 DEF One
<1>7. CASE k.pc # c
  BY <1>1, <1>2, <1>3, <1>5, <1>7 DEF One
<1> QED BY <1>6, <1>7

-----------------------------------------------------------------------------
(* What a step leaves alone                                                *)

\* A delivery the step is not about keeps what the invariant says of it.
LEMMA Undisturbed ==
    ASSUME HookInv, NEW q \in Endpoints, SameRecord(q), SameTasks(q),
           Early(q)' => Early(q), Unqueued(q)' => Unqueued(q),
           phase = "enqueue" /\ cur = q => phase' = "enqueue" /\ cur' = q
    PROVE  Sound(q)'
<1>1. Sound(q)
  BY DEF HookInv
<1>2. Of(q)' = Of(q) /\ \A c : At(q, c)' = At(q, c)
  BY DEF Of, At, SameTasks
<1>3. Fresh(q)'
  BY <1>1, <1>2 DEF Sound, Fresh, SameRecord
<1>4. Watched(q)'
  BY <1>1 DEF Sound, Watched, SameRecord, SameTasks
<1>5. Counted(q)'
  BY <1>1, <1>2 DEF Sound, Counted, SameRecord
<1>6. Receipts(q)'
  BY <1>1, <1>2 DEF Sound, Receipts, SameRecord
<1>7. Tried(q)'
  <2>1. \A t \in Of(q) : task'[t].pc = task[t].pc /\ task'[t].n = task[t].n
    BY DEF Of, SameTasks
  <2> QED BY <1>1, <1>2, <2>1 DEF Sound, Tried, SameRecord
<1> QED BY <1>3, <1>4, <1>5, <1>6, <1>7 DEF Sound

\* A step of one task: what is left to show is about its own delivery.
LEMMA OneTaskStep ==
    ASSUME HookInv, NEW t \in Slots, NEW p \in Endpoints, NEW k, Changes(t, p, k),
           k.pc \in {"post", "ack", "retry", "requeue"} => k.n > 0,
           k.pc = "retry" => k.n < MaxAttempts,
           UNCHANGED dispatchVars, chains' = chains,
           \A q \in Endpoints : q # p => SameRecord(q),
           Watched(p)', Receipts(p)', Tried(p)'
    PROVE  task' \in [Slots -> TaskType] /\ Shape' /\ Looping' /\ \A q \in Endpoints : Sound(q)'
<1>1. /\ task' \in [Slots -> TaskType]
      /\ task'[t] = k /\ \A x \in Slots : x # t => task'[x] = task[x]
      /\ t \in Of(p) /\ Of(p)' \subseteq Of(p)
      /\ \A q \in Endpoints : q # p => SameTasks(q)
  BY ChangedSets
<1>2. UNCHANGED <<phase, todo, cur>>
  BY DEF dispatchVars
<1>3. Shape'
  BY <1>1 DEF HookInv, Shape, Changes
<1>4. Looping'
  BY <1>2 DEF HookInv, Looping
<1>5. \A q \in Endpoints : (Early(q)' <=> Early(q)) /\ (Unqueued(q)' <=> Unqueued(q))
  BY <1>2 DEF Early, Unqueued
<1>6. ~Unqueued(p) /\ ~Early(p)
  BY <1>1 DEF HookInv, Sound, Fresh, Unqueued
<1>7. Fresh(p)'
  BY <1>5, <1>6 DEF Fresh
<1>8. Counted(p)'
  <2>1. IsFiniteSet(Of(p)) /\ Cardinality(Of(p)) <= 1 + chains[p] /\ Cardinality(Of(p)) \in Nat
    BY Numbers
  <2>2. IsFiniteSet(Of(p)') /\ Cardinality(Of(p)') <= Cardinality(Of(p))
    BY <1>1, <2>1, FS_Subset
  <2>3. Cardinality(Of(p)') \in Nat /\ chains[p] \in Nat
    BY <2>2, FS_CardinalityType, Typed
  <2> QED BY <2>1, <2>2, <2>3 DEF Counted
<1>9. Sound(p)'
  BY <1>7, <1>8 DEF Sound
<1>10. ASSUME NEW q \in Endpoints, q # p PROVE Sound(q)'
  BY <1>1, <1>2, <1>5, <1>10, Undisturbed
<1> QED BY <1>1, <1>3, <1>4, <1>9, <1>10

\* The balance with the receiver: a success the row may still learn of is matched by
\* its acknowledgement, and nothing is taken on top once the row is settled.
LEMMA BalanceStep ==
    ASSUME HookInv, NEW t \in Slots, NEW p \in Endpoints, NEW k, Changes(t, p, k),
           chains' = chains,
           row'[p] = row[p] \/ (row[p] = "pending" /\ row'[p] # "pending"),
           taken'[p] \in Nat, unpaid'[p] \in Nat,
           row'[p] = "pending" =>
             taken'[p] + One(task[t].pc, "ack") + unpaid[p]
               <= taken[p] + unpaid'[p] + One(k.pc, "ack"),
           row'[p] # "pending" =>
             taken'[p] + One(k.pc, "post") + unpaid[p]
               <= taken[p] + unpaid'[p] + One(task[t].pc, "post")
    PROVE  Receipts(p)'
<1> DEFINE a == Cardinality(At(p, "ack"))
           b == Cardinality(At(p, "post"))
<1>1. /\ Cardinality(At(p, "ack")') = a - One(task[t].pc, "ack") + One(k.pc, "ack")
      /\ Cardinality(At(p, "post")') = b - One(task[t].pc, "post") + One(k.pc, "post")
  BY ChangedNumbers DEF Running
<1>2. a \in Nat /\ b \in Nat /\ a + b <= 1 + chains[p]
  <2>1. /\ Cardinality(At(p, "ack")) \in Nat /\ Cardinality(At(p, "post")) \in Nat
        /\ Cardinality(At(p, "ack")) + Cardinality(At(p, "post")) <= Cardinality(Of(p))
        /\ Cardinality(Of(p)) <= 1 + chains[p] /\ Cardinality(Of(p)) \in Nat
    BY Numbers DEF Running
  <2> QED BY <2>1, Typed
<1>3. taken[p] \in Nat /\ unpaid[p] \in Nat /\ chains[p] \in Nat
  BY Typed
<1>4. \A c, d : One(c, d) \in Nat
  BY DEF One
<1>5. IF row[p] = "pending" THEN taken[p] <= unpaid[p] + a
      ELSE taken[p] + b <= 1 + unpaid[p] + chains[p]
  BY DEF HookInv, Sound, Receipts
<1> DEFINE ta == One(task[t].pc, "ack")
           tp == One(task[t].pc, "post")
           ka == One(k.pc, "ack")
           kp == One(k.pc, "post")
<1>6. ta \in Nat /\ tp \in Nat /\ ka \in Nat /\ kp \in Nat
  BY <1>4
<1>7. CASE row'[p] = "pending"
  <2>1. taken[p] <= unpaid[p] + a /\ taken'[p] + ta + unpaid[p] <= taken[p] + unpaid'[p] + ka
    BY <1>5, <1>7
  <2> HIDE DEF a, b, ta, tp, ka, kp
  <2>2. taken'[p] <= unpaid'[p] + (a - ta + ka)
    BY <1>2, <1>3, <1>6, <2>1
  <2> QED BY <1>1, <1>7, <2>2 DEF Receipts, a, ta, ka
<1>8. CASE row'[p] # "pending"
  <2>1. taken'[p] + kp + unpaid[p] <= taken[p] + unpaid'[p] + tp
    BY <1>8
  <2>2. taken[p] <= unpaid[p] + a \/ taken[p] + b <= 1 + unpaid[p] + chains[p]
    BY <1>5
  <2> HIDE DEF a, b, ta, tp, ka, kp
  <2>3. taken[p] + b <= 1 + unpaid[p] + chains[p]
    BY <1>2, <1>3, <2>2
  <2>4. taken'[p] + (b - tp + kp) <= 1 + unpaid'[p] + chains[p]
    BY <1>2, <1>3, <1>6, <2>1, <2>3
  <2> QED BY <1>1, <1>8, <2>4 DEF Receipts, b, tp, kp
<1> QED BY <1>7, <1>8

\* The attempts: POSTs are only ever added, and what the task carries on is backed by
\* them.
LEMMA AttemptStep ==
    ASSUME HookInv, NEW t \in Slots, NEW p \in Endpoints, NEW k, Changes(t, p, k),
           posts'[p] \in Nat, posts'[p] >= posts[p],
           row'[p] = "pending" => attempts'[p] < MaxAttempts,
           ~cut'[p] =>
             /\ ~cut[p]
             /\ attempts'[p] <= posts'[p]
             /\ row'[p] = "failed" => posts'[p] >= MaxAttempts
             /\ k.pc = "post" => k.n <= posts'[p] + 1
             /\ k.pc \in {"ack", "retry", "requeue", "giveup"} => k.n <= posts'[p]
             /\ k.pc = "giveup" => k.n >= MaxAttempts
    PROVE  Tried(p)'
<1>1. /\ task'[t] = k /\ \A x \in Slots : x # t => task'[x] = task[x]
      /\ Of(p)' \subseteq Of(p)
  BY ChangedSets
<1>2. Tried(p)
  BY DEF HookInv, Sound
<1> SUFFICES ASSUME ~cut'[p], NEW x \in Of(p)'
             PROVE  /\ task'[x].pc = "post" => task'[x].n <= posts'[p] + 1
                    /\ task'[x].pc \in {"ack", "retry", "requeue", "giveup"} =>
                         task'[x].n <= posts'[p]
                    /\ task'[x].pc = "giveup" => task'[x].n >= MaxAttempts
  BY DEF Tried
<1>3. CASE x = t
  BY <1>1, <1>3
<1>4. CASE x # t
  <2>1. x \in Of(p) /\ x \in Slots /\ task'[x] = task[x]
    BY <1>1, <1>4 DEF Of
  <2>2. task[x].n \in Nat /\ posts[p] \in Nat
    <3>1. task[x] \in TaskType /\ MaxAttempts \in Nat
      BY <2>1, Typed
    <3> QED BY <3>1, Typed DEF TaskType
  <2>3. /\ task[x].pc = "post" => task[x].n <= posts[p] + 1
        /\ task[x].pc \in {"ack", "retry", "requeue", "giveup"} => task[x].n <= posts[p]
        /\ task[x].pc = "giveup" => task[x].n >= MaxAttempts
    BY <1>2, <2>1 DEF Tried
  <2> QED BY <2>1, <2>2, <2>3
<1> QED BY <1>3, <1>4

\* How a handler's ways out change its slot: an error,
LEMMA FailureChanges ==
    ASSUME HookInv, NEW t \in Slots, NEW p \in Endpoints, task[t].of = p, TaskFails(t)
    PROVE  /\ Changes(t, p, Retried(t))
           /\ Retried(t).pc \in {"queued", "free"}
           /\ dead' \in [Endpoints -> {"none", "captured", "missed"}]
           /\ \A q \in Endpoints : q # p => dead'[q] = dead[q]
           /\ dead[p] # "none" => dead'[p] # "none"
           /\ task'[t].of = p \/ dead'[p] # "none"
<1>1. task \in [Slots -> TaskType] /\ dead \in [Endpoints -> {"none", "captured", "missed"}]
  BY Typed DEF HookInv, TypeOK
<1>2. Changes(t, p, Retried(t)) /\ Retried(t).pc \in {"queued", "free"}
  BY RetriedTask DEF Changes, TaskFails
<1>3. task'[t] = Retried(t)
  BY <1>1 DEF TaskFails
<1>4. CASE task[t].left > 0
  BY <1>1, <1>2, <1>3, <1>4, RetriedTask DEF TaskFails, DeadLettered
<1>5. CASE ~(task[t].left > 0)
  <2>1. PICK c \in {"captured", "missed"} :
          dead' = [dead EXCEPT ![p] = IF @ = "captured" THEN @ ELSE c]
    BY <1>5 DEF TaskFails, DeadLettered
  <2> QED BY <1>1, <1>2, <2>1
<1> QED BY <1>4, <1>5

\* the end of the task,
LEMMA ReturnChanges ==
    ASSUME HookInv, NEW t \in Slots, NEW p \in Endpoints, task[t].of = p, Return(t)
    PROVE  Changes(t, p, NoTask) /\ dead' = dead
BY EmptySlot DEF Return, Changes

\* or its next statement.
LEMMA GotoChanges ==
    ASSUME HookInv, NEW t \in Slots, NEW p \in Endpoints, task[t].of = p,
           NEW c \in Running, Goto(t, c)
    PROVE  \E k : /\ Changes(t, p, k) /\ k.pc = c /\ k.n = task[t].n /\ k.of = p
                  /\ dead' = dead /\ task'[t] = k
<1>1. task \in [Slots -> TaskType] /\ None \notin Endpoints
  BY Typed
<1>2. task[t] \in TaskType
  BY <1>1
<1> DEFINE k == [task[t] EXCEPT !.pc = c]
<1>3. k \in TaskType /\ k.pc = c /\ k.n = task[t].n /\ k.of = p
  BY <1>2 DEF TaskType
<1>4. task' = [task EXCEPT ![t] = k] /\ dead' = dead
  BY <1>1 DEF Goto
<1>5. task'[t] = k
  BY <1>1, <1>4
<1>6. c # "free"
  BY DEF Running
<1> HIDE DEF k
<1>7. Changes(t, p, k)
  BY <1>1, <1>3, <1>4, <1>6 DEF Changes
<1> QED BY <1>3, <1>4, <1>5, <1>7

\* A task at work has a delivery.
LEMMA Busy ==
    ASSUME HookInv, NEW t \in Slots, task[t].pc # "free"
    PROVE  task[t].of \in Endpoints /\ task[t] \in TaskType /\ task[t].n \in 0..MaxAttempts
<1>1. task[t] \in TaskType
  BY Typed
<1> QED BY <1>1 DEF HookInv, Shape, TaskType

\* The rest of the type, for a step that writes no row.
LEMMA TypeStep ==
    ASSUME HookInv, task' \in [Slots -> TaskType],
           dead' \in [Endpoints -> {"none", "captured", "missed"}],
           posts' \in [Endpoints -> Nat], taken' \in [Endpoints -> Nat],
           unpaid' \in [Endpoints -> Nat], cut' \in [Endpoints -> BOOLEAN],
           row' \in [Endpoints -> {"none", "pending", "delivered", "failed"}],
           attempts' \in [Endpoints -> 0..MaxAttempts],
           UNCHANGED <<dispatchVars, endpointVars, chains, stranded>>,
           UNCHANGED budgetVars \/ Fault
    PROVE  TypeOK'
<1>1. /\ faults' \in 0..MaxFaults /\ refusals' \in 0..MaxRefusals
      /\ echoes' \in 0..MaxEchoes /\ churn' \in 0..MaxChurn
  <2>1. /\ faults \in 0..MaxFaults /\ refusals \in 0..MaxRefusals
        /\ echoes \in 0..MaxEchoes /\ churn \in 0..MaxChurn
        /\ MaxFaults \in Nat
    BY WebhookAssumption DEF HookInv, TypeOK
  <2>2. CASE UNCHANGED budgetVars
    BY <2>1, <2>2 DEF budgetVars
  <2>3. CASE Fault
    BY <2>1, <2>3 DEF Fault
  <2> QED BY <2>2, <2>3
<1> QED BY <1>1 DEF HookInv, TypeOK, TaskType, dispatchVars, endpointVars

\* Load: the task ends, the attempt starts or the endpoint is inactive.
LEMMA LoadKeeps == ASSUME HookInv, NEW t \in Slots, Load(t) PROVE HookInv'
<1>1. task[t].pc = "queued"
  BY DEF Load
<1>2. PICK p \in Endpoints : task[t].of = p /\ task[t] \in TaskType
  BY <1>1, Busy
<1>3. /\ cut' = [cut EXCEPT ![p] = @ \/ task'[t].pc = "giveup"]
      /\ UNCHANGED <<dispatchVars, endpointVars, rowVars, posts, taken, unpaid, chains, stranded>>
  BY <1>2 DEF Load
<1>4. UNCHANGED <<row, attempts, posts, taken, unpaid, chains, stranded>>
  BY <1>3 DEF rowVars
<1>5. /\ cut \in [Endpoints -> BOOLEAN] /\ row \in [Endpoints -> {"none", "pending", "delivered", "failed"}]
      /\ attempts \in [Endpoints -> 0..MaxAttempts]
      /\ dead \in [Endpoints -> {"none", "captured", "missed"}]
      /\ posts \in [Endpoints -> Nat] /\ taken \in [Endpoints -> Nat]
      /\ unpaid \in [Endpoints -> Nat]
  BY DEF HookInv, TypeOK
<1>6. /\ cut'[p] <=> (cut[p] \/ task'[t].pc = "giveup")
      /\ \A q \in Endpoints : q # p => cut'[q] = cut[q]
      /\ cut' \in [Endpoints -> BOOLEAN]
  BY <1>2, <1>3, <1>5
<1>7. taken[p] \in Nat /\ unpaid[p] \in Nat /\ posts[p] \in Nat /\ attempts[p] \in 0..MaxAttempts
  BY <1>2, Typed
<1>8. Watched(p) /\ Tried(p)
  BY <1>2 DEF HookInv, Sound
<1>9. UNCHANGED budgetVars \/ Fault
  BY DEF Load
<1> SUFFICES ASSUME NEW k, Changes(t, p, k),
                    k.pc \in {"queued", "free", "post", "giveup"},
                    k.pc = "post" => k.n > 0 /\ (k.n <= posts[p] + 1 \/ cut[p]),
                    dead' \in [Endpoints -> {"none", "captured", "missed"}],
                    \A q \in Endpoints : q # p => dead'[q] = dead[q],
                    dead[p] # "none" => dead'[p] # "none",
                    \/ task'[t].of = p \/ dead'[p] # "none" \/ row[p] # "pending",
                    k.pc = "post" => row[p] = "pending"
             PROVE  HookInv'
  <2>1. CASE ~Open(p) /\ Return(t)
    <3>1. Changes(t, p, NoTask) /\ dead' = dead
      BY <1>2, <2>1, ReturnChanges
    <3> QED BY <1>5, <2>1, <3>1, EmptySlot DEF Open
  <2>2. CASE Fault /\ TaskFails(t)
    <3>1. /\ Changes(t, p, Retried(t))
          /\ Retried(t).pc \in {"queued", "free"}
          /\ dead' \in [Endpoints -> {"none", "captured", "missed"}]
          /\ \A q \in Endpoints : q # p => dead'[q] = dead[q]
          /\ dead[p] # "none" => dead'[p] # "none"
          /\ task'[t].of = p \/ dead'[p] # "none"
      BY <1>2, <2>2, FailureChanges
    <3> QED BY <3>1
  <2>3. CASE Open(p) /\ dead' = dead
             /\ task' = [task EXCEPT ![t] =
                        [@ EXCEPT !.pc = IF active[p] THEN "post" ELSE "giveup",
                                  !.n = IF active[p] THEN attempts[p] + 1 ELSE attempts[p],
                                  !.ttl = Timeout]]
    <3> DEFINE c == IF active[p] THEN "post" ELSE "giveup"
               n == IF active[p] THEN attempts[p] + 1 ELSE attempts[p]
               k == [task[t] EXCEPT !.pc = c, !.n = n, !.ttl = Timeout]
    <3>1. row[p] = "pending" /\ attempts[p] < MaxAttempts
      BY <1>8, <2>3 DEF Open, Tried
    <3>2. n \in 0..MaxAttempts /\ Timeout \in 0..Timeout /\ c \in Running /\ c # "free"
      BY <1>7, <3>1, WebhookAssumption DEF Running
    <3>3. k \in TaskType /\ k.pc = c /\ k.n = n /\ k.of = p
      <4> HIDE DEF c, n
      <4> QED BY <1>2, <3>2 DEF TaskType
    <3>4. task' = [task EXCEPT ![t] = k]
      BY <2>3
    <3>5. c = "post" => n > 0 /\ (n <= posts[p] + 1 \/ cut[p])
      BY <1>7, <1>8 DEF Tried
    <3> HIDE DEF k
    <3>6. Changes(t, p, k) /\ task'[t] = k
      <4>1. p # None
        BY <1>2, Typed
      <4>2. task \in [Slots -> TaskType]
        BY Typed
      <4> QED BY <1>2, <3>2, <3>3, <3>4, <4>1, <4>2 DEF Changes
    <3>7. c \in {"post", "giveup"}
      OBVIOUS
    <3> HIDE DEF c, n
    <3> QED BY <1>5, <2>3, <3>1, <3>3, <3>5, <3>6, <3>7
  <2> QED BY <1>2, <2>1, <2>2, <2>3 DEF Load
<1>10. task'[t] = k
  BY <1>2, ChangedSets
<1>11. Watched(p)'
  <2>1. UNCHANGED <<phase, cur>>
    BY <1>3 DEF dispatchVars
  <2> QED BY <1>4, <1>8, <2>1 DEF Watched
<1>12. Receipts(p)'
  <2>1. One(task[t].pc, "ack") = 0 /\ One(task[t].pc, "post") = 0 /\ One(k.pc, "ack") = 0
    BY <1>1 DEF One
  <2>2. row[p] # "pending" => One(k.pc, "post") = 0
    BY DEF One
  <2> QED BY <1>2, <1>4, <1>7, <2>1, <2>2, BalanceStep
<1>13. Tried(p)'
  <2>1. k.pc = "giveup" => cut'[p]
    BY <1>6, <1>10
  <2>2. row[p] = "pending" => attempts[p] < MaxAttempts
    BY <1>8 DEF Tried
  <2>3. ~cut'[p] => /\ ~cut[p] /\ attempts[p] <= posts[p]
                    /\ row[p] = "failed" => posts[p] >= MaxAttempts
                    /\ k.pc = "post" => k.n <= posts[p] + 1
                    /\ k.pc \notin {"ack", "retry", "requeue", "giveup"}
    BY <1>6, <1>8, <2>1 DEF Tried
  <2>4. posts[p] >= posts[p]
    BY <1>7
  <2> QED BY <1>2, <1>4, <1>7, <2>2, <2>3, <2>4, AttemptStep
<1>14. \A q \in Endpoints : q # p => SameRecord(q)
  BY <1>4, <1>6 DEF SameRecord
<1>15. task' \in [Slots -> TaskType] /\ Shape' /\ Looping' /\ \A q \in Endpoints : Sound(q)'
  BY <1>2, <1>3, <1>11, <1>12, <1>13, <1>14, OneTaskStep
<1>16. TypeOK'
  BY <1>3, <1>4, <1>5, <1>6, <1>9, <1>15, TypeStep
<1> QED BY <1>15, <1>16 DEF HookInv

\* The parts of one delivery's step put together.
LEMMA HandlerStep ==
    ASSUME HookInv, NEW t \in Slots, NEW p \in Endpoints, NEW k, Changes(t, p, k),
           k.pc \in {"post", "ack", "retry", "requeue"} => k.n > 0,
           k.pc = "retry" => k.n < MaxAttempts,
           UNCHANGED <<dispatchVars, endpointVars, chains, stranded>>,
           UNCHANGED budgetVars \/ Fault,
           row' \in [Endpoints -> {"none", "pending", "delivered", "failed"}],
           attempts' \in [Endpoints -> 0..MaxAttempts],
           dead' \in [Endpoints -> {"none", "captured", "missed"}],
           posts' \in [Endpoints -> Nat], taken' \in [Endpoints -> Nat],
           unpaid' \in [Endpoints -> Nat], cut' \in [Endpoints -> BOOLEAN],
           \A q \in Endpoints : q # p => SameRecord(q),
           row'[p] = "pending" =>
             \/ task'[t].of = p \/ dead'[p] # "none"
             \/ \E x \in Slots : x # t /\ task[x].of = p,
           row'[p] = row[p] \/ (row[p] = "pending" /\ row'[p] # "pending"),
           row'[p] = "pending" =>
             taken'[p] + One(task[t].pc, "ack") + unpaid[p]
               <= taken[p] + unpaid'[p] + One(k.pc, "ack"),
           row'[p] # "pending" =>
             taken'[p] + One(k.pc, "post") + unpaid[p]
               <= taken[p] + unpaid'[p] + One(task[t].pc, "post"),
           posts'[p] >= posts[p],
           row'[p] = "pending" => attempts'[p] < MaxAttempts,
           ~cut'[p] =>
             /\ ~cut[p]
             /\ attempts'[p] <= posts'[p]
             /\ row'[p] = "failed" => posts'[p] >= MaxAttempts
             /\ k.pc = "post" => k.n <= posts'[p] + 1
             /\ k.pc \in {"ack", "retry", "requeue", "giveup"} => k.n <= posts'[p]
             /\ k.pc = "giveup" => k.n >= MaxAttempts
    PROVE  HookInv'
<1>1. /\ taken'[p] \in Nat /\ unpaid'[p] \in Nat /\ posts'[p] \in Nat /\ chains' = chains
  OBVIOUS
<1>2. Watched(p)'
  BY ChangedSets DEF Watched
<1>3. Receipts(p)'
  BY <1>1, BalanceStep
<1>4. Tried(p)'
  BY <1>1, AttemptStep
<1>5. task' \in [Slots -> TaskType] /\ Shape' /\ Looping' /\ \A q \in Endpoints : Sound(q)'
  BY <1>1, <1>2, <1>3, <1>4, OneTaskStep
<1>6. TypeOK'
  BY <1>5, TypeStep
<1> QED BY <1>5, <1>6 DEF HookInv

\* What a handler finds when it takes a step on a delivery.
LEMMA Found ==
    ASSUME HookInv, NEW t \in Slots, NEW p \in Endpoints, task[t].of = p
    PROVE  /\ task[t] \in TaskType /\ task[t].n \in 0..MaxAttempts /\ MaxAttempts \in Nat \ {0}
           /\ row \in [Endpoints -> {"none", "pending", "delivered", "failed"}]
           /\ attempts \in [Endpoints -> 0..MaxAttempts]
           /\ dead \in [Endpoints -> {"none", "captured", "missed"}]
           /\ posts \in [Endpoints -> Nat] /\ taken \in [Endpoints -> Nat]
           /\ unpaid \in [Endpoints -> Nat] /\ cut \in [Endpoints -> BOOLEAN]
           /\ row[p] = "pending" => attempts[p] < MaxAttempts
           /\ ~cut[p] =>
                /\ attempts[p] <= posts[p]
                /\ row[p] = "failed" => posts[p] >= MaxAttempts
                /\ task[t].pc = "post" => task[t].n <= posts[p] + 1
                /\ task[t].pc \in {"ack", "retry", "requeue", "giveup"} => task[t].n <= posts[p]
                /\ task[t].pc = "giveup" => task[t].n >= MaxAttempts
<1>1. task[t] \in TaskType /\ MaxAttempts \in Nat \ {0}
  BY Typed
<1>2. task[t].n \in 0..MaxAttempts
  BY <1>1 DEF TaskType
<1>3. Tried(p) /\ t \in Of(p)
  BY DEF HookInv, Sound, Of
<1>4. /\ row \in [Endpoints -> {"none", "pending", "delivered", "failed"}]
      /\ attempts \in [Endpoints -> 0..MaxAttempts]
      /\ dead \in [Endpoints -> {"none", "captured", "missed"}]
      /\ posts \in [Endpoints -> Nat] /\ taken \in [Endpoints -> Nat]
      /\ unpaid \in [Endpoints -> Nat] /\ cut \in [Endpoints -> BOOLEAN]
  BY DEF HookInv, TypeOK
<1> QED BY <1>1, <1>2, <1>3, <1>4 DEF Tried

\* The task is retried or archived.  What the receiver took without the row learning of
\* it has been written off.
LEMMA FailStep ==
    ASSUME HookInv, NEW t \in Slots, NEW p \in Endpoints, task[t].of = p, TaskFails(t),
           UNCHANGED <<dispatchVars, endpointVars, chains, stranded, cut, posts, taken>>,
           UNCHANGED budgetVars \/ Fault,
           row' \in [Endpoints -> {"none", "pending", "delivered", "failed"}],
           attempts' \in [Endpoints -> 0..MaxAttempts],
           unpaid' \in [Endpoints -> Nat],
           \A q \in Endpoints : q # p =>
             row'[q] = row[q] /\ attempts'[q] = attempts[q] /\ unpaid'[q] = unpaid[q],
           row'[p] = row[p] \/ (row[p] = "pending" /\ row'[p] # "pending"),
           row'[p] = "pending" => unpaid'[p] >= unpaid[p] + One(task[t].pc, "ack"),
           unpaid'[p] >= unpaid[p],
           row'[p] = "pending" => attempts'[p] < MaxAttempts,
           ~cut[p] => /\ attempts'[p] <= posts[p]
                      /\ row'[p] = "failed" => posts[p] >= MaxAttempts
    PROVE  HookInv'
<1> DEFINE k == Retried(t)
<1>1. /\ Changes(t, p, k) /\ k.pc \in {"queued", "free"}
      /\ dead' \in [Endpoints -> {"none", "captured", "missed"}]
      /\ \A q \in Endpoints : q # p => dead'[q] = dead[q]
      /\ task'[t].of = p \/ dead'[p] # "none"
  BY FailureChanges
<1> HIDE DEF k
<1>2. /\ posts \in [Endpoints -> Nat] /\ taken \in [Endpoints -> Nat]
      /\ unpaid \in [Endpoints -> Nat] /\ cut \in [Endpoints -> BOOLEAN]
  BY Found
<1>3. \A q \in Endpoints : q # p => SameRecord(q)
  BY <1>1 DEF SameRecord
<1>4. /\ One(k.pc, "ack") = 0 /\ One(k.pc, "post") = 0
      /\ One(task[t].pc, "ack") \in Nat /\ One(task[t].pc, "post") \in Nat
  BY <1>1 DEF One
<1>5. /\ taken[p] \in Nat /\ unpaid[p] \in Nat /\ unpaid'[p] \in Nat /\ posts[p] \in Nat
  BY <1>2
<1>6. /\ row'[p] = "pending" =>
           taken'[p] + One(task[t].pc, "ack") + unpaid[p]
             <= taken[p] + unpaid'[p] + One(k.pc, "ack")
      /\ row'[p] # "pending" =>
           taken'[p] + One(k.pc, "post") + unpaid[p]
             <= taken[p] + unpaid'[p] + One(task[t].pc, "post")
  BY <1>4, <1>5
<1>7. posts'[p] >= posts[p]
  BY <1>5
<1> QED BY <1>1, <1>2, <1>3, <1>6, <1>7, HandlerStep

\* A handler dies.
LEMMA AbortKeeps == ASSUME HookInv, NEW t \in Slots, Abort(t) PROVE HookInv'
<1>1. task[t].pc \in Running
  BY DEF Abort
<1>2. PICK p \in Endpoints : task[t].of = p
  BY <1>1, Busy DEF Running
<1>3. /\ TaskFails(t) /\ Fault
      /\ unpaid' = [unpaid EXCEPT ![p] = IF task[t].pc = "ack" THEN @ + 1 ELSE @]
      /\ UNCHANGED <<dispatchVars, endpointVars, rowVars, posts, taken, chains, stranded, cut>>
  BY <1>2 DEF Abort
<1>4. UNCHANGED <<row, attempts>>
  BY <1>3 DEF rowVars
<1>5. /\ row \in [Endpoints -> {"none", "pending", "delivered", "failed"}]
      /\ attempts \in [Endpoints -> 0..MaxAttempts]
      /\ unpaid \in [Endpoints -> Nat]
      /\ row[p] = "pending" => attempts[p] < MaxAttempts
      /\ ~cut[p] => /\ attempts[p] <= posts[p]
                    /\ row[p] = "failed" => posts[p] >= MaxAttempts
  BY <1>2, Found
<1>6. /\ unpaid' \in [Endpoints -> Nat]
      /\ \A q \in Endpoints : q # p => unpaid'[q] = unpaid[q]
      /\ unpaid'[p] = IF task[t].pc = "ack" THEN unpaid[p] + 1 ELSE unpaid[p]
  BY <1>3, <1>5
<1>7. unpaid[p] \in Nat
  BY <1>5
<1>8. unpaid'[p] >= unpaid[p] /\ unpaid'[p] >= unpaid[p] + One(task[t].pc, "ack")
  BY <1>6, <1>7 DEF One
<1> QED BY <1>2, <1>3, <1>4, <1>5, <1>6, <1>8, FailStep

\* The POST.
LEMMA PostKeeps == ASSUME HookInv, NEW t \in Slots, Post(t) PROVE HookInv'
<1>1. task[t].pc = "post"
  BY DEF Post
<1>2. PICK p \in Endpoints : task[t].of = p
  BY <1>1, Busy
<1>3. PICK outcome \in Outcomes :
        /\ Goto(t, CASE outcome = "ok" -> "ack"
                     [] outcome = "blocked" -> "giveup"
                     [] OTHER -> AfterFailure(task[t].n))
        /\ posts' = [posts EXCEPT ![p] = IF outcome = "blocked" THEN @ ELSE @ + 1]
        /\ taken' = [taken EXCEPT ![p] = IF outcome \in Received THEN @ + 1 ELSE @]
        /\ unpaid' = [unpaid EXCEPT ![p] = IF outcome = "hidden" THEN @ + 1 ELSE @]
        /\ cut' = [cut EXCEPT ![p] = @ \/ outcome = "blocked"]
  BY <1>2 DEF Post
<1>4. /\ UNCHANGED <<dispatchVars, endpointVars, rowVars, chains, stranded, budgetVars>>
      /\ UNCHANGED <<row, attempts>>
  BY DEF Post, rowVars
<1> DEFINE n == task[t].n
<1>5. PICK c \in {"ack", "giveup", "retry"} :
        /\ Goto(t, c)
        /\ c = "giveup" => outcome = "blocked" \/ n >= MaxAttempts
        /\ c = "retry" => ~(n >= MaxAttempts)
        /\ c = "ack" <=> outcome = "ok"
  <2> DEFINE d == CASE outcome = "ok" -> "ack"
                    [] outcome = "blocked" -> "giveup"
                    [] OTHER -> AfterFailure(task[t].n)
  <2>1. /\ d \in {"ack", "giveup", "retry"}
        /\ d = "giveup" => outcome = "blocked" \/ n >= MaxAttempts
        /\ d = "retry" => ~(n >= MaxAttempts)
        /\ d = "ack" <=> outcome = "ok"
    BY DEF AfterFailure
  <2>2. Goto(t, d)
    BY <1>3
  <2> HIDE DEF d
  <2> QED BY <2>1, <2>2
<1>10. PICK k : /\ Changes(t, p, k) /\ k.pc = c /\ k.n = n /\ k.of = p
                /\ dead' = dead /\ task'[t] = k
  BY <1>2, <1>5, GotoChanges DEF Running
<1>11. /\ n \in 0..MaxAttempts /\ MaxAttempts \in Nat \ {0}
       /\ row \in [Endpoints -> {"none", "pending", "delivered", "failed"}]
       /\ attempts \in [Endpoints -> 0..MaxAttempts]
       /\ dead \in [Endpoints -> {"none", "captured", "missed"}]
       /\ posts \in [Endpoints -> Nat] /\ taken \in [Endpoints -> Nat]
       /\ unpaid \in [Endpoints -> Nat] /\ cut \in [Endpoints -> BOOLEAN]
       /\ row[p] = "pending" => attempts[p] < MaxAttempts
       /\ ~cut[p] => /\ attempts[p] <= posts[p]
                     /\ row[p] = "failed" => posts[p] >= MaxAttempts
                     /\ n <= posts[p] + 1
  BY <1>1, <1>2, Found
<1>12. n > 0
  BY <1>1 DEF HookInv, Shape
<1> HIDE DEF n
<1>13. /\ posts' \in [Endpoints -> Nat] /\ taken' \in [Endpoints -> Nat]
       /\ unpaid' \in [Endpoints -> Nat]
       /\ posts'[p] = (IF outcome = "blocked" THEN posts[p] ELSE posts[p] + 1)
       /\ taken'[p] = (IF outcome \in Received THEN taken[p] + 1 ELSE taken[p])
       /\ unpaid'[p] = (IF outcome = "hidden" THEN unpaid[p] + 1 ELSE unpaid[p])
       /\ \A q \in Endpoints : q # p => /\ posts'[q] = posts[q] /\ taken'[q] = taken[q]
                                        /\ unpaid'[q] = unpaid[q]
  BY <1>3, <1>11
<1>14. /\ cut' \in [Endpoints -> BOOLEAN]
       /\ cut'[p] <=> (cut[p] \/ outcome = "blocked")
       /\ \A q \in Endpoints : q # p => cut'[q] = cut[q]
  BY <1>3, <1>11
<1>15. \A q \in Endpoints : q # p => SameRecord(q)
  BY <1>4, <1>10, <1>13, <1>14 DEF SameRecord
<1>16. /\ posts[p] \in Nat /\ taken[p] \in Nat /\ unpaid[p] \in Nat /\ attempts[p] \in 0..MaxAttempts
       /\ posts'[p] \in Nat
  BY <1>11, <1>13
<1>17. /\ One(task[t].pc, "ack") = 0 /\ One(task[t].pc, "post") = 1 /\ One(k.pc, "post") = 0
       /\ One(k.pc, "ack") = IF outcome = "ok" THEN 1 ELSE 0
  BY <1>1, <1>5, <1>10 DEF One
<1>18. /\ taken'[p] + One(task[t].pc, "ack") + unpaid[p]
            <= taken[p] + unpaid'[p] + One(k.pc, "ack")
       /\ taken'[p] + One(k.pc, "post") + unpaid[p]
            <= taken[p] + unpaid'[p] + One(task[t].pc, "post")
  BY <1>13, <1>16, <1>17 DEF Received
<1>19. posts'[p] >= posts[p]
  BY <1>13, <1>16
<1>20. ~cut'[p] =>
         /\ ~cut[p]
         /\ attempts'[p] <= posts'[p]
         /\ row'[p] = "failed" => posts'[p] >= MaxAttempts
         /\ k.pc = "post" => k.n <= posts'[p] + 1
         /\ k.pc \in {"ack", "retry", "requeue", "giveup"} => k.n <= posts'[p]
         /\ k.pc = "giveup" => k.n >= MaxAttempts
  <2> SUFFICES ASSUME ~cut'[p]
               PROVE  /\ ~cut[p]
                      /\ attempts[p] <= posts'[p]
                      /\ row[p] = "failed" => posts'[p] >= MaxAttempts
                      /\ n <= posts'[p]
                      /\ c = "giveup" => n >= MaxAttempts
    BY <1>4, <1>5, <1>10
  <2>1. ~cut[p] /\ outcome # "blocked" /\ posts'[p] = posts[p] + 1
    BY <1>13, <1>14
  <2> QED BY <1>5, <1>11, <1>16, <2>1
<1>21. /\ k.pc \in {"post", "ack", "retry", "requeue"} => k.n > 0
       /\ k.pc = "retry" => k.n < MaxAttempts
  BY <1>5, <1>10, <1>11, <1>12
<1>23. UNCHANGED <<dispatchVars, endpointVars, chains, stranded>> /\ UNCHANGED budgetVars
  BY <1>4
<1>24. /\ row' \in [Endpoints -> {"none", "pending", "delivered", "failed"}]
       /\ attempts' \in [Endpoints -> 0..MaxAttempts]
       /\ dead' \in [Endpoints -> {"none", "captured", "missed"}]
  BY <1>4, <1>10, <1>11
<1>25. row'[p] = row[p] /\ task'[t].of = p
  BY <1>4, <1>10
<1>26. row'[p] = "pending" => attempts'[p] < MaxAttempts
  BY <1>4, <1>11
<1> QED BY <1>10, <1>13, <1>14, <1>15, <1>18, <1>19, <1>20, <1>21, <1>23, <1>24, <1>25, <1>26,
           HandlerStep

\* The three statements that write the row do it to a pending one, with the attempt the
\* handler carries.
LEMMA RowWrites ==
    ASSUME HookInv, NEW t \in Slots, NEW p \in Endpoints, task[t].of = p,
           task[t].pc \in {"ack", "retry", "giveup"},
           \/ SetDelivered(p, task[t].n) /\ task[t].pc = "ack"
           \/ SetRetrying(p, task[t].n) /\ task[t].pc = "retry"
           \/ SetFailed(p, task[t].n) /\ task[t].pc = "giveup"
           \/ UNCHANGED rowVars
    PROVE  /\ row' \in [Endpoints -> {"none", "pending", "delivered", "failed"}]
           /\ attempts' \in [Endpoints -> 0..MaxAttempts]
           /\ \A q \in Endpoints : q # p => row'[q] = row[q] /\ attempts'[q] = attempts[q]
           /\ row'[p] = row[p] \/ (row[p] = "pending" /\ row'[p] # "pending")
           /\ row'[p] = "pending" => attempts'[p] < MaxAttempts
           /\ ~cut[p] => /\ attempts'[p] <= posts[p]
                         /\ row'[p] = "failed" => posts[p] >= MaxAttempts
<1> DEFINE n == task[t].n
<1>1. /\ n \in 0..MaxAttempts /\ MaxAttempts \in Nat \ {0}
      /\ row \in [Endpoints -> {"none", "pending", "delivered", "failed"}]
      /\ attempts \in [Endpoints -> 0..MaxAttempts]
      /\ posts \in [Endpoints -> Nat]
      /\ row[p] = "pending" => attempts[p] < MaxAttempts
      /\ ~cut[p] => /\ attempts[p] <= posts[p]
                    /\ row[p] = "failed" => posts[p] >= MaxAttempts
                    /\ n <= posts[p]
                    /\ task[t].pc = "giveup" => n >= MaxAttempts
  BY Found
<1>2. task[t].pc = "retry" => n < MaxAttempts
  BY DEF HookInv, Shape
<1> HIDE DEF n
<1>3. posts[p] \in Nat /\ attempts[p] \in 0..MaxAttempts
  BY <1>1
<1>4. CASE SetDelivered(p, n) /\ task[t].pc = "ack"
  <2>1. /\ row' \in [Endpoints -> {"none", "pending", "delivered", "failed"}]
        /\ attempts' \in [Endpoints -> 0..MaxAttempts]
        /\ \A q \in Endpoints : q # p => row'[q] = row[q] /\ attempts'[q] = attempts[q]
        /\ row'[p] = IF row[p] = "pending" THEN "delivered" ELSE row[p]
        /\ attempts'[p] = IF row[p] = "pending" THEN n ELSE attempts[p]
    BY <1>1, <1>4 DEF SetDelivered
  <2> QED BY <1>1, <2>1
<1>5. CASE SetRetrying(p, n) /\ task[t].pc = "retry"
  <2>1. /\ row' = row
        /\ attempts' \in [Endpoints -> 0..MaxAttempts]
        /\ \A q \in Endpoints : q # p => attempts'[q] = attempts[q]
        /\ attempts'[p] = IF row[p] = "pending" THEN n ELSE attempts[p]
    BY <1>1, <1>5 DEF SetRetrying
  <2> QED BY <1>1, <1>2, <1>5, <2>1
<1>6. CASE SetFailed(p, n) /\ task[t].pc = "giveup"
  <2>1. /\ row' \in [Endpoints -> {"none", "pending", "delivered", "failed"}]
        /\ attempts' \in [Endpoints -> 0..MaxAttempts]
        /\ \A q \in Endpoints : q # p => row'[q] = row[q] /\ attempts'[q] = attempts[q]
        /\ row'[p] = IF row[p] = "pending" THEN "failed" ELSE row[p]
        /\ attempts'[p] = IF row[p] = "pending" THEN n ELSE attempts[p]
    BY <1>1, <1>6 DEF SetFailed
  <2> QED BY <1>1, <1>3, <1>6, <2>1
<1>7. CASE UNCHANGED rowVars
  BY <1>1, <1>7 DEF rowVars
<1> QED BY <1>4, <1>5, <1>6, <1>7 DEF n

\* The task ends after its last statement.
LEMMA ReturnStep ==
    ASSUME HookInv, NEW t \in Slots, NEW p \in Endpoints, task[t].of = p, Return(t),
           UNCHANGED <<dispatchVars, endpointVars, budgetVars, historyVars>>,
           row' \in [Endpoints -> {"none", "pending", "delivered", "failed"}],
           attempts' \in [Endpoints -> 0..MaxAttempts],
           \A q \in Endpoints : q # p => row'[q] = row[q] /\ attempts'[q] = attempts[q],
           row'[p] = row[p] \/ (row[p] = "pending" /\ row'[p] # "pending"),
           row'[p] = "pending" =>
             \/ dead[p] # "none" /\ task[t].pc # "ack"
             \/ task[t].pc # "ack" /\ \E x \in Slots : x # t /\ task[x].of = p,
           row'[p] = "pending" => attempts'[p] < MaxAttempts,
           ~cut[p] => /\ attempts'[p] <= posts[p]
                      /\ row'[p] = "failed" => posts[p] >= MaxAttempts
    PROVE  HookInv'
<1>1. Changes(t, p, NoTask) /\ dead' = dead
  BY ReturnChanges
<1>2. /\ posts \in [Endpoints -> Nat] /\ taken \in [Endpoints -> Nat]
      /\ unpaid \in [Endpoints -> Nat] /\ cut \in [Endpoints -> BOOLEAN]
      /\ dead \in [Endpoints -> {"none", "captured", "missed"}]
  BY Found
<1>3. UNCHANGED <<posts, taken, unpaid, chains, stranded, cut>>
  BY DEF historyVars
<1>4. \A q \in Endpoints : q # p => SameRecord(q)
  BY <1>1, <1>3 DEF SameRecord
<1>5. /\ One(NoTask.pc, "ack") = 0 /\ One(NoTask.pc, "post") = 0
      /\ row'[p] = "pending" => One(task[t].pc, "ack") = 0
      /\ One(task[t].pc, "post") \in Nat
  BY EmptySlot DEF One
<1>6. taken[p] \in Nat /\ unpaid[p] \in Nat /\ posts[p] \in Nat
  BY <1>2
<1>7. /\ row'[p] = "pending" =>
           taken'[p] + One(task[t].pc, "ack") + unpaid[p]
             <= taken[p] + unpaid'[p] + One(NoTask.pc, "ack")
      /\ row'[p] # "pending" =>
           taken'[p] + One(NoTask.pc, "post") + unpaid[p]
             <= taken[p] + unpaid'[p] + One(task[t].pc, "post")
      /\ posts'[p] >= posts[p]
  BY <1>3, <1>5, <1>6
<1>8. /\ dead' \in [Endpoints -> {"none", "captured", "missed"}]
      /\ posts' \in [Endpoints -> Nat] /\ taken' \in [Endpoints -> Nat]
      /\ unpaid' \in [Endpoints -> Nat] /\ cut' \in [Endpoints -> BOOLEAN]
  BY <1>1, <1>2, <1>3
<1> QED BY <1>1, <1>3, <1>4, <1>7, <1>8, EmptySlot, HandlerStep

\* A success is written.
LEMMA DeliveredKeeps == ASSUME HookInv, NEW t \in Slots, MarkWebhookDelivered(t) PROVE HookInv'
<1>1. task[t].pc = "ack"
  BY DEF MarkWebhookDelivered
<1>2. PICK p \in Endpoints : task[t].of = p
  BY <1>1, Busy
<1>3. /\ Settle(t, SetDelivered(p, task[t].n), Return(t))
      /\ unpaid' = [unpaid EXCEPT ![p] = IF row'[p] = "pending" THEN @ + 1 ELSE @]
      /\ UNCHANGED <<dispatchVars, endpointVars, posts, taken, chains, stranded, cut>>
  BY <1>2 DEF MarkWebhookDelivered
<1>4. SetDelivered(p, task[t].n) \/ UNCHANGED rowVars
  BY <1>3 DEF Settle
<1>5. /\ row' \in [Endpoints -> {"none", "pending", "delivered", "failed"}]
      /\ attempts' \in [Endpoints -> 0..MaxAttempts]
      /\ \A q \in Endpoints : q # p => row'[q] = row[q] /\ attempts'[q] = attempts[q]
      /\ row'[p] = row[p] \/ (row[p] = "pending" /\ row'[p] # "pending")
      /\ row'[p] = "pending" => attempts'[p] < MaxAttempts
      /\ ~cut[p] => /\ attempts'[p] <= posts[p]
                    /\ row'[p] = "failed" => posts[p] >= MaxAttempts
  BY <1>1, <1>2, <1>4, RowWrites
<1>6. unpaid \in [Endpoints -> Nat] /\ row \in [Endpoints -> {"none", "pending", "delivered", "failed"}]
  BY <1>2, Found
<1>7. /\ unpaid' \in [Endpoints -> Nat]
      /\ \A q \in Endpoints : q # p => unpaid'[q] = unpaid[q]
      /\ unpaid'[p] = IF row'[p] = "pending" THEN unpaid[p] + 1 ELSE unpaid[p]
  BY <1>3, <1>6
<1>8. CASE SetDelivered(p, task[t].n) /\ Return(t) /\ UNCHANGED budgetVars
  <2>1. row'[p] # "pending"
    BY <1>6, <1>8 DEF SetDelivered
  <2>2. unpaid' = unpaid
    BY <1>6, <1>7, <2>1
  <2>3. UNCHANGED historyVars
    BY <1>3, <2>2 DEF historyVars
  <2> QED BY <1>2, <1>3, <1>5, <1>8, <2>1, <2>3, ReturnStep
<1>9. CASE Fault /\ TaskFails(t)
  <2>1. unpaid[p] \in Nat
    BY <1>6
  <2>2. /\ row'[p] = "pending" => unpaid'[p] >= unpaid[p] + One(task[t].pc, "ack")
        /\ unpaid'[p] >= unpaid[p]
    BY <1>1, <1>7, <2>1 DEF One
  <2> QED BY <1>2, <1>3, <1>5, <1>7, <1>9, <2>2, FailStep
<1> QED BY <1>3, <1>8, <1>9 DEF Settle

\* The attempt cannot be written, or its success of writing is not known.
LEMMA WriteFails ==
    ASSUME HookInv, NEW t \in Slots, NEW p \in Endpoints, task[t].of = p,
           task[t].pc \in {"retry", "giveup"}, Fault, TaskFails(t),
           \/ SetRetrying(p, task[t].n) /\ task[t].pc = "retry"
           \/ SetFailed(p, task[t].n) /\ task[t].pc = "giveup"
           \/ UNCHANGED rowVars,
           UNCHANGED <<dispatchVars, endpointVars, historyVars>>
    PROVE  HookInv'
<1>1. /\ row' \in [Endpoints -> {"none", "pending", "delivered", "failed"}]
      /\ attempts' \in [Endpoints -> 0..MaxAttempts]
      /\ \A q \in Endpoints : q # p => row'[q] = row[q] /\ attempts'[q] = attempts[q]
      /\ row'[p] = row[p] \/ (row[p] = "pending" /\ row'[p] # "pending")
      /\ row'[p] = "pending" => attempts'[p] < MaxAttempts
      /\ ~cut[p] => /\ attempts'[p] <= posts[p]
                    /\ row'[p] = "failed" => posts[p] >= MaxAttempts
  BY RowWrites
<1>2. UNCHANGED <<posts, taken, unpaid, chains, stranded, cut>>
  BY DEF historyVars
<1>3. unpaid \in [Endpoints -> Nat] /\ unpaid[p] \in Nat
  BY Found
<1>4. One(task[t].pc, "ack") = 0
  BY DEF One
<1>5. unpaid'[p] >= unpaid[p] + One(task[t].pc, "ack") /\ unpaid'[p] >= unpaid[p]
  BY <1>2, <1>3, <1>4
<1> QED BY <1>1, <1>2, <1>3, <1>5, FailStep

\* A failed attempt is written.
LEMMA RetryingKeeps == ASSUME HookInv, NEW t \in Slots, MarkWebhookRetrying(t) PROVE HookInv'
<1>1. task[t].pc = "retry"
  BY DEF MarkWebhookRetrying
<1>2. PICK p \in Endpoints : task[t].of = p
  BY <1>1, Busy
<1>3. /\ Settle(t, SetRetrying(p, task[t].n), Goto(t, "requeue"))
      /\ UNCHANGED <<dispatchVars, endpointVars, historyVars>>
  BY <1>2 DEF MarkWebhookRetrying
<1>4. CASE SetRetrying(p, task[t].n) /\ Goto(t, "requeue") /\ UNCHANGED budgetVars
  <2>1. PICK k : /\ Changes(t, p, k) /\ k.pc = "requeue" /\ k.n = task[t].n /\ k.of = p
                 /\ dead' = dead /\ task'[t] = k
    BY <1>2, <1>4, GotoChanges DEF Running
  <2>2. /\ row' \in [Endpoints -> {"none", "pending", "delivered", "failed"}]
        /\ attempts' \in [Endpoints -> 0..MaxAttempts]
        /\ \A q \in Endpoints : q # p => row'[q] = row[q] /\ attempts'[q] = attempts[q]
        /\ row'[p] = row[p] \/ (row[p] = "pending" /\ row'[p] # "pending")
        /\ row'[p] = "pending" => attempts'[p] < MaxAttempts
        /\ ~cut[p] => /\ attempts'[p] <= posts[p]
                      /\ row'[p] = "failed" => posts[p] >= MaxAttempts
    BY <1>1, <1>2, <1>4, RowWrites
  <2>3. UNCHANGED <<posts, taken, unpaid, chains, stranded, cut>>
    BY <1>3 DEF historyVars
  <2>4. /\ posts \in [Endpoints -> Nat] /\ taken \in [Endpoints -> Nat]
        /\ unpaid \in [Endpoints -> Nat] /\ cut \in [Endpoints -> BOOLEAN]
        /\ dead \in [Endpoints -> {"none", "captured", "missed"}]
        /\ ~cut[p] => task[t].n <= posts[p]
    BY <1>1, <1>2, Found
  <2>5. \A q \in Endpoints : q # p => SameRecord(q)
    BY <2>1, <2>2, <2>3 DEF SameRecord
  <2>6. /\ One(task[t].pc, "ack") = 0 /\ One(task[t].pc, "post") = 0
        /\ One(k.pc, "ack") = 0 /\ One(k.pc, "post") = 0
    BY <1>1, <2>1 DEF One
  <2>7. taken[p] \in Nat /\ unpaid[p] \in Nat /\ posts[p] \in Nat
    BY <2>4
  <2>8. /\ taken'[p] + One(task[t].pc, "ack") + unpaid[p]
             <= taken[p] + unpaid'[p] + One(k.pc, "ack")
        /\ taken'[p] + One(k.pc, "post") + unpaid[p]
             <= taken[p] + unpaid'[p] + One(task[t].pc, "post")
        /\ posts'[p] >= posts[p]
    BY <2>3, <2>6, <2>7
  <2>9. k.n > 0
    BY <1>1, <2>1 DEF HookInv, Shape
  <2>10. /\ dead' \in [Endpoints -> {"none", "captured", "missed"}]
         /\ posts' \in [Endpoints -> Nat] /\ taken' \in [Endpoints -> Nat]
         /\ unpaid' \in [Endpoints -> Nat] /\ cut' \in [Endpoints -> BOOLEAN]
    BY <2>1, <2>3, <2>4
  <2>11. ~cut'[p] =>
           /\ ~cut[p]
           /\ attempts'[p] <= posts'[p]
           /\ row'[p] = "failed" => posts'[p] >= MaxAttempts
           /\ k.pc = "post" => k.n <= posts'[p] + 1
           /\ k.pc \in {"ack", "retry", "requeue", "giveup"} => k.n <= posts'[p]
           /\ k.pc = "giveup" => k.n >= MaxAttempts
    BY <2>1, <2>2, <2>3, <2>4
  <2> QED BY <1>3, <1>4, <2>1, <2>2, <2>3, <2>5, <2>8, <2>9, <2>10, <2>11, HandlerStep
<1>5. CASE Fault /\ TaskFails(t) /\ (SetRetrying(p, task[t].n) \/ UNCHANGED rowVars)
  BY <1>1, <1>2, <1>3, <1>5, WriteFails
<1> QED BY <1>3, <1>4, <1>5 DEF Settle

\* The delivery is given up.
LEMMA FailedKeeps == ASSUME HookInv, NEW t \in Slots, MarkWebhookFailed(t) PROVE HookInv'
<1>1. task[t].pc = "giveup"
  BY DEF MarkWebhookFailed
<1>2. PICK p \in Endpoints : task[t].of = p
  BY <1>1, Busy
<1>3. /\ Settle(t, SetFailed(p, task[t].n), Return(t))
      /\ UNCHANGED <<dispatchVars, endpointVars, historyVars>>
  BY <1>2 DEF MarkWebhookFailed
<1>4. CASE SetFailed(p, task[t].n) /\ Return(t) /\ UNCHANGED budgetVars
  <2>1. /\ row' \in [Endpoints -> {"none", "pending", "delivered", "failed"}]
        /\ attempts' \in [Endpoints -> 0..MaxAttempts]
        /\ \A q \in Endpoints : q # p => row'[q] = row[q] /\ attempts'[q] = attempts[q]
        /\ row'[p] = row[p] \/ (row[p] = "pending" /\ row'[p] # "pending")
        /\ row'[p] = "pending" => attempts'[p] < MaxAttempts
        /\ ~cut[p] => /\ attempts'[p] <= posts[p]
                      /\ row'[p] = "failed" => posts[p] >= MaxAttempts
    BY <1>1, <1>2, <1>4, RowWrites
  <2>2. row \in [Endpoints -> {"none", "pending", "delivered", "failed"}]
    BY <1>2, Found
  <2>3. row'[p] # "pending"
    BY <1>4, <2>2 DEF SetFailed
  <2> QED BY <1>2, <1>3, <1>4, <2>1, <2>3, ReturnStep
<1>5. CASE Fault /\ TaskFails(t) /\ (SetFailed(p, task[t].n) \/ UNCHANGED rowVars)
  BY <1>1, <1>2, <1>3, <1>5, WriteFails
<1> QED BY <1>3, <1>4, <1>5 DEF Settle

-----------------------------------------------------------------------------
(* A task is added                                                         *)

\* The budgets and the rest of the type, for the steps that are not a handler's.
LEMMA Spent ==
    ASSUME HookInv, UNCHANGED budgetVars \/ Fault \/ Refusal \/ Echo \/ Churn
    PROVE  /\ faults' \in 0..MaxFaults /\ refusals' \in 0..MaxRefusals
           /\ echoes' \in 0..MaxEchoes /\ churn' \in 0..MaxChurn
<1>1. /\ faults \in 0..MaxFaults /\ refusals \in 0..MaxRefusals
      /\ echoes \in 0..MaxEchoes /\ churn \in 0..MaxChurn
      /\ MaxFaults \in Nat /\ MaxRefusals \in Nat /\ MaxEchoes \in Nat /\ MaxChurn \in Nat
  BY WebhookAssumption DEF HookInv, TypeOK
<1>2. CASE UNCHANGED budgetVars
  BY <1>1, <1>2 DEF budgetVars
<1>3. CASE Fault
  BY <1>1, <1>3 DEF Fault
<1>4. CASE Refusal
  BY <1>1, <1>4 DEF Refusal
<1>5. CASE Echo
  BY <1>1, <1>5 DEF Echo
<1>6. CASE Churn
  BY <1>1, <1>6 DEF Churn
<1> QED BY <1>2, <1>3, <1>4, <1>5, <1>6

\* A slot is taken for a task of p that is queued.  It is p's first or it is accounted
\* for; a task that fails at the same time was neither posting nor acknowledging.
LEMMA AddedTask ==
    ASSUME HookInv, NEW p \in Endpoints, NEW s \in Slots, task[s].pc = "free",
           task'[s].of = p, task'[s].pc = "queued",
           \A x \in Slots : x # s =>
             \/ task'[x] = task[x]
             \/ /\ task[x].of = p /\ task[x].pc \notin {"ack", "post"}
                /\ task'[x].of \in {p, None} /\ task'[x].pc \in {"queued", "free"},
           (Of(p) = {} /\ chains'[p] = chains[p]) \/ chains'[p] = chains[p] + 1,
           ~Unqueued(p)',
           row'[p] = row[p], attempts'[p] = attempts[p], posts'[p] = posts[p],
           taken'[p] = taken[p], unpaid'[p] = unpaid[p], cut'[p] = cut[p]
    PROVE  Sound(p)'
<1>1. task[s].of = None /\ None # p
  BY Typed DEF HookInv, Shape
<1>2. s \notin Of(p) /\ Of(p)' \in SUBSET (Of(p) \union {s})
  BY <1>1 DEF Of
<1>3. At(p, "ack")' = At(p, "ack") /\ At(p, "post")' = At(p, "post")
  BY <1>1 DEF At
<1>4. /\ IsFiniteSet(Of(p)) /\ Cardinality(Of(p)) \in Nat /\ Cardinality(Of(p)) <= 1 + chains[p]
      /\ Cardinality(At(p, "ack")) \in Nat /\ Cardinality(At(p, "post")) \in Nat
  BY Numbers DEF Running
<1>5. chains[p] \in Nat /\ taken[p] \in Nat /\ unpaid[p] \in Nat /\ posts[p] \in Nat
  BY Typed
<1>6. Fresh(p)'
  BY DEF Fresh, Unqueued
<1>7. Watched(p)'
  BY DEF Watched
<1>8. Counted(p)'
  <2> DEFINE more == Of(p) \union {s}
  <2>1. IsFiniteSet(more) /\ Cardinality(more) = Cardinality(Of(p)) + 1
    BY <1>2, <1>4, FS_AddElement
  <2>2. IsFiniteSet(Of(p)') /\ Cardinality(Of(p)') <= Cardinality(more)
    BY <1>2, <2>1, FS_Subset
  <2>3. Of(p) = {} => Cardinality(Of(p)) = 0
    BY FS_EmptySet
  <2>4. Cardinality(Of(p)') \in Nat
    BY <2>2, FS_CardinalityType
  <2> HIDE DEF more
  <2>5. Cardinality(Of(p)') <= 1 + chains'[p]
    BY <1>4, <1>5, <2>1, <2>2, <2>3, <2>4
  <2> QED BY <2>2, <2>5 DEF Counted
<1>9. Receipts(p)'
  <2>1. Receipts(p)
    BY DEF HookInv, Sound
  <2>2. chains'[p] >= chains[p] /\ chains'[p] \in Nat
    BY <1>5
  <2> QED BY <1>3, <1>4, <1>5, <2>1, <2>2 DEF Receipts
<1>10. Tried(p)'
  <2>1. Tried(p)
    BY DEF HookInv, Sound
  <2>2. ASSUME NEW x \in Of(p)'
        PROVE  task'[x].pc \in {"queued", "free"} \/ (x \in Of(p) /\ task'[x] = task[x])
    BY <1>2, <2>2 DEF Of
  <2> QED BY <2>1, <2>2 DEF Tried
<1> QED BY <1>6, <1>7, <1>8, <1>9, <1>10 DEF Sound

\* Everything else stays as it is for the other deliveries.
LEMMA OthersStay ==
    ASSUME HookInv, NEW p \in Endpoints, Sound(p)',
           \A q \in Endpoints : q # p =>
             /\ SameRecord(q) /\ SameTasks(q)
             /\ Early(q)' => Early(q)
             /\ Unqueued(q)' => Unqueued(q)
             /\ phase = "enqueue" /\ cur = q => phase' = "enqueue" /\ cur' = q
    PROVE  \A q \in Endpoints : Sound(q)'
BY Undisturbed

\* The task is retried and its successor is queued as well.
LEMMA EchoKeeps ==
    ASSUME HookInv, NEW t \in Slots, NEW p \in Endpoints, task[t].of = p,
           task[t].pc = "requeue", Echo, NEW s \in Slots, Free(s),
           task' = [task EXCEPT ![s] = NewTask(p, Delay(task[t].n)), ![t] = Retried(t)],
           DeadLettered(t), chains' = [chains EXCEPT ![p] = @ + 1],
           UNCHANGED <<dispatchVars, endpointVars, rowVars, posts, taken, unpaid, stranded, cut>>
    PROVE  HookInv'
<1> DEFINE next == NewTask(p, Delay(task[t].n))
           k == Retried(t)
<1>1. task \in [Slots -> TaskType] /\ None \notin Endpoints /\ s # t
  BY Typed DEF Free
<1>2. next \in TaskType /\ next.pc = "queued" /\ next.of = p /\ next.n = 0
  <2>1. task[t].n \in Nat /\ task[t].n > 0
    <3>1. task[t].n \in 0..MaxAttempts /\ MaxAttempts \in Nat
      BY Busy, Typed
    <3> QED BY <3>1 DEF HookInv, Shape
  <2>2. Delay(task[t].n) \in Nat
    BY <2>1, Delays
  <2> QED BY <2>2, FirstTask
<1>3. /\ k \in TaskType /\ k.of \in {p, None} /\ k.pc \in {"queued", "free"}
      /\ k.pc = "free" <=> k.of = None
  BY RetriedTask
<1> HIDE DEF next, k
<1>4. /\ task' \in [Slots -> TaskType] /\ task'[s] = next /\ task'[t] = k
      /\ \A x \in Slots : x # s /\ x # t => task'[x] = task[x]
  BY <1>1, <1>2, <1>3 DEF next, k
<1>5. /\ chains \in [Endpoints -> Nat] /\ dead \in [Endpoints -> {"none", "captured", "missed"}]
  BY DEF HookInv, TypeOK
<1>6. /\ chains' \in [Endpoints -> Nat] /\ chains'[p] = chains[p] + 1
      /\ \A q \in Endpoints : q # p => chains'[q] = chains[q]
  BY <1>5
<1>7. /\ dead' \in [Endpoints -> {"none", "captured", "missed"}]
      /\ \A q \in Endpoints : q # p => dead'[q] = dead[q]
  BY <1>5 DEF DeadLettered
<1>8. UNCHANGED <<row, attempts, phase, todo, cur, exists, active>>
  BY DEF rowVars, dispatchVars, endpointVars
<1>9. \A q \in Endpoints : Early(q)' = Early(q) /\ Unqueued(q)' = Unqueued(q)
  BY <1>8 DEF Early, Unqueued
<1>10. ~Unqueued(p)
  <2>1. t \in Of(p)
    BY DEF Of
  <2> QED BY <2>1 DEF HookInv, Sound, Fresh
<1>11. task[s].pc = "free"
  BY DEF Free
<1>12. \A x \in Slots : x # s =>
         \/ task'[x] = task[x]
         \/ /\ task[x].of = p /\ task[x].pc \notin {"ack", "post"}
            /\ task'[x].of \in {p, None} /\ task'[x].pc \in {"queued", "free"}
  BY <1>3, <1>4
<1>13. Sound(p)'
  BY <1>2, <1>4, <1>6, <1>8, <1>9, <1>10, <1>11, <1>12, AddedTask
<1>14. task[s].of = None
  BY <1>11 DEF HookInv, Shape
<1>15. \A q \in Endpoints : q # p => SameTasks(q) /\ SameRecord(q)
  <2>1. \A q \in Endpoints : q # p => SameTasks(q)
    BY <1>1, <1>2, <1>3, <1>4, <1>14 DEF SameTasks
  <2>2. \A q \in Endpoints : q # p => SameRecord(q)
    BY <1>6, <1>7, <1>8 DEF SameRecord
  <2> QED BY <2>1, <2>2
<1>16. \A q \in Endpoints : Sound(q)'
  BY <1>8, <1>9, <1>13, <1>15, OthersStay
<1>17. Shape'
  BY <1>1, <1>2, <1>3, <1>4 DEF HookInv, Shape
<1>18. Looping'
  BY <1>8 DEF HookInv, Looping
<1>19. TypeOK'
  BY <1>4, <1>6, <1>7, <1>8, Spent DEF HookInv, TypeOK, TaskType
<1> QED BY <1>16, <1>17, <1>18, <1>19 DEF HookInv

\* The next attempt is queued.
LEMMA RequeueKeeps == ASSUME HookInv, NEW t \in Slots, Requeue(t) PROVE HookInv'
<1>1. task[t].pc = "requeue"
  BY DEF Requeue
<1>2. PICK p \in Endpoints : task[t].of = p
  BY <1>1, Busy
<1>3. /\ UNCHANGED <<dispatchVars, endpointVars, rowVars, posts, taken, unpaid, stranded, cut>>
      /\ UNCHANGED <<row, attempts>>
  BY DEF Requeue, rowVars
<1>4. /\ task[t].n \in 0..MaxAttempts /\ MaxAttempts \in Nat \ {0}
      /\ row \in [Endpoints -> {"none", "pending", "delivered", "failed"}]
      /\ attempts \in [Endpoints -> 0..MaxAttempts]
      /\ dead \in [Endpoints -> {"none", "captured", "missed"}]
      /\ posts \in [Endpoints -> Nat] /\ taken \in [Endpoints -> Nat]
      /\ unpaid \in [Endpoints -> Nat] /\ cut \in [Endpoints -> BOOLEAN]
      /\ row[p] = "pending" => attempts[p] < MaxAttempts
      /\ ~cut[p] => /\ attempts[p] <= posts[p]
                    /\ row[p] = "failed" => posts[p] >= MaxAttempts
  BY <1>2, Found
<1>5. taken[p] \in Nat /\ unpaid[p] \in Nat /\ posts[p] \in Nat
  BY <1>2, <1>4
<1>6. One(task[t].pc, "ack") = 0 /\ One(task[t].pc, "post") = 0
  BY <1>1 DEF One
<1>7. CASE /\ task' = [task EXCEPT ![t] = NewTask(p, Delay(task[t].n))]
           /\ UNCHANGED <<dead, chains, budgetVars>>
  <2>1. PICK k : k = NewTask(p, Delay(task[t].n))
    OBVIOUS
  <2>2. task[t].n \in Nat /\ task[t].n > 0
    BY <1>1, <1>4 DEF HookInv, Shape
  <2>3. k \in TaskType /\ k.pc = "queued" /\ k.of = p /\ k.n = 0
    BY <1>2, <2>1, <2>2, Delays, FirstTask
  <2>4. Changes(t, p, k)
    BY <1>2, <1>7, <2>1, <2>3, Typed DEF Changes
  <2>5. \A q \in Endpoints : q # p => SameRecord(q)
    BY <1>3, <1>7 DEF SameRecord
  <2>6. One(k.pc, "ack") = 0 /\ One(k.pc, "post") = 0
    BY <2>3 DEF One
  <2>7. /\ taken'[p] + One(task[t].pc, "ack") + unpaid[p]
             <= taken[p] + unpaid'[p] + One(k.pc, "ack")
        /\ taken'[p] + One(k.pc, "post") + unpaid[p]
             <= taken[p] + unpaid'[p] + One(task[t].pc, "post")
        /\ posts'[p] >= posts[p]
    BY <1>3, <1>5, <1>6, <2>6
  <2>8. task'[t].of = p
    BY <2>3, <2>4, ChangedSets
  <2> QED BY <1>2, <1>3, <1>4, <1>7, <2>3, <2>4, <2>5, <2>7, <2>8, HandlerStep
<1>8. CASE /\ \E s \in Slots : task[s].pc = "queued" /\ task[s].of = p
           /\ Return(t) /\ UNCHANGED <<chains, budgetVars>>
  <2>1. \E x \in Slots : x # t /\ task[x].of = p
    BY <1>1, <1>8
  <2>2. UNCHANGED historyVars
    BY <1>3, <1>8 DEF historyVars
  <2> QED BY <1>1, <1>2, <1>3, <1>4, <1>8, <2>1, <2>2, ReturnStep
<1>9. CASE Fault /\ TaskFails(t) /\ UNCHANGED chains
  <2>1. unpaid'[p] >= unpaid[p] + One(task[t].pc, "ack") /\ unpaid'[p] >= unpaid[p]
    BY <1>3, <1>5, <1>6
  <2> QED BY <1>2, <1>3, <1>4, <1>9, <2>1, FailStep
<1>10. CASE /\ Echo
            /\ \E s \in Slots :
                 /\ Free(s)
                 /\ task' = [task EXCEPT ![s] = NewTask(p, Delay(task[t].n)), ![t] = Retried(t)]
            /\ DeadLettered(t) /\ chains' = [chains EXCEPT ![p] = @ + 1]
  BY <1>1, <1>2, <1>3, <1>10, EchoKeeps
<1> QED BY <1>2, <1>7, <1>8, <1>9, <1>10 DEF Requeue

\* An operator replays the dead letter.
LEMMA ReplayKeeps == ASSUME HookInv, NEW p \in Endpoints, Replay(p) PROVE HookInv'
<1>1. /\ dead[p] = "captured" /\ Churn
      /\ UNCHANGED <<dispatchVars, endpointVars, rowVars, posts, taken, unpaid, stranded, cut>>
      /\ UNCHANGED <<row, attempts, phase, todo, cur, exists, active>>
  BY DEF Replay, rowVars, dispatchVars, endpointVars
<1>2. /\ task \in [Slots -> TaskType] /\ chains \in [Endpoints -> Nat]
      /\ dead \in [Endpoints -> {"none", "captured", "missed"}] /\ None \notin Endpoints
  BY Typed DEF HookInv, TypeOK
<1>3. \A q \in Endpoints : Early(q)' = Early(q) /\ Unqueued(q)' = Unqueued(q)
  BY <1>1 DEF Early, Unqueued
<1>4. ~Unqueued(p)
  BY <1>1 DEF HookInv, Sound, Fresh
<1>5. Looping'
  BY <1>1 DEF HookInv, Looping
<1>6. CASE /\ dead' = [dead EXCEPT ![p] = "none"]
           /\ \E s \in Slots :
                /\ Free(s)
                /\ task' = [task EXCEPT ![s] = [NewTask(p, 0) EXCEPT !.left = ReplayRetry]]
           /\ chains' = [chains EXCEPT ![p] = @ + 1]
  <2>1. PICK s \in Slots :
          /\ Free(s)
          /\ task' = [task EXCEPT ![s] = [NewTask(p, 0) EXCEPT !.left = ReplayRetry]]
    BY <1>6
  <2>2. PICK k : k = [NewTask(p, 0) EXCEPT !.left = ReplayRetry]
    OBVIOUS
  <2>3. k \in TaskType /\ k.pc = "queued" /\ k.of = p
    BY <2>2, QueuedTask, WebhookAssumption, SMTT(30)
  <2>4. /\ task' \in [Slots -> TaskType] /\ task'[s] = k
        /\ \A x \in Slots : x # s => task'[x] = task[x]
    BY <1>2, <2>1, <2>2, <2>3
  <2>5. task[s].pc = "free" /\ task[s].of = None
    BY <2>1 DEF Free, HookInv, Shape
  <2>6. /\ chains' \in [Endpoints -> Nat] /\ chains'[p] = chains[p] + 1
        /\ \A q \in Endpoints : q # p => chains'[q] = chains[q] /\ dead'[q] = dead[q]
        /\ dead' \in [Endpoints -> {"none", "captured", "missed"}]
    BY <1>2, <1>6
  <2>7. Sound(p)'
    BY <1>1, <1>3, <1>4, <2>3, <2>4, <2>5, <2>6, AddedTask
  <2>8. \A q \in Endpoints : q # p => SameTasks(q) /\ SameRecord(q)
    <3>1. \A q \in Endpoints : q # p => SameTasks(q)
      BY <1>2, <2>3, <2>4, <2>5 DEF SameTasks
    <3>2. \A q \in Endpoints : q # p => SameRecord(q)
      BY <1>1, <2>6 DEF SameRecord
    <3> QED BY <3>1, <3>2
  <2>9. \A q \in Endpoints : Sound(q)'
    BY <1>1, <1>3, <2>7, <2>8, OthersStay
  <2>10. Shape'
    BY <1>2, <2>3, <2>4 DEF HookInv, Shape
  <2>11. TypeOK'
    BY <1>1, <2>4, <2>6, Spent DEF HookInv, TypeOK, TaskType
  <2> QED BY <1>5, <2>9, <2>10, <2>11 DEF HookInv
<1>7. CASE dead' = [dead EXCEPT ![p] = "missed"] /\ UNCHANGED <<task, chains>>
  <2>1. /\ \A q \in Endpoints : q # p => dead'[q] = dead[q]
        /\ dead' \in [Endpoints -> {"none", "captured", "missed"}] /\ dead'[p] = "missed"
    BY <1>2, <1>7
  <2>2. \A q \in Endpoints : q # p => SameTasks(q) /\ SameRecord(q)
    BY <1>1, <1>7, <2>1 DEF SameTasks, SameRecord
  <2>3. Sound(p)'
    <3>1. Sound(p)
      BY DEF HookInv
    <3>2. Of(p)' = Of(p) /\ \A c : At(p, c)' = At(p, c)
      BY <1>7 DEF Of, At
    <3>3. Fresh(p)' /\ Watched(p)'
      BY <1>3, <1>4, <2>1 DEF Fresh, Unqueued, Watched
    <3>4. Counted(p)' /\ Receipts(p)'
      BY <1>1, <1>7, <3>1, <3>2 DEF Sound, Counted, Receipts
    <3>5. Tried(p)'
      BY <1>1, <1>7, <3>1, <3>2 DEF Sound, Tried
    <3> QED BY <3>3, <3>4, <3>5 DEF Sound
  <2>4. \A q \in Endpoints : Sound(q)'
    BY <1>1, <1>3, <2>2, <2>3, OthersStay
  <2>5. Shape'
    BY <1>7 DEF HookInv, Shape
  <2>6. TypeOK'
    BY <1>1, <1>7, <2>1, Spent DEF HookInv, TypeOK
  <2> QED BY <1>5, <2>4, <2>5, <2>6 DEF HookInv
<1> QED BY <1>6, <1>7 DEF Replay

-----------------------------------------------------------------------------
(* The loop, the clock and the operators                                   *)

\* The loop moves on without a row.
LEMMA LoopKeeps ==
    ASSUME HookInv, NEW left \in SUBSET Endpoints, Loop(left), cur' = cur,
           phase = "idle" \/ (phase = "next" /\ left \subseteq todo),
           UNCHANGED <<endpointVars, rowVars, task, dead, historyVars>>,
           UNCHANGED budgetVars \/ Fault
    PROVE  HookInv'
<1>1. phase' \in {"next", "done"} /\ todo' = left
  BY DEF Loop
<1>2. UNCHANGED <<exists, active, row, attempts, posts, taken, unpaid, chains, stranded, cut>>
  BY DEF endpointVars, rowVars, historyVars
<1>3. \A q \in Endpoints : SameTasks(q) /\ SameRecord(q)
  BY <1>2 DEF SameTasks, SameRecord
<1>4. \A q \in Endpoints : (Early(q)' => Early(q)) /\ (Unqueued(q)' => Unqueued(q))
  BY <1>1 DEF Early, Unqueued
<1>5. \A q \in Endpoints : Sound(q)'
  BY <1>3, <1>4, Undisturbed
<1>6. Shape' /\ Looping'
  BY <1>1 DEF HookInv, Shape, Looping
<1>7. TypeOK'
  BY <1>1, <1>2, Spent DEF HookInv, TypeOK
<1> QED BY <1>5, <1>6, <1>7 DEF HookInv

\* The loop starts.
LEMMA DispatchKeeps == ASSUME HookInv, Dispatch PROVE HookInv'
<1>1. {p \in Endpoints : exists[p] /\ active[p]} \in SUBSET Endpoints
  OBVIOUS
<1> QED BY <1>1, LoopKeeps DEF Dispatch

\* An operator pings one endpoint.
LEMMA PingKeeps == ASSUME HookInv, NEW p \in Endpoints, Ping(p) PROVE HookInv'
<1>1. {p} \in SUBSET Endpoints
  OBVIOUS
<1> QED BY <1>1, LoopKeeps DEF Ping

\* The row is created, or the insert fails.
LEMMA CreateKeeps == ASSUME HookInv, NEW p \in Endpoints, CreateDelivery(p) PROVE HookInv'
<1>1. /\ phase = "next" /\ p \in todo
      /\ UNCHANGED <<attempts, endpointVars, task, dead, historyVars>>
  BY DEF CreateDelivery
<1>2. todo \in SUBSET Endpoints
  BY DEF HookInv, TypeOK
<1>3. CASE (~exists[p] /\ UNCHANGED budgetVars) \/ Fault
  <2> SUFFICES ASSUME Loop(todo \ {p}), UNCHANGED <<row, cur>>, UNCHANGED budgetVars \/ Fault
               PROVE  HookInv'
    <3>1. CASE exists[p] /\ row' = [row EXCEPT ![p] = "pending"] /\ UNCHANGED budgetVars
      <4>1. faults' = faults
        BY <3>1 DEF budgetVars
      <4>2. faults \in Nat
        BY WebhookAssumption DEF HookInv, TypeOK
      <4> QED BY <1>3, <3>1, <4>1, <4>2 DEF Fault
    <3> QED BY <3>1 DEF CreateDelivery
  <2>1. todo \ {p} \in SUBSET Endpoints /\ todo \ {p} \subseteq todo
    BY <1>2
  <2>2. UNCHANGED rowVars
    BY <1>1 DEF rowVars
  <2> QED BY <1>1, <2>1, <2>2, LoopKeeps
<1>4. CASE /\ row' = [row EXCEPT ![p] = "pending"]
           /\ phase' = "enqueue" /\ cur' = p /\ todo' = todo \ {p}
           /\ UNCHANGED budgetVars
  <2>1. /\ row \in [Endpoints -> {"none", "pending", "delivered", "failed"}]
        /\ attempts \in [Endpoints -> 0..MaxAttempts] /\ posts \in [Endpoints -> Nat]
        /\ MaxAttempts \in Nat \ {0}
    BY Typed DEF HookInv, TypeOK
  <2>2. /\ row' \in [Endpoints -> {"none", "pending", "delivered", "failed"}]
        /\ row'[p] = "pending" /\ \A q \in Endpoints : q # p => row'[q] = row[q]
    BY <1>4, <2>1
  <2>3. UNCHANGED <<exists, active, posts, taken, unpaid, chains, stranded, cut>>
    BY <1>1 DEF endpointVars, historyVars
  <2>4. /\ Of(p)' = Of(p) /\ \A c : At(p, c)' = At(p, c)
    BY <1>1 DEF Of, At
  <2>5. /\ Of(p) = {} /\ dead[p] = "none" /\ attempts[p] = 0 /\ taken[p] = 0
        /\ Counted(p)
    BY <1>1 DEF HookInv, Sound, Fresh, Early, Unqueued
  <2>6. Fresh(p)' /\ Watched(p)'
    BY <1>1, <1>4, <2>2, <2>3, <2>4, <2>5 DEF Fresh, Watched, Early, Unqueued
  <2>7. Counted(p)'
    BY <2>3, <2>4, <2>5 DEF Counted
  <2>8. Receipts(p)'
    <3>1. Cardinality(At(p, "ack")) \in Nat /\ unpaid[p] \in Nat
      BY Numbers, Typed DEF Running
    <3> QED BY <2>2, <2>3, <2>4, <2>5, <3>1 DEF Receipts
  <2>9. Tried(p)'
    <3>1. posts[p] \in Nat
      BY <2>1
    <3> QED BY <1>1, <2>1, <2>2, <2>3, <2>4, <2>5, <3>1 DEF Tried
  <2>10. \A q \in Endpoints : q # p =>
           /\ SameRecord(q) /\ SameTasks(q)
           /\ Early(q)' => Early(q)
           /\ Unqueued(q)' => Unqueued(q)
    BY <1>1, <1>4, <2>2, <2>3 DEF SameRecord, SameTasks, Early, Unqueued
  <2>11. Sound(p)'
    BY <2>6, <2>7, <2>8, <2>9 DEF Sound
  <2>12. \A q \in Endpoints : Sound(q)'
    BY <1>1, <2>10, <2>11, OthersStay
  <2>13. Shape' /\ Looping'
    BY <1>1, <1>4 DEF HookInv, Shape, Looping
  <2>14. TypeOK'
    BY <1>1, <1>2, <1>4, <2>2, <2>3, Spent DEF HookInv, TypeOK
  <2> QED BY <2>12, <2>13, <2>14 DEF HookInv
<1> QED BY <1>3, <1>4 DEF CreateDelivery

\* The loop has left a delivery without its task, which is known.
LEMMA Stranding ==
    ASSUME HookInv, NEW q \in Endpoints, UNCHANGED <<task, row, attempts, dead>>,
           UNCHANGED <<posts, taken, unpaid, chains, cut>>,
           stranded[q] \/ (phase = "enqueue" /\ cur = q) => stranded'[q],
           Early(q)' => Early(q), Unqueued(q)' => Unqueued(q)
    PROVE  Sound(q)'
<1>1. Sound(q)
  BY DEF HookInv
<1>2. Of(q)' = Of(q) /\ \A c : At(q, c)' = At(q, c)
  BY DEF Of, At
<1>3. Fresh(q)' /\ Watched(q)'
  BY <1>1, <1>2 DEF Sound, Fresh, Watched
<1>4. Counted(q)' /\ Receipts(q)'
  BY <1>1, <1>2 DEF Sound, Counted, Receipts
<1>5. Tried(q)'
  BY <1>1, <1>2 DEF Sound, Tried
<1> QED BY <1>3, <1>4, <1>5 DEF Sound

\* The task is queued, or the queue does not take it.
LEMMA EnqueueKeeps == ASSUME HookInv, EnqueueWebhookDeliver PROVE HookInv'
<1>1. /\ phase = "enqueue" /\ Loop(todo) /\ cur' = None
      /\ UNCHANGED <<endpointVars, rowVars, dead, posts, taken, unpaid, chains, cut>>
      /\ UNCHANGED <<exists, active, row, attempts>>
  BY DEF EnqueueWebhookDeliver, endpointVars, rowVars
<1>2. phase' \in {"next", "done"} /\ todo' = todo
  BY <1>1 DEF Loop
<1>3. PICK p \in Endpoints : cur = p /\ p \notin todo
  BY <1>1 DEF HookInv, Looping
<1>4. /\ task \in [Slots -> TaskType] /\ stranded \in [Endpoints -> BOOLEAN]
      /\ None \notin Endpoints
  BY Typed DEF HookInv, TypeOK
<1>5. /\ \A q \in Endpoints : (Early(q)' => Early(q)) /\ (Unqueued(q)' => Unqueued(q))
      /\ ~Unqueued(p)' /\ Unqueued(p)
  BY <1>1, <1>2, <1>3 DEF Early, Unqueued
<1>6. Looping'
  BY <1>2 DEF Looping
<1>7. CASE /\ \E s \in Slots : Free(s) /\ task' = [task EXCEPT ![s] = NewTask(cur, 0)]
           /\ UNCHANGED <<stranded, budgetVars>>
  <2>1. PICK s \in Slots : Free(s) /\ task' = [task EXCEPT ![s] = NewTask(p, 0)]
    BY <1>3, <1>7
  <2>2. PICK k : k = NewTask(p, 0)
    OBVIOUS
  <2>3. k \in TaskType /\ k.pc = "queued" /\ k.of = p
    BY <2>2, FirstTask
  <2>4. /\ task' \in [Slots -> TaskType] /\ task'[s] = k
        /\ \A x \in Slots : x # s => task'[x] = task[x]
    BY <1>4, <2>1, <2>2, <2>3
  <2>5. task[s].pc = "free" /\ task[s].of = None
    BY <2>1 DEF Free, HookInv, Shape
  <2>6. Of(p) = {}
    BY <1>5 DEF HookInv, Sound, Fresh
  <2>7. Sound(p)'
    BY <1>1, <1>5, <2>3, <2>4, <2>5, <2>6, AddedTask
  <2>8. \A q \in Endpoints : q # p => SameTasks(q) /\ SameRecord(q)
    <3>1. \A q \in Endpoints : q # p => SameTasks(q)
      BY <1>4, <2>3, <2>4, <2>5 DEF SameTasks
    <3>2. \A q \in Endpoints : q # p => SameRecord(q)
      BY <1>1, <1>7 DEF SameRecord
    <3> QED BY <3>1, <3>2
  <2>9. \A q \in Endpoints : Sound(q)'
    BY <1>3, <1>5, <2>7, <2>8, OthersStay
  <2>10. Shape'
    BY <1>4, <2>3, <2>4 DEF HookInv, Shape
  <2>11. TypeOK'
    BY <1>1, <1>2, <1>7, <2>4, Spent DEF HookInv, TypeOK, TaskType
  <2> QED BY <1>6, <2>9, <2>10, <2>11 DEF HookInv
<1>8. CASE Refusal /\ stranded' = [stranded EXCEPT ![cur] = TRUE] /\ UNCHANGED task
  <2>1. /\ stranded' \in [Endpoints -> BOOLEAN] /\ stranded'[p]
        /\ \A q \in Endpoints : q # p => stranded'[q] = stranded[q]
    BY <1>3, <1>4, <1>8
  <2>2. \A q \in Endpoints : Sound(q)'
    BY <1>1, <1>3, <1>5, <1>8, <2>1, Stranding
  <2>3. Shape'
    BY <1>8 DEF HookInv, Shape
  <2>4. TypeOK'
    BY <1>1, <1>2, <1>8, <2>1, Spent DEF HookInv, TypeOK
  <2> QED BY <1>6, <2>2, <2>3, <2>4 DEF HookInv
<1> QED BY <1>7, <1>8 DEF EnqueueWebhookDeliver

\* The process dies in the loop.
LEMMA DiesKeeps == ASSUME HookInv, DispatchDies PROVE HookInv'
<1>1. /\ phase \in {"next", "enqueue"} /\ phase' = "done" /\ todo' = {} /\ cur' = None
      /\ stranded' = [p \in Endpoints |-> stranded[p] \/ p = cur] /\ Refusal
      /\ UNCHANGED <<exists, active, row, attempts>>
      /\ UNCHANGED <<task, dead, posts, taken, unpaid, chains, cut>>
  BY DEF DispatchDies, endpointVars, rowVars
<1>2. \A q \in Endpoints : ~Early(q)' /\ ~Unqueued(q)'
  BY <1>1 DEF Early, Unqueued
<1>3. /\ stranded' \in [Endpoints -> BOOLEAN]
      /\ \A q \in Endpoints : stranded[q] \/ (phase = "enqueue" /\ cur = q) => stranded'[q]
  <2>1. stranded \in [Endpoints -> BOOLEAN]
    BY DEF HookInv, TypeOK
  <2> QED BY <1>1, <2>1
<1>4. \A q \in Endpoints : Sound(q)'
  BY <1>1, <1>2, <1>3, Stranding
<1>5. Shape' /\ Looping'
  BY <1>1 DEF HookInv, Shape, Looping
<1>6. TypeOK'
  BY <1>1, <1>3, Spent DEF HookInv, TypeOK
<1> QED BY <1>4, <1>5, <1>6 DEF HookInv

\* The endpoint is switched off or on.
LEMMA UpdateKeeps == ASSUME HookInv, NEW p \in Endpoints, Update(p) PROVE HookInv'
<1>1. /\ active' = [active EXCEPT ![p] = ~@] /\ Churn
      /\ UNCHANGED <<phase, todo, cur, exists, row, attempts>>
      /\ UNCHANGED <<task, dead, posts, taken, unpaid, chains, stranded, cut>>
  BY DEF Update, dispatchVars, rowVars, historyVars
<1>2. \A q \in Endpoints :
        /\ SameTasks(q) /\ SameRecord(q)
        /\ Early(q)' = Early(q) /\ Unqueued(q)' = Unqueued(q)
  BY <1>1 DEF SameTasks, SameRecord, Early, Unqueued
<1>3. \A q \in Endpoints : Sound(q)'
  BY <1>1, <1>2, Undisturbed
<1>4. Shape' /\ Looping'
  BY <1>1 DEF HookInv, Shape, Looping
<1>5. active' \in [Endpoints -> BOOLEAN]
  <2>1. active \in [Endpoints -> BOOLEAN]
    BY DEF HookInv, TypeOK
  <2> QED BY <1>1, <2>1
<1>6. TypeOK'
  BY <1>1, <1>5, Spent DEF HookInv, TypeOK
<1> QED BY <1>3, <1>4, <1>6 DEF HookInv

\* The endpoint and its deliveries are deleted.  What the tasks of a pending one may
\* still do is within the account of a settled one.
LEMMA DeleteKeeps == ASSUME HookInv, NEW p \in Endpoints, Delete(p) PROVE HookInv'
<1>1. /\ exists' = [exists EXCEPT ![p] = FALSE] /\ row' = [row EXCEPT ![p] = "none"] /\ Churn
      /\ UNCHANGED <<phase, todo, cur, active, attempts>>
      /\ UNCHANGED <<task, dead, posts, taken, unpaid, chains, stranded, cut>>
  BY DEF Delete, dispatchVars, historyVars
<1>2. /\ row \in [Endpoints -> {"none", "pending", "delivered", "failed"}]
      /\ exists \in [Endpoints -> BOOLEAN]
  BY DEF HookInv, TypeOK
<1>3. /\ row' \in [Endpoints -> {"none", "pending", "delivered", "failed"}]
      /\ exists' \in [Endpoints -> BOOLEAN]
      /\ row'[p] = "none" /\ \A q \in Endpoints : q # p => row'[q] = row[q]
  BY <1>1, <1>2
<1>4. \A q \in Endpoints : /\ SameTasks(q) /\ Early(q)' = Early(q) /\ Unqueued(q)' = Unqueued(q)
                           /\ q # p => SameRecord(q)
  BY <1>1, <1>3 DEF SameTasks, SameRecord, Early, Unqueued
<1>5. Of(p)' = Of(p) /\ \A c : At(p, c)' = At(p, c)
  BY <1>1 DEF Of, At
<1>6. Sound(p)
  BY DEF HookInv
<1>7. Fresh(p)' /\ Watched(p)'
  BY <1>1, <1>3, <1>4, <1>5, <1>6 DEF Sound, Fresh, Watched
<1>8. Counted(p)'
  BY <1>1, <1>5, <1>6 DEF Sound, Counted
<1>9. Receipts(p)'
  <2> DEFINE a == Cardinality(At(p, "ack"))
             b == Cardinality(At(p, "post"))
             o == Cardinality(Of(p))
  <2>1. a \in Nat /\ b \in Nat /\ o \in Nat /\ a + b <= o /\ o <= 1 + chains[p]
    BY Numbers DEF Running
  <2>2. taken[p] \in Nat /\ unpaid[p] \in Nat /\ chains[p] \in Nat
    BY Typed
  <2>3. taken[p] <= unpaid[p] + a \/ taken[p] + b <= 1 + unpaid[p] + chains[p]
    BY <1>6 DEF Sound, Receipts
  <2> HIDE DEF a, b, o
  <2>4. taken[p] + b <= 1 + unpaid[p] + chains[p]
    BY <2>1, <2>2, <2>3
  <2> QED BY <1>1, <1>3, <1>5, <2>4 DEF Receipts, b
<1>10. Tried(p)'
  BY <1>1, <1>3, <1>5, <1>6 DEF Sound, Tried
<1>11. Sound(p)'
  BY <1>7, <1>8, <1>9, <1>10 DEF Sound
<1>12. \A q \in Endpoints : Sound(q)'
  BY <1>1, <1>4, <1>11, OthersStay
<1>13. Shape' /\ Looping'
  BY <1>1 DEF HookInv, Shape, Looping
<1>14. TypeOK'
  BY <1>1, <1>3, Spent DEF HookInv, TypeOK
<1> QED BY <1>12, <1>13, <1>14 DEF HookInv

\* Time passes.
LEMMA TickKeeps == ASSUME HookInv, Tick PROVE HookInv'
<1>1. /\ task' = [t \in Slots |-> [task[t] EXCEPT !.wait = Countdown(@), !.ttl = Countdown(@)]]
      /\ UNCHANGED <<phase, todo, cur, exists, active, row, attempts>>
      /\ UNCHANGED <<dead, posts, taken, unpaid, chains, stranded, cut>>
      /\ UNCHANGED budgetVars
  BY DEF Tick, dispatchVars, endpointVars, rowVars, historyVars
<1>2. ASSUME NEW t \in Slots
      PROVE  /\ task'[t] \in TaskType /\ task'[t].of = task[t].of
             /\ task'[t].pc = task[t].pc /\ task'[t].n = task[t].n
  <2>1. task[t] \in TaskType /\ Timeout \in Nat
    BY <1>2, Typed, WebhookAssumption
  <2>2. Countdown(task[t].wait) \in Nat /\ Countdown(task[t].ttl) \in 0..Timeout
    BY <2>1 DEF TaskType, Countdown
  <2>3. task'[t] = [task[t] EXCEPT !.wait = Countdown(task[t].wait),
                                   !.ttl = Countdown(task[t].ttl)]
    BY <1>1, <1>2, <2>1 DEF TaskType
  <2> QED BY <2>1, <2>2, <2>3 DEF TaskType
<1>3. task' \in [Slots -> TaskType]
  BY <1>1, <1>2
<1>4. \A q \in Endpoints :
        /\ SameTasks(q) /\ SameRecord(q)
        /\ Early(q)' = Early(q) /\ Unqueued(q)' = Unqueued(q)
  BY <1>1, <1>2 DEF SameTasks, SameRecord, Early, Unqueued
<1>5. \A q \in Endpoints : Sound(q)'
  BY <1>1, <1>4, Undisturbed
<1>6. Shape' /\ Looping'
  BY <1>1, <1>2 DEF HookInv, Shape, Looping
<1>7. TypeOK'
  BY <1>1, <1>3, Spent DEF HookInv, TypeOK, TaskType
<1> QED BY <1>5, <1>6, <1>7 DEF HookInv

-----------------------------------------------------------------------------
(* The invariant and the theorems                                          *)

\* There are no rows and no tasks at first.
LEMMA HookInvInit == ASSUME Init PROVE HookInv
<1>1. \A p \in Endpoints : Of(p) = {} /\ \A c : At(p, c) = {}
  BY WebhookAssumption DEF Init, Of, At, NoTask
<1>2. IsFiniteSet({}) /\ Cardinality({}) = 0
  BY FS_EmptySet
<1>3. TypeOK
  <2>1. NoTask \in TaskType
    BY EmptySlot
  <2>2. task \in [Slots -> TaskType]
    BY <2>1 DEF Init
  <2> QED BY <2>2, WebhookAssumption DEF Init, TypeOK, TaskType
<1>4. Shape
  BY EmptySlot DEF Init, Shape
<1>5. Looping
  BY DEF Init, Looping
<1>6. ASSUME NEW p \in Endpoints PROVE Sound(p)
  <2>1. /\ row[p] = "none" /\ attempts[p] = 0 /\ dead[p] = "none" /\ posts[p] = 0
        /\ taken[p] = 0 /\ unpaid[p] = 0 /\ chains[p] = 0
    BY <1>6 DEF Init
  <2>2. Fresh(p) /\ Watched(p)
    BY <1>1, <1>6, <2>1 DEF Fresh, Watched
  <2>3. Counted(p) /\ Receipts(p)
    BY <1>1, <1>2, <1>6, <2>1 DEF Counted, Receipts
  <2>4. Tried(p)
    BY <1>1, <1>6, <2>1 DEF Tried
  <2> QED BY <2>2, <2>3, <2>4 DEF Sound
<1> QED BY <1>3, <1>4, <1>5, <1>6 DEF HookInv

\* Every step keeps it.
LEMMA HookInvStep == ASSUME HookInv, [Next]_vars PROVE HookInv'
<1>1. CASE Dispatch
  BY <1>1, DispatchKeeps
<1>2. CASE EnqueueWebhookDeliver
  BY <1>2, EnqueueKeeps
<1>3. CASE DispatchDies
  BY <1>3, DiesKeeps
<1>4. ASSUME NEW p \in Endpoints,
             Ping(p) \/ CreateDelivery(p) \/ Update(p) \/ Delete(p) \/ Replay(p)
      PROVE  HookInv'
  BY <1>4, PingKeeps, CreateKeeps, UpdateKeeps, DeleteKeeps, ReplayKeeps
<1>5. ASSUME NEW t \in Slots, Work(t) \/ Abort(t) PROVE HookInv'
  BY <1>5, LoadKeeps, PostKeeps, DeliveredKeeps, RetryingKeeps, RequeueKeeps, FailedKeeps,
     AbortKeeps DEF Work
<1>6. CASE Tick
  BY <1>6, TickKeeps
<1>7. CASE UNCHANGED vars
  <2>1. /\ UNCHANGED <<phase, todo, cur, exists, active, row, attempts>>
        /\ UNCHANGED <<task, dead, posts, taken, unpaid, chains, stranded, cut>>
        /\ UNCHANGED budgetVars
    BY <1>7 DEF vars, dispatchVars, endpointVars, rowVars, historyVars
  <2>2. \A q \in Endpoints :
          /\ SameTasks(q) /\ SameRecord(q)
          /\ Early(q)' = Early(q) /\ Unqueued(q)' = Unqueued(q)
    BY <2>1 DEF SameTasks, SameRecord, Early, Unqueued
  <2>3. \A q \in Endpoints : Sound(q)'
    BY <2>1, <2>2, Undisturbed
  <2>4. TypeOK' /\ Shape' /\ Looping'
    BY <2>1, Spent DEF HookInv, TypeOK, Shape, Looping
  <2> QED BY <2>3, <2>4 DEF HookInv
<1> QED BY <1>1, <1>2, <1>3, <1>4, <1>5, <1>6, <1>7 DEF Next

\* The invariant holds of the fan-out, its tasks and the operators in every interleaving.
LEMMA HookInvAlways == Spec => []HookInv
<1>1. Init => HookInv
  BY HookInvInit
<1>2. HookInv /\ [Next]_vars => HookInv'
  BY HookInvStep
<1> QED BY <1>1, <1>2, PTL DEF Spec

\* Rows, tasks and counters keep their types: no handler carries an attempt number
\* beyond maxAttempts, although two tasks of a delivery may count at the same time.
THEOREM HooksTyped == Spec => []TypeOK
<1>1. HookInv => TypeOK
  BY DEF HookInv
<1> QED BY <1>1, HookInvAlways, PTL

\* A delivery that deliver has not settled has a task that will look at it, through
\* every backoff, crash and retry, unless the queue never took its first task or asynq
\* archived its last.
THEOREM PendingDeliveriesAreWatched == Spec => []PendingHasATask
<1>1. HookInv => PendingHasATask
  BY DEF HookInv, Sound, Watched, PendingHasATask
<1> QED BY <1>1, HookInvAlways, PTL

\* A receiver takes a delivery once, and once more for each success the row never
\* learned of and each task the delivery got beyond its own.
THEOREM WebhookReceiptsArePaidFor == Spec => []ReceiptsArePaidFor
<1>1. ASSUME HookInv PROVE ReceiptsArePaidFor
  <2> SUFFICES ASSUME NEW p \in Endpoints PROVE taken[p] <= 1 + unpaid[p] + chains[p]
    BY DEF ReceiptsArePaidFor
  <2> DEFINE a == Cardinality(At(p, "ack"))
             b == Cardinality(At(p, "post"))
             o == Cardinality(Of(p))
  <2>1. a \in Nat /\ b \in Nat /\ o \in Nat /\ a + b <= o /\ o <= 1 + chains[p]
    BY <1>1, Numbers DEF Running
  <2>2. taken[p] \in Nat /\ unpaid[p] \in Nat /\ chains[p] \in Nat
    BY <1>1, Typed
  <2>3. taken[p] <= unpaid[p] + a \/ taken[p] + b <= 1 + unpaid[p] + chains[p]
    BY <1>1 DEF HookInv, Sound, Receipts
  <2> HIDE DEF a, b, o
  <2> QED BY <2>1, <2>2, <2>3
<1> QED BY <1>1, HookInvAlways, PTL

\* 'failed' means that maxAttempts POSTs were made, unless the endpoint was inactive or
\* its URL was blocked: the number an attempt carries is never ahead of the POSTs.
THEOREM FailedDeliveriesWereTried == Spec => []GivesUpOnlyAfterTrying
<1>1. HookInv => GivesUpOnlyAfterTrying
  BY DEF HookInv, Sound, Tried, GivesUpOnlyAfterTrying
<1> QED BY <1>1, HookInvAlways, PTL
=============================================================================
