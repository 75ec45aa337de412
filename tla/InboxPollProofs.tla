-------------------------- MODULE InboxPollProofs --------------------------
(***************************************************************************)
(* Polling a mailbox for any messages, transports and window sizes, any    *)
(* number of overlapping polls and any number of failures, deletions and   *)
(* changes of epoch.                                                       *)
(*                                                                         *)
(* A cursor is written blindly, so what has to be inductive is a fact      *)
(* about every cursor that a poll may still write: no message of the time  *)
(* before the connection lies above it (OldBelow), and when it belongs to  *)
(* the current epoch, everything below it was dealt with, or is about to   *)
(* be by the poll that carries it (Clean, Covered).                        *)
(***************************************************************************)
EXTENDS InboxPoll, FiniteSetTheorems, TLAPS

PollType ==
    [pc : {"idle", "state", "fetch", "process", "commit"}, from : 0..arrived,
     epoch : 0..epoch, seen : 0..epoch, head : 0..arrived, todo : SUBSET Messages,
     target : 0..arrived]

\* The numbers of the inbox: positions are no more than messages, and epochs are paid for.
Numbers ==
    /\ NOld <= arrived /\ Top <= arrived /\ \A i \in DOMAIN box : box[i] <= arrived
    /\ epoch + churn <= MaxChurn + 1

\* No message from before the connection lies above the cursor.
OldBelow(c) == \A i \in DOMAIN box : c < i /\ box[i] # 0 => NOld < box[i]

\* What lies below the cursor and must not be lost was dealt with, or is about to be.
Covered(c, todo) ==
    \A i \in DOMAIN box : i <= c /\ box[i] # 0 /\ box[i] \in safe =>
        Finished(box[i]) \/ box[i] \in todo

Clean(c) == Covered(c, {})

\* The poll has read the state of an IMAP mailbox; it has a cursor to write.
Asked(p) == p.pc = "fetch" /\ provider = "smtp"
Loaded(p) == p.pc \in {"process", "commit"}

\* What a poll knows about old mail,
Blind(p) ==
    /\ p.epoch # 0 => OldBelow(p.from)
    /\ Asked(p) => p.epoch # 0 /\ p.epoch = p.seen /\ OldBelow(p.head)
    /\ Loaded(p) => OldBelow(p.target) /\ \A m \in p.todo : NOld < m

\* and about new mail, as long as its cursor is one of the current epoch.
Sighted(p) ==
    /\ p.epoch = epoch => p.from <= Top /\ Clean(p.from) /\ (Loaded(p) => p.seen = epoch)
    /\ Asked(p) /\ p.seen = epoch => p.head <= Top
    /\ Loaded(p) /\ p.seen = epoch => p.target <= Top /\ Covered(p.target, p.todo)
    /\ p.pc = "commit" => p.todo = {}

Polls == \A p \in {poll[w] : w \in Workers} : p.pc # "idle" => Blind(p) /\ Sighted(p)

\* Mail is worth keeping only while nobody will jump to the head.
Kept ==
    safe # {} =>
      /\ curEpoch = epoch
      /\ \A w \in Workers : poll[w].pc # "idle" => poll[w].epoch = epoch

Cursor ==
    /\ curEpoch # 0 => OldBelow(cur)
    /\ curEpoch = epoch => cur <= Top /\ Clean(cur)

PollInv == TypeOK /\ Numbers /\ OldMailUntouched /\ Polls /\ Kept /\ Cursor

-----------------------------------------------------------------------------
(* Constants                                                               *)

\* How many effects a message has.
LEMMA EffectsOf ==
    ASSUME NEW m \in Messages
    PROVE  Len(Effects[Kind[m]]) \in Nat
<1>1. Kind[m] \in DOMAIN Effects
  BY InboxPollAssumption DEF Messages
<1>2. ASSUME NEW k \in DOMAIN Effects PROVE Len(Effects[k]) \in Nat
  <2>1. k \in {"reply", "optout", "automated", "bounce", "complaint", "warmup"}
    BY <1>2 DEF Effects
  <2>2. ASSUME NEW a, NEW b, NEW c PROVE Len(<<a, b, c>>) = 3 /\ Len(<<a, b>>) = 2 /\ Len(<<a>>) = 1
    OBVIOUS
  <2>3. Len(Effects["reply"]) = 3 /\ Len(Effects["optout"]) = 3 /\ Len(Effects["automated"]) = 3
    BY <2>2 DEF Effects
  <2>4. Len(Effects["bounce"]) = 2 /\ Len(Effects["complaint"]) = 1 /\ Len(Effects["warmup"]) = 2
    BY <2>2 DEF Effects
  <2> QED BY <2>1, <2>3, <2>4
<1> QED BY <1>1, <1>2

\* The messages are numbered, and the old ones come first.
LEMMA Constants ==
    /\ Messages = 1..Len(Kind) /\ Len(Kind) \in Nat /\ NOld \in Nat /\ NOld <= Len(Kind)
    /\ 1..NOld \subseteq Messages
    /\ Batch \in Nat /\ PageSize \in Nat /\ PageSize <= Batch
    /\ Len(Ladder) \in Nat /\ Len(Ladder) > 0 /\ Permanent \in Nat
    /\ \A i \in 1..Len(Ladder) : Ladder[i] \in 0..Permanent
    /\ MaxTasks \in Nat /\ MaxFaults \in Nat /\ MaxChurn \in Nat
<1>1. Kind \in Seq(DOMAIN Effects) /\ Ladder \in Seq(Nat) /\ Ladder # <<>>
  BY InboxPollAssumption
<1>2. Messages = 1..Len(Kind) /\ Len(Kind) \in Nat
  BY <1>1 DEF Messages
<1>3. Len(Ladder) \in Nat /\ Len(Ladder) > 0 /\ \A i \in 1..Len(Ladder) : Ladder[i] \in Nat
  BY <1>1
<1>4. Permanent \in Nat /\ \A i \in 1..Len(Ladder) : Ladder[i] <= Permanent
  BY <1>1, <1>3, InboxPollAssumption DEF Permanent
<1> QED BY <1>2, <1>3, <1>4, InboxPollAssumption

-----------------------------------------------------------------------------
(* The type, in parts                                                      *)

ServerType ==
    /\ provider \in {"smtp", "gmail", "m365"}
    /\ box \in Seq({0} \cup Messages)
    /\ epoch \in 1..(MaxChurn + 1)
    /\ arrived \in 0..Len(Kind)
    /\ safe \subseteq Messages

CursorType == cur \in 0..arrived /\ curEpoch \in 0..epoch

StatusType ==
    /\ active \in BOOLEAN /\ fails \in 0..Len(Ladder) /\ wait \in 0..Permanent
    /\ tasks \in 0..MaxTasks /\ faults \in 0..MaxFaults

DoneType == done \in [Messages -> Nat] /\ \A m \in Messages : done[m] <= Len(Effects[Kind[m]])

\* The parts are the type.
LEMMA TypeParts ==
    TypeOK <=> /\ ServerType /\ CursorType /\ StatusType /\ DoneType
               /\ poll \in [Workers -> PollType] /\ churn \in 0..MaxChurn
BY DEF TypeOK, ServerType, CursorType, StatusType, DoneType, PollType

\* What the inbox looks like in numbers.
LEMMA Boxes ==
    ASSUME PollInv
    PROVE  /\ box \in Seq({0} \cup Messages) /\ DOMAIN box = 1..Top /\ Top \in Nat
           /\ \A i \in 1..Top : box[i] \in {0} \cup Messages
           /\ Top <= arrived /\ NOld <= arrived /\ arrived \in 0..Len(Kind)
           /\ epoch \in Nat /\ epoch > 0 /\ curEpoch \in 0..epoch /\ cur \in 0..arrived
<1>1. box \in Seq({0} \cup Messages) /\ arrived \in 0..Len(Kind)
  BY DEF PollInv, TypeOK
<1>2. DOMAIN box = 1..Top /\ Top \in Nat /\ \A i \in 1..Top : box[i] \in {0} \cup Messages
  BY <1>1 DEF Top
<1>3. epoch \in Nat /\ epoch > 0
  BY Constants DEF PollInv, TypeOK
<1> QED BY <1>1, <1>2, <1>3 DEF PollInv, Numbers, TypeOK

-----------------------------------------------------------------------------
(* Cursors                                                                 *)

\* A higher cursor has no more old mail above it, and there is none above the head.
LEMMA OldMail ==
    ASSUME PollInv
    PROVE  /\ \A c, d \in Nat : c <= d /\ OldBelow(c) => OldBelow(d)
           /\ OldBelow(Top)
<1>1. DOMAIN box = 1..Top /\ Top \in Nat
  BY Boxes
<1>2. ASSUME NEW c \in Nat, NEW d \in Nat, c <= d, OldBelow(c) PROVE OldBelow(d)
  BY <1>1, <1>2 DEF OldBelow
<1>3. OldBelow(Top)
  BY <1>1 DEF OldBelow
<1> QED BY <1>2, <1>3

\* As long as the server stays as it is and nothing is undone, what is known of a cursor
\* stays true.
LEMMA Persists ==
    ASSUME box' = box, safe' \subseteq safe,
           \A i \in DOMAIN box : box[i] # 0 /\ Finished(box[i]) => Finished(box[i])'
    PROVE  /\ \A c : OldBelow(c) => OldBelow(c)'
           /\ \A c, todo : Covered(c, todo) => Covered(c, todo)'
           /\ \A c : Clean(c) => Clean(c)'
<1>1. ASSUME NEW c, OldBelow(c) PROVE OldBelow(c)'
  BY <1>1 DEF OldBelow
<1>2. ASSUME NEW c, NEW todo, Covered(c, todo) PROVE Covered(c, todo)'
  BY <1>2 DEF Covered
<1>3. ASSUME NEW c, Clean(c) PROVE Clean(c)'
  BY <1>2, <1>3 DEF Clean
<1> QED BY <1>1, <1>2, <1>3

\* The same for what a poll knows.
LEMMA PollPersists ==
    ASSUME box' = box, safe' \subseteq safe, epoch' = epoch, provider' = provider,
           \A i \in DOMAIN box : box[i] # 0 /\ Finished(box[i]) => Finished(box[i])',
           NEW k
    PROVE  (Blind(k) => Blind(k)') /\ (Sighted(k) => Sighted(k)')
<1>1. /\ \A c : OldBelow(c) => OldBelow(c)'
      /\ \A c, todo : Covered(c, todo) => Covered(c, todo)'
      /\ \A c : Clean(c) => Clean(c)'
  BY Persists
<1>2. Top' = Top
  BY DEF Top
<1>3. (Asked(k)' <=> Asked(k)) /\ (Loaded(k)' <=> Loaded(k))
  BY DEF Asked, Loaded
<1>4. Blind(k) => Blind(k)'
  BY <1>1, <1>3 DEF Blind
<1>5. Sighted(k) => Sighted(k)'
  BY <1>1, <1>2, <1>3 DEF Sighted
<1> QED BY <1>4, <1>5

-----------------------------------------------------------------------------
(* A step of one poll                                                      *)

\* The server is where it was and one poll moves: what is left to show is about what it
\* carries on and what it writes.
LEMMA PollStep ==
    ASSUME PollInv, NEW w \in Workers, NEW k \in PollType, poll' = [poll EXCEPT ![w] = k],
           UNCHANGED <<provider, box, epoch, arrived, safe, churn>>,
           DoneType', \A m \in Messages : Finished(m) => Finished(m)',
           OldMailUntouched',
           k.pc # "idle" => Blind(k)' /\ Sighted(k)' /\ (safe # {} => k.epoch = epoch),
           CursorType', Cursor', safe # {} => curEpoch' = epoch,
           StatusType'
    PROVE  PollInv'
<1>1. poll \in [Workers -> PollType]
  BY TypeParts DEF PollInv
<1>2. /\ poll'[w] = k /\ \A v \in Workers : v # w => poll'[v] = poll[v]
      /\ poll' \in [Workers -> PollType]
  BY <1>1
<1>3. PollType' = PollType
  BY DEF PollType
<1>4. TypeOK'
  <2>1. ServerType' /\ churn' \in 0..MaxChurn
    BY TypeParts DEF PollInv, ServerType
  <2> QED BY <1>2, <1>3, <2>1
        DEF TypeOK, ServerType, CursorType, StatusType, DoneType, PollType
<1>5. Numbers'
  BY DEF PollInv, Numbers, Top
<1>6. \A i \in DOMAIN box : box[i] # 0 /\ Finished(box[i]) => Finished(box[i])'
  BY Boxes
<1>7. Polls'
  <2> SUFFICES ASSUME NEW q, q \in {poll'[v] : v \in Workers}, q.pc # "idle"
               PROVE  Blind(q)' /\ Sighted(q)'
    BY DEF Polls
  <2>1. CASE q = k
    BY <2>1
  <2>2. CASE q # k
    <3>1. q \in {poll[v] : v \in Workers}
      BY <1>2, <2>2
    <3>2. Blind(q) /\ Sighted(q)
      BY <3>1 DEF PollInv, Polls
    <3> QED BY <1>6, <3>2, PollPersists
  <2> QED BY <2>1, <2>2
<1>8. Kept'
  BY <1>2 DEF PollInv, Kept
<1> QED BY <1>4, <1>5, <1>7, <1>8 DEF PollInv

\* A poll that is over.
LEMMA IdleType == ASSUME PollInv PROVE Idle \in PollType /\ Idle.pc = "idle"
<1>1. arrived \in Nat /\ epoch \in Nat
  BY Boxes, Constants
<1> QED BY <1>1 DEF Idle, PollType

\* A poll that runs: its record, and what is known of it.
LEMMA Running ==
    ASSUME PollInv, NEW w \in Workers
    PROVE  /\ poll \in [Workers -> PollType] /\ poll[w] \in PollType
           /\ poll[w].from \in 0..arrived /\ poll[w].head \in 0..arrived
           /\ poll[w].target \in 0..arrived /\ poll[w].epoch \in 0..epoch
           /\ poll[w].seen \in 0..epoch /\ poll[w].todo \subseteq Messages
           /\ poll[w].pc # "idle" => /\ Blind(poll[w]) /\ Sighted(poll[w])
                                     /\ safe # {} => poll[w].epoch = epoch
<1>1. poll \in [Workers -> PollType] /\ poll[w] \in PollType
  BY TypeParts DEF PollInv
<1>2. /\ poll[w].from \in 0..arrived /\ poll[w].head \in 0..arrived
      /\ poll[w].target \in 0..arrived /\ poll[w].epoch \in 0..epoch
      /\ poll[w].seen \in 0..epoch /\ poll[w].todo \subseteq Messages
  BY <1>1 DEF PollType
<1>3. poll[w].pc # "idle" => /\ Blind(poll[w]) /\ Sighted(poll[w])
                             /\ safe # {} => poll[w].epoch = epoch
  BY DEF PollInv, Polls, Kept
<1> QED BY <1>1, <1>2, <1>3

\* A fault is one of the budget.
LEMMA FaultType == ASSUME PollInv, Fault PROVE faults' \in 0..MaxFaults
<1>1. faults \in 0..MaxFaults /\ MaxFaults \in Nat
  BY Constants DEF PollInv, TypeOK
<1> QED BY <1>1 DEF Fault

\* The failed task is queued again if there is room.
LEMMA FailedTask ==
    ASSUME PollInv, NEW w \in Workers, TaskFails(w)
    PROVE  tasks' \in 0..MaxTasks /\ poll' = [poll EXCEPT ![w] = Idle]
<1>1. tasks \in 0..MaxTasks /\ MaxTasks \in Nat
  BY Constants DEF PollInv, TypeOK
<1> QED BY <1>1 DEF TaskFails, Return

\* The ladder has a rung for every count of failures.
LEMMA Backoffs ==
    ASSUME PollInv
    PROVE  Least(fails + 1, Len(Ladder)) \in 1..Len(Ladder)
<1>1. fails \in 0..Len(Ladder) /\ Len(Ladder) \in Nat /\ Len(Ladder) > 0
  BY Constants DEF PollInv, TypeOK
<1> QED BY <1>1 DEF Least

\* A failure that is recorded leaves the counter on the ladder.
LEMMA RecordedFailure ==
    ASSUME PollInv, RecordInboxPollFailure
    PROVE  fails' \in 0..Len(Ladder) /\ wait' \in 0..Permanent
<1>1. fails' \in 1..Len(Ladder)
  BY Backoffs DEF RecordInboxPollFailure
<1>2. Ladder[fails'] \in 0..Permanent
  BY <1>1, Constants
<1> QED BY <1>1, <1>2, Constants DEF RecordInboxPollFailure

\* So does one that the provider answers.
LEMMA NotedFailure ==
    ASSUME PollInv, NEW w \in Workers, Note(w), Fault
    PROVE  StatusType' /\ poll' = [poll EXCEPT ![w] = Idle]
<1>1. StatusType
  BY TypeParts DEF PollInv
<1>2. active' \in BOOLEAN /\ faults' \in 0..MaxFaults
  BY <1>1, FaultType DEF Note, StatusType
<1>3. CASE RecordInboxPollFailure /\ TaskFails(w)
  BY <1>2, <1>3, RecordedFailure, FailedTask DEF StatusType
<1>4. CASE /\ fails' = Least(fails + 1, Len(Ladder)) /\ wait' = Permanent
           /\ Return(w) /\ UNCHANGED tasks
  <2>1. fails' \in 0..Len(Ladder) /\ wait' \in 0..Permanent
    BY <1>4, Backoffs, Constants
  <2> QED BY <1>1, <1>2, <1>4, <2>1 DEF StatusType, Return
<1>5. CASE UNCHANGED <<fails, wait>> /\ TaskFails(w)
  BY <1>1, <1>2, <1>5, FailedTask DEF StatusType
<1> QED BY <1>3, <1>4, <1>5 DEF Note

\* The cursor that is stored stays a good one.
LEMMA CursorPersists ==
    ASSUME PollInv, UNCHANGED <<cur, curEpoch, box, epoch, arrived>>, safe' \subseteq safe,
           \A m \in Messages : Finished(m) => Finished(m)'
    PROVE  CursorType' /\ Cursor'
<1>1. \A i \in DOMAIN box : box[i] # 0 /\ Finished(box[i]) => Finished(box[i])'
  BY Boxes
<1>2. (OldBelow(cur) => OldBelow(cur)') /\ (Clean(cur) => Clean(cur)')
  <2>1. PICK c : c = cur
    OBVIOUS
  <2>2. (OldBelow(c) => OldBelow(c)') /\ (Clean(c) => Clean(c)')
    BY <1>1, Persists
  <2> QED BY <2>1, <2>2 DEF OldBelow, Clean, Covered
<1>3. CursorType'
  BY TypeParts DEF PollInv, CursorType
<1> QED BY <1>2, <1>3 DEF PollInv, Cursor, Top

\* A poll ends and leaves no trace but in the queue and the counters.
LEMMA PollEnds ==
    ASSUME PollInv, NEW w \in Workers, poll' = [poll EXCEPT ![w] = Idle],
           UNCHANGED <<provider, box, epoch, arrived, safe, churn, cur, curEpoch, done>>,
           StatusType'
    PROVE  PollInv'
<1>1. DoneType' /\ (\A m \in Messages : Finished(m) => Finished(m)') /\ OldMailUntouched'
  BY TypeParts DEF PollInv, DoneType, Finished, OldMailUntouched
<1>2. CursorType' /\ Cursor' /\ (safe # {} => curEpoch' = epoch)
  BY <1>1, CursorPersists DEF PollInv, Kept
<1> QED BY <1>1, <1>2, IdleType, PollStep

\* A window is fetched: the messages to act on and the cursor to write afterwards.
LEMMA FetchedStep ==
    ASSUME PollInv, NEW w \in Workers, poll[w].pc # "idle",
           NEW todo \in SUBSET Messages, NEW target \in 0..arrived, NEW seen \in 0..epoch,
           Fetched(w, todo, target, seen),
           UNCHANGED <<provider, box, epoch, arrived, safe, churn, cur, curEpoch, done>>,
           UNCHANGED <<active, fails, wait, tasks, faults>>,
           OldBelow(target), \A m \in todo : NOld < m,
           poll[w].epoch = epoch => seen = epoch,
           seen = epoch => target <= Top /\ Covered(target, todo)
    PROVE  PollInv'
<1>1. /\ poll \in [Workers -> PollType] /\ poll[w] \in PollType
      /\ Blind(poll[w]) /\ Sighted(poll[w]) /\ (safe # {} => poll[w].epoch = epoch)
  BY Running
<1>2. PICK p : p = poll[w]
  OBVIOUS
<1>3. PICK k : k = [p EXCEPT !.pc = IF todo = {} THEN "commit" ELSE "process",
                             !.todo = todo, !.target = target, !.seen = seen]
  OBVIOUS
<1>4. /\ k \in PollType /\ k.pc \in {"commit", "process"} /\ k.todo = todo
      /\ k.target = target /\ k.seen = seen /\ k.from = p.from /\ k.epoch = p.epoch
      /\ k.pc = "commit" => todo = {}
  BY <1>1, <1>2, <1>3 DEF PollType
<1>5. poll' = [poll EXCEPT ![w] = k]
  BY <1>1, <1>2, <1>3 DEF Fetched
<1>6. Blind(k)
  BY <1>1, <1>2, <1>4 DEF Blind, Asked, Loaded
<1>7. Sighted(k)
  BY <1>1, <1>2, <1>4 DEF Sighted, Asked, Loaded
<1>8. DoneType' /\ (\A m \in Messages : Finished(m) => Finished(m)') /\ OldMailUntouched'
  BY TypeParts DEF PollInv, DoneType, Finished, OldMailUntouched
<1>9. CursorType' /\ Cursor' /\ (safe # {} => curEpoch' = epoch)
  BY <1>8, CursorPersists DEF PollInv, Kept
<1>10. StatusType'
  BY TypeParts DEF PollInv, StatusType
<1>11. \A i \in DOMAIN box : box[i] # 0 /\ Finished(box[i]) => Finished(box[i])'
  BY <1>8, Boxes
<1>12. Blind(k)' /\ Sighted(k)'
  BY <1>6, <1>7, <1>11, PollPersists
<1>13. safe # {} => k.epoch = epoch
  BY <1>1, <1>2, <1>4
<1> QED BY <1>4, <1>5, <1>8, <1>9, <1>10, <1>12, <1>13, PollStep

-----------------------------------------------------------------------------
(* Windows                                                                 *)

\* The smaller of two numbers.
LEMMA LeastOf ==
    ASSUME NEW a \in Nat, NEW b \in Nat
    PROVE  Least(a, b) \in Nat /\ Least(a, b) <= a /\ Least(a, b) <= b /\ Least(a, b) \in {a, b}
BY DEF Least

\* A window is mail of the inbox; above a good cursor it holds no old mail, and with it
\* the cursor covers what the window reaches.
LEMMA Windows ==
    ASSUME PollInv, NEW from \in Nat, NEW n \in Nat
    PROVE  /\ Window(from, from + n) \in SUBSET Messages
           /\ OldBelow(from) => \A m \in Window(from, from + n) : NOld < m
           /\ \A c \in Nat : c <= from + n /\ Clean(from) => Covered(c, Window(from, from + n))
<1>1. /\ DOMAIN box = 1..Top /\ Top \in Nat /\ \A i \in 1..Top : box[i] \in {0} \cup Messages
  BY Boxes
<1> DEFINE hi == Least(from + n, Top)
<1>2. hi \in Nat /\ hi <= Top /\ hi <= from + n /\ hi \in {from + n, Top}
  <2>1. from + n \in Nat
    OBVIOUS
  <2> QED BY <1>1, <2>1, LeastOf
<1>3. Window(from, from + n) = {box[i] : i \in from + 1..hi} \ {0}
  BY DEF Window
<1> HIDE DEF hi
<1>4. from + 1..hi \subseteq 1..Top
  BY <1>1, <1>2
<1>5. Window(from, from + n) \in SUBSET Messages
  BY <1>1, <1>3, <1>4
<1>6. ASSUME OldBelow(from), NEW m \in Window(from, from + n) PROVE NOld < m
  <2>1. PICK i \in from + 1..hi : m = box[i] /\ box[i] # 0
    BY <1>3, <1>6
  <2>2. i \in DOMAIN box /\ from < i
    BY <1>1, <1>4, <2>1
  <2> QED BY <1>6, <2>1, <2>2 DEF OldBelow
<1>7. ASSUME NEW c \in Nat, c <= from + n, Clean(from)
      PROVE  Covered(c, Window(from, from + n))
  <2> SUFFICES ASSUME NEW i \in DOMAIN box, i <= c, box[i] # 0, box[i] \in safe
               PROVE  Finished(box[i]) \/ box[i] \in Window(from, from + n)
    BY DEF Covered
  <2>1. i \in Nat /\ i <= Top /\ i >= 1
    BY <1>1
  <2>2. CASE i <= from
    BY <1>7, <2>2 DEF Clean, Covered
  <2>3. CASE ~(i <= from)
    <3>1. i \in from + 1..hi
      BY <1>1, <1>2, <1>7, <2>1, <2>3
    <3> QED BY <1>3, <3>1
  <2> QED BY <2>2, <2>3
<1> QED BY <1>5, <1>6, <1>7

\* A sequence has no more values at some places than there are places.
LEMMA ImageSize ==
    ASSUME NEW places, IsFiniteSet(places), NEW s
    PROVE  LET all == {s[i] : i \in places}
           IN  IsFiniteSet(all) /\ Cardinality(all) <= Cardinality(places)
<1> DEFINE all == {s[i] : i \in places}
           f == [i \in places |-> s[i]]
<1>1. f \in Surjection(places, all)
  BY DEF Surjection
<1> QED BY <1>1, FS_Surjection

\* A page is no longer than the batch, so collectDelta never cuts one.
LEMMA Pages ==
    ASSUME PollInv, NEW from \in Nat
    PROVE  LET page == Window(from, from + PageSize)
           IN  {m \in page : Cardinality({k \in page : k <= m}) <= Batch} = page
<1> DEFINE page == Window(from, from + PageSize)
           places == from + 1..from + PageSize
<1>1. PageSize \in Nat /\ Batch \in Nat /\ PageSize <= Batch /\ Top \in Nat
  BY Constants, Boxes
<1>2. IsFiniteSet(places) /\ Cardinality(places) = PageSize
  <2>1. Cardinality(from + 1..from + PageSize)
          = IF from + 1 > from + PageSize THEN 0 ELSE from + PageSize - (from + 1) + 1
    BY <1>1, FS_Interval
  <2> QED BY <1>1, <2>1, FS_Interval
<1>3. Least(from + PageSize, Top) \in Nat /\ Least(from + PageSize, Top) <= from + PageSize
  BY <1>1, LeastOf
<1> DEFINE all == {box[i] : i \in places}
<1>4. IsFiniteSet(all) /\ Cardinality(all) <= PageSize
  BY <1>2, ImageSize
<1>5. page \subseteq all
  BY <1>1, <1>3 DEF Window
<1>6. ASSUME NEW m \in page PROVE Cardinality({k \in page : k <= m}) <= Batch
  <2>1. {k \in page : k <= m} \in SUBSET all
    BY <1>5
  <2> HIDE DEF all, page
  <2> DEFINE low == {k \in page : k <= m}
  <2>2. IsFiniteSet(low) /\ Cardinality(low) <= Cardinality(all)
    BY <1>4, <2>1, FS_Subset
  <2>3. Cardinality(low) \in Nat /\ Cardinality(all) \in Nat
    BY <1>4, <2>2, FS_CardinalityType
  <2> QED BY <1>1, <1>4, <2>2, <2>3
<1> QED BY <1>6

\* Nothing has to be kept while a poll is under way that will jump to the head.
LEMMA StaleMeansNothingKept ==
    ASSUME PollInv, NEW w \in Workers, poll[w].pc # "idle", Stale(poll[w])
    PROVE  safe = {} /\ poll[w].epoch # epoch
BY Running, Boxes DEF Stale

-----------------------------------------------------------------------------
(* The steps of a poll                                                     *)

\* A poll starts from the stored cursor.
LEMMA StartKeeps == ASSUME PollInv, NEW w \in Workers, Start(w) PROVE PollInv'
<1>1. PICK k : k = [Idle EXCEPT !.pc = IF provider = "smtp" THEN "state" ELSE "fetch",
                                !.from = cur, !.epoch = curEpoch]
  OBVIOUS
<1>2. /\ k \in PollType /\ k.pc \in {"state", "fetch"} /\ (k.pc = "fetch" => provider # "smtp")
      /\ k.from = cur /\ k.epoch = curEpoch
  BY <1>1, IdleType, Boxes DEF PollType, Idle
<1>3. /\ poll' = [poll EXCEPT ![w] = k]
      /\ UNCHANGED <<provider, box, epoch, arrived, safe, churn, cur, curEpoch, done>>
      /\ UNCHANGED <<active, fails, wait, faults>> /\ tasks > 0 /\ tasks' = tasks - 1
  BY <1>1 DEF Start, serverVars, cursorVars, statusVars, budgetVars
<1>4. Blind(k) /\ Sighted(k)
  BY <1>2 DEF PollInv, Cursor, Blind, Sighted, Asked, Loaded
<1>5. safe # {} => k.epoch = epoch
  BY <1>2 DEF PollInv, Kept
<1>6. DoneType' /\ (\A m \in Messages : Finished(m) => Finished(m)') /\ OldMailUntouched'
  BY <1>3, TypeParts DEF PollInv, DoneType, Finished, OldMailUntouched
<1>7. CursorType' /\ Cursor' /\ (safe # {} => curEpoch' = epoch)
  BY <1>3, <1>6, CursorPersists DEF PollInv, Kept
<1>8. StatusType'
  BY <1>3, TypeParts, Constants DEF PollInv, StatusType
<1>9. \A i \in DOMAIN box : box[i] # 0 /\ Finished(box[i]) => Finished(box[i])'
  BY <1>3, <1>6, Boxes
<1>10. Blind(k)' /\ Sighted(k)'
  BY <1>3, <1>4, <1>9, PollPersists
<1> QED BY <1>2, <1>3, <1>5, <1>6, <1>7, <1>8, <1>10, PollStep

\* A poll of a stale cursor only jumps to the head.
LEMMA RebaseKeeps ==
    ASSUME PollInv, NEW w \in Workers, poll[w].pc # "idle", Stale(poll[w]),
           Fetched(w, {}, Top, epoch),
           UNCHANGED <<provider, box, epoch, arrived, safe, churn, cur, curEpoch, done>>,
           UNCHANGED <<active, fails, wait, tasks, faults>>
    PROVE  PollInv'
<1>1. safe = {}
  BY StaleMeansNothingKept
<1>2. Top \in 0..arrived /\ epoch \in 0..epoch /\ Top <= Top
  BY Boxes
<1>3. OldBelow(Top)
  BY OldMail
<1>4. Covered(Top, {})
  BY <1>1 DEF Covered
<1>5. PICK c : c = Top
  OBVIOUS
<1> QED BY <1>2, <1>3, <1>4, FetchedStep

\* IMAP: the head is read first.
LEMMA StateKeeps == ASSUME PollInv, NEW w \in Workers, CurrentState(w) PROVE PollInv'
<1>1. /\ poll[w].pc = "state"
      /\ UNCHANGED <<provider, box, epoch, arrived, safe, churn, cur, curEpoch, done>>
  BY DEF CurrentState, serverVars, cursorVars
<1>2. CASE Fault /\ Note(w)
  BY <1>1, <1>2, NotedFailure, PollEnds
<1>3. CASE /\ Stale(poll[w]) /\ Fetched(w, {}, Top, epoch)
           /\ UNCHANGED <<statusVars, tasks, faults>>
  BY <1>1, <1>3, RebaseKeeps DEF statusVars
<1>4. CASE /\ ~Stale(poll[w])
           /\ poll' = [poll EXCEPT ![w].pc = "fetch", ![w].seen = epoch, ![w].head = Top]
           /\ UNCHANGED <<statusVars, tasks, faults>>
  <2>1. PICK p : p = poll[w]
    OBVIOUS
  <2>2. PICK k : k = [p EXCEPT !.pc = "fetch", !.seen = epoch, !.head = Top]
    OBVIOUS
  <2>3. /\ poll \in [Workers -> PollType] /\ p \in PollType
        /\ Blind(p) /\ Sighted(p) /\ (safe # {} => p.epoch = epoch)
    BY <1>1, <2>1, Running
  <2>4. /\ k \in PollType /\ k.pc = "fetch" /\ k.seen = epoch /\ k.head = Top
        /\ k.from = p.from /\ k.epoch = p.epoch
    <3>1. Top \in 0..arrived /\ epoch \in 0..epoch
      BY Boxes
    <3> QED BY <2>2, <2>3, <3>1 DEF PollType
  <2>5. poll' = [poll EXCEPT ![w] = k]
    BY <1>4, <2>1, <2>2, <2>3
  <2>6. p.epoch = epoch /\ p.epoch # 0
    BY <1>4, <2>1 DEF Stale
  <2>7. Blind(k)
    BY <2>3, <2>4, <2>6, OldMail DEF Blind, Asked, Loaded
  <2>8. Sighted(k)
    <3>1. Top <= Top
      BY Boxes
    <3> QED BY <2>3, <2>4, <3>1 DEF Sighted, Asked, Loaded
  <2>9. DoneType' /\ (\A m \in Messages : Finished(m) => Finished(m)') /\ OldMailUntouched'
    BY <1>1, TypeParts DEF PollInv, DoneType, Finished, OldMailUntouched
  <2>10. CursorType' /\ Cursor' /\ (safe # {} => curEpoch' = epoch)
    BY <1>1, <2>9, CursorPersists DEF PollInv, Kept
  <2>11. StatusType'
    BY <1>4, TypeParts DEF PollInv, StatusType, statusVars
  <2>12. \A i \in DOMAIN box : box[i] # 0 /\ Finished(box[i]) => Finished(box[i])'
    BY <1>1, <2>9, Boxes
  <2>13. Blind(k)' /\ Sighted(k)'
    BY <1>1, <2>7, <2>8, <2>12, PollPersists
  <2> QED BY <1>1, <2>3, <2>4, <2>5, <2>9, <2>10, <2>11, <2>13, PollStep
<1> QED BY <1>2, <1>3, <1>4 DEF CurrentState

\* A window above the cursor of the poll, up to the position that becomes its cursor.
LEMMA WindowKeeps ==
    ASSUME PollInv, NEW w \in Workers, poll[w].pc # "idle", poll[w].epoch # 0,
           NEW n \in Nat, NEW target \in 0..arrived, NEW seen \in 0..epoch,
           Fetched(w, Window(poll[w].from, poll[w].from + n), target, seen),
           target <= poll[w].from + n, OldBelow(target),
           poll[w].epoch = epoch => seen = epoch,
           seen = epoch => poll[w].epoch = epoch /\ target <= Top,
           UNCHANGED <<provider, box, epoch, arrived, safe, churn, cur, curEpoch, done>>,
           UNCHANGED <<active, fails, wait, tasks, faults>>
    PROVE  PollInv'
<1>1. PICK from : from = poll[w].from
  OBVIOUS
<1>2. PICK todo : todo = Window(from, from + n)
  OBVIOUS
<1>3. from \in Nat /\ target \in Nat
  BY <1>1, Running, Boxes
<1>4. Blind(poll[w]) /\ Sighted(poll[w])
  BY Running
<1>5. OldBelow(from) /\ (poll[w].epoch = epoch => Clean(from))
  BY <1>1, <1>4 DEF Blind, Sighted
<1>6. /\ todo \in SUBSET Messages /\ (\A m \in todo : NOld < m)
      /\ Clean(from) => Covered(target, todo)
  BY <1>1, <1>2, <1>3, <1>5, Windows
<1>7. Fetched(w, todo, target, seen)
  BY <1>1, <1>2
<1> QED BY <1>5, <1>6, <1>7, FetchedStep

\* The fetch of each transport.
LEMMA FetchKeeps == ASSUME PollInv, NEW w \in Workers, Fetch(w) PROVE PollInv'
<1>1. /\ poll[w].pc = "fetch"
      /\ UNCHANGED <<provider, box, epoch, arrived, safe, churn, cur, curEpoch, done>>
  BY DEF Fetch, serverVars, cursorVars
<1>2. CASE Fault /\ Note(w)
  BY <1>1, <1>2, NotedFailure, PollEnds
<1> DEFINE from == poll[w].from
<1>3. /\ from \in Nat /\ from \in 0..arrived /\ poll[w].head \in 0..arrived /\ poll[w].seen \in 0..epoch
      /\ Blind(poll[w]) /\ Sighted(poll[w])
  BY <1>1, Running, Boxes
<1>4. /\ Batch \in Nat /\ PageSize \in Nat /\ PageSize <= Batch /\ Top \in Nat
      /\ Top <= arrived /\ arrived \in Nat /\ epoch \in 0..epoch
  BY Constants, Boxes
<1>5. /\ \A c, d \in Nat : c <= d /\ OldBelow(c) => OldBelow(d)
      /\ OldBelow(Top)
  BY OldMail
<1>6. CASE provider = "smtp" /\ FetchIMAP(w) /\ UNCHANGED <<statusVars, tasks, faults>>
  <2>1. PICK target : target = Least(from + Batch, poll[w].head)
    OBVIOUS
  <2>2. Asked(poll[w])
    BY <1>1, <1>6 DEF Asked
  <2>3. /\ poll[w].epoch # 0 /\ poll[w].epoch = poll[w].seen /\ OldBelow(poll[w].head)
        /\ poll[w].seen = epoch => poll[w].head <= Top
        /\ OldBelow(from)
    BY <1>3, <2>2 DEF Blind, Sighted
  <2>4. from + Batch \in Nat /\ poll[w].head \in Nat
    BY <1>3, <1>4
  <2>5. /\ target \in Nat /\ target <= from + Batch /\ target <= poll[w].head
        /\ target \in {from + Batch, poll[w].head}
    BY <2>1, <2>4, LeastOf
  <2>6. target \in 0..arrived
    BY <1>3, <1>4, <2>5
  <2>7. OldBelow(from + Batch)
    BY <1>3, <1>4, <1>5, <2>3, <2>4
  <2>8. OldBelow(target)
    BY <2>3, <2>5, <2>7
  <2>9. Fetched(w, Window(poll[w].from, poll[w].from + Batch), target, poll[w].seen)
    BY <1>6, <2>1 DEF FetchIMAP, scannedWindowTop
  <2>10. poll[w].seen = epoch => target <= Top
    BY <1>4, <2>3, <2>4, <2>5
  <2> QED BY <1>1, <1>3, <1>4, <1>6, <2>3, <2>5, <2>6, <2>8, <2>9, <2>10, WindowKeeps DEF statusVars
<1>7. CASE Stale(poll[w]) /\ Fetched(w, {}, Top, epoch) /\ UNCHANGED <<statusVars, tasks, faults>>
  BY <1>1, <1>7, RebaseKeeps DEF statusVars
<1>8. ASSUME ~Stale(poll[w]), NEW n \in Nat,
             Fetched(w, Window(from, from + n), Least(from + n, Top), epoch),
             UNCHANGED <<statusVars, tasks, faults>>
      PROVE  PollInv'
  <2>1. PICK target : target = Least(from + n, Top)
    OBVIOUS
  <2>2. poll[w].epoch # 0 /\ poll[w].epoch = epoch
    BY <1>8 DEF Stale
  <2>3. from + n \in Nat
    BY <1>3, <1>8
  <2>4. target \in Nat /\ target <= from + n /\ target <= Top /\ target \in {from + n, Top}
    BY <1>4, <2>1, <2>3, LeastOf
  <2>5. target \in 0..arrived
    BY <1>4, <2>4
  <2>6. OldBelow(from)
    BY <1>3, <2>2 DEF Blind
  <2>7. OldBelow(from + n)
    BY <1>3, <1>5, <1>8, <2>3, <2>6
  <2>8. OldBelow(target)
    BY <1>5, <2>4, <2>7
  <2> QED BY <1>1, <1>4, <1>8, <2>1, <2>2, <2>4, <2>5, <2>8, WindowKeeps DEF statusVars
<1>9. CASE ~Stale(poll[w]) /\ FetchGmail(w) /\ UNCHANGED <<statusVars, tasks, faults>>
  BY <1>4, <1>8, <1>9 DEF FetchGmail, collectHistory
<1>10. CASE ~Stale(poll[w]) /\ FetchGraph(w) /\ UNCHANGED <<statusVars, tasks, faults>>
  <2>1. PICK page : page = Window(from, from + PageSize)
    OBVIOUS
  <2>2. {m \in page : Cardinality({k \in page : k <= m}) <= Batch} = page
    BY <1>3, <2>1, Pages
  <2>3. Fetched(w, page, Least(from + PageSize, Top), epoch)
    BY <1>10, <2>1, <2>2 DEF FetchGraph
  <2> QED BY <1>4, <1>8, <1>10, <2>1, <2>3
<1> QED BY <1>2, <1>6, <1>7, <1>9, <1>10 DEF Fetch, FetchAPI

\* A Gmail window that fails.
LEMMA WedgedKeeps == ASSUME PollInv, NEW w \in Workers, FetchWedged(w) PROVE PollInv'
<1>1. /\ UNCHANGED <<provider, box, epoch, arrived, safe, churn, cur, curEpoch, done>>
      /\ UNCHANGED <<active, faults>> /\ RecordInboxPollFailure /\ TaskFails(w)
  BY DEF FetchWedged, serverVars, cursorVars, budgetVars
<1>2. StatusType'
  BY <1>1, TypeParts, RecordedFailure, FailedTask DEF PollInv, StatusType
<1> QED BY <1>1, <1>2, FailedTask, PollEnds

\* A poll dies.
LEMMA CrashKeeps == ASSUME PollInv, NEW w \in Workers, Crash(w) PROVE PollInv'
<1>1. /\ UNCHANGED <<provider, box, epoch, arrived, safe, churn, cur, curEpoch, done>>
      /\ UNCHANGED <<active, fails, wait>> /\ Fault /\ TaskFails(w)
  BY DEF Crash, serverVars, cursorVars, statusVars
<1>2. StatusType'
  BY <1>1, TypeParts, FaultType, FailedTask DEF PollInv, StatusType
<1> QED BY <1>1, <1>2, FailedTask, PollEnds

\* Effects are only ever added, to a message that is not old.
LEMMA Applied ==
    ASSUME PollInv, NEW m \in Messages, NOld < m, NEW n \in Nat,
           n <= Len(Effects[Kind[m]]), Apply(m, n)
    PROVE  /\ DoneType' /\ OldMailUntouched'
           /\ \A x \in Messages : Finished(x) => Finished(x)'
           /\ n = Len(Effects[Kind[m]]) => Finished(m)'
<1>1. done \in [Messages -> Nat] /\ \A x \in Messages : done[x] <= Len(Effects[Kind[x]])
  BY DEF PollInv, TypeOK
<1>2. PICK need \in Nat : need = Len(Effects[Kind[m]])
  BY EffectsOf
<1>3. /\ done' = [done EXCEPT ![m] = Most(done[m], n)]
      /\ done'[m] = Most(done[m], n) /\ \A x \in Messages : x # m => done'[x] = done[x]
  BY <1>1 DEF Apply
<1>4. Most(done[m], n) \in Nat /\ Most(done[m], n) <= need /\ Most(done[m], n) >= n
      /\ Most(done[m], n) >= done[m]
  <2>1. done[m] \in Nat /\ done[m] <= need /\ n <= need
    BY <1>1, <1>2
  <2> QED BY <2>1 DEF Most
<1>5. DoneType'
  <2>1. done' \in [Messages -> Nat]
    BY <1>1, <1>3, <1>4
  <2>2. \A x \in Messages : done'[x] <= Len(Effects[Kind[x]])
    BY <1>1, <1>2, <1>3, <1>4
  <2> QED BY <2>1, <2>2 DEF DoneType
<1>6. OldMailUntouched'
  <2>1. \A x \in 1..NOld : x \in Messages /\ x # m
    BY Constants
  <2> QED BY <1>3, <2>1 DEF PollInv, OldMailUntouched
<1>7. done'[m] \in Nat /\ done[m] \in Nat
  BY <1>1, <1>3, <1>4
<1>8. /\ \A x \in Messages : Finished(x) => Finished(x)'
      /\ n = Len(Effects[Kind[m]]) => Finished(m)'
  BY <1>2, <1>3, <1>4, <1>7 DEF Finished
<1> QED BY <1>5, <1>6, <1>8

\* The next message is dealt with, in whole or in part.
LEMMA ProcessKeeps == ASSUME PollInv, NEW w \in Workers, Process(w) PROVE PollInv'
<1>1. /\ poll[w].pc = "process"
      /\ UNCHANGED <<provider, box, epoch, arrived, safe, churn, cur, curEpoch>>
      /\ UNCHANGED <<active, fails, wait>>
  BY DEF Process, serverVars, cursorVars, statusVars
<1>2. PICK m \in poll[w].todo :
        \/ /\ Apply(m, Len(Effects[Kind[m]]))
           /\ Processed(w, m)
           /\ UNCHANGED <<tasks, faults>>
        \/ /\ Fault
           /\ \E n \in 0..Len(Effects[Kind[m]]) - 1 : Apply(m, n)
           /\ TaskFails(w)
  BY DEF Process
<1>3. PICK p : p = poll[w]
  OBVIOUS
<1>4. /\ poll \in [Workers -> PollType] /\ p \in PollType /\ p.todo \subseteq Messages
      /\ Blind(p) /\ Sighted(p) /\ (safe # {} => p.epoch = epoch)
  BY <1>1, <1>3, Running
<1>5. m \in Messages /\ NOld < m /\ Len(Effects[Kind[m]]) \in Nat
  BY <1>1, <1>2, <1>3, <1>4, EffectsOf DEF Blind, Loaded
<1>6. CASE Apply(m, Len(Effects[Kind[m]])) /\ Processed(w, m) /\ UNCHANGED <<tasks, faults>>
  <2>1. PICK k : k = [p EXCEPT !.todo = p.todo \ {m},
                               !.pc = IF p.todo \ {m} = {} THEN "commit" ELSE "process"]
    OBVIOUS
  <2>2. /\ k \in PollType /\ k.pc \in {"commit", "process"} /\ k.todo = p.todo \ {m}
        /\ k.target = p.target /\ k.seen = p.seen /\ k.from = p.from /\ k.epoch = p.epoch
        /\ k.pc = "commit" => k.todo = {}
    BY <1>4, <2>1 DEF PollType
  <2>3. poll' = [poll EXCEPT ![w] = k]
    BY <1>3, <1>4, <1>6, <2>1 DEF Processed
  <2>4. /\ DoneType' /\ OldMailUntouched' /\ Finished(m)'
        /\ \A x \in Messages : Finished(x) => Finished(x)'
    BY <1>5, <1>6, Applied
  <2>5. \A i \in DOMAIN box : box[i] # 0 /\ Finished(box[i]) => Finished(box[i])'
    BY <1>1, <2>4, Boxes
  <2>6. Blind(p)' /\ Sighted(p)'
    BY <1>1, <1>4, <2>5, PollPersists
  <2>7. Loaded(p)' /\ Loaded(k)' /\ ~Asked(k)'
    BY <1>1, <1>3, <2>2 DEF Loaded, Asked
  <2>8. Blind(k)'
    BY <2>2, <2>6, <2>7 DEF Blind
  <2>9. Covered(p.target, p.todo)' => Covered(k.target, k.todo)'
    <3> SUFFICES ASSUME Covered(p.target, p.todo)',
                        NEW i \in DOMAIN box', i <= p.target, box'[i] # 0, box'[i] \in safe'
                 PROVE  Finished(box[i])' \/ box'[i] \in p.todo \ {m}
      BY <2>2 DEF Covered
    <3>1. Finished(box[i])' \/ box'[i] \in p.todo
      BY DEF Covered
    <3>2. CASE box'[i] = m
      BY <2>4, <3>2 DEF Finished
    <3> QED BY <3>1, <3>2
  <2>10. Sighted(k)'
    BY <2>2, <2>6, <2>7, <2>9 DEF Sighted
  <2>11. CursorType' /\ Cursor' /\ (safe # {} => curEpoch' = epoch)
    BY <1>1, <2>4, CursorPersists DEF PollInv, Kept
  <2>12. StatusType'
    BY <1>1, <1>6, TypeParts DEF PollInv, StatusType
  <2> QED BY <1>1, <1>4, <2>2, <2>3, <2>4, <2>8, <2>10, <2>11, <2>12, PollStep
<1>7. CASE /\ Fault
           /\ \E n \in 0..Len(Effects[Kind[m]]) - 1 : Apply(m, n)
           /\ TaskFails(w)
  <2>1. PICK n \in 0..Len(Effects[Kind[m]]) - 1 : Apply(m, n)
    BY <1>7
  <2>2. n \in Nat /\ n <= Len(Effects[Kind[m]])
    BY <1>5, <2>1
  <2>3. /\ DoneType' /\ OldMailUntouched'
        /\ \A x \in Messages : Finished(x) => Finished(x)'
    BY <1>5, <2>1, <2>2, Applied
  <2>4. CursorType' /\ Cursor' /\ (safe # {} => curEpoch' = epoch)
    BY <1>1, <2>3, CursorPersists DEF PollInv, Kept
  <2>5. StatusType' /\ poll' = [poll EXCEPT ![w] = Idle]
    BY <1>1, <1>7, TypeParts, FaultType, FailedTask DEF PollInv, StatusType
  <2> QED BY <1>1, <2>3, <2>4, <2>5, IdleType, PollStep
<1> QED BY <1>2, <1>6, <1>7

\* The cursor is written, or not, or nobody knows.
LEMMA SetKeeps == ASSUME PollInv, NEW w \in Workers, SetInboxCursor(w) PROVE PollInv'
<1>1. /\ poll[w].pc = "commit"
      /\ UNCHANGED <<provider, box, epoch, arrived, safe, churn, done, active>>
  BY DEF SetInboxCursor, serverVars
<1>2. DoneType' /\ (\A m \in Messages : Finished(m) => Finished(m)') /\ OldMailUntouched'
  BY <1>1, TypeParts DEF PollInv, DoneType, Finished, OldMailUntouched
<1>3. /\ poll' = [poll EXCEPT ![w] = Idle]
      /\ tasks' \in 0..MaxTasks /\ faults' \in 0..MaxFaults
  <2>1. tasks \in 0..MaxTasks /\ faults \in 0..MaxFaults
    BY DEF PollInv, TypeOK
  <2> QED BY <2>1, FaultType, FailedTask DEF SetInboxCursor, Return
<1>4. CASE cur' = poll[w].target /\ curEpoch' = poll[w].seen /\ fails' = 0 /\ wait' = 0
  <2>1. PICK p : p = poll[w]
    OBVIOUS
  <2>2. /\ p.target \in 0..arrived /\ p.seen \in 0..epoch
        /\ Blind(p) /\ Sighted(p) /\ (safe # {} => p.epoch = epoch)
    BY <1>1, <2>1, Running
  <2>3. p.pc = "commit" /\ Loaded(p)
    BY <1>1, <2>1 DEF Loaded
  <2>4. /\ OldBelow(p.target) /\ (p.epoch = epoch => p.seen = epoch)
        /\ p.seen = epoch => p.target <= Top /\ Clean(p.target)
    BY <2>2, <2>3 DEF Blind, Sighted, Clean
  <2>5. PICK c : c = p.target
    OBVIOUS
  <2>6. (OldBelow(c) => OldBelow(c)') /\ (Clean(c) => Clean(c)')
    <3>1. \A i \in DOMAIN box : box[i] # 0 /\ Finished(box[i]) => Finished(box[i])'
      BY <1>1, <1>2, Boxes
    <3> QED BY <1>1, <3>1, Persists
  <2>7. cur' = c
    BY <1>4, <2>1, <2>5
  <2>8. OldBelow(cur)' /\ (p.seen = epoch => Clean(cur)')
    BY <2>4, <2>5, <2>6, <2>7 DEF OldBelow, Clean, Covered
  <2>9. Cursor'
    BY <1>1, <1>4, <2>1, <2>4, <2>8 DEF Cursor, Top
  <2>10. CursorType' /\ (safe # {} => curEpoch' = epoch)
    BY <1>1, <1>4, <2>1, <2>2, <2>4 DEF CursorType
  <2>11. StatusType'
    <3>1. 0 \in 0..Len(Ladder) /\ 0 \in 0..Permanent
      BY Constants
    <3> QED BY <1>1, <1>3, <1>4, <3>1, TypeParts DEF PollInv, StatusType
  <2> QED BY <1>1, <1>2, <1>3, <2>9, <2>10, <2>11, IdleType, PollStep
<1>5. CASE UNCHANGED <<cursorVars, fails, wait>>
  <2>1. StatusType'
    BY <1>1, <1>3, <1>5, TypeParts DEF PollInv, StatusType
  <2> QED BY <1>1, <1>3, <1>5, <2>1, PollEnds DEF cursorVars
<1> QED BY <1>4, <1>5 DEF SetInboxCursor

-----------------------------------------------------------------------------
(* The queue, the operator and the clock                                   *)

\* Steps that touch neither the inbox nor a poll.
LEMMA StatusStep ==
    ASSUME PollInv, UNCHANGED <<provider, box, epoch, arrived, safe, cur, curEpoch, poll, done>>,
           StatusType', churn' \in 0..MaxChurn, churn' <= churn
    PROVE  PollInv'
<1>1. PollType' = PollType
  BY DEF PollType
<1>2. DoneType' /\ (\A m \in Messages : Finished(m) => Finished(m)') /\ OldMailUntouched'
  BY TypeParts DEF PollInv, DoneType, Finished, OldMailUntouched
<1>3. CursorType' /\ Cursor'
  BY <1>2, CursorPersists
<1>4. TypeOK'
  <2>1. ServerType' /\ poll' \in [Workers -> PollType]
    BY TypeParts DEF PollInv, ServerType
  <2> QED BY <1>1, <1>2, <1>3, <2>1
        DEF TypeOK, ServerType, CursorType, StatusType, DoneType, PollType
<1>5. Numbers'
  <2>1. churn \in Nat /\ churn' \in Nat /\ epoch \in Nat /\ MaxChurn \in Nat
    BY Boxes, Constants DEF PollInv, TypeOK
  <2>2. NOld <= arrived /\ Top <= arrived /\ \A i \in DOMAIN box : box[i] <= arrived
    BY DEF PollInv, Numbers
  <2>3. epoch + churn' <= MaxChurn + 1
    <3>1. epoch + churn <= MaxChurn + 1
      BY DEF PollInv, Numbers
    <3>2. churn' <= churn
      OBVIOUS
    <3>3. PICK before, after : before = churn /\ after = churn'
      OBVIOUS
    <3>4. before \in Nat /\ after \in Nat /\ epoch + before <= MaxChurn + 1 /\ after <= before
      BY <2>1, <3>1, <3>2, <3>3
    <3>5. epoch + after <= MaxChurn + 1
      BY <2>1, <3>4
    <3> QED BY <3>3, <3>5
  <2> QED BY <2>2, <2>3 DEF Numbers, Top
<1>6. \A i \in DOMAIN box : box[i] # 0 /\ Finished(box[i]) => Finished(box[i])'
  BY <1>2, Boxes
<1>7. Polls'
  <2> SUFFICES ASSUME NEW q, q \in {poll[v] : v \in Workers}, q.pc # "idle"
               PROVE  Blind(q)' /\ Sighted(q)'
    BY DEF Polls
  <2>1. Blind(q) /\ Sighted(q)
    BY DEF PollInv, Polls
  <2> QED BY <1>6, <2>1, PollPersists
<1>8. Kept'
  BY DEF PollInv, Kept
<1> QED BY <1>2, <1>3, <1>4, <1>5, <1>7, <1>8 DEF PollInv

\* The sweep queues a poll.
LEMMA SweepKeeps == ASSUME PollInv, Sweep PROVE PollInv'
<1>1. /\ UNCHANGED <<provider, box, epoch, arrived, safe, cur, curEpoch, poll, done>>
      /\ UNCHANGED <<active, fails, wait, faults, churn>>
      /\ tasks < MaxTasks /\ tasks' = tasks + 1
  BY DEF Sweep, serverVars, cursorVars, statusVars, budgetVars
<1>2. StatusType'
  BY <1>1, TypeParts, Constants DEF PollInv, StatusType
<1>3. churn' \in 0..MaxChurn /\ churn' <= churn
  BY <1>1, Constants DEF PollInv, TypeOK
<1> QED BY <1>1, <1>2, <1>3, StatusStep

\* The mailbox is paused or resumed.
LEMMA UpdateKeeps == ASSUME PollInv, UpdateMailboxStatus PROVE PollInv'
<1>1. /\ UNCHANGED <<provider, box, epoch, arrived, safe, cur, curEpoch, poll, done>>
      /\ UNCHANGED <<tasks, faults>> /\ active' = ~active /\ fails' = 0 /\ wait' = 0
      /\ Churn \/ UNCHANGED churn
  BY DEF UpdateMailboxStatus, serverVars, cursorVars
<1>2. StatusType'
  <2>1. 0 \in 0..Len(Ladder) /\ 0 \in 0..Permanent
    BY Constants
  <2>2. StatusType
    BY TypeParts DEF PollInv
  <2> QED BY <1>1, <2>1, <2>2 DEF StatusType
<1>3. churn' \in 0..MaxChurn /\ churn' <= churn
  <2>1. churn \in 0..MaxChurn /\ MaxChurn \in Nat
    BY Constants DEF PollInv, TypeOK
  <2> QED BY <1>1, <2>1 DEF Churn
<1> QED BY <1>1, <1>2, <1>3, StatusStep

\* The backoff elapses.
LEMMA TickKeeps == ASSUME PollInv, Tick PROVE PollInv'
<1>1. /\ UNCHANGED <<provider, box, epoch, arrived, safe, cur, curEpoch, poll, done>>
      /\ UNCHANGED <<active, fails, tasks, faults, churn>>
      /\ wait > 0 /\ wait' = wait - 1
  BY DEF Tick, serverVars, cursorVars, budgetVars
<1>2. StatusType'
  BY <1>1, TypeParts, Constants DEF PollInv, StatusType
<1>3. churn' \in 0..MaxChurn /\ churn' <= churn
  BY <1>1, Constants DEF PollInv, TypeOK
<1> QED BY <1>1, <1>2, <1>3, StatusStep

-----------------------------------------------------------------------------
(* The server                                                              *)

\* The inbox changes: old mail does not rise above a cursor, and what a cursor of the
\* current epoch covers stays covered.
LEMMA ServerStep ==
    ASSUME PollInv, UNCHANGED <<provider, cur, curEpoch, poll, done>>,
           UNCHANGED <<active, fails, wait, tasks, faults>>,
           ServerType', churn' \in 0..MaxChurn, Numbers', Kept',
           arrived <= arrived', epoch <= epoch',
           \A c \in Nat : OldBelow(c) => OldBelow(c)',
           epoch' = epoch =>
             /\ Top <= Top'
             /\ \A c \in Nat : c <= Top => \A todo : Covered(c, todo) => Covered(c, todo)'
    PROVE  PollInv'
<1>1. arrived \in Nat /\ arrived' \in Nat /\ epoch \in Nat /\ epoch' \in Nat /\ Top \in Nat /\ Top' \in Nat
  <2>1. arrived \in Nat /\ epoch \in Nat /\ Top \in Nat
    BY Boxes, Constants
  <2>2. arrived' \in Nat /\ epoch' \in Nat
    BY Constants DEF ServerType
  <2>3. Top' \in Nat
    BY DEF ServerType, Top
  <2> QED BY <2>1, <2>2, <2>3
<1>2. TypeOK'
  <2>1. poll' \in [Workers -> PollType']
    <3>1. PollType \subseteq PollType'
      BY <1>1 DEF PollType
    <3> QED BY <3>1, TypeParts DEF PollInv
  <2>2. CursorType'
    BY <1>1, TypeParts DEF PollInv, CursorType
  <2>3. StatusType' /\ DoneType'
    BY TypeParts DEF PollInv, StatusType, DoneType
  <2> QED BY <2>1, <2>2, <2>3
        DEF TypeOK, ServerType, CursorType, StatusType, DoneType, PollType
<1>3. OldMailUntouched'
  BY DEF PollInv, OldMailUntouched
<1>4. epoch' = epoch => \A c \in Nat : c <= Top /\ Clean(c) => c <= Top' /\ Clean(c)'
  BY <1>1 DEF Clean
<1>5. Polls'
  <2> SUFFICES ASSUME NEW q, q \in {poll[v] : v \in Workers}, q.pc # "idle"
               PROVE  Blind(q)' /\ Sighted(q)'
    BY DEF Polls
  <2>1. Blind(q) /\ Sighted(q) /\ q \in PollType
    BY TypeParts DEF PollInv, Polls
  <2>2. /\ q.from \in Nat /\ q.head \in Nat /\ q.target \in Nat
        /\ q.epoch \in Nat /\ q.seen \in Nat /\ q.epoch <= epoch /\ q.seen <= epoch
    BY <1>1, <2>1 DEF PollType
  <2>3. (Asked(q)' <=> Asked(q)) /\ (Loaded(q)' <=> Loaded(q))
    BY DEF Asked, Loaded
  <2>4. Blind(q)'
    BY <2>1, <2>2, <2>3 DEF Blind
  <2>5. q.pc = "commit" => q.todo = {}
    BY <2>1 DEF Sighted
  <2>6. CASE epoch' = epoch
    <3>1. q.epoch = epoch => q.from <= Top' /\ Clean(q.from)' /\ (Loaded(q)' => q.seen = epoch)
      BY <1>4, <2>1, <2>2, <2>3, <2>6 DEF Sighted
    <3>2. Asked(q)' /\ q.seen = epoch => q.head <= Top'
      BY <1>1, <2>1, <2>2, <2>3, <2>6 DEF Sighted
    <3>3. Loaded(q)' /\ q.seen = epoch => q.target <= Top' /\ Covered(q.target, q.todo)'
      <4>1. Loaded(q) /\ q.seen = epoch => q.target <= Top /\ Covered(q.target, q.todo)
        BY <2>1 DEF Sighted
      <4>2. q.target <= Top /\ Covered(q.target, q.todo) => Covered(q.target, q.todo)'
        <5>1. PICK c, todo : c = q.target /\ todo = q.todo
          OBVIOUS
        <5>2. c \in Nat /\ (c <= Top => (Covered(c, todo) => Covered(c, todo)'))
          BY <2>2, <2>6, <5>1
        <5> QED BY <5>1, <5>2
      <4>3. q.target <= Top => q.target <= Top'
        BY <1>1, <2>2, <2>6
      <4> QED BY <2>3, <4>1, <4>2, <4>3
    <3> QED BY <2>4, <2>5, <2>6, <3>1, <3>2, <3>3 DEF Sighted
  <2>7. CASE epoch' # epoch
    <3>1. q.epoch # epoch' /\ q.seen # epoch'
      BY <1>1, <2>2, <2>7
    <3> QED BY <2>4, <2>5, <3>1 DEF Sighted
  <2> QED BY <2>6, <2>7
<1>6. Cursor'
  <2>1. PICK c : c = cur
    OBVIOUS
  <2>2. c \in Nat /\ cur' = c /\ curEpoch \in Nat /\ curEpoch <= epoch
    BY <1>1, <2>1, Boxes
  <2>3. curEpoch # 0 => OldBelow(c)'
    BY <2>1, <2>2 DEF PollInv, Cursor
  <2>4. curEpoch = epoch' => c <= Top' /\ Clean(c)'
    BY <1>1, <1>4, <2>1, <2>2 DEF PollInv, Cursor
  <2> QED BY <2>2, <2>3, <2>4 DEF Cursor, OldBelow, Clean, Covered
<1> QED BY <1>2, <1>3, <1>5, <1>6 DEF PollInv

\* A message arrives.
LEMMA ArriveKeeps == ASSUME PollInv, Arrive PROVE PollInv'
<1>1. /\ arrived < Len(Kind) /\ arrived' = arrived + 1 /\ box' = Append(box, arrived + 1)
      /\ safe' = IF Settled THEN safe \cup {arrived + 1} ELSE safe
      /\ UNCHANGED <<provider, cur, curEpoch, poll, done, active, fails, wait, tasks, faults>>
      /\ UNCHANGED <<epoch, churn>>
  BY DEF Arrive, cursorVars, statusVars, budgetVars
<1>2. /\ box \in Seq({0} \cup Messages) /\ DOMAIN box = 1..Top /\ Top \in Nat
      /\ Top <= arrived /\ NOld <= arrived /\ arrived \in Nat /\ Len(Kind) \in Nat
      /\ Messages = 1..Len(Kind) /\ NOld \in Nat
      /\ \A i \in 1..Top : box[i] \in {0} \cup Messages /\ box[i] <= arrived
  BY Boxes, Constants DEF PollInv, Numbers
<1>3. arrived + 1 \in Messages
  BY <1>1, <1>2
<1>4. /\ box' \in Seq({0} \cup Messages) /\ Top' = Top + 1 /\ DOMAIN box' = 1..(Top + 1)
      /\ box'[Top + 1] = arrived + 1 /\ \A i \in 1..Top : box'[i] = box[i]
  BY <1>1, <1>2, <1>3 DEF Top
<1>5. ServerType' /\ churn' \in 0..MaxChurn
  <2>1. safe' \subseteq Messages
    BY <1>1, <1>3 DEF PollInv, TypeOK
  <2> QED BY <1>1, <1>2, <1>4, <2>1, SMTT(30) DEF PollInv, TypeOK, ServerType
<1>6. Numbers'
  <2>1. \A i \in DOMAIN box' : box'[i] <= arrived'
    <3>1. \A i \in 1..Top : box[i] \in Nat
      BY <1>2
    <3> QED BY <1>1, <1>2, <1>4, <3>1
  <2>2. NOld <= arrived' /\ Top' <= arrived'
    BY <1>1, <1>2, <1>4
  <2> QED BY <1>1, <2>1, <2>2 DEF PollInv, Numbers
<1>7. Kept'
  BY <1>1 DEF PollInv, Kept, Settled
<1>8. ASSUME NEW c \in Nat, OldBelow(c) PROVE OldBelow(c)'
  <2> SUFFICES ASSUME NEW i \in DOMAIN box', c < i, box'[i] # 0 PROVE NOld < box'[i]
    BY DEF OldBelow
  <2>1. CASE i = Top + 1
    BY <1>2, <1>4, <2>1
  <2>2. CASE i # Top + 1
    <3>1. i \in 1..Top
      BY <1>2, <1>4, <2>2
    <3> QED BY <1>2, <1>4, <1>8, <3>1 DEF OldBelow
  <2> QED BY <2>1, <2>2
<1>9. ASSUME NEW c \in Nat, c <= Top, NEW todo, Covered(c, todo) PROVE Covered(c, todo)'
  <2> SUFFICES ASSUME NEW i \in DOMAIN box', i <= c, box'[i] # 0, box'[i] \in safe'
               PROVE  Finished(box[i])' \/ box'[i] \in todo
    BY DEF Covered
  <2>1. i \in 1..Top /\ i \in DOMAIN box /\ box'[i] = box[i]
    BY <1>2, <1>4, <1>9
  <2>2. box[i] # arrived + 1
    BY <1>2, <2>1
  <2>3. box[i] \in safe
    BY <1>1, <2>1, <2>2
  <2>4. Finished(box[i]) \/ box[i] \in todo
    BY <1>9, <2>1, <2>3 DEF Covered
  <2> QED BY <1>1, <2>1, <2>4 DEF Finished
<1>10. arrived <= arrived' /\ epoch <= epoch' /\ Top <= Top'
  BY <1>1, <1>2, <1>4, Boxes
<1> QED BY <1>1, <1>5, <1>6, <1>7, <1>8, <1>9, <1>10, ServerStep

\* A message is deleted.
LEMMA DeleteKeeps == ASSUME PollInv, NEW j \in DOMAIN box, Delete(j) PROVE PollInv'
<1>1. /\ box' = [box EXCEPT ![j] = 0]
      /\ safe' = IF provider = "gmail" THEN {} ELSE safe \ {box[j]}
      /\ UNCHANGED <<provider, cur, curEpoch, poll, done, active, fails, wait, tasks, faults>>
      /\ UNCHANGED <<epoch, arrived>> /\ churn > 0 /\ churn' = churn - 1
  BY DEF Delete, cursorVars, statusVars, Churn
<1>2. /\ box \in Seq({0} \cup Messages) /\ DOMAIN box = 1..Top /\ Top \in Nat
      /\ Top <= arrived /\ NOld <= arrived /\ arrived \in Nat /\ epoch \in Nat
      /\ \A i \in 1..Top : box[i] \in {0} \cup Messages /\ box[i] <= arrived
      /\ churn \in 0..MaxChurn /\ MaxChurn \in Nat
  BY Boxes, Constants DEF PollInv, Numbers, TypeOK
<1>3. /\ box' \in Seq({0} \cup Messages) /\ Top' = Top /\ DOMAIN box' = 1..Top
      /\ \A i \in 1..Top : box'[i] = IF i = j THEN 0 ELSE box[i]
  BY <1>1, <1>2 DEF Top
<1>4. safe' \subseteq safe
  BY <1>1
<1>5. ServerType' /\ churn' \in 0..MaxChurn
  BY <1>1, <1>2, <1>3, <1>4, SMTT(30) DEF PollInv, TypeOK, ServerType
<1>6. Numbers'
  BY <1>1, <1>2, <1>3 DEF PollInv, Numbers
<1>7. Kept'
  BY <1>1, <1>4 DEF PollInv, Kept
<1>8. ASSUME NEW c \in Nat, OldBelow(c) PROVE OldBelow(c)'
  BY <1>2, <1>3, <1>8 DEF OldBelow
<1>9. ASSUME NEW c \in Nat, NEW todo, Covered(c, todo) PROVE Covered(c, todo)'
  BY <1>1, <1>2, <1>3, <1>4, <1>9 DEF Covered, Finished
<1>10. arrived <= arrived' /\ epoch <= epoch' /\ Top <= Top'
  BY <1>1, <1>2, <1>3
<1> QED BY <1>1, <1>5, <1>6, <1>7, <1>8, <1>9, <1>10, ServerStep

\* An increasing sequence of messages is injective and its values are ordered.
LEMMA Increasing ==
    ASSUME NEW n \in Nat, NEW kept \in SUBSET Nat, NEW b \in [1..n -> kept],
           \A i, j \in 1..n : i < j => b[i] < b[j]
    PROVE  \A i, j \in 1..n : (i <= j => b[i] <= b[j]) /\ (b[i] = b[j] => i = j)
<1> TAKE i, j \in 1..n
<1>1. i \in Nat /\ j \in Nat /\ b[i] \in Nat /\ b[j] \in Nat
  <2>1. b[i] \in kept /\ b[j] \in kept
    OBVIOUS
  <2>2. kept \subseteq Nat
    OBVIOUS
  <2>3. i \in Nat /\ j \in Nat
    OBVIOUS
  <2>4. b[i] \in Nat /\ b[j] \in Nat
    BY <2>1, <2>2, Zenon
  <2> QED BY <2>3, <2>4
<1>2. CASE i < j
  BY <1>1, <1>2
<1>3. CASE j < i
  BY <1>1, <1>3
<1>4. CASE i = j
  BY <1>1, <1>4
<1> QED BY <1>1, <1>2, <1>3, <1>4

\* The mail that is still there fits below the old head.
LEMMA StillThere ==
    ASSUME PollInv
    PROVE  LET kept == {box[i] : i \in DOMAIN box} \ {0}
           IN  /\ kept \in SUBSET Messages /\ kept \in SUBSET Nat
               /\ \A m \in kept : m <= arrived
               /\ Cardinality(kept) \in Nat /\ Cardinality(kept) <= Top
<1> DEFINE all == {box[i] : i \in 1..Top}
           kept == {box[i] : i \in DOMAIN box} \ {0}
<1>1. /\ DOMAIN box = 1..Top /\ Top \in Nat
      /\ \A i \in 1..Top : box[i] \in {0} \cup Messages /\ box[i] <= arrived
      /\ Messages \subseteq Nat
  BY Boxes, Constants DEF PollInv, Numbers
<1>2. IsFiniteSet(1..Top) /\ Cardinality(1..Top) = Top
  <2>1. Cardinality(1..Top) = IF 1 > Top THEN 0 ELSE Top - 1 + 1
    BY <1>1, FS_Interval
  <2> QED BY <1>1, <2>1, FS_Interval
<1>3. IsFiniteSet(all) /\ Cardinality(all) <= Top
  BY <1>2, ImageSize
<1>4. /\ kept \in SUBSET Messages /\ kept \in SUBSET Nat /\ kept \in SUBSET all
      /\ \A m \in kept : m <= arrived
  BY <1>1
<1> HIDE DEF all, kept
<1>5. IsFiniteSet(kept) /\ Cardinality(kept) <= Cardinality(all)
  BY <1>3, <1>4, FS_Subset
<1>6. Cardinality(kept) \in Nat /\ Cardinality(all) \in Nat
  BY <1>3, <1>5, FS_CardinalityType
<1>7. Cardinality(kept) <= Top
  BY <1>1, <1>3, <1>5, <1>6
<1> QED BY <1>4, <1>6, <1>7 DEF kept

\* Renumbering moves no message up, so it lifts no old mail above a cursor.
LEMMA RenumberingKeepsOldBelow ==
    ASSUME PollInv, box' \in Renumbered, NEW c \in Nat, OldBelow(c)
    PROVE  OldBelow(c)'
<1> DEFINE kept == {box[i] : i \in DOMAIN box} \ {0}
           n == Cardinality(kept)
           all == {box[j] : j \in 1..c}
<1>1. kept \in SUBSET Nat /\ n \in Nat
  BY StillThere
<1>2. DOMAIN box' = 1..n /\ box' \in [1..n -> kept]
  BY DEF Renumbered
<1>3. \A i, j \in 1..n : i < j => box'[i] < box'[j]
  BY <1>2 DEF Renumbered
<1>4. \A m \in kept : m <= NOld => m \in all
  <2> SUFFICES ASSUME NEW m \in kept, m <= NOld PROVE m \in all
    OBVIOUS
  <2>1. PICK k \in DOMAIN box : m = box[k] /\ box[k] # 0
    OBVIOUS
  <2>2. k \in Nat /\ k >= 1 /\ m \in Nat /\ NOld \in Nat
    BY <1>1, Boxes, Constants
  <2>3. ~(c < k)
    BY <2>1, <2>2 DEF OldBelow
  <2>4. k \in 1..c
    BY <2>2, <2>3
  <2> QED BY <2>1, <2>4
<1> HIDE DEF kept, n
<1>5. \A i, j \in 1..n : (i <= j => box'[i] <= box'[j]) /\ (box'[i] = box'[j] => i = j)
  <2>1. PICK b : b = box'
    OBVIOUS
  <2>2. b \in [1..n -> kept] /\ \A i, j \in 1..n : i < j => b[i] < b[j]
    BY <1>2, <1>3, <2>1
  <2>3. \A i, j \in 1..n : (i <= j => b[i] <= b[j]) /\ (b[i] = b[j] => i = j)
    BY <1>1, <2>2, Increasing
  <2> QED BY <2>1, <2>3
<1>6. IsFiniteSet(all) /\ Cardinality(all) <= c /\ Cardinality(all) \in Nat
  <2>1. Cardinality(1..c) = IF 1 > c THEN 0 ELSE c - 1 + 1
    BY FS_Interval
  <2>2. IsFiniteSet(1..c) /\ Cardinality(1..c) = c
    BY <2>1, FS_Interval
  <2>3. IsFiniteSet(all) /\ Cardinality(all) <= c
    BY <2>2, ImageSize
  <2> QED BY <2>3, FS_CardinalityType
<1> HIDE DEF all
<1>7. ASSUME NEW i \in 1..n, c < i PROVE NOld < box'[i]
  <2> SUFFICES ASSUME ~(NOld < box'[i]) PROVE FALSE
    OBVIOUS
  <2>1. i \in Nat /\ box'[i] \in Nat /\ NOld \in Nat /\ box'[i] <= NOld
    <3>1. i \in Nat /\ box'[i] \in kept
      BY <1>1, <1>2
    <3>2. box'[i] \in Nat /\ NOld \in Nat
      BY <1>1, <3>1, Constants
    <3>3. ~(NOld < box'[i])
      OBVIOUS
    <3> QED BY <3>1, <3>2, <3>3
  <2>2. ASSUME NEW j \in 1..i PROVE box'[j] \in all
    <3>1. j \in 1..n /\ j <= i
      BY <1>1, <2>1
    <3>2. box'[j] \in kept /\ box'[j] \in Nat /\ box'[j] <= box'[i]
      BY <1>1, <1>2, <1>5, <3>1
    <3> QED BY <1>4, <2>1, <3>2
  <2>3. PICK f : f = [j \in 1..i |-> box'[j]]
    OBVIOUS
  <2>4. f \in [1..i -> all]
    BY <2>2, <2>3
  <2>5. \A j, k \in 1..i : f[j] = f[k] => j = k
    <3>1. \A j \in 1..i : j \in 1..n
      BY <1>1, <2>1
    <3> QED BY <1>5, <2>3, <3>1
  <2>6. f \in Injection(1..i, all)
    BY <2>3, <2>4, <2>5 DEF Injection, IsInjective
  <2>7. Cardinality(1..i) <= Cardinality(all)
    BY <1>6, <2>6, FS_Injection
  <2>8. Cardinality(1..i) = i
    <3>1. Cardinality(1..i) = IF 1 > i THEN 0 ELSE i - 1 + 1
      BY <2>1, FS_Interval
    <3> QED BY <2>1, <3>1
  <2> QED BY <1>6, <1>7, <2>1, <2>7, <2>8
<1> QED BY <1>2, <1>7 DEF OldBelow

\* The server renumbers its inbox, or forgets the cursors it gave out.
LEMMA NewEpochKeeps == ASSUME PollInv, NewEpoch PROVE PollInv'
<1>1. /\ epoch' = epoch + 1 /\ safe' = {} /\ churn > 0 /\ churn' = churn - 1
      /\ IF provider = "smtp" THEN box' \in Renumbered ELSE UNCHANGED box
      /\ UNCHANGED <<provider, cur, curEpoch, poll, done, active, fails, wait, tasks, faults>>
      /\ UNCHANGED arrived
  BY DEF NewEpoch, cursorVars, statusVars, Churn
<1>2. /\ churn \in Nat /\ epoch \in Nat /\ epoch > 0 /\ MaxChurn \in Nat
      /\ epoch + churn <= MaxChurn + 1 /\ churn <= MaxChurn
  BY Boxes, Constants DEF PollInv, TypeOK, Numbers
<1>3. epoch' \in 1..(MaxChurn + 1) /\ churn' \in 0..MaxChurn /\ epoch' + churn' <= MaxChurn + 1
  BY <1>1, <1>2
<1>4. /\ box \in Seq({0} \cup Messages) /\ DOMAIN box = 1..Top /\ Top \in Nat
      /\ Top <= arrived /\ NOld <= arrived /\ arrived \in Nat
      /\ \A i \in 1..Top : box[i] <= arrived
  BY Boxes, Constants DEF PollInv, Numbers
<1>5. /\ box' \in Seq({0} \cup Messages) /\ Top' <= arrived
      /\ \A i \in DOMAIN box' : box'[i] <= arrived
  <2>1. CASE provider = "smtp"
    <3> DEFINE kept == {box[i] : i \in DOMAIN box} \ {0}
               n == Cardinality(kept)
    <3>1. /\ kept \in SUBSET Messages /\ n \in Nat /\ n <= Top
          /\ \A m \in kept : m <= arrived
      BY StillThere
    <3>2. box' \in [1..n -> kept]
      BY <1>1, <2>1 DEF Renumbered
    <3> HIDE DEF kept, n
    <3>3. box' \in [1..n -> {0} \cup Messages]
      BY <3>1, <3>2
    <3>4. box' \in Seq({0} \cup Messages) /\ Len(box') = n /\ DOMAIN box' = 1..n
      BY <3>1, <3>3
    <3> QED BY <1>4, <3>1, <3>2, <3>4 DEF Top
  <2>2. CASE provider # "smtp"
    BY <1>1, <1>4, <2>2 DEF Top
  <2> QED BY <2>1, <2>2
<1>6. ServerType'
  BY <1>1, <1>3, <1>5 DEF PollInv, TypeOK, ServerType
<1>7. Numbers' /\ Kept'
  BY <1>1, <1>3, <1>4, <1>5 DEF Numbers, Kept
<1>8. ASSUME NEW c \in Nat, OldBelow(c) PROVE OldBelow(c)'
  <2>1. CASE provider = "smtp"
    BY <1>1, <1>8, <2>1, RenumberingKeepsOldBelow
  <2>2. CASE provider # "smtp"
    BY <1>1, <1>8, <2>2 DEF OldBelow
  <2> QED BY <2>1, <2>2
<1>9. epoch' # epoch /\ epoch <= epoch' /\ arrived <= arrived'
  BY <1>1, <1>2, <1>4
<1> QED BY <1>1, <1>3, <1>6, <1>7, <1>8, <1>9, ServerStep

-----------------------------------------------------------------------------
(* The theorems                                                            *)

\* A mailbox that was just connected.
LEMMA PollInvInit == Init => PollInv
<1> SUFFICES ASSUME Init PROVE PollInv
  OBVIOUS
<1>1. /\ box = [i \in 1..NOld |-> i] /\ epoch = 1 /\ arrived = NOld /\ cur = 0 /\ curEpoch = 0
      /\ active = TRUE /\ fails = 0 /\ wait = 0 /\ tasks = 0
      /\ poll = [w \in Workers |-> Idle] /\ done = [m \in Messages |-> 0] /\ safe = {}
      /\ faults = MaxFaults /\ churn = MaxChurn /\ provider \in {"smtp", "gmail", "m365"}
  BY DEF Init
<1>2. /\ NOld \in Nat /\ Len(Kind) \in Nat /\ NOld <= Len(Kind) /\ 1..NOld \subseteq Messages
      /\ MaxTasks \in Nat /\ MaxFaults \in Nat /\ MaxChurn \in Nat /\ Permanent \in Nat
      /\ Len(Ladder) \in Nat
  BY Constants
<1>3. box \in Seq({0} \cup Messages) /\ Top = NOld /\ DOMAIN box = 1..NOld
  <2>1. box \in [1..NOld -> {0} \cup Messages]
    BY <1>1, <1>2
  <2> QED BY <1>2, <2>1 DEF Top
<1>4. ServerType /\ CursorType /\ StatusType
  BY <1>1, <1>2, <1>3 DEF ServerType, CursorType, StatusType
<1>5. DoneType
  BY <1>1, EffectsOf DEF DoneType
<1>6. poll \in [Workers -> PollType] /\ \A w \in Workers : poll[w].pc = "idle"
  BY <1>1, <1>2 DEF PollType, Idle
<1>7. TypeOK
  BY <1>1, <1>2, <1>4, <1>5, <1>6, TypeParts
<1>8. Numbers
  BY <1>1, <1>2, <1>3 DEF Numbers
<1>9. OldMailUntouched
  BY <1>1, <1>2 DEF OldMailUntouched
<1>10. Polls /\ Kept
  BY <1>1, <1>6 DEF Polls, Kept
<1>11. Cursor
  BY <1>1 DEF Cursor
<1> QED BY <1>7, <1>8, <1>9, <1>10, <1>11 DEF PollInv

\* No step of a poll, of the server or of the operator breaks it.
LEMMA PollInvStep == PollInv /\ [Next]_vars => PollInv'
<1> SUFFICES ASSUME PollInv, [Next]_vars PROVE PollInv'
  OBVIOUS
<1>1. CASE Sweep
  BY <1>1, SweepKeeps
<1>2. ASSUME NEW w \in Workers, Start(w) \/ Work(w) \/ Crash(w) PROVE PollInv'
  <2>1. CASE Start(w)
    BY <2>1, StartKeeps
  <2>2. CASE Work(w)
    BY <2>2, StateKeeps, FetchKeeps, WedgedKeeps, ProcessKeeps, SetKeeps DEF Work
  <2>3. CASE Crash(w)
    BY <2>3, CrashKeeps
  <2> QED BY <1>2, <2>1, <2>2, <2>3
<1>3. CASE Arrive
  BY <1>3, ArriveKeeps
<1>4. ASSUME NEW i \in DOMAIN box, Delete(i) PROVE PollInv'
  BY <1>4, DeleteKeeps
<1>5. CASE NewEpoch
  BY <1>5, NewEpochKeeps
<1>6. CASE UpdateMailboxStatus
  BY <1>6, UpdateKeeps
<1>7. CASE Tick
  BY <1>7, TickKeeps
<1>8. CASE UNCHANGED vars
  <2>1. /\ UNCHANGED <<provider, box, epoch, arrived, safe, cur, curEpoch, poll, done>>
        /\ UNCHANGED <<active, fails, wait, tasks, faults, churn>>
    BY <1>8 DEF vars, serverVars, cursorVars, statusVars, budgetVars
  <2>2. StatusType'
    BY <2>1, TypeParts DEF PollInv, StatusType
  <2>3. churn' \in 0..MaxChurn /\ churn' <= churn
    BY <2>1, Constants DEF PollInv, TypeOK
  <2> QED BY <2>1, <2>2, <2>3, StatusStep
<1> QED BY <1>1, <1>2, <1>3, <1>4, <1>5, <1>6, <1>7, <1>8 DEF Next

\* The invariant holds in every state.
LEMMA PollInvAlways == Spec => []PollInv
<1> QED BY PollInvInit, PollInvStep, PTL DEF Spec

\* Polls, cursors and numbers are what they are declared to be; in particular no cursor is
\* ever written that lies beyond the mail that has arrived (SetInboxCursor).
THEOREM PollsTyped == Spec => []TypeOK
<1>1. PollInv => TypeOK
  BY DEF PollInv
<1> QED BY <1>1, PollInvAlways, PTL

\* However polls overlap, crash, are repeated or commit late, and wherever the batches
\* fall, the cursor that is stored for the current epoch lies above no message that was not
\* dealt with in full (poll.go: a message that fails leaves the cursor where it is).
THEOREM TheCursorSkipsNothing == Spec => []NothingSkipped
<1>1. ASSUME PollInv, curEpoch = epoch, NEW i \in 1..cur, box[i] # 0 /\ box[i] \in safe
      PROVE  Finished(box[i])
  <2>1. cur <= Top /\ Covered(cur, {}) /\ DOMAIN box = 1..Top /\ Top \in Nat /\ cur \in Nat
    BY <1>1, Boxes DEF PollInv, Cursor, Clean
  <2>2. i \in DOMAIN box /\ i <= cur
    BY <2>1
  <2> QED BY <1>1, <2>1, <2>2 DEF Covered
<1>2. PollInv => NothingSkipped
  BY <1>1 DEF NothingSkipped
<1> QED BY <1>2, PollInvAlways, PTL

\* What was in the inbox when the mailbox was connected is never processed, through every
\* re-baseline, renumbering and late commit of an older cursor.
THEOREM OldMailIsNeverTaken == Spec => []OldMailUntouched
<1>1. PollInv => OldMailUntouched
  BY DEF PollInv
<1> QED BY <1>1, PollInvAlways, PTL
=============================================================================
