---------------------------- MODULE WarmupLanes ----------------------------
(***************************************************************************)
(* The warmup pool's containment policy for one mailbox address.           *)
(*                                                                         *)
(* A mailbox that takes part in warmup has a row with two axes: its health *)
(* (how its mail performs) and its lane (whom it may exchange mail with).  *)
(* A sweep runs every five minutes, re-reads the evidence, decides both    *)
(* axes (internal/platform/warmup/policy.go) and writes them with a        *)
(* compare-and-set.  Two sweeps may overlap: the schedule is not unique    *)
(* and a sweep may run for ten minutes.  Meanwhile the operator enables    *)
(* and disables warmup, deletes the mailbox and adds the address again.    *)
(*                                                                         *)
(* Evidence is abstracted to what the policy tells apart: the worst band   *)
(* each kind of evidence warrants, whether there is enough of it, and      *)
(* whether it is fresh.  Rates and the Wilson bound are left out.  A tick  *)
(* of the clock is a day; the sweep's ten-minute limit keeps an evaluation *)
(* from spanning one.                                                      *)
(***************************************************************************)
EXTENDS WarmupPolicy

CONSTANTS
    Evaluators,     \* sweeps that may overlap
    Cooldown,       \* QuarantineCooldown, in days
    PausedDwell,    \* how long a paused mailbox stays blocked, in days
    ThrottledDwell, \* how long a throttled mailbox stays blocked, in days
    Grace,          \* LaneEvidenceGrace, rounded up to a day
    Bands,          \* bound: the bands placement evidence takes
    Findings,       \* bound: what bounce and complaint evidence amounts to
    MaxReports      \* bound: bounce and complaint findings in one behaviour

ASSUME DurationsAssumption ==
    /\ Cooldown \in Nat \ {0}
    /\ PausedDwell \in Nat
    /\ ThrottledDwell \in Nat
    /\ Grace \in Nat
    /\ Bands \subseteq 0..3
    /\ Findings \subseteq {"clean", "thin", "asserted", "watch", "throttled", "paused"}
    /\ MaxReports \in Nat

VARIABLES
    row,        \* the warmup_participants row, or NotEnrolled
    trail,      \* what warmup_state_transitions says of the address: whether its
                \* last lane is one that is carried forward, how long ago it last
                \* entered quarantine, and how long ago its evidence lapsed while
                \* that is within the grace
    evidence,   \* the signals a refresh would materialize now
    auth,       \* the sending domain passes and the mailbox is connected
    underway,   \* warmup mail sent earlier may still be observed
    decided,    \* each sweep's decision that is not yet written, or Undecided
    reports,    \* bounce and complaint findings so far
    relapsed    \* ghost: a release was written by a sweep that had read the row
                \* before its latest quarantine began

laneVars == <<row, trail, evidence, auth, underway, decided, reports, relapsed>>

Never == -1     \* the trail records no such moment
NotEnrolled == [lane |-> "none"]
Undecided == [lane |-> "idle"]

Min(a, b) == IF a < b THEN a ELSE b
Max(a, b) == IF a > b THEN a ELSE b

-----------------------------------------------------------------------------
(* Evidence.  Clean placements vouch for a mailbox only while there are     *)
(* enough of them and the newest is fresh; too few and too old are the same *)
(* to the policy, and both are None.  A measured arm (bounces, complaints)  *)
(* may alarm while it is too thin to establish a band; an asserted report   *)
(* counts as watch whatever its rate.                                       *)

None == -1
EvidenceType == [place : {None} \union Bands, reported : Findings \union {"clean"}]
NoEvidence == [place |-> None, reported |-> "clean"]

promotionAlarmed(s) == s.reported # "clean"

findingRank(f) == IF f = "asserted" THEN 1 ELSE stateRank(f)

worstBand(s) == Max(Max(0, s.place), findingRank(s.reported))

-----------------------------------------------------------------------------
(* The policy: pure functions of the row, the evidence and the trail. *)

evaluateHealth(r, s) ==
    LET worst == worstBand(s)
        current == stateRank(r.health)
        unproven == worst = 0 /\ s.place = None
    IN IF unproven THEN (IF current > 0 THEN r.health ELSE "unknown")
       ELSE IF worst < current THEN stateAtRank(current - 1)
       ELSE stateAtRank(worst)

IsRecovery(from, to) == stateRank(to) < stateRank(from)

(* A health recovery waits until the timed block has run out. *)
HoldRecoveryDuringBlock(r, h) ==
    IF IsRecovery(r.health, h) /\ r.blockedFor > 0 THEN r.health ELSE h

holdsForEvidenceGrace(r, s, t, h) ==
    /\ ~promotionAlarmed(s)
    /\ h = "unknown"
    /\ \/ r.health # "unknown"
       \/ t.lapsed # Never

evaluateLane(r, s, t, a, h) ==
    LET degraded == stateRank(h) >= stateRank("throttled")
        qualified == h = "healthy" /\ s.place # None /\ ~promotionAlarmed(s)
        cooling == t.quarantined # Never /\ t.quarantined < Cooldown
    IN IF r.lane = "blocked" THEN "blocked"
       ELSE IF ~a THEN (IF r.lane = "quarantine" THEN "quarantine" ELSE "pending_auth")
       ELSE IF degraded THEN "quarantine"
       ELSE IF r.lane = "pending_auth" THEN
           (IF cooling THEN "quarantine" ELSE "probation")
       ELSE IF r.lane = "quarantine" THEN
           (IF cooling \/ t.quarantined = Never THEN "quarantine" ELSE "recovery")
       ELSE IF r.lane \in {"probation", "recovery", "watch"} THEN
           (IF qualified THEN "healthy" ELSE r.lane)
       ELSE IF h = "watch" THEN "watch"
       ELSE IF qualified \/ holdsForEvidenceGrace(r, s, t, h) THEN "healthy"
       ELSE "probation"

(* What a sweep will write and the row it read; the ghost stale becomes     *)
(* true when a quarantine begins after that read.                           *)
Decision(r, health, lane) ==
    [from |-> [health |-> r.health, lane |-> r.lane], stale |-> FALSE,
     health |-> health, lane |-> lane]

(* As if the hold on recovery were applied after the lane is derived. *)
EvaluateParticipantLateHold(r, s, t, a) ==
    Decision(r, HoldRecoveryDuringBlock(r, evaluateHealth(r, s)),
             evaluateLane(r, s, t, a, evaluateHealth(r, s)))

EvaluateParticipant(r, s, t, a) ==
    LET h == HoldRecoveryDuringBlock(r, evaluateHealth(r, s))
    IN Decision(r, h, evaluateLane(r, s, t, a, h))

ShouldApplyTransition(d) == d.from # [health |-> d.health, lane |-> d.lane]

warmupPausedUntil(h) ==
    CASE h = "paused" -> PausedDwell [] h = "throttled" -> ThrottledDwell [] OTHER -> 0

-----------------------------------------------------------------------------
(* The sweep. *)

(* A sweep refreshes the signals, lists the rows and decides.  A decision   *)
(* that changes nothing is not written.                                     *)
EvaluateRead(e) ==
    /\ decided[e] = Undecided
    /\ row # NotEnrolled
    /\ LET d == EvaluateParticipant(row, evidence, trail, auth)
       IN /\ ShouldApplyTransition(d)
          /\ decided' = [decided EXCEPT ![e] = d]
    /\ UNCHANGED <<row, trail, evidence, auth, underway, reports, relapsed>>

(* As if the compare-and-set looked at the lane alone. *)
RowStillAsReadLaneOnly(d) == row # NotEnrolled /\ row.lane = d.from.lane

RowStillAsRead(d) ==
    /\ row # NotEnrolled
    /\ row.health = d.from.health
    /\ row.lane = d.from.lane

EntersQuarantine(d) == d.lane = "quarantine" /\ d.from.lane # "quarantine"

(* The audit row, as later reads of the trail see it. *)
Recorded(d) ==
    [lane |-> IF d.lane \in {"quarantine", "blocked"} THEN d.lane ELSE "other",
     quarantined |-> IF EntersQuarantine(d) THEN 0 ELSE trail.quarantined,
     lapsed |-> IF d.health = "unknown" /\ d.from.health # "unknown" /\ Grace > 0
                THEN 0 ELSE trail.lapsed]

ApplyWarmupParticipantTransition(e) ==
    /\ decided[e] # Undecided
    /\ LET d == decided[e]
           applied == RowStillAsRead(d)
       IN /\ decided' = [x \in Evaluators |->
                 CASE x = e \/ decided[x] = Undecided -> Undecided
                   [] OTHER -> [decided[x] EXCEPT
                                  !.stale = @ \/ (applied /\ EntersQuarantine(d))]]
          /\ IF applied
             THEN /\ row' = [health |-> d.health, lane |-> d.lane,
                             blockedFor |-> warmupPausedUntil(d.health)]
                  /\ trail' = Recorded(d)
                  /\ underway' = (underway \/ LaneMaySend(d.lane))
                  /\ relapsed' = /\ ~EntersQuarantine(d)
                                 /\ relapsed \/ (d.stale /\ LaneMaySend(d.lane))
             ELSE UNCHANGED <<row, trail, underway, relapsed>>
    /\ UNCHANGED <<evidence, auth, reports>>

(* The statement fails, or the sweep's process dies or times out. *)
EvaluationFails(e) ==
    /\ decided[e] # Undecided
    /\ decided' = [decided EXCEPT ![e] = Undecided]
    /\ UNCHANGED <<row, trail, evidence, auth, underway, reports, relapsed>>

-----------------------------------------------------------------------------
(* The operator. *)

(* As if a fresh row always started in probation. *)
EntryLaneForgets == "probation"

(* The lane a new row starts in: containment is carried forward. *)
EntryLane ==
    IF trail.lane \in {"quarantine", "blocked"} THEN trail.lane ELSE "probation"

(* A second enable of an existing row changes only its ramp settings. *)
UpsertWarmupParticipant ==
    /\ row = NotEnrolled
    /\ row' = [health |-> "unknown", lane |-> EntryLane, blockedFor |-> 0]
    /\ underway' = (underway \/ LaneMaySend(EntryLane))
    /\ UNCHANGED <<trail, evidence, auth, decided, reports, relapsed>>

DisableWarmupParticipant ==
    /\ row # NotEnrolled
    /\ row' = NotEnrolled
    /\ UNCHANGED <<trail, evidence, auth, underway, decided, reports, relapsed>>

(* As if the trail were keyed on the mailbox's id, for the clock only. *)
TrailAfterDeleteById == [trail EXCEPT !.quarantined = Never]

(* The trail is keyed on the address: it outlives the mailbox. *)
TrailAfterDelete == trail

(* Deleting the mailbox deletes its row and its evidence, and what a sweep  *)
(* decided for the old id matches nothing.  Adding the address again is an  *)
(* enable of a mailbox with a new id.                                       *)
DeleteMailbox ==
    /\ row' = NotEnrolled
    /\ evidence' = NoEvidence
    /\ underway' = FALSE
    /\ decided' = [e \in Evaluators |-> Undecided]
    /\ trail' = TrailAfterDelete
    /\ UNCHANGED <<auth, reports, relapsed>>

-----------------------------------------------------------------------------
(* The world. *)

(* A partner's poll observes where warmup mail landed.  Evidence is about   *)
(* the sender, and only a mailbox that sent has any.                        *)
ObservePlacement ==
    /\ underway
    /\ \E b \in {None} \union Bands : evidence' = [evidence EXCEPT !.place = b]
    /\ UNCHANGED <<row, trail, auth, underway, decided, reports, relapsed>>

(* The last of the mail a sealed mailbox had sent has been observed. *)
LastArrival ==
    /\ underway
    /\ row = NotEnrolled \/ ~LaneMaySend(row.lane)
    /\ underway' = FALSE
    /\ UNCHANGED <<row, trail, evidence, auth, decided, reports, relapsed>>

(* The seven-day window slides: samples leave it, which may move the band   *)
(* either way.                                                              *)
PlacementsAge ==
    /\ evidence.place # None
    /\ \E b \in Bands : evidence' = [evidence EXCEPT !.place = b]
    /\ UNCHANGED <<row, trail, auth, underway, decided, reports, relapsed>>

PlacementsGone ==
    /\ evidence.place # None
    /\ ~underway
    /\ evidence' = [evidence EXCEPT !.place = None]
    /\ UNCHANGED <<row, trail, auth, underway, decided, reports, relapsed>>

(* A bounce or complaint is measured, or a feed asserts one. *)
ReportArrives ==
    /\ reports < MaxReports
    /\ reports' = reports + 1
    /\ \E f \in Findings : evidence' = [evidence EXCEPT !.reported = f]
    /\ UNCHANGED <<row, trail, auth, underway, decided, relapsed>>

(* The thirty-day window of campaign and warmup bounces runs out. *)
ReportsGone ==
    /\ evidence.reported # "clean"
    /\ evidence' = [evidence EXCEPT !.reported = "clean"]
    /\ UNCHANGED <<row, trail, auth, underway, decided, reports, relapsed>>

AuthChanges ==
    /\ auth' = ~auth
    /\ UNCHANGED <<row, trail, evidence, underway, decided, reports, relapsed>>

(* A day passes; no evaluation spans it. *)
Tick ==
    /\ \A e \in Evaluators : decided[e] = Undecided
    /\ row' = IF row = NotEnrolled THEN NotEnrolled
              ELSE [row EXCEPT !.blockedFor = Max(0, @ - 1)]
    /\ trail' = [trail EXCEPT
           !.quarantined = IF @ = Never THEN Never ELSE Min(@ + 1, Cooldown),
           !.lapsed = IF @ = Never \/ @ + 1 >= Grace THEN Never ELSE @ + 1]
    /\ relapsed' = (relapsed /\ trail'.quarantined < Cooldown)
    /\ UNCHANGED <<evidence, auth, underway, decided, reports>>

-----------------------------------------------------------------------------

LaneInit ==
    /\ row = NotEnrolled
    /\ trail = [lane |-> "other", quarantined |-> Never, lapsed |-> Never]
    /\ evidence = NoEvidence
    /\ auth \in BOOLEAN
    /\ underway = FALSE
    /\ decided = [e \in Evaluators |-> Undecided]
    /\ reports = 0
    /\ relapsed = FALSE

LaneNext ==
    \/ \E e \in Evaluators :
           \/ EvaluateRead(e)
           \/ ApplyWarmupParticipantTransition(e)
           \/ EvaluationFails(e)
    \/ UpsertWarmupParticipant
    \/ DisableWarmupParticipant
    \/ DeleteMailbox
    \/ ObservePlacement
    \/ LastArrival
    \/ PlacementsAge
    \/ PlacementsGone
    \/ ReportArrives
    \/ ReportsGone
    \/ AuthChanges
    \/ Tick

LaneSpec == LaneInit /\ [][LaneNext]_laneVars

-----------------------------------------------------------------------------
(* Properties *)

(* Every variable holds the kind of value the code keeps there. *)
LaneTypeOK ==
    /\ row \in {NotEnrolled} \union
           [health : Healths, lane : Lanes, blockedFor : 0..Max(PausedDwell, ThrottledDwell)]
    /\ trail \in [lane : {"quarantine", "blocked", "other"},
                  quarantined : Never..Cooldown, lapsed : Never..Grace]
    /\ evidence \in EvidenceType
    /\ auth \in BOOLEAN
    /\ underway \in BOOLEAN
    /\ decided \in [Evaluators -> {Undecided} \union
           [from : [health : Healths, lane : Lanes], stale : BOOLEAN,
            health : Healths, lane : Lanes]]
    /\ reports \in 0..MaxReports
    /\ relapsed \in BOOLEAN

Degraded == row # NotEnrolled /\ stateRank(row.health) >= stateRank("throttled")

(* A mailbox whose stored health is throttled or paused is never in a lane  *)
(* that may send, however sweeps overlap and whatever health the dwell is   *)
(* holding back: EvaluateParticipant decides the lane from the health it    *)
(* will store.                                                              *)
DegradedIsSealed == Degraded => row.lane \in SealedLanes

(* Once an address has entered quarantine it is in no sending lane until    *)
(* the cooldown has passed since: not by disabling and enabling warmup, not *)
(* by deleting the mailbox and adding the address again, not by losing      *)
(* authentication meanwhile.  One way round it is left: the compare-and-set *)
(* compares values, so a sweep that read the row before that quarantine     *)
(* began may still write over a row that has come back to what it read.     *)
CooldownServed ==
    row # NotEnrolled /\ LaneMaySend(row.lane) =>
        \/ trail.quarantined = Never
        \/ trail.quarantined >= Cooldown
        \/ relapsed

(* No quarantine is without the moment its cooldown counts from, so every   *)
(* one can run out: a clock that started under an earlier mailbox id of the *)
(* address is still found.                                                  *)
ContainmentIsAnchored ==
    row # NotEnrolled /\ row.lane = "quarantine" => trail.quarantined # Never

(* While a row lives its health improves by one state at a time, even when  *)
(* a sweep that read an older row writes after one that saw worse evidence. *)
RecoveryIsGradual ==
    [][row # NotEnrolled /\ row' # NotEnrolled /\ IsRecovery(row.health, row'.health)
           => stateRank(row'.health) = stateRank(row.health) - 1]_laneVars
=============================================================================
