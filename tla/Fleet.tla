-------------------------------- MODULE Fleet --------------------------------
(***************************************************************************)
(* Which worker, and so which egress IP, a mailbox's tasks go to.          *)
(*                                                                         *)
(* Workers heartbeat into the registry; a caller (a sweep, or a warmup     *)
(* task scheduling its successor) resolves a mailbox with                  *)
(* AssignMailboxWorker, a handful of statements with no lock around them;  *)
(* the rotation pass scans assignments, measures the fleet and moves a     *)
(* few; the maintenance job reaps workers long gone.  All of them          *)
(* interleave.                                                             *)
(*                                                                         *)
(* Time is kept as ages, in clock ticks: a row's "last_seen_at >= cutoff"  *)
(* is an age compared with the window, plus the time that went by since    *)
(* the caller computed its cutoff.  Every mailbox is active: the scan      *)
(* leaves paused ones out.                                                 *)
(***************************************************************************)
EXTENDS FleetScore

CONSTANTS
    Workers,       \* worker ids: numbers, ordered as worker_id is
    Mailboxes,     \* mailbox ids: numbers, ordered as mailbox_id is
    Callers,       \* concurrent callers of AssignMailboxWorker
    ProviderOf,    \* [Mailboxes -> ProviderNames]
    LiveWindow,    \* workerLiveWindow (15m), in ticks
    CallTimeout,   \* the task deadline of a caller or of a rotation pass
    PurgeAge,      \* PurgeDeadWorkers' retention (24h)
    RowLimit,      \* rotationScanLimit (40)
    Sweep,         \* rotationScanSweep: positions of the scan cursor
    MaxEvents,     \* bound: crashes, missed heartbeats, verdicts, lane changes
    Shifting,      \* bound: mailboxes whose lane may change
    Shared,        \* the shared send queue (an unassigned mailbox)
    Refused        \* ErrNoEligibleWorker: nothing is enqueued

Bands == {"healthy", "risky"}
Row == [worker : Workers, band : Bands, resident : 0..ResidencyFloor]

ASSUME FleetAssumption ==
    /\ Workers \subseteq Nat /\ Mailboxes \subseteq Nat \ {0}
    /\ IsFiniteSet(Workers) /\ IsFiniteSet(Mailboxes)
    /\ ProviderOf \in [Mailboxes -> ProviderNames]
    /\ LiveWindow \in Nat /\ CallTimeout \in Nat /\ PurgeAge \in Nat
    \* the code's windows: 10m for a sweep, 15m live, 24h before the reaper
    /\ PurgeAge > LiveWindow + CallTimeout
    /\ RowLimit \in Nat \ {0} /\ Sweep \in Nat \ {0} /\ MaxEvents \in Nat
    /\ Shifting \subseteq Mailboxes
    /\ {None, Shared, Refused} \cap Workers = {}
    /\ None \notin Nat /\ None \notin Row

VARIABLES
    up,       \* [Workers -> BOOLEAN]: the process runs
    seen,     \* [Workers -> age of the registry row's last_seen_at, or None]
    sig,      \* [Workers -> [provider -> [ok, block]]]: verdicts in the window
    lane,     \* [Mailboxes -> band its warmup lane reads as now]
    asg,      \* [Mailboxes -> assignment row or None]
    call,     \* [Callers -> resolution in flight]
    rot,      \* the rotation pass in flight
    cursor,   \* rotationScanCursor, from the wall clock
    route,    \* [Mailboxes -> where the last resolve sent its task]
    events    \* environment events so far

vars == <<up, seen, sig, lane, asg, call, rot, cursor, route, events>>

\* What the window can say of a worker, as far as the policies tell apart:
\* nothing, only refusals, or more refusals with something completed as well.
Verdicts == {[ok |-> 0, block |-> 0], [ok |-> 0, block |-> 1],
             [ok |-> 1, block |-> 2]}
Ages == 0..(PurgeAge + 1)
Idle == [pc |-> "idle"]

\* A resolution in flight: what it has read so far, and how long ago it computed
\* its cutoff.
Call ==
    LET held == 0..CallTimeout
    IN  [pc : {"facts"}, mb : Mailboxes, held : held]
            \cup [pc : {"sole", "score"}, mb : Mailboxes, band : Bands, held : held]
            \cup [pc : {"persist"}, mb : Mailboxes, band : Bands, pick : Workers,
                  held : held]

\* w's row is at or after a cutoff computed `held` ticks ago.
LiveAt(w, held) == seen[w] # None /\ seen[w] <= LiveWindow + held
LiveSet(held) == {w \in Workers : LiveAt(w, held)}

\* ListPlacementCandidates: every live worker, measured for one mailbox.  One
\* workspace is modelled, so every mailbox on a worker is a tenant's own.
Measure(band, provider, held) ==
    [w \in LiveSet(held) |->
        LET on(p) == Cardinality({m \in Mailboxes : /\ asg[m] # None
                                                    /\ asg[m].worker = w
                                                    /\ ProviderOf[m] = p})
        IN  [load  |-> [p \in ProviderNames |-> on(p)],
             same  |-> Cardinality({m \in Mailboxes : /\ asg[m] # None
                                                      /\ asg[m].worker = w}),
             other |-> Cardinality({m \in Mailboxes : /\ asg[m] # None
                                                      /\ asg[m].worker = w
                                                      /\ asg[m].band # band}),
             ok    |-> sig[w][provider].ok,
             block |-> sig[w][provider].block]]

\* PickLeastLoadedWorker: fewest assignments, then lowest id.
LeastLoaded(held) ==
    LET load(w) == Cardinality({m \in Mailboxes : /\ asg[m] # None
                                                  /\ asg[m].worker = w})
    IN  CHOOSE w \in LiveSet(held) : \A v \in LiveSet(held) \ {w} :
            load(w) < load(v) \/ (load(w) = load(v) /\ w < v)

\* InsertMailboxWorkerAssignment: the incumbent is kept, row and all, while its
\* worker is live under the caller's own cutoff; otherwise the row is taken over.
Upsert_Blind(m, pick, band, held) ==
    [worker |-> pick, band |-> band, resident |-> 0]
Upsert(m, pick, band, held) ==
    IF asg[m] # None /\ LiveAt(asg[m].worker, held)
    THEN asg[m]
    ELSE [worker |-> pick, band |-> band, resident |-> 0]

-----------------------------------------------------------------------------
(* Callers of AssignMailboxWorker.                                         *)

Init ==
    /\ up = [w \in Workers |-> TRUE]
    /\ seen = [w \in Workers |-> 0]
    /\ sig = [w \in Workers |-> [p \in ProviderNames |-> [ok |-> 0, block |-> 0]]]
    /\ lane = [m \in Mailboxes |-> "healthy"]
    /\ asg = [m \in Mailboxes |-> None]
    /\ call = [c \in Callers |-> Idle]
    /\ rot = Idle
    /\ cursor = 0
    /\ route = [m \in Mailboxes |-> None]
    /\ events = 0

\* Step 1, incumbency: one query, and the whole hot path when it answers.
Incumbency_AnyRow(m) == asg[m] # None
Incumbency(m) == asg[m] # None /\ LiveAt(asg[m].worker, 0)

Resolve(c, m) ==
    /\ call[c] = Idle
    /\ IF Incumbency(m)
       THEN /\ route' = [route EXCEPT ![m] = asg[m].worker]
            /\ UNCHANGED call
       ELSE /\ call' = [call EXCEPT ![c] = [pc |-> "facts", mb |-> m, held |-> 0]]
            /\ UNCHANGED route
    /\ UNCHANGED <<up, seen, sig, lane, asg, rot, cursor, events>>

\* Steps 2 and 3: the mailbox's band, and the self-host bypass for a fleet of at
\* most one live worker.
Facts(c) ==
    /\ call[c].pc = "facts"
    /\ call' = [call EXCEPT ![c] =
           [pc |-> IF Cardinality(LiveSet(@.held)) <= 1 THEN "sole" ELSE "score",
            mb |-> @.mb, band |-> lane[@.mb], held |-> @.held]]
    /\ UNCHANGED <<up, seen, sig, lane, asg, rot, cursor, route, events>>

\* placeOnSoleWorker's pick.  With no live worker nothing is persisted and the
\* task takes the shared send queue.
PickSole(c) ==
    /\ call[c].pc = "sole"
    /\ IF LiveSet(call[c].held) = {}
       THEN /\ call' = [call EXCEPT ![c] = Idle]
            /\ route' = [route EXCEPT ![call[c].mb] = Shared]
       ELSE /\ call' = [call EXCEPT ![c] =
                   [pc |-> "persist", mb |-> @.mb, band |-> @.band,
                    pick |-> LeastLoaded(@.held), held |-> @.held]]
            /\ UNCHANGED route
    /\ UNCHANGED <<up, seen, sig, lane, asg, rot, cursor, events>>

\* placeByScore's pick: refused when every live worker is refused by the provider.
PickByScore(c) ==
    /\ call[c].pc = "score"
    /\ \E fleet \in {Measure(call[c].band, ProviderOf[call[c].mb], call[c].held)} :
       \E score \in {Scores(fleet, ProviderOf[call[c].mb])} :
           IF DOMAIN score = {}
           THEN /\ call' = [call EXCEPT ![c] = Idle]
                /\ route' = [route EXCEPT ![call[c].mb] = Refused]
           ELSE /\ \E best \in {Best(score, DOMAIN score)} :
                       call' = [call EXCEPT ![c] =
                           [pc |-> "persist", mb |-> @.mb, band |-> @.band,
                            pick |-> best, held |-> @.held]]
                /\ UNCHANGED route
    /\ UNCHANGED <<up, seen, sig, lane, asg, rot, cursor, events>>

\* persistAssignment, and the queue of the worker the statement returned.
Persist(c) ==
    /\ call[c].pc = "persist"
    /\ LET m == call[c].mb
           row == Upsert(m, call[c].pick, call[c].band, call[c].held)
       IN  /\ asg' = [asg EXCEPT ![m] = row]
           /\ route' = [route EXCEPT ![m] = row.worker]
    /\ call' = [call EXCEPT ![c] = Idle]
    /\ UNCHANGED <<up, seen, sig, lane, rot, cursor, events>>

-----------------------------------------------------------------------------
(* The rotation pass (rotateFleet).                                        *)

\* ListRotationCandidates' prefilter over the assignments, with the facts the
\* policy decides on.
Incumbent(m) ==
    LET w == asg[m].worker
        verdict == sig[w][ProviderOf[m]]
    IN  [mailbox |-> m, worker |-> w, provider |-> ProviderOf[m],
         band |-> lane[m], resident |-> asg[m].resident, live |-> LiveAt(w, 0),
         ok |-> verdict.ok, block |-> verdict.block]

Qualifies(inc) == ~inc.live \/ inc.block > 0 \/ inc.resident >= ResidencyFloor

\* Its ORDER BY: dead incumbents, then by refusals, then the ring from the cursor.
ScannedBefore(i, j, cur) ==
    LET past(x) == x.mailbox < cur
    IN  \/ ~i.live /\ j.live
        \/ i.live = j.live /\ i.block > j.block
        \/ /\ i.live = j.live /\ i.block = j.block
           /\ \/ ~past(i) /\ past(j)
              \/ (past(i) <=> past(j)) /\ i.mailbox < j.mailbox

Scan ==
    LET ids == {m \in Mailboxes : asg[m] # None /\ Qualifies(Incumbent(m))}
        ahead(m) == {n \in ids : ScannedBefore(Incumbent(n), Incumbent(m), cursor)}
    IN  {Incumbent(m) : m \in {n \in ids : Cardinality(ahead(n)) < RowLimit}}

\* Prioritise: most urgent first, then longest resident.  The sort is stable over
\* the scan, whose last key is the mailbox id.
NextIncumbent(rows, cur) ==
    CHOOSE i \in rows : \A j \in rows \ {i} :
        \/ Tier(i) > Tier(j)
        \/ Tier(i) = Tier(j) /\ i.resident > j.resident
        \/ /\ Tier(i) = Tier(j) /\ i.resident = j.resident
           /\ ScannedBefore(i, j, cur)

FreshPlan == [moved |-> 0, byDest |-> [w \in Workers |-> 0]]

\* The pass stops at once when there is nowhere to rotate to.
RotateStart ==
    /\ rot = Idle
    /\ Cardinality(LiveSet(0)) > 1
    /\ Scan # {}
    /\ rot' = [pc |-> "consider", rows |-> Scan, plan |-> FreshPlan,
               cache |-> << >>, cur |-> cursor, held |-> 0]
    /\ UNCHANGED <<up, seen, sig, lane, asg, call, cursor, route, events>>

\* What considering one incumbent leaves of the pass.  A move is counted against
\* the plan before it is written.
Considered(inc, fleet, dest) ==
    LET rest == rot.rows \ {inc}
        key == <<inc.band, inc.provider>>
        cache == [k \in DOMAIN rot.cache \cup {key} |->
                     IF k = key THEN fleet ELSE rot.cache[k]]
    IN  rot' = IF dest # None
               THEN [pc |-> "apply", rows |-> rest,
                     plan |-> [rot.plan EXCEPT !.moved = @ + 1, !.byDest[dest] = @ + 1],
                     cache |-> cache, cur |-> rot.cur, held |-> rot.held,
                     inc |-> inc, to |-> dest]
               ELSE IF rest = {} THEN Idle
               ELSE [pc |-> "consider", rows |-> rest, plan |-> rot.plan,
                     cache |-> cache, cur |-> rot.cur, held |-> rot.held]

\* One incumbent: the fleet is measured (or read from the pass's cache, which
\* lives until the next applied move) and the policy decides.
RotateConsider ==
    /\ rot.pc = "consider"
    /\ \E inc \in {NextIncumbent(rot.rows, rot.cur)} :
       \E fleet \in {IF <<inc.band, inc.provider>> \in DOMAIN rot.cache
                     THEN rot.cache[<<inc.band, inc.provider>>]
                     ELSE Measure(inc.band, inc.provider, rot.held)} :
       \E score \in {Scores(Vacated(fleet, inc), inc.provider)} :
           Considered(inc, fleet, Destination(inc, score, rot.plan))
    /\ UNCHANGED <<up, seen, sig, lane, asg, call, cursor, route, events>>

\* applyRotation: the write is guarded on the worker the decision was made about;
\* a mailbox that left it meanwhile is skipped.  An applied move drops the cache.
RotateApply ==
    /\ rot.pc = "apply"
    /\ LET m == rot.inc.mailbox
           hit == asg[m] # None /\ asg[m].worker = rot.inc.worker
       IN  /\ asg' = IF hit
                     THEN [asg EXCEPT ![m] = [worker |-> rot.to,
                                              band |-> rot.inc.band,
                                              resident |-> 0]]
                     ELSE asg
           /\ rot' = IF rot.rows = {} \/ Full(rot.plan) THEN Idle
                     ELSE [pc |-> "consider", rows |-> rot.rows,
                           plan |-> rot.plan, cur |-> rot.cur, held |-> rot.held,
                           cache |-> IF hit THEN << >> ELSE rot.cache]
    /\ UNCHANGED <<up, seen, sig, lane, call, cursor, route, events>>

-----------------------------------------------------------------------------
(* Workers, the maintenance job, and time.                                 *)

Bounded == events < MaxEvents /\ events' = events + 1

Heartbeat(w) ==
    /\ up[w] /\ seen[w] # 0
    /\ seen' = [seen EXCEPT ![w] = 0]
    /\ UNCHANGED <<up, sig, lane, asg, call, rot, cursor, route, events>>

Crash(w) ==
    /\ up[w] /\ Bounded
    /\ up' = [up EXCEPT ![w] = FALSE]
    /\ UNCHANGED <<seen, sig, lane, asg, call, rot, cursor, route>>

\* startHeartbeat registers before the first task.  A worker restarts as often as it
\* crashed.
Restart(w) ==
    /\ ~up[w]
    /\ up' = [up EXCEPT ![w] = TRUE]
    /\ seen' = [seen EXCEPT ![w] = 0]
    /\ UNCHANGED <<sig, lane, asg, call, rot, cursor, route, events>>

\* The verdicts in the window change: a flush adds some, old ones leave.
Signals(w, p, v) ==
    /\ v # sig[w][p] /\ Bounded
    /\ sig' = [sig EXCEPT ![w][p] = v]
    /\ UNCHANGED <<up, seen, lane, asg, call, rot, cursor, route>>

LaneChange(m) ==
    /\ Bounded
    /\ lane' = [lane EXCEPT ![m] = IF @ = "healthy" THEN "risky" ELSE "healthy"]
    /\ UNCHANGED <<up, seen, sig, asg, call, rot, cursor, route>>

\* PurgeDeadWorkers deletes the registry row and the assignments pinned to it.
Dead_AtLiveWindow == {w \in Workers : seen[w] # None /\ seen[w] > LiveWindow}
Dead == {w \in Workers : seen[w] # None /\ seen[w] > PurgeAge}

PurgeDeadWorkers ==
    /\ Dead # {}
    /\ LET dead == Dead
       IN  /\ seen' = [w \in Workers |-> IF w \in dead THEN None ELSE seen[w]]
           /\ asg' = [m \in Mailboxes |->
                         IF asg[m] # None /\ asg[m].worker \in dead THEN None
                         ELSE asg[m]]
    /\ UNCHANGED <<up, sig, lane, call, rot, cursor, route, events>>

\* rotationScanCursor: the wall clock's position in the sweep.
NextCursor(cur) == (cur + 1) % Sweep

Older(age, cap) == IF age < cap THEN age + 1 ELSE age

\* Nothing is late: every running worker beats within the live window, and no
\* call and no pass is about to overrun its task deadline.
OnTime ==
    /\ \A w \in Workers : up[w] => seen[w] # None /\ seen[w] < LiveWindow
    /\ \A c \in Callers : call[c] = Idle \/ call[c].held < CallTimeout
    /\ rot = Idle \/ rot.held < CallTimeout

\* One clock tick; a late one is an event.  A call or a pass past its deadline is
\* cancelled: its next statement fails.
Tick ==
    /\ IF OnTime THEN UNCHANGED events ELSE Bounded
    /\ seen' = [w \in Workers |-> IF seen[w] = None THEN None
                                  ELSE Older(seen[w], PurgeAge + 1)]
    /\ asg' = [m \in Mailboxes |->
                  IF asg[m] = None THEN None
                  ELSE [asg[m] EXCEPT !.resident = Older(@, ResidencyFloor)]]
    /\ call' = [c \in Callers |->
                  IF call[c] = Idle \/ call[c].held = CallTimeout THEN Idle
                  ELSE [call[c] EXCEPT !.held = @ + 1]]
    /\ rot' = IF rot = Idle \/ rot.held = CallTimeout THEN Idle
              ELSE [rot EXCEPT !.held = @ + 1]
    /\ cursor' = NextCursor(cursor)
    /\ UNCHANGED <<up, sig, lane, route>>

CallStep(c) == Facts(c) \/ PickSole(c) \/ PickByScore(c) \/ Persist(c)

Next ==
    \/ \E c \in Callers : CallStep(c) \/ \E m \in Mailboxes : Resolve(c, m)
    \/ RotateStart \/ RotateConsider \/ RotateApply
    \/ \E w \in Workers : Heartbeat(w) \/ Crash(w) \/ Restart(w)
    \/ \E w \in Workers, p \in {ProviderOf[m] : m \in Mailboxes}, v \in Verdicts :
           Signals(w, p, v)
    \/ \E m \in Shifting : LaneChange(m)
    \/ PurgeDeadWorkers
    \/ Tick

Spec == Init /\ [][Next]_vars

\* The sweeps resolve every active mailbox on each run, the rotation pass is on a
\* schedule, workers heartbeat on a ticker.
Fairness ==
    /\ \A m \in Mailboxes : SF_vars(\E c \in Callers : Resolve(c, m))
    /\ \A c \in Callers : WF_vars(CallStep(c))
    /\ SF_vars(RotateStart) /\ WF_vars(RotateConsider \/ RotateApply)
    /\ WF_vars(\E w \in Workers : Heartbeat(w))
    /\ WF_vars(Tick)

FairSpec == Spec /\ Fairness

-----------------------------------------------------------------------------
(* Properties.                                                             *)

\* The shape of the registry, the assignments and the work in flight.
TypeOK ==
    /\ up \in [Workers -> BOOLEAN]
    /\ seen \in [Workers -> Ages \cup {None}]
    /\ sig \in [Workers -> [ProviderNames -> Verdicts]]
    /\ lane \in [Mailboxes -> Bands]
    /\ asg \in [Mailboxes -> Row \cup {None}]
    /\ call \in [Callers -> Call \cup {Idle}]
    /\ cursor \in 0..(Sweep - 1)
    /\ route \in [Mailboxes -> Workers \cup {Shared, Refused, None}]
    /\ events \in 0..MaxEvents

\* No assignment names a worker the registry no longer has: a slow caller or a
\* slow pass never writes a row for a worker that the maintenance job reaped
\* between its pick and its write (persistAssignment, applyRotation).
NoOrphanedPin ==
    \A m \in Mailboxes : asg[m] # None => seen[asg[m].worker] # None

\* Callers racing to place one mailbox converge: a row whose worker is live is
\* only ever repointed by the rotation pass, to the destination it decided on,
\* from the worker it decided about.
StaysPut ==
    [][\A m \in Mailboxes :
           asg[m] # None /\ LiveAt(asg[m].worker, 0) =>
               /\ asg'[m] # None
               /\ \/ asg'[m].worker = asg[m].worker
                  \/ /\ rot # Idle /\ rot.pc = "apply" /\ rot.inc.mailbox = m
                     /\ asg[m].worker = rot.inc.worker /\ asg'[m].worker = rot.to]_vars

\* w can serve m: it runs, and m's provider is not refusing it.
CanServe(w, m) == up[w] /\ Eligible(sig[w][ProviderOf[m]])

\* The scan is full of mailboxes whose workers were refused more often than m's, but
\* not always: they come first in it, and the policy leaves them where they are.
CrowdedOut(m) ==
    /\ asg[m] # None
    /\ RowLimit <= Cardinality({n \in Mailboxes : /\ asg[n] # None
                                                /\ ~Urgent(Tier(Incumbent(n)))
                                                /\ Incumbent(n).block > Incumbent(m).block})

\* Once the environment leaves the fleet alone, every mailbox's tasks end up,
\* for good, in the queue of a running worker that its provider talks to, if one
\* is left, and unless the rotation scan never gets to it.
FindsAHome ==
    \A m \in Mailboxes :
        <>[](\/ route[m] \in Workers /\ CanServe(route[m], m)
             \/ \A w \in Workers : ~CanServe(w, m)
             \/ CrowdedOut(m))

\* ... and rotation comes to rest: it does not move mailboxes back and forth.
ComesToRest ==
    <>[][\A m \in Mailboxes :
             asg[m] # None => asg'[m] # None /\ asg'[m].worker = asg[m].worker]_vars
=============================================================================
