----------------------------- MODULE FleetProofs -----------------------------
(***************************************************************************)
(* Placement and rotation for any fleet, any number of mailboxes and of    *)
(* concurrent callers, and every window and deadline.                      *)
(*                                                                         *)
(* A caller and the rotation pass write what they decided on a registry    *)
(* they read earlier.  What makes that safe is a matter of time: a worker  *)
(* that was live at a caller's cutoff is at most as stale as the window    *)
(* plus the time since then (CallsKnow, PassKnows), a caller that takes    *)
(* longer than its deadline never writes, and the maintenance job reaps    *)
(* only what is staler than both together.                                 *)
(***************************************************************************)
EXTENDS Fleet, FiniteSetTheorems, WellFoundedInduction, TLAPS

\* A scanned assignment.
Scanned ==
    [mailbox : Mailboxes, worker : Workers, provider : ProviderNames, band : Bands,
     resident : 0..ResidencyFloor, live : BOOLEAN, ok : Nat, block : Nat]

\* What a caller is about to persist is live as of its own cutoff.
CallsKnow ==
    \A c \in Callers : call[c].pc = "persist" => LiveAt(call[c].pick, call[c].held)

\* The pass is a record of one of three kinds.
PassShape ==
    /\ rot.pc \in {"idle", "consider", "apply"}
    /\ rot.pc = "idle" => rot = Idle
    /\ rot.pc = "consider" =>
         rot = [pc |-> "consider", rows |-> rot.rows, plan |-> rot.plan,
                cache |-> rot.cache, cur |-> rot.cur, held |-> rot.held]
    /\ rot.pc = "apply" =>
         rot = [pc |-> "apply", rows |-> rot.rows, plan |-> rot.plan,
                cache |-> rot.cache, cur |-> rot.cur, held |-> rot.held,
                inc |-> rot.inc, to |-> rot.to]

\* What is left of a scan: one row per mailbox.
RowsOf(rows) ==
    /\ rows \in SUBSET Scanned /\ IsFiniteSet(rows)
    /\ \A i, j \in rows : i.mailbox = j.mailbox => i = j

\* Every fleet that was measured, and the destination that was chosen, is live as of
\* the pass's cutoff.
Measured(cache, held) == \A k \in DOMAIN cache : DOMAIN cache[k] \subseteq LiveSet(held)

PassKnows ==
    rot # Idle =>
        /\ rot.held \in 0..CallTimeout /\ rot.cur \in Nat
        /\ RowsOf(rot.rows)
        /\ rot.pc = "consider" => rot.rows # {}
        /\ Measured(rot.cache, rot.held)
        /\ rot.pc = "apply" => rot.inc \in Scanned /\ rot.to \in LiveSet(rot.held)

FleetInv == TypeOK /\ CallsKnow /\ PassShape /\ PassKnows /\ NoOrphanedPin

-----------------------------------------------------------------------------
(* Choosing from a finite set                                              *)

\* Every non-empty set of naturals has a least element.
LEMMA Least == ASSUME NEW S \in SUBSET Nat, S # {} PROVE \E x \in S : \A y \in S : x <= y
<1> DEFINE R == OpToRel(<, Nat)
<1>1. IsWellFoundedOn(R, Nat)
  BY NatLessThanWellFounded
<1>2. \A x, y \in Nat : y < x => <<y, x>> \in R
  BY Zenon DEF OpToRel
<1> HIDE DEF R
<1>3. PICK x \in S : \A y \in S : ~(<<y, x>> \in R)
  BY <1>1, WFMin
<1>4. \A y \in S : ~(y < x)
  BY <1>2, <1>3, Zenon
<1>5. \A y \in S : x <= y
  BY <1>4
<1> QED BY <1>5

\* The relation is irreflexive, transitive and total on the set.
TotallyOrders(Before, Some) ==
    /\ \A x, y \in Some : x # y => <<x, y>> \in Before \/ <<y, x>> \in Before
    /\ \A x \in Some : <<x, x>> \notin Before
    /\ \A x, y, z \in Some : <<x, y>> \in Before /\ <<y, z>> \in Before => <<x, z>> \in Before

\* A finite, non-empty set that a relation totally orders has a first element: the one
\* with the fewest elements before it.
LEMMA First ==
    ASSUME NEW Some, IsFiniteSet(Some), Some # {}, NEW Before, TotallyOrders(Before, Some)
    PROVE  \E x \in Some : \A y \in Some \ {x} : <<x, y>> \in Before
<1> USE DEF TotallyOrders
<1> DEFINE before == [x \in Some |-> {y \in Some : <<y, x>> \in Before}]
           size == [x \in Some |-> Cardinality(before[x])]
<1>1. \A x \in Some : before[x] \in SUBSET Some /\ IsFiniteSet(before[x]) /\ size[x] \in Nat
  <2> TAKE x \in Some
  <2>1. before[x] \in SUBSET Some
    OBVIOUS
  <2>2. IsFiniteSet(before[x])
    BY <2>1, FS_Subset
  <2> QED BY <2>1, <2>2, FS_CardinalityType
<1>2. \A x, y \in Some : y \in before[x] <=> <<y, x>> \in Before
  OBVIOUS
<1>3. \A x \in Some : size[x] = Cardinality(before[x])
  OBVIOUS
<1> HIDE DEF before, size
<1>4. PICK x \in Some : \A y \in Some : size[x] <= size[y]
  <2> DEFINE sizes == {size[x] : x \in Some}
  <2>1. sizes \in SUBSET Nat /\ sizes # {}
    BY <1>1
  <2>2. PICK n \in sizes : \A k \in sizes : n <= k
    <3> HIDE DEF sizes
    <3> QED BY <2>1, Least
  <2> QED BY <2>2
<1>5. ASSUME NEW y \in Some \ {x}, <<x, y>> \notin Before PROVE FALSE
  <2>1. <<y, x>> \in Before
    BY <1>5
  <2>2. before[y] \in SUBSET before[x] /\ y \in before[x] /\ y \notin before[y]
    BY <1>1, <1>2, <2>1
  <2>3. /\ Cardinality(before[y]) <= Cardinality(before[x])
        /\ Cardinality(before[x]) = Cardinality(before[y]) => before[x] = before[y]
    BY <1>1, <2>2, FS_Subset
  <2>4. size[y] < size[x]
    BY <1>1, <1>3, <2>2, <2>3
  <2> QED BY <1>1, <1>4, <2>4
<1> QED BY <1>5

\* A number of mailboxes is a number.
LEMMA Counts == ASSUME NEW S \in SUBSET Mailboxes PROVE Cardinality(S) \in Nat
BY FleetAssumption, FS_Subset, FS_CardinalityType

\* The live workers are finitely many workers.
LEMMA LiveWorkers ==
    ASSUME NEW held PROVE LiveSet(held) \in SUBSET Workers /\ IsFiniteSet(LiveSet(held))
<1>1. LiveSet(held) \in SUBSET Workers
  BY DEF LiveSet
<1> QED BY <1>1, FleetAssumption, FS_Subset

-----------------------------------------------------------------------------
(* The policies                                                            *)

\* The least loaded of some live workers is one of them.
LEMMA LeastLoadedIsLive ==
    ASSUME NEW held, LiveSet(held) # {} PROVE LeastLoaded(held) \in LiveSet(held)
<1> DEFINE S == LiveSet(held)
           load == [w \in S |-> Cardinality({m \in Mailboxes : /\ asg[m] # None
                                                              /\ asg[m].worker = w})]
           first(w, v) == load[w] < load[v] \/ (load[w] = load[v] /\ w < v)
           R == {p \in S \X S : first(p[1], p[2])}
<1>1. S \in SUBSET Nat /\ IsFiniteSet(S)
  BY LiveWorkers, FleetAssumption
<1>2. \A w \in S : load[w] \in Nat
  <2> TAKE w \in S
  <2>1. {m \in Mailboxes : asg[m] # None /\ asg[m].worker = w} \in SUBSET Mailboxes
    OBVIOUS
  <2> QED BY <2>1, Counts
<1>3. \A w, v \in S : <<w, v>> \in R <=> first(w, v)
  OBVIOUS
<1>4. \E w \in S : \A v \in S \ {w} : first(w, v)
  <2>1. /\ \A w, v \in S : w # v => first(w, v) \/ first(v, w)
        /\ \A w \in S : ~first(w, w)
        /\ \A w, v, u \in S : first(w, v) /\ first(v, u) => first(w, u)
    <3> HIDE DEF S, load
    <3> QED BY <1>1, <1>2
  <2>2. S # {}
    OBVIOUS
  <2> HIDE DEF R, S, first
  <2>3. TotallyOrders(R, S)
    BY <1>3, <2>1 DEF TotallyOrders
  <2>4. PICK w \in S : \A v \in S \ {w} : <<w, v>> \in R
    BY <1>1, <2>2, <2>3, First
  <2>5. \A v \in S \ {w} : first(w, v)
    BY <1>3, <2>4
  <2> QED BY <2>5
<1> QED BY <1>4 DEF LeastLoaded

\* Clamping gives a number.
LEMMA Clamps == \A v \in Int : Clamp01(v) \in Int
BY DEF Clamp01, Unit

\* A score is a number.
LEMMA ScoreIsANumber ==
    ASSUME NEW c, c.load \in [ProviderNames -> Nat], c.same \in Nat, c.other \in Nat,
           NEW provider \in ProviderNames, NEW n \in Nat
    PROVE  Score(c, provider, n) \in Int
<1> DEFINE utilisation == (Unit * (WeightedLoad(c) + MailboxWeight(provider)))
                              \div (20 * TargetLoad)
           spread == (Unit * (c.same + 1)) \div (n + 1)
           crowd == (Unit * (c.load[provider] + 1)) \div ProviderCrowdTarget
           conflict == IF TotalMailboxes(c) > 0
                       THEN Clamp01((Unit * c.other) \div TotalMailboxes(c))
                       ELSE 0
<1>1. \A a, b \in Int : b > 0 => a \div b \in Int
  OBVIOUS
<1>2. /\ c.load["smtp"] \in Nat /\ c.load["gmail"] \in Nat /\ c.load["m365"] \in Nat
      /\ c.load[provider] \in Nat
  BY DEF ProviderNames
<1>3. utilisation \in Int
  <2>1. Unit * (WeightedLoad(c) + MailboxWeight(provider)) \in Int
    BY <1>2 DEF Unit, WeightedLoad, MailboxWeight
  <2>2. 20 * TargetLoad \in Int /\ 20 * TargetLoad > 0
    BY PolicyAssumption
  <2> QED BY <1>1, <2>1, <2>2
<1>4. Clamp01(spread) \in Int
  <2>1. Unit * (c.same + 1) \in Int /\ n + 1 \in Int /\ n + 1 > 0
    BY DEF Unit
  <2> QED BY <1>1, <2>1, Clamps
<1>5. Clamp01(crowd) \in Int
  <2>1. Unit * (c.load[provider] + 1) \in Int
    BY <1>2 DEF Unit
  <2>2. ProviderCrowdTarget \in Int /\ ProviderCrowdTarget > 0
    BY PolicyAssumption
  <2> QED BY <1>1, <2>1, <2>2, Clamps
<1>6. conflict \in Int
  <2>1. Unit * c.other \in Int /\ TotalMailboxes(c) \in Int
    BY <1>2 DEF Unit, TotalMailboxes
  <2> QED BY <1>1, <2>1, Clamps
<1>7. Unit - utilisation \in Int /\ utilisation - Unit \in Int
  BY <1>3 DEF Unit
<1>8. Clamp01(Unit - utilisation) \in Int /\ Clamp01(utilisation - Unit) \in Int
  BY <1>7, Clamps
<1> HIDE DEF utilisation, spread, crowd, conflict
<1>9. Score(c, provider, n) =
        10 * Clamp01(Unit - utilisation) - 60 * Clamp01(utilisation - Unit)
            - 8 * Clamp01(spread) - 6 * Clamp01(crowd) - 2 * conflict
  BY DEF Score, utilisation, spread, crowd, conflict
<1> QED BY <1>4, <1>5, <1>6, <1>8, <1>9

\* The best of some scored workers is one of them.
LEMMA BestIsOfThem ==
    ASSUME NEW S \in SUBSET Workers, S # {}, NEW score, \A w \in S : score[w] \in Int
    PROVE  Best(score, S) \in S
<1> DEFINE first(w, v) == score[w] > score[v] \/ (score[w] = score[v] /\ w < v)
           R == {p \in S \X S : first(p[1], p[2])}
<1>1. IsFiniteSet(S)
  BY FleetAssumption, FS_Subset
<1>2. \A w, v \in S : <<w, v>> \in R <=> first(w, v)
  OBVIOUS
<1>3. \E w \in S : \A v \in S \ {w} : first(w, v)
  <2>1. /\ \A w, v \in S : w # v => first(w, v) \/ first(v, w)
        /\ \A w \in S : ~first(w, w)
        /\ \A w, v, u \in S : first(w, v) /\ first(v, u) => first(w, u)
    BY FleetAssumption
  <2> HIDE DEF R, first
  <2>2. TotallyOrders(R, S)
    BY <1>2, <2>1 DEF TotallyOrders
  <2>3. PICK w \in S : \A v \in S \ {w} : <<w, v>> \in R
    BY <1>1, <2>2, First
  <2>4. \A v \in S \ {w} : first(w, v)
    BY <1>2, <2>3
  <2> QED BY <2>4
<1> QED BY <1>3 DEF Best

\* What a measured candidate is made of.
Candidate ==
    [load : [ProviderNames -> Nat], same : Nat, other : Nat, ok : Nat, block : Nat]

\* A measured fleet: the live workers, with numbers.
LEMMA MeasureIsAFleet ==
    ASSUME TypeOK, NEW band \in Bands, NEW provider \in ProviderNames, NEW held
    PROVE  Measure(band, provider, held) \in [LiveSet(held) -> Candidate]
<1> DEFINE at(w) == {m \in Mailboxes : asg[m] # None /\ asg[m].worker = w}
           on(w, p) == {m \in Mailboxes : /\ asg[m] # None
                                          /\ asg[m].worker = w
                                          /\ ProviderOf[m] = p}
           away(w) == {m \in Mailboxes : /\ asg[m] # None
                                         /\ asg[m].worker = w
                                         /\ asg[m].band # band}
           candidate(w) == [load  |-> [p \in ProviderNames |-> Cardinality(on(w, p))],
                            same  |-> Cardinality(at(w)),
                            other |-> Cardinality(away(w)),
                            ok    |-> sig[w][provider].ok,
                            block |-> sig[w][provider].block]
<1>1. \A w \in LiveSet(held) : candidate(w) \in Candidate
  <2> TAKE w \in LiveSet(held)
  <2>1. /\ Cardinality(at(w)) \in Nat /\ Cardinality(away(w)) \in Nat
        /\ \A p \in ProviderNames : Cardinality(on(w, p)) \in Nat
    BY Counts
  <2>2. sig[w][provider] \in Verdicts
    BY LiveWorkers DEF TypeOK
  <2>3. sig[w][provider].ok \in Nat /\ sig[w][provider].block \in Nat
    BY <2>2 DEF Verdicts
  <2>4. [p \in ProviderNames |-> Cardinality(on(w, p))] \in [ProviderNames -> Nat]
    BY <2>1
  <2> HIDE DEF at, on, away
  <2> QED BY <2>1, <2>3, <2>4 DEF Candidate
<1>2. Measure(band, provider, held) = [w \in LiveSet(held) |-> candidate(w)]
  BY DEF Measure
<1> HIDE DEF candidate
<1> QED BY <1>1, <1>2

\* The tenant's mailboxes are finitely many.
LEMMA TenantFleetIsANumber ==
    ASSUME NEW D, IsFiniteSet(D), NEW fleet \in [D -> Candidate]
    PROVE  TenantFleet(fleet) \in Nat
<1> DEFINE at == [w \in D |-> {w} \X (1..fleet[w].same)]
           T == {at[w] : w \in D}
<1>1. \A w \in D : IsFiniteSet(at[w])
  <2> TAKE w \in D
  <2>1. fleet[w].same \in Int
    BY DEF Candidate
  <2>2. IsFiniteSet(1..fleet[w].same) /\ IsFiniteSet({w})
    <3>1. IsFiniteSet(1..fleet[w].same)
      BY <2>1, FS_Interval
    <3>2. IsFiniteSet({w})
      BY FS_Singleton
    <3> QED BY <3>1, <3>2
  <2> QED BY <2>2, FS_Product
<1>2. at \in Surjection(D, T)
  BY DEF Surjection
<1>3. IsFiniteSet(T) /\ \A s \in T : IsFiniteSet(s)
  <2>1. \A s \in T : IsFiniteSet(s)
    BY <1>1
  <2> HIDE DEF at, T
  <2> QED BY <1>2, <2>1, FS_Surjection
<1>4. IsFiniteSet(UNION T)
  <2> HIDE DEF T
  <2> QED BY <1>3, FS_UNION
<1>5. TenantFleet(fleet) = Cardinality(UNION T)
  BY DEF TenantFleet
<1> QED BY <1>4, <1>5, FS_CardinalityType

\* Only candidates are scored, and every score is a number.
LEMMA ScoresAreNumbers ==
    ASSUME NEW D, IsFiniteSet(D), NEW fleet \in [D -> Candidate],
           NEW provider \in ProviderNames
    PROVE  /\ DOMAIN Scores(fleet, provider) \in SUBSET D
           /\ \A w \in DOMAIN Scores(fleet, provider) : Scores(fleet, provider)[w] \in Int
<1> DEFINE E == {v \in D : Eligible(fleet[v])}
<1>1. TenantFleet(fleet) \in Nat
  BY TenantFleetIsANumber
<1>2. \A w \in E : Score(fleet[w], provider, TenantFleet(fleet)) \in Int
  <2> TAKE w \in E
  <2>1. fleet[w] \in Candidate
    OBVIOUS
  <2>2. /\ fleet[w].load \in [ProviderNames -> Nat]
        /\ fleet[w].same \in Nat /\ fleet[w].other \in Nat
    BY <2>1 DEF Candidate
  <2> QED BY <1>1, <2>2, ScoreIsANumber
<1>3. Scores(fleet, provider) = [w \in E |-> Score(fleet[w], provider, TenantFleet(fleet))]
  BY DEF Scores
<1> HIDE DEF E
<1>4. DOMAIN Scores(fleet, provider) = E
  BY <1>3
<1>5. \A w \in E : Scores(fleet, provider)[w] \in Int
  BY <1>2, <1>3
<1> QED BY <1>4, <1>5 DEF E

\* Rotation goes to a worker of the fleet it looked at, or nowhere.
LEMMA DestinationIsOfTheFleet ==
    ASSUME NEW fleet, NEW inc, NEW plan
    PROVE  LET dest == Destination(inc, Scores(Vacated(fleet, inc), inc.provider), plan)
           IN  dest \in DOMAIN fleet \cup {None}
<1> DEFINE score == Scores(Vacated(fleet, inc), inc.provider)
           open == {w \in DOMAIN score \ {inc.worker} :
                       plan.byDest[w] < MaxMovesPerDestination}
           dests == {w \in open : WorthMoving(inc, score, w) /\ Best(score, open) = w}
<1>1. DOMAIN Vacated(fleet, inc) = DOMAIN fleet
  BY DEF Vacated
<1>2. DOMAIN score \in SUBSET DOMAIN fleet
  BY <1>1 DEF Scores
<1>3. dests \in SUBSET DOMAIN fleet
  BY <1>2
<1>4. Destination(inc, score, plan) =
        IF Tier(inc) = TierNone \/ Full(plan) \/ dests = {} THEN None
        ELSE CHOOSE w \in dests : TRUE
  BY DEF Destination
<1> HIDE DEF dests
<1>5. dests # {} => (CHOOSE w \in dests : TRUE) \in dests
  OBVIOUS
<1> QED BY <1>3, <1>4, <1>5

\* Whom the pass takes up first of two, by urgency, residency and the scan's order.
TakenUpBefore(i, j, cur) ==
    \/ Tier(i) > Tier(j)
    \/ Tier(i) = Tier(j) /\ i.resident > j.resident
    \/ Tier(i) = Tier(j) /\ i.resident = j.resident /\ ScannedBefore(i, j, cur)

\* The order of the scan is a strict total order on rows of different mailboxes.
LEMMA ScanOrder ==
    ASSUME NEW rows, RowsOf(rows), NEW cur \in Nat
    PROVE  /\ \A i, j \in rows : i # j => ScannedBefore(i, j, cur) \/ ScannedBefore(j, i, cur)
           /\ \A i \in rows : ~ScannedBefore(i, i, cur)
           /\ \A i, j, k \in rows : ScannedBefore(i, j, cur) /\ ScannedBefore(j, k, cur) =>
                ScannedBefore(i, k, cur)
<1>0. \A i \in rows : i.live \in BOOLEAN
  BY DEF RowsOf, Scanned
<1>1. \A i \in rows : i.block \in Int /\ i.mailbox \in Int
  <2> TAKE i \in rows
  <2>1. i \in Scanned
    BY DEF RowsOf
  <2>2. i.block \in Nat /\ i.mailbox \in Mailboxes
    BY <2>1 DEF Scanned
  <2>3. i.block \in Int
    BY <2>2
  <2>4. i.mailbox \in Int
    <3>1. \A m \in Mailboxes : m \in Int
      BY FleetAssumption
    <3> QED BY <2>2, <3>1, Zenon
  <2> QED BY <2>3, <2>4
<1>2. \A i, j \in rows : i # j => i.mailbox # j.mailbox
  BY DEF RowsOf
<1>3. \A i, j \in rows : i # j => ScannedBefore(i, j, cur) \/ ScannedBefore(j, i, cur)
  BY <1>0, <1>1, <1>2 DEF ScannedBefore
<1>4. \A i \in rows : ~ScannedBefore(i, i, cur)
  BY <1>0, <1>1 DEF ScannedBefore
<1>5. \A i, j, k \in rows : ScannedBefore(i, j, cur) /\ ScannedBefore(j, k, cur) =>
        ScannedBefore(i, k, cur)
  BY <1>0, <1>1 DEF ScannedBefore
<1> QED BY <1>3, <1>4, <1>5

\* The row the pass takes up next is one of those that are left.
LEMMA NextIsOfTheRows ==
    ASSUME NEW rows, RowsOf(rows), rows # {}, NEW cur \in Nat
    PROVE  NextIncumbent(rows, cur) \in rows
<1> DEFINE R == {p \in rows \X rows : TakenUpBefore(p[1], p[2], cur)}
<1>1. \A i \in rows : Tier(i) \in Int /\ i.resident \in Int
  BY PolicyAssumption
     DEF RowsOf, Scanned, Tier, TierUnreachable, TierUnhealthy, TierNone, TierBalance
<1>2. \A i, j \in rows : <<i, j>> \in R <=> TakenUpBefore(i, j, cur)
  OBVIOUS
<1>3. TotallyOrders(R, rows)
  <2>1. \A i, j \in rows : i # j =>
            TakenUpBefore(i, j, cur) \/ TakenUpBefore(j, i, cur)
    BY <1>1, ScanOrder DEF TakenUpBefore
  <2>2. \A i \in rows : ~TakenUpBefore(i, i, cur)
    BY <1>1, ScanOrder DEF TakenUpBefore
  <2>3. \A i, j, k \in rows : TakenUpBefore(i, j, cur) /\ TakenUpBefore(j, k, cur) =>
            TakenUpBefore(i, k, cur)
    BY <1>1, ScanOrder DEF TakenUpBefore
  <2> HIDE DEF R
  <2> QED BY <1>2, <2>1, <2>2, <2>3 DEF TotallyOrders
<1>4. IsFiniteSet(rows)
  BY DEF RowsOf
<1> HIDE DEF R
<1>5. PICK i \in rows : \A j \in rows \ {i} : <<i, j>> \in R
  BY <1>3, <1>4, First
<1>6. \A j \in rows \ {i} : TakenUpBefore(i, j, cur)
  BY <1>2, <1>5
<1> QED BY <1>6 DEF NextIncumbent, TakenUpBefore

-----------------------------------------------------------------------------
(* What time does to the registry                                          *)

\* A worker that is fresher than the caller's cutoff is live, for the caller too.
LEMMA FresherIsLive ==
    ASSUME TypeOK, NEW w \in Workers, LiveAt(w, 0), NEW held \in Nat
    PROVE  LiveAt(w, held)
<1>1. seen[w] # None /\ seen[w] <= LiveWindow + 0
  BY DEF LiveAt
<1>2. seen[w] \in Nat
  BY <1>1 DEF TypeOK, Ages
<1> QED BY <1>1, <1>2, FleetAssumption DEF LiveAt

\* Heartbeats keep a worker live.
LEMMA BeatsKeepLive ==
    ASSUME TypeOK, NEW held \in 0..CallTimeout, NEW w \in Workers, LiveAt(w, held),
           NEW v \in Workers, seen' = [seen EXCEPT ![v] = 0]
    PROVE  LiveAt(w, held)'
<1>1. 0 # None
  BY FleetAssumption
<1>2. LiveWindow + held \in Nat
  BY FleetAssumption
<1>3. seen'[w] = 0 \/ seen'[w] = seen[w]
  BY DEF TypeOK
<1> QED BY <1>1, <1>2, <1>3 DEF LiveAt

\* The maintenance job reaps none that a call or a pass in time may still name.
LEMMA PurgeKeepsLive ==
    ASSUME TypeOK, NEW held \in 0..CallTimeout, NEW w \in Workers, LiveAt(w, held),
           PurgeDeadWorkers
    PROVE  LiveAt(w, held)' /\ w \notin Dead
<1>1. seen[w] # None /\ seen[w] \in Ages
  BY DEF TypeOK, LiveAt
<1>2. w \notin Dead
  <2>1. seen[w] <= LiveWindow + held
    BY DEF LiveAt
  <2>2. LiveWindow + held < PurgeAge
    BY FleetAssumption
  <2>3. ~(seen[w] > PurgeAge)
    BY <1>1, <2>1, <2>2, FleetAssumption DEF Ages
  <2> QED BY <2>3 DEF Dead
<1>3. seen'[w] = seen[w]
  BY <1>2 DEF PurgeDeadWorkers
<1> QED BY <1>2, <1>3 DEF LiveAt

\* A tick makes everybody's cutoff and everybody's age one older.
LEMMA TickKeepsLive ==
    ASSUME TypeOK, NEW held \in Nat, NEW w \in Workers, LiveAt(w, held), Tick
    PROVE  LiveAt(w, held + 1)'
<1>1. seen[w] # None /\ seen[w] \in Ages
  BY DEF TypeOK, LiveAt
<1>2. seen'[w] = Older(seen[w], PurgeAge + 1)
  BY <1>1 DEF Tick
<1>3. seen'[w] \in Nat /\ seen'[w] <= seen[w] + 1
  BY <1>1, <1>2, FleetAssumption DEF Older, Ages
<1>4. seen'[w] # None
  BY <1>3, FleetAssumption
<1>5. seen[w] <= LiveWindow + held
  BY DEF LiveAt
<1>6. seen'[w] <= LiveWindow + (held + 1)
  BY <1>1, <1>3, <1>5, FleetAssumption DEF Ages
<1> QED BY <1>4, <1>6 DEF LiveAt

\* Nothing but a beat, the maintenance job and the clock touches the registry.
LEMMA RegistryKeepsLive ==
    ASSUME UNCHANGED seen, NEW held, NEW w
    PROVE  LiveAt(w, held)' <=> LiveAt(w, held)
BY DEF LiveAt

-----------------------------------------------------------------------------
(* The steps                                                               *)

\* What a call in flight has read so far.
LEMMA CallKinds ==
    ASSUME TypeOK, NEW c \in Callers
    PROVE  /\ call[c] = Idle <=> call[c].pc = "idle"
           /\ call[c] # Idle => /\ call[c] \in Call /\ call[c].mb \in Mailboxes
                                /\ call[c].held \in 0..CallTimeout
           /\ call[c].pc \in {"sole", "score", "persist"} => call[c].band \in Bands
           /\ call[c].pc = "persist" => call[c].pick \in Workers
<1>1. call[c] \in Call \cup {Idle}
  BY DEF TypeOK
<1>2. CASE call[c] = Idle
  BY <1>2 DEF Idle
<1>3. CASE call[c] \in [pc : {"facts"}, mb : Mailboxes, held : 0..CallTimeout]
  BY <1>3 DEF Idle, Call
<1>4. CASE call[c] \in [pc : {"sole", "score"}, mb : Mailboxes, band : Bands,
                        held : 0..CallTimeout]
  BY <1>4 DEF Idle, Call
<1>5. CASE call[c] \in [pc : {"persist"}, mb : Mailboxes, band : Bands, pick : Workers,
                        held : 0..CallTimeout]
  BY <1>5 DEF Idle, Call
<1> QED BY <1>1, <1>2, <1>3, <1>4, <1>5 DEF Call

\* The next stage of a call is a call.
LEMMA CallStages ==
    ASSUME NEW m \in Mailboxes, NEW held \in 0..CallTimeout
    PROVE  /\ [pc |-> "facts", mb |-> m, held |-> held] \in Call
           /\ \A p \in {"sole", "score"}, b \in Bands :
                [pc |-> p, mb |-> m, band |-> b, held |-> held] \in Call
           /\ \A b \in Bands, w \in Workers :
                [pc |-> "persist", mb |-> m, band |-> b, pick |-> w, held |-> held] \in Call
BY DEF Call

\* A pass whose fleets are still live, as of its own cutoff, knows what it did.
LEMMA PassStaysInformed ==
    ASSUME FleetInv, rot' = rot,
           \A w \in Workers, held \in 0..CallTimeout : LiveAt(w, held) => LiveAt(w, held)'
    PROVE  PassShape' /\ PassKnows'
<1>1. PassShape'
  BY DEF FleetInv, PassShape
<1>2. CASE rot = Idle
  <2>1. PassKnows'
    BY <1>2 DEF PassKnows
  <2> QED BY <1>1, <2>1
<1>3. CASE rot # Idle
  <2>1. rot.held \in 0..CallTimeout
    BY <1>3 DEF FleetInv, PassKnows
  <2>2. \A w \in LiveSet(rot.held) : w \in LiveSet(rot.held)'
    BY <2>1 DEF LiveSet
  <2>3. Measured(rot.cache, rot.held)'
    <3>1. Measured(rot.cache, rot.held)
      BY <1>3 DEF FleetInv, PassKnows
    <3> QED BY <2>2, <3>1 DEF Measured
  <2>4. rot.pc = "apply" => rot.to \in LiveSet(rot.held)'
    BY <1>3, <2>2 DEF FleetInv, PassKnows
  <2>5. /\ rot.cur \in Nat /\ RowsOf(rot.rows)
        /\ rot.pc = "consider" => rot.rows # {}
        /\ rot.pc = "apply" => rot.inc \in Scanned
    BY <1>3 DEF FleetInv, PassKnows
  <2>6. RowsOf(rot.rows)'
    BY <2>5 DEF RowsOf
  <2>7. PassKnows'
    BY <2>1, <2>3, <2>4, <2>5, <2>6 DEF PassKnows, Scanned
  <2> QED BY <1>1, <2>7
<1> QED BY <1>1, <1>2, <1>3

\* ... and so does every call.
LEMMA CallsStayInformed ==
    ASSUME FleetInv, call' = call,
           \A w \in Workers, held \in 0..CallTimeout : LiveAt(w, held) => LiveAt(w, held)'
    PROVE  CallsKnow'
<1> SUFFICES ASSUME NEW c \in Callers, call[c].pc = "persist"
             PROVE  LiveAt(call[c].pick, call[c].held)'
  BY DEF CallsKnow
<1>1. call[c] # Idle
  BY DEF Idle
<1>2. call[c].pick \in Workers /\ call[c].held \in 0..CallTimeout
  BY <1>1, CallKinds DEF FleetInv
<1>3. LiveAt(call[c].pick, call[c].held)
  BY DEF FleetInv, CallsKnow
<1> QED BY <1>2, <1>3

\* When one call moves on, the others know what they knew.
LEMMA OneCallMoves ==
    ASSUME FleetInv, UNCHANGED seen, NEW c \in Callers, NEW next,
           call' = [call EXCEPT ![c] = next],
           next.pc = "persist" => LiveAt(next.pick, next.held)
    PROVE  CallsKnow'
<1> SUFFICES ASSUME NEW d \in Callers, call'[d].pc = "persist"
             PROVE  LiveAt(call[d].pick, call[d].held)'
  BY DEF CallsKnow
<1>1. call'[d] = IF d = c THEN next ELSE call[d]
  BY DEF FleetInv, TypeOK
<1>2. LiveAt(call'[d].pick, call'[d].held)
  BY <1>1 DEF FleetInv, CallsKnow
<1> QED BY <1>2 DEF LiveAt

\* Nothing touches the registry.
LEMMA StillRegistered ==
    ASSUME FleetInv, UNCHANGED seen
    PROVE  /\ rot' = rot => PassShape' /\ PassKnows'
           /\ call' = call => CallsKnow'
           /\ asg' = asg => NoOrphanedPin'
<1>1. \A w \in Workers, held \in 0..CallTimeout : LiveAt(w, held) => LiveAt(w, held)'
  BY RegistryKeepsLive
<1>2. rot' = rot => PassShape' /\ PassKnows'
  BY <1>1, PassStaysInformed
<1>3. call' = call => CallsKnow'
  BY <1>1, CallsStayInformed
<1>4. asg' = asg => NoOrphanedPin'
  BY DEF FleetInv, NoOrphanedPin
<1> QED BY <1>2, <1>3, <1>4

\* An assignment is a row of a worker, or none.
LEMMA Assigned ==
    ASSUME TypeOK, NEW m \in Mailboxes, asg[m] # None
    PROVE  asg[m] \in Row /\ asg[m].worker \in Workers
BY DEF TypeOK, Row

\* Step 1: the incumbent answers, or a placement begins.
LEMMA ResolveKeeps ==
    ASSUME FleetInv, NEW c \in Callers, NEW m \in Mailboxes, Resolve(c, m)
    PROVE  FleetInv'
<1>1. /\ UNCHANGED <<up, seen, sig, lane, asg, rot, cursor, events>>
  BY DEF Resolve
<1>2. CASE Incumbency(m)
  <2>1. call' = call /\ route' = [route EXCEPT ![m] = asg[m].worker]
    BY <1>2 DEF Resolve
  <2>2. asg[m].worker \in Workers
    BY <1>2, Assigned DEF FleetInv, Incumbency
  <2>3. TypeOK'
    BY <1>1, <2>1, <2>2 DEF FleetInv, TypeOK
  <2> QED BY <1>1, <2>1, <2>3, StillRegistered DEF FleetInv
<1>3. CASE ~Incumbency(m)
  <2>1. /\ route' = route
        /\ call' = [call EXCEPT ![c] = [pc |-> "facts", mb |-> m, held |-> 0]]
    BY <1>3 DEF Resolve
  <2>2. [pc |-> "facts", mb |-> m, held |-> 0] \in Call
    BY CallStages, FleetAssumption
  <2>3. TypeOK'
    BY <1>1, <2>1, <2>2 DEF FleetInv, TypeOK
  <2>4. CallsKnow'
    BY <1>1, <2>1, OneCallMoves
  <2> QED BY <1>1, <2>3, <2>4, StillRegistered DEF FleetInv
<1> QED BY <1>2, <1>3

\* Steps 2 and 3: the band, and how many workers there are.
LEMMA FactsKeeps ==
    ASSUME FleetInv, NEW c \in Callers, Facts(c) PROVE FleetInv'
<1> DEFINE next == [pc |-> IF Cardinality(LiveSet(call[c].held)) <= 1 THEN "sole" ELSE "score",
                    mb |-> call[c].mb, band |-> lane[call[c].mb], held |-> call[c].held]
<1>1. /\ UNCHANGED <<up, seen, sig, lane, asg, rot, cursor, route, events>>
      /\ call[c] # Idle /\ call' = [call EXCEPT ![c] = next]
  BY DEF Facts, Idle
<1>2. next.pc \in {"sole", "score"} /\ next \in Call
  <2>1. call[c].mb \in Mailboxes /\ call[c].held \in 0..CallTimeout
    BY <1>1, CallKinds DEF FleetInv
  <2>2. lane[call[c].mb] \in Bands
    BY <2>1 DEF FleetInv, TypeOK
  <2> QED BY <2>1, <2>2, CallStages
<1> HIDE DEF next
<1>3. TypeOK'
  BY <1>1, <1>2 DEF FleetInv, TypeOK
<1>4. CallsKnow'
  BY <1>1, <1>2, OneCallMoves
<1> QED BY <1>1, <1>3, <1>4, StillRegistered DEF FleetInv

\* A call that ends, or is about to persist a live worker, keeps the invariant.
LEMMA PickKeeps ==
    ASSUME FleetInv, NEW c \in Callers, call[c].pc \in {"sole", "score"},
           UNCHANGED <<up, seen, sig, lane, asg, rot, cursor, events>>,
           \/ /\ call' = [call EXCEPT ![c] = Idle]
              /\ \E q \in {Shared, Refused} : route' = [route EXCEPT ![call[c].mb] = q]
           \/ /\ route' = route
              /\ \E w \in LiveSet(call[c].held) :
                   call' = [call EXCEPT ![c] =
                       [pc |-> "persist", mb |-> call[c].mb, band |-> call[c].band,
                        pick |-> w, held |-> call[c].held]]
    PROVE  FleetInv'
<1>1. /\ call[c].mb \in Mailboxes /\ call[c].held \in 0..CallTimeout
      /\ call[c].band \in Bands
  <2>1. call[c] # Idle
    BY DEF Idle
  <2> QED BY <2>1, CallKinds DEF FleetInv
<1>2. CASE /\ call' = [call EXCEPT ![c] = Idle]
           /\ \E q \in {Shared, Refused} : route' = [route EXCEPT ![call[c].mb] = q]
  <2>1. route' \in [Mailboxes -> Workers \cup {Shared, Refused, None}]
    BY <1>1, <1>2 DEF FleetInv, TypeOK
  <2>2. call' \in [Callers -> Call \cup {Idle}]
    BY <1>2 DEF FleetInv, TypeOK
  <2>3. TypeOK'
    BY <2>1, <2>2 DEF FleetInv, TypeOK
  <2>4. CallsKnow'
    <3>1. Idle.pc # "persist"
      BY DEF Idle
    <3> QED BY <1>2, <3>1, OneCallMoves
  <2> QED BY <2>3, <2>4, StillRegistered DEF FleetInv
<1>3. ASSUME route' = route, NEW w \in LiveSet(call[c].held),
             call' = [call EXCEPT ![c] =
                 [pc |-> "persist", mb |-> call[c].mb, band |-> call[c].band,
                  pick |-> w, held |-> call[c].held]]
      PROVE  FleetInv'
  <2> DEFINE next == [pc |-> "persist", mb |-> call[c].mb, band |-> call[c].band,
                      pick |-> w, held |-> call[c].held]
  <2>1. w \in Workers /\ LiveAt(w, call[c].held)
    BY DEF LiveSet
  <2>2. next \in Call
    BY <1>1, <2>1, CallStages
  <2>3. next.pick = w /\ next.held = call[c].held
    OBVIOUS
  <2>4. call' = [call EXCEPT ![c] = next]
    BY <1>3
  <2> HIDE DEF next
  <2>5. TypeOK'
    <3>1. call' \in [Callers -> Call \cup {Idle}]
      BY <2>2, <2>4 DEF FleetInv, TypeOK
    <3> QED BY <1>3, <3>1 DEF FleetInv, TypeOK
  <2>6. CallsKnow'
    BY <2>1, <2>3, <2>4, OneCallMoves
  <2> QED BY <2>5, <2>6, StillRegistered DEF FleetInv
<1> QED BY <1>2, <1>3

\* placeOnSoleWorker: the least loaded live worker, or the shared queue.
LEMMA PickSoleKeeps ==
    ASSUME FleetInv, NEW c \in Callers, PickSole(c) PROVE FleetInv'
<1>1. /\ call[c].pc = "sole"
      /\ UNCHANGED <<up, seen, sig, lane, asg, rot, cursor, events>>
  BY DEF PickSole
<1>2. CASE LiveSet(call[c].held) = {}
  <2>1. /\ call' = [call EXCEPT ![c] = Idle]
        /\ route' = [route EXCEPT ![call[c].mb] = Shared]
    BY <1>2 DEF PickSole
  <2> QED BY <1>1, <2>1, PickKeeps
<1>3. CASE LiveSet(call[c].held) # {}
  <2>1. LeastLoaded(call[c].held) \in LiveSet(call[c].held)
    BY <1>3, LeastLoadedIsLive
  <2>2. /\ route' = route
        /\ call' = [call EXCEPT ![c] =
               [pc |-> "persist", mb |-> call[c].mb, band |-> call[c].band,
                pick |-> LeastLoaded(call[c].held), held |-> call[c].held]]
    BY <1>3 DEF PickSole
  <2> QED BY <1>1, <2>1, <2>2, PickKeeps
<1> QED BY <1>2, <1>3

\* placeByScore: the best of the eligible live workers, or a refusal.
LEMMA PickByScoreKeeps ==
    ASSUME FleetInv, NEW c \in Callers, PickByScore(c) PROVE FleetInv'
<1> DEFINE provider == ProviderOf[call[c].mb]
           fleet == Measure(call[c].band, provider, call[c].held)
           score == Scores(fleet, provider)
<1>1. /\ call[c].pc = "score"
      /\ UNCHANGED <<up, seen, sig, lane, asg, rot, cursor, events>>
  BY DEF PickByScore
<1>2. call[c].mb \in Mailboxes /\ call[c].band \in Bands /\ provider \in ProviderNames
  <2>1. call[c] # Idle
    BY <1>1 DEF Idle
  <2>2. call[c].mb \in Mailboxes /\ call[c].band \in Bands
    BY <1>1, <2>1, CallKinds DEF FleetInv
  <2>3. ProviderOf \in [Mailboxes -> ProviderNames]
    BY FleetAssumption
  <2> QED BY <2>2, <2>3
<1>3. fleet \in [LiveSet(call[c].held) -> Candidate]
  BY <1>2, MeasureIsAFleet DEF FleetInv
<1>4. /\ DOMAIN score \in SUBSET LiveSet(call[c].held)
      /\ \A w \in DOMAIN score : score[w] \in Int
  <2> HIDE DEF fleet, provider
  <2> QED BY <1>2, <1>3, LiveWorkers, ScoresAreNumbers
<1>5. CASE DOMAIN score = {}
  <2>1. /\ call' = [call EXCEPT ![c] = Idle]
        /\ route' = [route EXCEPT ![call[c].mb] = Refused]
    BY <1>5 DEF PickByScore
  <2> QED BY <1>1, <2>1, PickKeeps
<1>6. CASE DOMAIN score # {}
  <2>1. /\ route' = route
        /\ call' = [call EXCEPT ![c] =
               [pc |-> "persist", mb |-> call[c].mb, band |-> call[c].band,
                pick |-> Best(score, DOMAIN score), held |-> call[c].held]]
    BY <1>6 DEF PickByScore
  <2>2. Best(score, DOMAIN score) \in LiveSet(call[c].held)
    <3> HIDE DEF score
    <3>1. DOMAIN score \in SUBSET Workers
      BY <1>4, LiveWorkers
    <3>2. Best(score, DOMAIN score) \in DOMAIN score
      BY <1>4, <1>6, <3>1, BestIsOfThem
    <3> QED BY <1>4, <3>2
  <2> HIDE DEF score
  <2> QED BY <1>1, <2>1, <2>2, PickKeeps
<1> QED BY <1>5, <1>6

\* persistAssignment writes the live pick, or finds a live incumbent.
LEMMA PersistKeeps ==
    ASSUME FleetInv, NEW c \in Callers, Persist(c) PROVE FleetInv'
<1> DEFINE m == call[c].mb
           row == Upsert(m, call[c].pick, call[c].band, call[c].held)
<1>1. /\ call[c].pc = "persist" /\ call[c] # Idle
      /\ asg' = [asg EXCEPT ![m] = row] /\ route' = [route EXCEPT ![m] = row.worker]
      /\ call' = [call EXCEPT ![c] = Idle]
      /\ UNCHANGED <<up, seen, sig, lane, rot, cursor, events>>
  BY DEF Persist, Idle
<1>2. /\ m \in Mailboxes /\ call[c].held \in 0..CallTimeout /\ call[c].band \in Bands
      /\ call[c].pick \in Workers
  BY <1>1, CallKinds DEF FleetInv
<1>3. LiveAt(call[c].pick, call[c].held)
  BY <1>1 DEF FleetInv, CallsKnow
<1>4. row \in Row /\ seen[row.worker] # None
  <2>1. CASE asg[m] # None /\ LiveAt(asg[m].worker, call[c].held)
    <3>1. row = asg[m]
      BY <2>1 DEF Upsert
    <3> QED BY <1>2, <2>1, <3>1, Assigned DEF FleetInv, LiveAt
  <2>2. CASE ~(asg[m] # None /\ LiveAt(asg[m].worker, call[c].held))
    <3>1. row = [worker |-> call[c].pick, band |-> call[c].band, resident |-> 0]
      BY <2>2 DEF Upsert
    <3> QED BY <1>2, <1>3, <3>1, PolicyAssumption DEF Row, LiveAt
  <2> QED BY <2>1, <2>2
<1> HIDE DEF m, row
<1>5. row.worker \in Workers
  BY <1>4 DEF Row
<1>6. TypeOK'
  <2>1. asg' \in [Mailboxes -> Row \cup {None}]
    BY <1>1, <1>4 DEF FleetInv, TypeOK
  <2>2. route' \in [Mailboxes -> Workers \cup {Shared, Refused, None}]
    BY <1>1, <1>5 DEF FleetInv, TypeOK
  <2>3. call' \in [Callers -> Call \cup {Idle}]
    BY <1>1 DEF FleetInv, TypeOK
  <2> QED BY <1>1, <2>1, <2>2, <2>3 DEF FleetInv, TypeOK
<1>7. CallsKnow'
  <2>1. Idle.pc # "persist"
    BY DEF Idle
  <2> QED BY <1>1, <2>1, OneCallMoves
<1>8. NoOrphanedPin'
  <2>1. \A n \in Mailboxes : asg'[n] = IF n = m THEN row ELSE asg[n]
    BY <1>1 DEF FleetInv, TypeOK
  <2> QED BY <1>1, <1>4, <2>1 DEF FleetInv, NoOrphanedPin
<1> QED BY <1>1, <1>6, <1>7, <1>8, StillRegistered DEF FleetInv

\* A pass that moved on, in a registry nobody touched, keeps the rest.
LEMMA PassMoves ==
    ASSUME FleetInv, UNCHANGED <<up, seen, sig, lane, call, cursor, route, events>>,
           asg' \in [Mailboxes -> Row \cup {None}],
           PassShape', PassKnows', NoOrphanedPin'
    PROVE  FleetInv'
<1>1. TypeOK'
  BY DEF FleetInv, TypeOK
<1>2. CallsKnow'
  BY StillRegistered
<1> QED BY <1>1, <1>2 DEF FleetInv

\* What is true of the rows and the cache stays true of them in the next state.
LEMMA PassLater ==
    ASSUME UNCHANGED seen, NEW rows, NEW cache, NEW held, RowsOf(rows), Measured(cache, held),
           rot'.rows = rows, rot'.cache = cache, rot'.held = held
    PROVE  /\ RowsOf(rot.rows)' /\ Measured(rot.cache, rot.held)'
           /\ LiveSet(rot.held)' = LiveSet(held)
<1>1. RowsOf(rot.rows)'
  BY DEF RowsOf, Scanned
<1>2. LiveSet(rot.held)' = LiveSet(held)
  BY DEF LiveSet, LiveAt
<1>3. Measured(rot.cache, rot.held)'
  BY <1>2 DEF Measured
<1> QED BY <1>1, <1>2, <1>3

\* The scan takes rows of different mailboxes, with the facts of each.
LEMMA ScanTakesRows == ASSUME TypeOK PROVE RowsOf(Scan)
<1> DEFINE ids == {m \in Mailboxes : asg[m] # None /\ Qualifies(Incumbent(m))}
           taken == {n \in ids : Cardinality({k \in ids :
                        ScannedBefore(Incumbent(k), Incumbent(n), cursor)}) < RowLimit}
           row == [m \in taken |-> Incumbent(m)]
           rows == {row[m] : m \in taken}
<1>1. Scan = rows
  BY DEF Scan
<1>2. \A m \in taken : m \in Mailboxes /\ asg[m] # None
  OBVIOUS
<1>3. IsFiniteSet(taken)
  <2>1. taken \in SUBSET Mailboxes
    OBVIOUS
  <2>2. IsFiniteSet(Mailboxes)
    BY FleetAssumption
  <2> HIDE DEF taken
  <2> QED BY <2>1, <2>2, FS_Subset
<1> HIDE DEF taken
<1>4. \A m \in taken : row[m] \in Scanned /\ row[m].mailbox = m
  <2> TAKE m \in taken
  <2>1. m \in Mailboxes /\ asg[m] \in Row
    BY <1>2, Assigned
  <2>2. /\ asg[m].worker \in Workers /\ asg[m].resident \in 0..ResidencyFloor
    BY <2>1 DEF Row
  <2>3. ProviderOf[m] \in ProviderNames /\ lane[m] \in Bands
    <3>1. ProviderOf \in [Mailboxes -> ProviderNames]
      BY FleetAssumption
    <3> QED BY <2>1, <3>1 DEF TypeOK
  <2>4. sig[asg[m].worker][ProviderOf[m]] \in Verdicts
    BY <2>2, <2>3 DEF TypeOK
  <2>5. /\ sig[asg[m].worker][ProviderOf[m]].ok \in Nat
        /\ sig[asg[m].worker][ProviderOf[m]].block \in Nat
    BY <2>4 DEF Verdicts
  <2>6. LiveAt(asg[m].worker, 0) \in BOOLEAN
    BY DEF LiveAt
  <2>7. row[m] = Incumbent(m)
    OBVIOUS
  <2> QED BY <2>1, <2>2, <2>3, <2>5, <2>6, <2>7 DEF Incumbent, Scanned
<1>5. IsFiniteSet(rows)
  <2>1. row \in Surjection(taken, rows)
    BY DEF Surjection
  <2> HIDE DEF row, rows
  <2> QED BY <1>3, <2>1, FS_Surjection
<1>6. rows \in SUBSET Scanned
  BY <1>4
<1>7. \A i, j \in rows : i.mailbox = j.mailbox => i = j
  BY <1>4
<1> HIDE DEF rows
<1> QED BY <1>1, <1>5, <1>6, <1>7 DEF RowsOf

\* The pass starts with a scan and nothing measured.
LEMMA RotateStartKeeps ==
    ASSUME FleetInv, RotateStart PROVE FleetInv'
<1>1. /\ Scan # {}
      /\ rot' = [pc |-> "consider", rows |-> Scan, plan |-> FreshPlan,
                 cache |-> << >>, cur |-> cursor, held |-> 0]
      /\ UNCHANGED <<up, seen, sig, lane, asg, call, cursor, route, events>>
  BY DEF RotateStart
<1>2. PassShape'
  BY <1>1 DEF PassShape
<1>3. PassKnows'
  <2>1. RowsOf(Scan)
    BY ScanTakesRows DEF FleetInv
  <2>2. RowsOf(rot.rows)'
    BY <1>1, <2>1 DEF RowsOf, Scanned
  <2>3. Measured(rot.cache, rot.held)'
    BY <1>1 DEF Measured
  <2>4. rot'.held \in 0..CallTimeout /\ rot'.cur \in Nat
    BY <1>1, FleetAssumption DEF FleetInv, TypeOK
  <2> QED BY <1>1, <2>2, <2>3, <2>4 DEF PassKnows
<1>4. NoOrphanedPin' /\ asg' \in [Mailboxes -> Row \cup {None}]
  BY <1>1 DEF FleetInv, TypeOK, NoOrphanedPin
<1> QED BY <1>1, <1>2, <1>3, <1>4, PassMoves

\* One incumbent is considered: the fleet is measured or remembered, and the destination
\* is of that fleet.
LEMMA RotateConsiderKeeps ==
    ASSUME FleetInv, RotateConsider PROVE FleetInv'
<1> DEFINE inc == NextIncumbent(rot.rows, rot.cur)
           key == <<inc.band, inc.provider>>
           fleet == IF key \in DOMAIN rot.cache THEN rot.cache[key]
                    ELSE Measure(inc.band, inc.provider, rot.held)
           dest == Destination(inc, Scores(Vacated(fleet, inc), inc.provider), rot.plan)
           rest == rot.rows \ {inc}
           cache == [k \in DOMAIN rot.cache \cup {key} |->
                        IF k = key THEN fleet ELSE rot.cache[k]]
           plan == [rot.plan EXCEPT !.moved = @ + 1, !.byDest[dest] = @ + 1]
<1>1. /\ rot.pc = "consider"
      /\ Considered(inc, fleet, dest)
      /\ UNCHANGED <<up, seen, sig, lane, asg, call, cursor, route, events>>
  BY DEF RotateConsider
<1>2. rot # Idle
  BY <1>1 DEF Idle
<1>3. /\ rot.held \in 0..CallTimeout /\ rot.cur \in Nat
      /\ RowsOf(rot.rows) /\ rot.rows # {}
      /\ Measured(rot.cache, rot.held)
  BY <1>1, <1>2 DEF FleetInv, PassKnows
<1>4. inc \in rot.rows /\ inc \in Scanned
  BY <1>3, NextIsOfTheRows DEF RowsOf
<1>5. DOMAIN fleet \subseteq LiveSet(rot.held)
  <2>1. CASE key \in DOMAIN rot.cache
    BY <1>3, <2>1 DEF Measured
  <2>2. CASE key \notin DOMAIN rot.cache
    BY <2>2 DEF Measure
  <2> QED BY <2>1, <2>2
<1>6. Measured(cache, rot.held)
  <2> HIDE DEF fleet, key
  <2> QED BY <1>3, <1>5 DEF Measured
<1>7. dest \in LiveSet(rot.held) \cup {None}
  <2> HIDE DEF fleet, inc
  <2> QED BY <1>5, DestinationIsOfTheFleet
<1>8. RowsOf(rest)
  <2>1. IsFiniteSet(rest)
    BY <1>3, FS_RemoveElement DEF RowsOf
  <2> QED BY <1>3, <2>1 DEF RowsOf
<1>9. rot' = IF dest # None
             THEN [pc |-> "apply", rows |-> rest, plan |-> plan, cache |-> cache,
                   cur |-> rot.cur, held |-> rot.held, inc |-> inc, to |-> dest]
             ELSE IF rest = {} THEN Idle
             ELSE [pc |-> "consider", rows |-> rest, plan |-> rot.plan, cache |-> cache,
                   cur |-> rot.cur, held |-> rot.held]
  <2> HIDE DEF inc, fleet, dest
  <2> QED BY <1>1 DEF Considered
<1> HIDE DEF inc, key, fleet, dest, rest, cache, plan
<1>10. PassShape' /\ PassKnows'
  <2>1. CASE dest # None
    <3>1. rot' = [pc |-> "apply", rows |-> rest, plan |-> plan, cache |-> cache,
                  cur |-> rot.cur, held |-> rot.held, inc |-> inc, to |-> dest]
      BY <1>9, <2>1
    <3>2. PassShape'
      BY <3>1 DEF PassShape
    <3>3. /\ RowsOf(rot.rows)' /\ Measured(rot.cache, rot.held)'
          /\ LiveSet(rot.held)' = LiveSet(rot.held)
      BY <1>1, <1>6, <1>8, <3>1, PassLater
    <3>4. rot'.to \in LiveSet(rot.held)'
      BY <1>7, <2>1, <3>1, <3>3
    <3>5. PassKnows'
      BY <1>3, <1>4, <3>1, <3>3, <3>4 DEF PassKnows, Scanned
    <3> QED BY <3>2, <3>5
  <2>2. CASE dest = None /\ rest = {}
    <3>1. rot' = Idle
      BY <1>9, <2>2
    <3> QED BY <3>1 DEF PassShape, PassKnows, Idle
  <2>3. CASE dest = None /\ rest # {}
    <3>1. rot' = [pc |-> "consider", rows |-> rest, plan |-> rot.plan, cache |-> cache,
                  cur |-> rot.cur, held |-> rot.held]
      BY <1>9, <2>3
    <3>2. PassShape'
      BY <3>1 DEF PassShape
    <3>3. RowsOf(rot.rows)' /\ Measured(rot.cache, rot.held)'
      BY <1>1, <1>6, <1>8, <3>1, PassLater
    <3>4. PassKnows'
      BY <1>3, <2>3, <3>1, <3>3 DEF PassKnows
    <3> QED BY <3>2, <3>4
  <2> QED BY <2>1, <2>2, <2>3
<1>11. NoOrphanedPin' /\ asg' \in [Mailboxes -> Row \cup {None}]
  BY <1>1 DEF FleetInv, TypeOK, NoOrphanedPin
<1> QED BY <1>1, <1>10, <1>11, PassMoves

\* applyRotation writes a destination that is live as of the pass's cutoff.
LEMMA RotateApplyKeeps ==
    ASSUME FleetInv, RotateApply PROVE FleetInv'
<1> DEFINE m == rot.inc.mailbox
           hit == asg[m] # None /\ asg[m].worker = rot.inc.worker
           row == [worker |-> rot.to, band |-> rot.inc.band, resident |-> 0]
<1>1. /\ rot.pc = "apply"
      /\ asg' = IF hit THEN [asg EXCEPT ![m] = row] ELSE asg
      /\ rot' = IF rot.rows = {} \/ Full(rot.plan) THEN Idle
                ELSE [pc |-> "consider", rows |-> rot.rows,
                      plan |-> rot.plan, cur |-> rot.cur, held |-> rot.held,
                      cache |-> IF hit THEN << >> ELSE rot.cache]
      /\ UNCHANGED <<up, seen, sig, lane, call, cursor, route, events>>
  BY DEF RotateApply
<1>2. rot # Idle
  BY <1>1 DEF Idle
<1>3. /\ rot.held \in 0..CallTimeout /\ rot.cur \in Nat
      /\ RowsOf(rot.rows) /\ Measured(rot.cache, rot.held)
      /\ rot.inc \in Scanned /\ rot.to \in LiveSet(rot.held)
  BY <1>1, <1>2 DEF FleetInv, PassKnows
<1>4. rot.to \in Workers /\ seen[rot.to] # None /\ rot.inc.band \in Bands
  BY <1>3 DEF LiveSet, LiveAt, Scanned
<1>5. row \in Row
  BY <1>4, PolicyAssumption DEF Row
<1>6. \A n \in Mailboxes : asg'[n] = IF hit /\ n = m THEN row ELSE asg[n]
  BY <1>1 DEF FleetInv, TypeOK
<1>7. row.worker = rot.to
  OBVIOUS
<1> HIDE DEF m, hit, row
<1>8. asg' \in [Mailboxes -> Row \cup {None}]
  BY <1>1, <1>5 DEF FleetInv, TypeOK
<1>9. NoOrphanedPin'
  BY <1>1, <1>4, <1>6, <1>7 DEF FleetInv, NoOrphanedPin
<1>10. PassShape' /\ PassKnows'
  <2>1. CASE rot.rows = {} \/ Full(rot.plan)
    <3>1. rot' = Idle
      BY <1>1, <2>1
    <3> QED BY <3>1 DEF PassShape, PassKnows, Idle
  <2>2. CASE ~(rot.rows = {} \/ Full(rot.plan))
    <3> DEFINE cache == IF hit THEN << >> ELSE rot.cache
    <3>1. rot' = [pc |-> "consider", rows |-> rot.rows, plan |-> rot.plan,
                  cache |-> cache, cur |-> rot.cur, held |-> rot.held]
      BY <1>1, <2>2
    <3>2. PassShape'
      BY <3>1 DEF PassShape
    <3>3. Measured(cache, rot.held)
      BY <1>3 DEF Measured
    <3> HIDE DEF cache
    <3>4. RowsOf(rot.rows)' /\ Measured(rot.cache, rot.held)'
      BY <1>1, <1>3, <3>1, <3>3, PassLater
    <3>5. PassKnows'
      BY <1>3, <2>2, <3>1, <3>4 DEF PassKnows
    <3> QED BY <3>2, <3>5
  <2> QED BY <2>1, <2>2
<1> QED BY <1>1, <1>8, <1>9, <1>10, PassMoves

\* An event is counted.
LEMMA EventsAreCounted ==
    ASSUME TypeOK, Bounded PROVE events' \in 0..MaxEvents
BY FleetAssumption DEF TypeOK, Bounded

\* A worker beats, or comes back.
LEMMA BeatKeeps ==
    ASSUME FleetInv, NEW w \in Workers, Heartbeat(w) \/ Restart(w) PROVE FleetInv'
<1>1. /\ seen' = [seen EXCEPT ![w] = 0]
      /\ UNCHANGED <<sig, lane, asg, call, rot, cursor, route, events>>
      /\ up' \in [Workers -> BOOLEAN]
  BY DEF Heartbeat, Restart, FleetInv, TypeOK
<1>2. 0 \in Ages /\ 0 # None
  BY FleetAssumption DEF Ages
<1>3. TypeOK'
  BY <1>1, <1>2 DEF FleetInv, TypeOK
<1>4. \A v \in Workers, held \in 0..CallTimeout : LiveAt(v, held) => LiveAt(v, held)'
  BY <1>1, BeatsKeepLive DEF FleetInv
<1>5. NoOrphanedPin'
  <2>1. \A v \in Workers : seen[v] # None => seen'[v] # None
    BY <1>1, <1>2 DEF FleetInv, TypeOK
  <2> QED BY <1>1, <2>1, Assigned DEF FleetInv, NoOrphanedPin
<1> QED BY <1>1, <1>3, <1>4, <1>5, PassStaysInformed, CallsStayInformed DEF FleetInv

\* A crash, a verdict or a change of lane leaves the registry and the assignments alone.
LEMMA EnvironmentKeeps ==
    ASSUME FleetInv,
           \/ \E w \in Workers : Crash(w)
           \/ \E w \in Workers, p \in {ProviderOf[m] : m \in Mailboxes}, v \in Verdicts :
                Signals(w, p, v)
           \/ \E m \in Shifting : LaneChange(m)
    PROVE  FleetInv'
<1>1. UNCHANGED <<seen, asg, call, rot, cursor, route>> /\ Bounded
  BY DEF Crash, Signals, LaneChange
<1>2. events' \in 0..MaxEvents
  BY <1>1, EventsAreCounted DEF FleetInv
<1>3. up' \in [Workers -> BOOLEAN]
  BY DEF Crash, Signals, LaneChange, FleetInv, TypeOK
<1>4. lane' \in [Mailboxes -> Bands]
  BY DEF Crash, Signals, LaneChange, FleetInv, TypeOK, Bands
<1>5. sig' \in [Workers -> [ProviderNames -> Verdicts]]
  <2>1. CASE \E w \in Workers, p \in {ProviderOf[m] : m \in Mailboxes}, v \in Verdicts :
               Signals(w, p, v)
    <3>1. PICK w \in Workers, p \in {ProviderOf[m] : m \in Mailboxes}, v \in Verdicts :
             Signals(w, p, v)
      BY <2>1
    <3>2. sig' = [sig EXCEPT ![w][p] = v]
      BY <3>1 DEF Signals
    <3> QED BY <3>2 DEF FleetInv, TypeOK
  <2>2. CASE sig' = sig
    BY <2>2 DEF FleetInv, TypeOK
  <2> QED BY <2>1, <2>2 DEF Crash, LaneChange
<1>6. TypeOK'
  BY <1>1, <1>2, <1>3, <1>4, <1>5 DEF FleetInv, TypeOK
<1> QED BY <1>1, <1>6, StillRegistered DEF FleetInv

\* The maintenance job takes a worker's assignments with it.
LEMMA PurgeKeeps ==
    ASSUME FleetInv, PurgeDeadWorkers PROVE FleetInv'
<1>1. /\ seen' = [w \in Workers |-> IF w \in Dead THEN None ELSE seen[w]]
      /\ asg' = [m \in Mailboxes |->
                    IF asg[m] # None /\ asg[m].worker \in Dead THEN None ELSE asg[m]]
      /\ UNCHANGED <<up, sig, lane, call, rot, cursor, route, events>>
  BY DEF PurgeDeadWorkers
<1>2. TypeOK'
  BY <1>1 DEF FleetInv, TypeOK
<1>3. \A w \in Workers, held \in 0..CallTimeout : LiveAt(w, held) => LiveAt(w, held)'
  BY PurgeKeepsLive DEF FleetInv
<1>4. NoOrphanedPin'
  BY <1>1, Assigned DEF FleetInv, NoOrphanedPin
<1> QED BY <1>1, <1>2, <1>3, <1>4, PassStaysInformed, CallsStayInformed DEF FleetInv

\* The clock ages the registry, the assignments, the calls and the pass together, and
\* cancels what is past its deadline.
LEMMA TickKeeps ==
    ASSUME FleetInv, Tick PROVE FleetInv'
<1>1. /\ seen' = [w \in Workers |-> IF seen[w] = None THEN None
                                    ELSE Older(seen[w], PurgeAge + 1)]
      /\ asg' = [m \in Mailboxes |->
                    IF asg[m] = None THEN None
                    ELSE [asg[m] EXCEPT !.resident = Older(@, ResidencyFloor)]]
      /\ call' = [c \in Callers |->
                    IF call[c] = Idle \/ call[c].held = CallTimeout THEN Idle
                    ELSE [call[c] EXCEPT !.held = @ + 1]]
      /\ rot' = IF rot = Idle \/ rot.held = CallTimeout THEN Idle
                ELSE [rot EXCEPT !.held = @ + 1]
      /\ cursor' = NextCursor(cursor)
      /\ UNCHANGED <<up, sig, lane, route>>
  BY DEF Tick
<1>2. events' \in 0..MaxEvents
  <2>1. CASE OnTime
    BY <2>1 DEF Tick, FleetInv, TypeOK
  <2>2. CASE ~OnTime
    BY <2>2, EventsAreCounted DEF Tick, FleetInv
  <2> QED BY <2>1, <2>2
<1>3. seen' \in [Workers -> Ages \cup {None}]
  <2>1. \A n \in Ages : Older(n, PurgeAge + 1) \in Ages
    BY FleetAssumption DEF Ages, Older
  <2> QED BY <1>1, <2>1 DEF FleetInv, TypeOK
<1>4. \A m \in Mailboxes : /\ asg'[m] = None <=> asg[m] = None
                           /\ asg[m] # None => /\ asg'[m] \in Row
                                               /\ asg'[m].worker = asg[m].worker
  <2> TAKE m \in Mailboxes
  <2>1. CASE asg[m] = None
    BY <1>1, <2>1
  <2>2. CASE asg[m] # None
    <3>1. asg[m] \in Row
      BY <2>2, Assigned DEF FleetInv
    <3>2. Older(asg[m].resident, ResidencyFloor) \in 0..ResidencyFloor
      BY <3>1, PolicyAssumption DEF Row, Older
    <3>3. asg'[m] = [asg[m] EXCEPT !.resident = Older(asg[m].resident, ResidencyFloor)]
      BY <1>1, <2>2
    <3>4. asg'[m] \in Row /\ asg'[m].worker = asg[m].worker
      BY <3>1, <3>2, <3>3 DEF Row
    <3>5. asg'[m] # None
      BY <3>4, FleetAssumption
    <3> QED BY <2>2, <3>4, <3>5
  <2> QED BY <2>1, <2>2
<1>5. asg' \in [Mailboxes -> Row \cup {None}]
  BY <1>1, <1>4
<1>6. NoOrphanedPin'
  <2>1. \A w \in Workers : seen[w] # None => seen'[w] # None
    <3>1. \A n \in Ages : Older(n, PurgeAge + 1) # None
      BY FleetAssumption DEF Ages, Older
    <3> QED BY <1>1, <3>1 DEF FleetInv, TypeOK
  <2> QED BY <1>4, <2>1, Assigned DEF FleetInv, NoOrphanedPin
<1>7. ASSUME NEW c \in Callers, call'[c] # Idle
      PROVE  /\ call[c] # Idle /\ call[c].held \in 0..CallTimeout
             /\ call[c].held # CallTimeout
             /\ call'[c] = [call[c] EXCEPT !.held = call[c].held + 1]
             /\ call[c] \in Call /\ call'[c] \in Call
  <2>1. /\ call[c] # Idle /\ call[c].held # CallTimeout
        /\ call'[c] = [call[c] EXCEPT !.held = call[c].held + 1]
    BY <1>1, <1>7
  <2>2. call[c] \in Call /\ call[c].held \in 0..CallTimeout
    BY <2>1, CallKinds DEF FleetInv
  <2>3. call[c].held + 1 \in 0..CallTimeout
    BY <2>1, <2>2, FleetAssumption
  <2>4. call'[c] \in Call
    BY <2>1, <2>2, <2>3 DEF Call
  <2> QED BY <2>1, <2>2, <2>4
<1>8. call' \in [Callers -> Call \cup {Idle}]
  BY <1>1, <1>7
<1>9. cursor' \in 0..(Sweep - 1)
  BY <1>1, FleetAssumption DEF NextCursor, FleetInv, TypeOK
<1>10. TypeOK'
  BY <1>1, <1>2, <1>3, <1>5, <1>8, <1>9 DEF FleetInv, TypeOK
<1>11. CallsKnow'
  <2> SUFFICES ASSUME NEW c \in Callers, call'[c].pc = "persist"
               PROVE  LiveAt(call[c].pick, call[c].held)'
    BY DEF CallsKnow
  <2>1. call'[c] # Idle
    BY DEF Idle
  <2>2. /\ call[c].pc = "persist" /\ call'[c].pick = call[c].pick
        /\ call'[c].held = call[c].held + 1
    BY <1>7, <2>1 DEF Call
  <2>3. /\ LiveAt(call[c].pick, call[c].held) /\ call[c].pick \in Workers
        /\ call[c].held \in Nat
    BY <1>7, <2>1, <2>2, CallKinds DEF FleetInv, CallsKnow
  <2> DEFINE pick == call[c].pick
             held == call[c].held
  <2>4. seen'[pick] # None /\ seen'[pick] <= LiveWindow + (held + 1)
    BY <2>3, TickKeepsLive DEF FleetInv, LiveAt
  <2> QED BY <2>2, <2>4 DEF LiveAt
<1>12. PassShape' /\ PassKnows'
  <2>1. CASE rot = Idle \/ rot.held = CallTimeout
    <3>1. rot' = Idle
      BY <1>1, <2>1
    <3> QED BY <3>1 DEF PassShape, PassKnows, Idle
  <2>2. CASE ~(rot = Idle \/ rot.held = CallTimeout)
    <3>1. rot' = [rot EXCEPT !.held = rot.held + 1]
      BY <1>1, <2>2
    <3>2. /\ rot.held \in 0..CallTimeout /\ rot.cur \in Nat
          /\ RowsOf(rot.rows)
          /\ rot.pc = "consider" => rot.rows # {}
          /\ Measured(rot.cache, rot.held)
          /\ rot.pc = "apply" => rot.inc \in Scanned /\ rot.to \in LiveSet(rot.held)
      BY <2>2 DEF FleetInv, PassKnows
    <3>3. \A w \in LiveSet(rot.held) : w \in Workers /\ seen'[w] # None
                                       /\ seen'[w] <= LiveWindow + (rot.held + 1)
      BY <3>2, TickKeepsLive DEF FleetInv, LiveSet, LiveAt
    <3>4. rot.held + 1 \in 0..CallTimeout
      BY <2>2, <3>2, FleetAssumption
    <3>5. /\ PassShape'
          /\ rot'.pc = rot.pc /\ rot'.rows = rot.rows /\ rot'.cur = rot.cur
          /\ rot'.cache = rot.cache /\ rot'.held = rot.held + 1
          /\ rot.pc = "apply" => rot'.inc = rot.inc /\ rot'.to = rot.to
      <4>1. CASE rot.pc = "consider"
        BY <3>1, <4>1 DEF FleetInv, PassShape
      <4>2. CASE rot.pc = "apply"
        BY <3>1, <4>2 DEF FleetInv, PassShape
      <4>3. rot.pc # "idle"
        BY <2>2 DEF FleetInv, PassShape
      <4> QED BY <4>1, <4>2, <4>3 DEF FleetInv, PassShape
    <3>6. \A w \in LiveSet(rot.held) : w \in LiveSet(rot.held)'
      BY <3>3, <3>5 DEF LiveSet, LiveAt
    <3>7. Measured(rot.cache, rot.held)'
      BY <3>2, <3>5, <3>6 DEF Measured
    <3>8. RowsOf(rot.rows)'
      BY <3>2, <3>5 DEF RowsOf, Scanned
    <3>9. PassKnows'
      BY <3>2, <3>4, <3>5, <3>6, <3>7, <3>8 DEF PassKnows, Scanned
    <3> QED BY <3>5, <3>9
  <2> QED BY <2>1, <2>2
<1> QED BY <1>6, <1>10, <1>11, <1>12 DEF FleetInv

\* It holds at first: nobody has asked, and nothing is assigned.
LEMMA FleetInvInit == Init => FleetInv
<1> SUFFICES ASSUME Init PROVE FleetInv
  OBVIOUS
<1>1. TypeOK
  <2>1. 0 \in Ages /\ 0 \in 0..(Sweep - 1) /\ 0 \in 0..MaxEvents
    BY FleetAssumption DEF Ages
  <2>2. sig \in [Workers -> [ProviderNames -> Verdicts]]
    BY DEF Init, Verdicts
  <2>3. lane \in [Mailboxes -> Bands]
    BY DEF Init, Bands
  <2>4. call \in [Callers -> Call \cup {Idle}]
    BY DEF Init
  <2> QED BY <2>1, <2>2, <2>3, <2>4 DEF Init, TypeOK
<1>2. CallsKnow
  BY DEF Init, CallsKnow, Idle
<1>3. PassShape /\ PassKnows
  BY DEF Init, PassShape, PassKnows, Idle
<1>4. NoOrphanedPin
  BY DEF Init, NoOrphanedPin
<1> QED BY <1>1, <1>2, <1>3, <1>4 DEF FleetInv

\* Every step keeps it.
LEMMA FleetInvStep == FleetInv /\ [Next]_vars => FleetInv'
<1> SUFFICES ASSUME FleetInv, [Next]_vars PROVE FleetInv'
  OBVIOUS
<1>1. CASE UNCHANGED vars
  <2>1. TypeOK'
    BY <1>1 DEF vars, FleetInv, TypeOK
  <2> QED BY <1>1, <2>1, StillRegistered DEF vars, FleetInv
<1>2. ASSUME NEW c \in Callers, CallStep(c) PROVE FleetInv'
  BY <1>2, FactsKeeps, PickSoleKeeps, PickByScoreKeeps, PersistKeeps DEF CallStep
<1>3. ASSUME NEW c \in Callers, NEW m \in Mailboxes, Resolve(c, m) PROVE FleetInv'
  BY <1>3, ResolveKeeps
<1>4. CASE RotateStart
  BY <1>4, RotateStartKeeps
<1>5. CASE RotateConsider
  BY <1>5, RotateConsiderKeeps
<1>6. CASE RotateApply
  BY <1>6, RotateApplyKeeps
<1>7. ASSUME NEW w \in Workers, Heartbeat(w) \/ Restart(w) PROVE FleetInv'
  BY <1>7, BeatKeeps
<1>8. CASE \/ \E w \in Workers : Crash(w)
           \/ \E w \in Workers, p \in {ProviderOf[m] : m \in Mailboxes}, v \in Verdicts :
                Signals(w, p, v)
           \/ \E m \in Shifting : LaneChange(m)
  BY <1>8, EnvironmentKeeps
<1>9. CASE PurgeDeadWorkers
  BY <1>9, PurgeKeeps
<1>10. CASE Tick
  BY <1>10, TickKeeps
<1> QED BY <1>1, <1>2, <1>3, <1>4, <1>5, <1>6, <1>7, <1>8, <1>9, <1>10 DEF Next

\* A row whose worker is live is repointed by the rotation pass alone.
Moves(m) ==
    /\ rot # Idle /\ rot.pc = "apply" /\ rot.inc.mailbox = m
    /\ asg[m].worker = rot.inc.worker /\ asg'[m].worker = rot.to

LEMMA RowsStayPut ==
    ASSUME FleetInv, [Next]_vars, NEW m \in Mailboxes,
           asg[m] # None, LiveAt(asg[m].worker, 0)
    PROVE  asg'[m] # None /\ (asg'[m].worker = asg[m].worker \/ Moves(m))
<1>1. asg[m] \in Row /\ asg[m].worker \in Workers
  BY Assigned DEF FleetInv
<1>2. CASE UNCHANGED asg
  BY <1>2
<1>3. ASSUME NEW c \in Callers, Persist(c)
      PROVE  asg'[m] = asg[m]
  <2>1. asg' = [asg EXCEPT ![call[c].mb] =
                   Upsert(call[c].mb, call[c].pick, call[c].band, call[c].held)]
    BY <1>3 DEF Persist
  <2>2. CASE call[c].mb = m
    <3>1. call[c].held \in Nat
      <4>1. call[c] # Idle
        BY <1>3 DEF Persist, Idle
      <4>2. call[c].held \in 0..CallTimeout
        BY <4>1, CallKinds DEF FleetInv
      <4> QED BY <4>2
    <3>2. LiveAt(asg[m].worker, call[c].held)
      BY <1>1, <3>1, FresherIsLive DEF FleetInv
    <3>3. Upsert(m, call[c].pick, call[c].band, call[c].held) = asg[m]
      BY <3>2 DEF Upsert
    <3> QED BY <2>1, <2>2, <3>3 DEF FleetInv, TypeOK
  <2>3. CASE call[c].mb # m
    BY <2>1, <2>3 DEF FleetInv, TypeOK
  <2> QED BY <2>2, <2>3
<1>4. CASE RotateApply
  <2> DEFINE row == [worker |-> rot.to, band |-> rot.inc.band, resident |-> 0]
  <2>1. rot.pc = "apply" /\ rot # Idle
    BY <1>4 DEF RotateApply, Idle
  <2>2. CASE rot.inc.mailbox = m /\ asg[m].worker = rot.inc.worker
    <3>1. asg' = [asg EXCEPT ![m] = row]
      BY <1>4, <2>2 DEF RotateApply
    <3>2. asg'[m] = row /\ row.worker = rot.to
      BY <3>1 DEF FleetInv, TypeOK
    <3>3. row \in Row
      <4>1. rot.to \in Workers /\ rot.inc.band \in Bands
        BY <2>1 DEF FleetInv, PassKnows, LiveSet, Scanned
      <4> QED BY <4>1, PolicyAssumption DEF Row
    <3>4. asg'[m] # None
      BY <3>2, <3>3, FleetAssumption
    <3> QED BY <2>1, <2>2, <3>2, <3>4 DEF Moves
  <2>3. CASE ~(rot.inc.mailbox = m /\ asg[m].worker = rot.inc.worker)
    <3>1. asg'[m] = asg[m]
      BY <1>4, <2>3 DEF RotateApply, FleetInv, TypeOK
    <3> QED BY <3>1
  <2> QED BY <2>2, <2>3
<1>5. CASE PurgeDeadWorkers
  <2>1. asg[m].worker \notin Dead
    <3>1. 0 \in 0..CallTimeout
      BY FleetAssumption
    <3> QED BY <1>1, <1>5, <3>1, PurgeKeepsLive DEF FleetInv
  <2>2. asg'[m] = asg[m]
    BY <1>5, <2>1 DEF PurgeDeadWorkers
  <2> QED BY <2>2
<1>6. CASE Tick
  <2>1. asg'[m] = [asg[m] EXCEPT !.resident = Older(asg[m].resident, ResidencyFloor)]
    BY <1>6 DEF Tick
  <2>2. Older(asg[m].resident, ResidencyFloor) \in 0..ResidencyFloor
    BY <1>1, PolicyAssumption DEF Row, Older
  <2>3. asg'[m] \in Row /\ asg'[m].worker = asg[m].worker
    BY <1>1, <2>1, <2>2 DEF Row
  <2> QED BY <2>3, FleetAssumption
<1>7. UNCHANGED asg \/ RotateApply \/ PurgeDeadWorkers \/ Tick \/ \E c \in Callers : Persist(c)
  BY DEF Next, vars, CallStep, Facts, PickSole, PickByScore, Resolve, RotateStart,
         RotateConsider, Heartbeat, Crash, Restart, Signals, LaneChange
<1> QED BY <1>2, <1>3, <1>4, <1>5, <1>6, <1>7

-----------------------------------------------------------------------------
(* The theorems                                                            *)

\* The inductive invariant holds of every behaviour.
LEMMA FleetInvHolds == Spec => []FleetInv
BY FleetInvInit, FleetInvStep, PTL DEF Spec

\* The registry, the assignments and every call in flight keep the kind of value the code
\* keeps there; in particular a placement always names a worker of the registry, the
\* shared queue or a refusal.
THEOREM FleetTyped == Spec => []TypeOK
<1>1. FleetInv => TypeOK
  BY DEF FleetInv
<1> QED BY <1>1, FleetInvHolds, PTL

\* No assignment names a worker the registry no longer has, however many callers and
\* mailboxes, whatever the windows, as long as the maintenance job waits longer than the
\* live window and a task deadline together.
THEOREM PinsAreNeverOrphaned == Spec => []NoOrphanedPin
<1>1. FleetInv => NoOrphanedPin
  BY DEF FleetInv
<1> QED BY <1>1, FleetInvHolds, PTL

\* A mailbox whose worker is live is repointed by the rotation pass alone, to the
\* destination the pass decided on, and only from the worker it decided about.
THEOREM LiveRowsStayPut == Spec => StaysPut
<1>1. FleetInv /\ [Next]_vars =>
        [\A m \in Mailboxes :
           asg[m] # None /\ LiveAt(asg[m].worker, 0) =>
               /\ asg'[m] # None
               /\ \/ asg'[m].worker = asg[m].worker
                  \/ /\ rot # Idle /\ rot.pc = "apply" /\ rot.inc.mailbox = m
                     /\ asg[m].worker = rot.inc.worker /\ asg'[m].worker = rot.to]_vars
  BY RowsStayPut DEF Moves
<1> QED BY <1>1, FleetInvHolds, PTL DEF Spec, StaysPut
=============================================================================
