----------------------------- MODULE FleetScore -----------------------------
(***************************************************************************)
(* The two pure policies of the worker fleet: how placement scores a live  *)
(* worker (internal/platform/fleetscore) and when rotation may move a      *)
(* mailbox (internal/platform/fleetrotate).                                *)
(*                                                                         *)
(* The code computes with floats; here every ratio is a whole number of    *)
(* 1/Unit parts, rounded down.  Worker ids are numbers, so that "worker_id *)
(* ascending" is <.                                                        *)
(***************************************************************************)
EXTENDS Integers, FiniteSets

CONSTANTS
    TargetLoad,             \* Policy.TargetLoad (40 in Default)
    ProviderCrowdTarget,    \* Policy.ProviderCrowdTarget (25)
    ResidencyFloor,         \* Policy.ResidencyFloor (12h), in clock ticks
    MinScoreMargin,         \* Policy.MinScoreMargin (10)
    MaxMoves,               \* Policy.MaxMoves (20)
    MaxMovesPerDestination, \* Policy.MaxMovesPerDestination (5)
    None                    \* no worker

ASSUME PolicyAssumption ==
    /\ TargetLoad \in Nat \ {0} /\ ProviderCrowdTarget \in Nat \ {0}
    /\ ResidencyFloor \in Nat /\ MinScoreMargin \in Nat
    /\ MaxMoves \in Nat /\ MaxMovesPerDestination \in Nat

Unit == 1000

ProviderNames == {"smtp", "gmail", "m365"}

Clamp01(v) == IF v < 0 THEN 0 ELSE IF v > Unit THEN Unit ELSE v

\* The weights of Default(): an API mailbox costs 0.35 of an SMTP one, so loads
\* are counted in twentieths.
MailboxWeight(provider) == IF provider \in {"gmail", "m365"} THEN 7 ELSE 20

\* A candidate is a measured worker:
\*   [load |-> [ProviderNames -> Nat], same |-> Nat, other |-> Nat,
\*    ok |-> Nat, block |-> Nat]
WeightedLoad(c) == 20 * c.load["smtp"] + 7 * (c.load["gmail"] + c.load["m365"])

TotalMailboxes(c) == c.load["smtp"] + c.load["gmail"] + c.load["m365"]

\* The only hard gate: everything this provider said lately was a refusal.
Eligible(c) == c.block <= 0 \/ c.ok > 0

\* score(c, in, tenantFleet), in 1/Unit points.
Score(c, provider, tenantFleet) ==
    LET utilisation == (Unit * (WeightedLoad(c) + MailboxWeight(provider)))
                           \div (20 * TargetLoad)
        blastRadius == Clamp01((Unit * (c.same + 1)) \div (tenantFleet + 1))
        crowding == Clamp01((Unit * (c.load[provider] + 1))
                                \div ProviderCrowdTarget)
        bandConflict == IF TotalMailboxes(c) > 0
                        THEN Clamp01((Unit * c.other) \div TotalMailboxes(c))
                        ELSE 0
    IN  10 * Clamp01(Unit - utilisation) - 60 * Clamp01(utilisation - Unit)
            - 8 * blastRadius - 6 * crowding - 2 * bandConflict

\* Rank: the scores of the eligible workers of a measured fleet; the best one is
\* first, ties going to the lower worker id.  The tenant's mailboxes are counted
\* across the whole fleet.
TenantFleet(fleet) ==
    Cardinality(UNION {{w} \X (1..fleet[w].same) : w \in DOMAIN fleet})

Scores(fleet, provider) ==
    LET tenantFleet == TenantFleet(fleet)
    IN  [w \in {v \in DOMAIN fleet : Eligible(fleet[v])} |->
            Score(fleet[w], provider, tenantFleet)]

Best(score, S) ==
    CHOOSE w \in S : \A v \in S \ {w} :
        score[w] > score[v] \/ (score[w] = score[v] /\ w < v)

\* Vacating: the candidate with one mailbox of this provider taken off it.
\* The other-band count stays.
Vacating(c, provider) ==
    LET less(n) == IF n > 0 THEN n - 1 ELSE 0
    IN  [c EXCEPT !.load[provider] = less(@), !.same = less(@)]

Vacated(fleet, inc) ==
    [w \in DOMAIN fleet |->
        IF w = inc.worker THEN Vacating(fleet[w], inc.provider) ELSE fleet[w]]

-----------------------------------------------------------------------------
(* fleetrotate.  An incumbent is a scanned assignment:                     *)
(* [mailbox, worker, provider, band, resident, live, ok, block].           *)

TierNone == 0
TierBalance == 1
TierUnhealthy == 2
TierUnreachable == 3

Urgent(tier) == tier >= TierUnhealthy

Tier(inc) ==
    IF ~inc.live THEN TierUnreachable
    ELSE IF ~Eligible(inc) THEN TierUnhealthy
    ELSE IF inc.resident < ResidencyFloor THEN TierNone
    ELSE TierBalance

\* A plan counts the moves of one tick: [moved |-> Nat, byDest |-> [w -> Nat]].
Full(plan) == plan.moved >= MaxMoves

\* Consider: where this mailbox moves now, or None.  An urgent move only needs
\* somewhere to go; any other has to beat the vacated incumbent by more than the
\* margin.
WorthMoving_NoMargin(inc, score, dest) ==
    Urgent(Tier(inc)) \/ inc.worker \in DOMAIN score
WorthMoving(inc, score, dest) ==
    \/ Urgent(Tier(inc))
    \/ /\ inc.worker \in DOMAIN score
       /\ score[dest] > score[inc.worker] + Unit * MinScoreMargin

Destination(inc, score, plan) ==
    LET open == {w \in DOMAIN score \ {inc.worker} :
                     plan.byDest[w] < MaxMovesPerDestination}
        dests == {w \in open : WorthMoving(inc, score, w)
                                   /\ Best(score, open) = w}
    IN  IF Tier(inc) = TierNone \/ Full(plan) \/ dests = {} THEN None
        ELSE CHOOSE w \in dests : TRUE
=============================================================================
