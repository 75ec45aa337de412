# Verification of Inroad's delivery protocols

Inroad is a self-hosted cold-email sequencer with mailbox warmup. A control plane
(`cmd/inroad`: HTTP API, Postgres, Redis) owns all state; an execution plane
(`cmd/worker`) runs asynq tasks and talks to mail providers and webhook receivers. The
two meet at `internal/coreapi`. Almost everything that can go wrong is of one shape: a
row says what should happen, a task makes it happen outside the database, and a crash, a
timeout, a lost answer or a second task comes in between. The modules here model the
protocols in which that matters: the step-send path of a campaign, manual replies, new
emails behind the idempotency guard, webhooks, inbox polling, warmup sends and warmup
containment, the placement of mailboxes on workers, and sign-in sessions.

## Inventory

| Part | State it keeps | Operations | Hard behaviour | What makes it correct |
|---|---|---|---|---|
| Sequence step send (`worker/sequence`, `coreapi/inprocess/stepsendjob.go`, `senderpool.go`, `app/enrollment`) | `sequence_enrollments`, `sends`, mailbox pins, advance tasks | build job, resolve sender, claim, send, mark delivered, advance cursor, release, finalize, sweep | racing tasks, leases, crashes around the provider call, stops and deletions meanwhile | exclusive claims, no unexplained duplicate, order, one sender per thread, stops win, nothing is stranded |
| Inbox manual reply (`app/inbox/reply.go`, `pending.go`, `worker/inbox/pendingreplysend.go`, `pendingsweep.go`) | `inbox_pending_replies` | submit, queue, undo, claim, send, settle, record, sweep | Undo against the claim, ambiguous provider errors, check-then-insert | Undo and the send time are honoured, one holder, terminal is final, every reply settles |
| Outbound webhooks (`app/webhook`, `worker/webhook`) | `webhook_endpoints`, `webhook_deliveries` | dispatch, ping, deliver, retry, settle, switch off, delete | two retry mechanisms at once, no claim, lost enqueues | a pending row has a task, giving up is earned, terminal is final |
| Dead letters (`app/deadletter`, `platform/queue/deadletter.go`) | `task_dead_letters` | capture, replay, discard | claim before enqueue, capture that fails | a replay never runs twice |
| Compose (`app/inbox/compose.go`, `worker/inbox/pendingcomposesend.go`) | `inbox_pending_composes` | as replies, to several recipients | failure half-way through the recipients, a failed enqueue that leaves the row | every recipient is served before the row says sent, repeats beyond the fields that name an address are accounted for, no row is stranded |
| Branch routing (`branchroute.go`, `platform/seqgraph`) | step graph, await state | route on evidence | stale evidence, revisits | every route terminates |
| Rotation, capacity, A/B, cadence (`platform/rotation`, `sendcap`, `abtest`, `cadence`) | none (pure) | choose, cap, assign, schedule | boundaries | agreement with a reference |
| Inbox poll (`worker/inbox/poll.go`, `inboxpoll.go`, `platform/mail/*inbox.go`) | cursors, failure counts, threads | sweep, fetch, act on a message, write the cursor, back off | overlapping polls, failure half-way, windows of deleted messages, cursor resets | no message is skipped, old mail is left alone, every message is heard |
| Warmup (`warmupsendjob.go`, `warmupreceiptjob.go`, `platform/warmup`) | `warmup_sends`, receipts, participants, the transition trail, daily counters | claim, send, receipt, engage, evaluate, enable, disable | overlapping sweeps, leases, check-then-claim budgets, re-added addresses | one holder per send, counters agree with rows, degraded mailboxes are sealed, a cooldown is served |
| Fleet (`workerrouting.go`, `workerrotation.go`, `platform/fleetscore`, `platform/fleetrotate`) | worker heartbeats, mailbox assignments, provider verdicts | place, score, rotate, reap | stale workers, racing placements, decisions older than their writes | placements converge, no row names a reaped worker, every mailbox finds a home, moving ends |
| Idempotency middleware (`platform/httpx/idempotency.go`, `app/idempotency`) | idempotency keys | insert or reclaim, run, record, replay, release, purge | a lookup after the insert was lost, cancelled requests, expiry | one run per key unless it failed, a replay answers the same question |
| Sessions (`app/identity`) | sessions, token families, verifier caches | sign in, refresh, sign out, revoke, reset | concurrent refresh, a crash between revoke and insert, a stale cache | one successor per token, ended families stay ended, revocation takes effect within the cache's time to live, nobody is signed out without a reason |
| OAuth provider, second factor, federated sign-in (`app/oauthprovider`, `app/twofa`) | grants, codes, challenges | issue, redeem, refresh | single use of a code | not modelled |
| Campaigns, contacts, CRM, reporting, realtime, agents, crypto, web client, deployment | tables, caches, UI | CRUD, fan-out, rendering | little protocol of their own | not modelled |

Interactions: `Reply` and the inbox poll stop enrollments and change threads; mailbox
deletion cascades into sends and pins; every producer goes through `queue.Client`, where
a task id conflict counts as success; the sweepers re-create tasks from rows; dead
letters re-create them from archived tasks.

## Modules

| Module | Models |
|---|---|
| `SequenceSend` | the step-send path of a linear campaign |
| `StepDelivery` | what that path promises: a ledger of what every contact was mailed |
| `SequenceDelivery` | the refinement mapping from the one to the other |
| `SequenceSendProofs` | its safety properties and the refinement, proved |
| `PendingReply` | a manual reply from request to record |
| `Outbox` | what a row that is record and claim at once promises; `PendingReply` and `WarmupSend` implement it |
| `Idempotency` | the Idempotency-Key guard, for any handler behind it |
| `ComposeSend` | new emails, from the guarded request to the last recipient; composes `Idempotency` |
| `WebhookDelivery` | fan-out and delivery of an event, dead-letter replay |
| `InboxPoll` | polling one mailbox over IMAP, Gmail or Graph |
| `WarmupPolicy` | lanes and states of health, the words both warmup models use |
| `WarmupSend` | one mailbox's warmup sends and replies of a day |
| `WarmupLanes` | health, lanes and quarantine of one warmup address |
| `FleetScore` | the scoring and rotation policies, as functions |
| `Fleet` | registry, placement, rotation and reaper around them; extends `FleetScore` |
| `Sessions` | refresh rotation, revocation and the verifier cache |
| `WarmupProofs` | the theorems about `WarmupSend` and `WarmupLanes` |
| `...Proofs` | the theorems about the module of that name (see Proofs) |
| `MC...` | symmetry and table values for TLC |

Conventions: one step of a worker is one database transaction or one external call, so
what a handler read earlier may be stale when it writes. Time is a set of countdowns that
`Tick` moves together; where a handler has a timeout, `Tick` waits while an execution has
used it up, because asynq cancels it first. `Fault` spends a bounded budget of crashes,
failed calls and lost answers; a write whose answer is lost has committed. History
variables (deliveries, lost or hidden ones, receipts, `safe`, `ended`, ...) are there for
the properties and guard nothing. Every model of a component states its type invariant,
`TypeOK` (`LaneTypeOK` in `WarmupLanes`); those of the components with proofs are proved. Operators
marked "Mutant:" or "As if" are deliberate errors used to show that a property can fail; no
specification uses them.

### SequenceSend

`status, step, due, pin, root` are the enrollment row (`current_step`, `next_due_at`,
`mailbox_id`, `thread_root_id`); `row, rowMailbox, lease` the `sends` row of each
step; `pc, job, ttl` an execution of `AdvanceHandler`. `localStepSendJob` is the group
`SkipInert`, `TakeOrphan`, `TakeHeld`, `TakeDue` (what the bundle said), then
`ResolvePinned`, `ResolveClaim` or `ResolveExhausted` (`resolveSender`), then `Gate` (the
handler's gates on the finished job). `localClaimStepSend` is `ClaimWon`, `ClaimDeferred`
(not due, or the mailbox's interval), `ClaimRefused` (the mailbox is gone) and `ClaimLost`
(skip, or recover forward from a sent row). `Send` is the provider call with its five
outcomes; `timeout` and `severed` may hide a delivery and only the first is retryable.
`MarkStepDelivered`, `AdvanceStepCursor`, `ReleaseStepSend`, `FinalizeStepSend` and
`StopStep` are the writes of the same name; the last step of each also schedules the next
task, which may collapse with the running task's id. Everybody else is `Sweep`, `Halt`,
`DeferEnrollment`, `Suppress`, `SetCampaign`, `SetCapacity`, `DeleteMailbox`.

Abstractions: rendering, tracking, spintax and the breaker evaluation are left out;
daily caps and campaign limits are flags the environment sets; the sequence is linear;
the choice within the pool is any eligible mailbox.

### StepDelivery and SequenceDelivery

`StepDelivery` is the same path seen from the contact: no workers, tasks, leases or
clocks, only a ledger. `Deliver` sends a step once every earlier one is behind the contact,
and again only if no copy is on record and every earlier copy is one the sender cannot know
of. `Forget`, `Acknowledge`, `GiveUp`, `Complete`, `Stop` and `Wipe` are the other things
that can happen to a ledger. `SequenceDelivery` reads that ledger off the history of
`SequenceSend`: `life` is `status`, `mailed` is `delivered`, `acked` is `recorded`, `wiped`
is `reset`, and a copy is `unknown` when its 'sent' UPDATE never committed (`lost`) or the
provider answered an error for it (`hidden`). `ImplementsStepDelivery` says every step of
the detailed specification is a ledger step or none.

### PendingReply

`api, kind` is the HTTP request, `row, due, lease, fresh` the outbox row (`fresh` is what
is left of the dedup window). A request goes through `Submit` (duplicate check), `Admit`
(suppression and cap), `CreatePendingReply`, `EnqueuePendingInboxReply` and, after a
failure, `MarkUnqueued`; the handler through
`ClaimPendingReply`, `CheckSuppression`, `Send`, `MarkPendingReplySent`,
`RecordInboxReply`, `ReleasePendingReply` or `FailPendingReply`. The thread a reply belongs
to, its unread flag and its order, is left out: nothing on the path reads it.

### Outbox

A manual reply and a warmup email are kept alike: one row is both the record of the message
and the claim to send it. `Outbox` says what such a row promises, without workers, leases,
tasks or sweeps. An item is accepted (`Accept`), goes out (`Deliver`), again only when every
earlier copy is one the sender cannot know of, is recorded as sent on the strength of a copy
that is known (`Record`), taken back only while none is (`Undo`), or given up (`GiveUp`); the
news of a copy may be lost (`Forget`). An item that was given up may already be on its way; one
that was sent or undone never goes out. The mappings are at the end of the two modules: `fate`
is the row's status; `mailed` is `delivered` in `PendingReply` and `copies` in `WarmupSend`;
`unknown` is `lost` plus `hidden` in the one and `lost` in the other. `ImplementsOutbox` says
every step is a step of the outbox or none.

### Idempotency and ComposeSend

`Idempotency` is the guard by itself: `TryInsert` (insert, or reclaim a row past its
window), `Lookup` (the later read of a request that lost the insert), `Finish` (the handler
has answered), `SetResponse`, `Delete`, `Interrupt` (the request context is cancelled, and
with it every statement still to come), `Purge`, `Expire`. A stored response is named by
the request whose handler produced it. `ComposeSend` instantiates it over shared variables
and is the handler behind it: `CheckRecipients`, `CreatePendingCompose`,
`EnqueuePendingInboxCompose`, each of which may fail and answer 500. The worker side is the
reply protocol with a loop over the recipients (`at`): `Send` mails one address; any error
releases the row and the retry starts over with the first. `To`, `Cc` and `Bcc` list an
address once each, which is what `normalizeRecipients` sees to, and may share addresses;
`allRecipients` is the worker's list of the three, and `Listed` how often an address is on
it. `Expire` lets a row run out while nobody owns it, so also between a request's lost insert
and its lookup, which `Resolve` answers as the code does. `Asks` says which key and body a
request carries, so that a client's retry, and a client's reuse of a key for something
else, both occur. The sweep leaves an overdue row some minutes before it re-queues it; the
model's sweep may come at once, which allows every behaviour the grace does.

### WebhookDelivery

There is one event, so an endpoint stands for its delivery. `phase, todo, cur` is the loop
of `Dispatch`; a `task` is an asynq task and, while it runs, its handler. Nothing claims a
delivery: `Load` reads the row, `Post` calls the receiver, the guarded writes
(`MarkWebhookDelivered`, `MarkWebhookRetrying`, `MarkWebhookFailed`) follow, and `Requeue`
puts the next attempt on the queue. A handler that returns an error is retried by asynq
(`TaskFails`) and archived when its retries are spent; `DeadLettered` captures that unless
the process is gone, and `Replay` brings it back. Event filters are part of the endpoint
being active; URL edits and secret rotation change nothing but the receiver's answer,
which is nondeterministic anyway.

### InboxPoll

`box` is the inbox by position (UID, history id or place in the delta stream), with 0 where a
message was deleted; `epoch` is UIDVALIDITY, or the age of a history id or delta link; `cur,
curEpoch` is the stored cursor. The transport is chosen in `Init` and the handler branches on it
as the code does: IMAP asks for the head first (`CurrentState`) and moves the cursor by a window
of UIDs (`scannedWindowTop`), Gmail by the records it took (`collectHistory`, where one message
that cannot be fetched fails the window: `FetchWedged`), Graph by pages (`FetchGraph`).
`Process` carries out the effects of one message in the order of `processInbound`; the table
`Effects` lists them by kind, and a failure leaves a prefix of them done. What a poll has
fetched is a set, taken in the order of arrival, which is the order of the positions in every
transport. `SetInboxCursor` writes blindly. `Note` is the backoff ladder. `safe` is the mail
that arrived while no change of epoch was pending: the code re-baselines to the head after a
change and gives up what arrived around it, so the properties speak of `safe` mail. A message's
kind is given; the classifiers, the bounce and complaint parsers, correlation and the
best-effort junk scan are left out. `PageSize <= Batch` is assumed, which is the code's 200
against Graph's page size (see below for what happens otherwise).

### WarmupSend

One mailbox, its one partner and one day. A tick (`WarmupSendJob`) derives the send's id
from the number sent so far; an engagement (`WarmupEngageJob`) derives the reply's from the
receipt; `ClaimWarmupSend` inserts or takes over the row with that id if the lane is still
the one the job was built under. The provider takes the message (`Delivers`) or answers an error
(`Refused`), which may hide that the message left; `MarkWarmupSent`, or `ReleaseWarmupSend` or
`FailWarmupSend`, and `MarkWarmupEngaged` follow. `stale` says a claim is older than the
lease; only the claim of a worker that is gone becomes so.

An engagement is one task of the queue. The poll records the receipt (`RecordWarmupReceipt`)
and enqueues the task in a later step (`EnqueueWarmupEngage`), which may fail; the cursor then
stays and the next poll tries again (`KeptOnError`). Once the task is queued nothing enqueues it
again, and its id is the receipt's, so that a second enqueue would change nothing (`Queue`).
Every error of the handler, of rescue and mark-read too (`EngageStepFails`), costs one of the
task's retries, and with none left it is archived (`TaskFails`). A tick's task is not followed:
the scheduler adds another every few minutes. Ramps, spacing over the day and
content are left out; of partner selection only the pair's daily budget is kept, since it
is what two jobs compete for.

### WarmupLanes

One address. `row` is its `warmup_participants` row (health, lane, time blocked), `trail`
what later reads find in `warmup_state_transitions`, which is keyed on the address and
outlives the mailbox. `EvaluateParticipant` is the policy of `platform/warmup/policy.go`
(`evaluateHealth`, `HoldRecoveryDuringBlock`, `holdsForEvidenceGrace`, `evaluateLane`);
`EvaluateRead` and `ApplyWarmupParticipantTransition` are the two halves of a sweep with a
compare-and-set between them; `UpsertWarmupParticipant`, `DisableWarmupParticipant` and
`DeleteMailbox` are the operator. Rates, sample counts and the Wilson bound are reduced to
the band they warrant and whether there is enough of them.

### FleetScore and Fleet

`FleetScore` is the two policies as functions, in thousandths where the code uses floats.
In `Fleet`, `seen` is the registry, `asg` the assignment rows, `sig` the providers'
verdicts on a worker within the window. `Resolve` and `CallStep` are
`AssignMailboxWorker`, one statement a step; `RotateStart`, `RotateConsider` and
`RotateApply` the rotation pass with its scan cursor and its budgets; the reaper deletes
workers not seen for `PurgeAge`. Cutoffs are computed when a call starts and compared
later. One workspace is modelled, so the tenant spread of the score counts all mailboxes.

### Sessions

`state, family, expired` are the `sessions` rows of one user; `cookie` is a browser's jar,
shared by its tabs; `pc, old, new` a refresh request. `RefreshRead`, `RefreshRevoke`,
`RefreshKill` (reuse detection), `RefreshMint` and `Reply` are the statements of `Refresh`;
`Logout`, `LogoutAll`, `ResetPassword`, `RevokeSession` and `RevokeOtherSessions` the
revocations, each followed by `Bust` on the replica that ran it. `LoadRead` and `LoadPut`
are the verifier's cache miss, between which anything may happen; requests that miss
together read the state each (`loading` is a set). `LoadTime` bounds how long a read state is
held before it is cached. `doomed` is the history behind `StaysSignedIn`: the families that
were given a reason to be over, each by the step that gives it (`Doom`).

## Runs

| Run | Bounds | Checks |
|---|---|---|
| `race` | 1 enrollment, 2 steps, 2 workers, 2 mailboxes, all provider outcomes, 2 faults, 1 change | `ClaimExclusive`, `DuplicatesArePaidFor`, `InOrder`, `OneVoice`, `AtMostOneAfterStop`, `TerminalIsFinal`, `ImplementsStepDelivery` |
| `live` | the same with a pool of 1 (so that it can be exhausted), waits and a mailbox interval of one tick, 1 fault, no permanent failure | `EveryEnrollmentEnds` |
| `reply` | 1 reply, 2 workers, 2 tasks, 3 faults, 1 change | `RepliesArePaidFor`, `UndoIsHonoured`, `ImplementsOutbox`, `EveryReplySettles` |
| `webhook` | 1 endpoint, 2 tasks, 3 attempts, 1 asynq retry, 2 faults, 1 refused and 1 echoed enqueue, 1 change | `PendingHasATask`, `ReceiptsArePaidFor`, `GivesUpOnlyAfterTrying`, `EveryDeliverySettles` |
| `compose` | 2 requests with one key and two bodies, 2 workers, one address in To and in Cc, 1 fault, 1 change | `ReplayIsFaithful` (action), `RunsOncePerKey`, `CopiesArePaidFor`, `SentMeansEveryone`, `EveryComposeSettles` |
| `poll` | 3 messages of which 1 old, 2 workers, each transport, window and page of 1, ladder of 2 rungs, 1 fault, 1 change | `NothingSkipped`, `OldMailUntouched`, `EveryMessageHeard` |
| `warmup` | 2 handlers, 1 receipt, volume 3, pair cap 2, 1 retry of an engagement, 2 faults, 2 lane changes | `DuplicatesArePaidFor`, `CountersAgree`, `PairBudgetHolds`, `EventuallyEngaged` |
| `lanes` | 2 sweeps, cooldown 2 days, dwells 2 and 1, grace 1, 1 report | `DegradedIsSealed`, `CooldownServed`, `ContainmentIsAnchored`, `RecoveryIsGradual` |
| `fleet` | 2 workers, 2 mailboxes, 2 callers, rotation scanning both rows from a moving cursor, 1 event | `NoOrphanedPin`, `StaysPut` |
| `fleet_live` | 1 caller, rotation scanning 1 row of 2 at a time, 2 events, no lane changes | `FindsAHome`, `ComesToRest` |
| `sessions` | 1 browser with 2 tabs, 1 replica, 3 session rows, cache of 2 ticks, 1 fault, 1 revocation or expiry, 1 cache miss | `OneSuccessor`, `EndedStaysEnded`, `HonouredBriefly`, `StaysSignedIn` |
| `wedge` | 3 steps, 2 workers, 1 fault | refutes `FailedRowHasAdvancedCursor` |

Why the bounds are enough to be interesting: two workers are what a race needs, since
every conflict is over one row and a third worker can only repeat what a second does; two
steps give an earlier and a later one (the wedge needs three); two faults let a crash
during recovery from a crash happen; a lease of two ticks against a timeout of one keeps
the inequality the code has (300 s against 120 s) with the least room. One reply is enough
for the claim, Undo and settling, which concern one row; the duplicate check and the outbox
cap, where two replies would meet, are therefore exercised only trivially. Two compose
requests are a submission and its retry, with the same body or another, and the row may run
out between the retry's lost insert and its lookup; a third request that reclaims it there is
covered by the theorem only. Three messages
with a window of one are an old message, one to be skipped by a careless cursor and one
behind it. Two mailboxes on two workers let placement, crowding and rotation pull in
different directions. Three session rows are a sign-in and two rotations; two misses of one session at
the same time are covered by the theorem only, since a second miss makes the run four times as
large. One retry of an engagement and two faults let its task be archived, or fail once and
succeed. Symmetry is used
over workers (`race`), sweeps (`lanes`) and tabs (`sessions`), never with a liveness
property. Enrollments share mailboxes' intervals and nothing else that the properties
speak of; the theorems below cover any number of them.

Fairness, and why the code has it:

- asynq hands out due tasks (`Start`, `Take`, `Load`), a handler that runs goes on
  (`Work`, `CallStep`, `Handle`), the periodic sweeps run (`Sweep`), time passes (`Tick`,
  `LeaseRunsOut`). All are weak. In `ComposeSend` no request need ever finish.
- `Fleet`: workers that run heartbeat; every mailbox is resolved again and again, because
  its poll or send task is. That fairness and the start of a rotation pass are strong: they
  compete for turns with each other, and both recur on a schedule for ever.
- `WarmupSend`: a handler that runs goes on, and a poll that failed to enqueue an engagement is
  followed by another (weak). The start of an engagement's task is strong: the task stays
  queued until asynq hands it out, asynq serves its queue in order, and workers may be busy with
  ticks in between. That it is ever enqueued a second time is not assumed, since nothing does it
  once the cursor has passed the message. Its retries are finite: `EventuallyEngaged` says
  engaged or archived.
- Nothing is assumed of operators, requests, replays or provider successes, but failures
  are finite. `EveryEnrollmentEnds` asks that the campaign and its mailboxes stay open from
  some point on, `EveryMessageHeard` that the mailbox is not paused. The webhook liveness
  excludes, in its own statement, deliveries whose first task the queue lost and those
  whose task asynq archived.

### What does not hold

The run `wedge` states a sentence of the repository and TLC refutes it:
`stepsendjob.go:738` takes a failed row to have an advanced cursor
(`FailedRowHasAdvancedCursor`), but the cursor write is absolute, so a slow worker can move
it back below a failed step, which is never claimable again.

### What the code does not promise

Behaviours met while modelling that no property above excludes. They are consequences of
the code as written, not failures of a run; where a property had to make room for one, the
property says so.

- Step sends. Deleting a mailbox after the recorded delivery of step one and before its
  cursor advance sends step one again (`stepsendjob.go:644`). A response timeout after
  acceptance is retryable, a duplicate with every UPDATE committed (`mail/retry.go:13-28`).
- Replies. An ambiguous error releases the row, which can then be undone although it went
  out (`pending.go:29`). Two submissions can pass the duplicate check before either inserts
  (`reply.go:132`). `MarkInboxPendingReplySent` says that its caller records the outbound
  message exactly once, but the worker logs an error of that write and records all the same
  (`pendingreplysend.go:169-187`), so a reply that is sent again is recorded again. The comment
  there wants no second delivery of an error past the dial; a failed mark leaves the row claimed,
  and once its lease is over it is sent again, which `RepliesArePaidFor` counts as lost.
- Webhooks. A delivery whose first enqueue failed stays pending; no sweep reconciles it
  (`app/webhook/service.go:350`).
- Compose. After a failed enqueue the client is told the request failed and its key is
  released, while the row is rescued by the sweep: a retry with the same key sends a second
  message. Scheduled composes are not counted against the outbox cap. An address in both To and
  Cc gets the message twice in one clean attempt: the comment at `compose.go:137-139` gives that
  as the reason for the de-duplication, which works on each field alone
  (`pendingcomposesend.go:134-140` joins them). `CopiesArePaidFor` allows for it (`Listed`), and
  the run `compose` has such an address; with one copy per address in the property TLC refutes it.
- Inbox poll. Polls that overlap a first baseline or a change of epoch re-baseline over mail
  that arrived in between. A Gmail message deleted for good before it was fetched fails its
  window until the cursor ages out. A delta page longer than the batch would be cut and its
  rest skipped (`graphinbox.go:196-215`). Messages polled again announce `reply.received`
  again; a bounce stops the enrollment before it suppresses the address.
- Warmup. A timeout is taken for a send of which nothing was delivered (`warmup/send.go:160`):
  the claim is released, and if the message had left it is sent again. The compare-and-set of a
  transition compares values, so a sweep that read the row before a quarantine may write over a
  row that has come back to what it read. A send that failed permanently keeps its id, so later
  ticks of that day find it taken. A crash after a reply was claimed may leave its receipt
  engaged without a reply. An engagement whose retries are spent is archived and its receipt
  never engaged; the task id it leaves behind makes a later enqueue a silent no-op
  (`queue.go:571-606`), and no sweep looks for such receipts. (Replaying that dead letter, and
  participants that leave the pool, are not modelled.) The partner's own sends on the pair,
  which the same budget counts, are not modelled either: the bound of `PairBudgetHolds` is for
  one mailbox's handlers. A mailbox quarantined with no evidence can stay there
  (`policy.go:322-326`).
- Fleet. The rotation scan sorts live workers' mailboxes by the number of refusals before
  anything else and takes 40. Mailboxes on a worker that is refused often, but not always,
  come first on every tick and are left where they are; while there are 40 of them, a
  mailbox on a worker that is refused every time, but less often, is never looked at. The
  comments (`fleetrotate.go:218`, `worker_routing.sql:250-254`) expect urgent rows at the
  front and every row to come round. `FindsAHome` excludes this (`CrowdedOut`); without
  that disjunct TLC finds it with two mailboxes and a scan of one.
- Sessions. A revocation while a refresh is between its two writes does not see the
  successor, which lives on although `service.go:398` and `store.go:333` say that no session
  survives a reset. `EndedStaysEnded` excludes this (`straggler`); without that TLC finds it
  with one tab. A cache miss in flight stores a session that was revoked and busted meanwhile.
  Two tabs that refresh at the same moment end their family and sign their browser out, with
  nothing failing. The reply to an older request may clear or overwrite the cookie of a newer
  sign-in. `StaysSignedIn` counts both among the reasons, for the family concerned.

## Proofs

The safety properties of all nine specifications that a run checks are theorems: they hold
for every value of the constants the assumptions allow, so for any number of enrollments,
replies, requests, recipients, endpoints, messages, mailboxes, sessions and workers and any
number of faults, where the runs have two or three. Every inductive invariant was
model-checked on the constants of the run before it was proved.

| Module | Theorem | Property |
|---|---|---|
| `SequenceSendProofs` | `TypeCorrect` | `TypeOK` |
| | `ClaimsAreExclusive` | `ClaimExclusive` |
| | `DuplicatesAreAccountedFor` | `DuplicatesArePaidFor` |
| | `StepsGoOutInOrder` | `InOrder` |
| | `CompletionIsEarned` | `CompletedMeansDone` |
| | `ThreadsKeepTheirVoice` | `OneVoice` |
| | `StopsHoldBackMail` | `AtMostOneAfterStop` |
| | `EndedEnrollmentsStayEnded` | `TerminalIsFinal` (action) |
| | `SendPathImplementsStepDelivery` | `ImplementsStepDelivery` (refinement) |
| `PendingReplyProofs` | `RepliesTyped` | `TypeOK` |
| | `EveryReplyIsPaidFor` | `RepliesArePaidFor` |
| | `UndoIsFinal` | `UndoIsHonoured` (action) |
| | `RepliesImplementOutbox` | `ImplementsOutbox` (refinement) |
| `ComposeSendProofs` | `ComposeTyped` | `TypeOK` |
| | `ReplaysAreFaithful` | `ReplayIsFaithful` (action) |
| | `HandlersRunOncePerKey` | `RunsOncePerKey` |
| | `EveryCopyIsPaidFor` | `CopiesArePaidFor` |
| | `SentReachesEveryone` | `SentMeansEveryone` |
| `WebhookDeliveryProofs` | `HooksTyped` | `TypeOK` |
| | `PendingDeliveriesAreWatched` | `PendingHasATask` |
| | `WebhookReceiptsArePaidFor` | `ReceiptsArePaidFor` |
| | `FailedDeliveriesWereTried` | `GivesUpOnlyAfterTrying` |
| `InboxPollProofs` | `PollsTyped` | `TypeOK` |
| | `TheCursorSkipsNothing` | `NothingSkipped` |
| | `OldMailIsNeverTaken` | `OldMailUntouched` |
| `WarmupProofs` | `WarmupTyped` | `TypeOK` |
| | `WarmupDuplicatesArePaidFor` | `DuplicatesArePaidFor` |
| | `WarmupCountersAgree` | `CountersAgree` |
| | `PairBudgetIsBounded` | `PairBudgetHolds` |
| | `NoReceiptIsStranded` | `NotStranded` |
| | `WarmupImplementsOutbox` | `WarmupSend`'s `ImplementsOutbox` (refinement) |
| | `LanesTyped` | `LaneTypeOK` |
| | `DegradedMailboxesAreSealed` | `DegradedIsSealed` |
| | `CooldownsAreServed` | `CooldownServed` |
| | `QuarantinesAreAnchored` | `ContainmentIsAnchored` |
| | `HealthRecoversGradually` | `RecoveryIsGradual` (action) |
| `SessionsProofs` | `SessionsTyped` | `TypeOK` |
| | `OneSuccessorPerToken` | `OneSuccessor` |
| | `EndedFamiliesStayEnded` | `EndedStaysEnded` |
| | `RevocationsTakeEffect` | `HonouredBriefly` |
| | `SignedInUntilAReason` | `StaysSignedIn` |
| `FleetProofs` | `FleetTyped` | `TypeOK` |
| | `PinsAreNeverOrphaned` | `NoOrphanedPin` |
| | `LiveRowsStayPut` | `StaysPut` (action) |

### The invariants, and why they are needed

None of the properties is inductive alone: each speaks of what has happened, and a step
from an unreachable state can break it. What is added is always what the code's other
statements rely on without saying so.

- Step sends. `TypeInv` says what a job carries at each control point. `OrderInv`: sent rows
  were delivered, and neither a worker's step number nor the cursor is ahead of what is
  settled, so the absolute cursor write may move back but never past an unsettled step.
  `SenderInv`: rows, resolved jobs and past mail all name the pinned mailbox, until a
  deletion. `LeaseInv`: a holder's lease outlasts its remaining time; deliveries equal lost
  plus hidden plus one when recorded or about to be. A second worker wins only when the
  lease is zero, and the lease needs the sender invariant, since a deletion is what takes a
  row away under a holder. `GaveUpInv` and `StopInv`: after the one late message every
  remaining job is for a settled step. `EndedIsNotDue`: an ended enrollment has no due time
  for `Tick` to move. `CompletedMeansDone` has no run of its own; the theorem covers it, and
  so does `Complete` in the ledger that `race` checks.
- The refinement of `StepDelivery`. Under the mapping of `SequenceDelivery` every action is one
  ledger step or none, and the invariants above supply the guards of that ledger step:
  `OrderInv` that a delivery comes in order and a completion after everything, `LeaseInv` that a
  second copy goes out only when every earlier one is unknown.
- Replies (`ReplyInv`). An execution that holds a row finds it claimed with a lease that
  outlives the execution, or given up: the request whose enqueue failed may fail a row whose
  task was queued after all (`Claims`, `OneClaim`). While a row may still be sent, everything
  that went out for it is excused (`Deliveries`, `Turn`). `UndoIsFinal` follows because only
  an execution with a claim delivers, and a claim excludes a cancelled or early row. For the
  refinement of `Outbox` one thing is added: what is excused did go out, and what an execution
  is about to record is not excused (`Known`). With `Deliveries`, no copy is known of a row that
  can be undone.
- New emails. `GuardInv`: a request between its insert and its last statement owns the row of
  its key, alone, and all that ran before it in the window failed (`Owned`); a response is one
  produced for the row's key and hash (`Stored`, `Answered`); a run that did not fail keeps
  the row for the rest of the window (`Held`). `WorkerInv`: a live execution owns its row for as
  long as its timeout runs, and every copy belongs to the execution that put it on the wire.
- Webhooks (`HookInv`, a conjunction over endpoints, which do not meet). Nothing claims a
  delivery, so what is bounded is the number of its tasks (`Counted`). A success that the row
  does not know of is lost or is about to be written by a task (`Receipts`), and the number
  of an attempt, as a handler carries it and as the row keeps it, never exceeds the number of
  POSTs (`Tried`). `Fresh` is what makes the first task the first.
- Inbox poll (`PollInv`). The cursor is written blindly and possibly late, so the invariant is
  about every cursor that may still be written: no old mail lies above it (`OldBelow`), and if
  it is one of the current epoch everything below it was dealt with or is in the window of the
  poll that carries it (`Covered`). Mail counts as `safe` only while no stale poll is under way
  (`Kept`). Renumbering by the server is the hard step: a message never moves to a higher
  position, which is a counting argument (`RenumberingKeepsOldBelow`).
- Warmup sends (`WarmupInv`). One handler holds a row (`Holding`); copies are lost, in transit or
  recorded (`Accounts`); a reply is reported only for a sent row (`Tasks`) and counted once, with
  its receipt (`Counters`); and the rows that spend the pair's budget together with the handlers
  that were promised some of it stay within the cap plus the other handlers (`Budget`). For the
  refinement of `Outbox`, no more copies are lost than went out (`Losses`). What the queue keeps
  for a receipt is an invariant of its own (`NotStranded`): a receipt that waits has a poll that
  owes it a task, or a task. It is the safety half of `EventuallyEngaged`.
- Warmup lanes (`LaneInv`). A sweep decides on what it read and writes later, so the invariant is
  about decisions not yet written: what the policy may decide at all (`Sane`, a fact about the
  functions of `policy.go`), and what a releasing decision still knows about the cooldown
  (`Timely`).
- Sessions (`SessionInv`). A family has one live session, or one refresh about to insert it, or
  neither (`OneHeir`), from which reuse detection ends whole families (`Ends`). What a verifier
  may believe ages with the revocation (`Beliefs`). A session belongs to one browser (`Owners`),
  which has it accounted for or is exchanging it. `Reasons` follows a token through a refresh:
  unless its family has a reason to be over, no other request presents it (`Rivals`), a request
  that goes on holds the family's last session (`Requests`), and when the exchange is done the
  successor is in the browser's jar (`Cookies`, `Lineage`, `Holders`).
- Fleet (`FleetInv`). An assignment is written several statements after the worker was chosen,
  so the invariant follows the choice: the pick of a caller was seen within the live window plus
  the age of the call (`CallsKnow`), and so were the workers of every measurement the pass keeps
  in its cache and, through them, its destination (`PassKnows`; `PassShape` says what a pass is
  made of at each point). A call and a pass end with their deadline, and the reaper waits longer
  than window and deadline together, so none of those workers can have been reaped. That a
  decision names a worker of the measured fleet at all rests on the choice operators
  (`LeastLoaded`, `Best`, `NextIncumbent`) having something to choose, which is a fact about
  finite sets under a total order (`First`, by counting what precedes each element).

Each step proof has one lemma per action or per group of actions that touch the same state,
and a lemma that goes through `Next`.

### Assumptions

Besides types (natural numbers, subsets, a `None` outside the sets it stands beside), the
assumptions that carry weight are:

- `Timeout < Lease` in `SequenceSend`, `PendingReply` and `ComposeSend`: asynq cancels a handler
  before its claim can be taken over.
- `PageSize <= Batch` in `InboxPoll` (without it a Graph page would be cut and its rest
  skipped) and `Ladder[i] <= Permanent`, the last rung being the cap (`pollbackoff.go:38-48`).
- `Cooldown > 0` in `WarmupLanes`.
- Receipts and tick numbers name different rows in `WarmupSend`: the code derives their ids from
  different seeds.
- In `ComposeSend`, a response is not one of the words the guard uses in its place
  (`"inflight"`, `"uncacheable"`, ...), which in the code are other columns.
- `PurgeAge > LiveWindow + CallTimeout` in `Fleet` (24 h, 15 min, 10 min), and finitely many workers
  and mailboxes, without which a least-loaded worker need not exist.

### What the proofs changed

Definitions were changed because of a proof attempt in four modules. `evaluateHealth` and
`evaluateLane` in `WarmupLanes` were `CASE` expressions whose arms overlap, which leaves the arm
that is taken unspecified, while the Go code returns from the first that applies; they are
first-match conditionals now. `InboxPoll` kept the fetched window as a sequence filtered with a
recursive operator; it is a set whose least message is taken first, and `Renumbered` says what a
new UIDVALIDITY does without recursion. `Fleet` gained the type of a resolution in flight
(`Call`), the rotation pass's bookkeeping as an operator of its own (`Considered`), an order of
the scan without tuples (`ScannedBefore`), and in `FleetScore` a tenant's fleet as a count
instead of a fold. The reachable states are the same. `WarmupSend` took the provider's refusal
and the release or failure of the claim for one step, in which no message could have left;
mapping its claims to `Outbox`, where a delivery may remain unknown, showed what was missing,
and `Refused` is the provider's answer now. `WarmupSend` and `WarmupLanes` share `WarmupPolicy`,
so that one module proves both.

### Only model-checked

- Everything temporal with fairness (`EveryEnrollmentEnds`, `EveryReplySettles`,
  `EveryDeliverySettles`, `EveryComposeSettles`, `EveryMessageHeard`, `EventuallyEngaged`,
  `FindsAHome`, `ComesToRest`): liveness and ENABLED are outside the prover's reach.
- `WarmupSend`'s `ImplementsOutbox` is the other way round: it is proved, and no run lists it.
- `Idempotency` is proved as `ComposeSend` composes it, behind that handler and with its
  failures, not for an arbitrary one.

## Not modelled

Most of the repository is CRUD over Postgres, reporting, generated query code, rendering
and configuration, which have no protocol of their own to check; the modules cover the part
where concurrency and failure decide correctness, which is a small share of its lines.
Within that part these are left out: branch routing and A/B variants, message contents,
counting against daily caps and campaign limits (check-then-act, listed as hazards), reply
classification, drafts, the purge jobs, routing of task types to queues, ramps and spacing
of warmup, and of identity the second factor, federated sign-in, workspace switching and
the OAuth provider.

## Plan

1. Refinement: a ledger for new emails. A compose is sent to its recipients in order and as a
   whole again after a failure, so its ledger needs attempts, which `Outbox` does not have.
2. Branch routing on top of the step-send path, with await states and stale evidence.
3. Rotation, capacity, cadence and A/B assignment as functions against a reference, and
   the overshoot of a cap under concurrent sends as a bound.
4. OAuth codes and refresh tokens beside `Sessions`.
