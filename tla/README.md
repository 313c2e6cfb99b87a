# SeatFlow: a TLA+ verification project

SeatFlow sells numbered seats. It is a Next.js monolith over PostgreSQL: the
tables are the truth, and correctness rests on short transactions, row locks,
status-guarded updates, unique indexes, CHECKs and triggers. Requests, staff
actions, cron jobs and provider webhooks all run at the same time, in many
processes. This project models the parts where that is hard to get right.

## 1. Inventory of the system

| part | state it keeps | operations | interacts with |
| --- | --- | --- | --- |
| Seat holds (`server/holds`) | `SeatHold`, `SeatHoldItem`, `SessionSeatInventory` | acquire, release, lazy expiry, sweep | sessions (eligibility), checkout (conversion), outbox |
| Sessions and events (`server/events`) | status, sales window, `cancelledAt`, `preArchiveStatus` | pause, resume, cancel, archive, restore, publish, price | holds (cancellation releases them) |
| Checkout and payments (`server/payments`) | `CheckoutOrder`, `PaymentAttempt`, `PaymentWebhookEvent`, `Booking` | create order, ensure intent, store and process webhook, expire orders, reconcile, reprocess | holds, provider, outbox, tickets |
| Tickets (`server/tickets`) | `Ticket`, `TicketCredential`, `TicketIssuanceRequest`, `TicketRedemptionEvent`, download grants | issue, retry, scan, rotate, revoke, download | bookings, refunds, mail |
| Refunds (`server/refunds`) | `Refund`, `RefundSeat`, ledger entries, totals on `PaymentAttempt` | request, claim, submit, settle, reconcile | payments, provider, tickets |
| Disputes (`server/disputes`) | `PaymentDispute`, its events, ledger entries, review state of the order | store, open, advance, review, report a divergence | payments, refunds, tickets |
| Inventory events (`server/inventory-events`, `scripts/realtime-gateway.ts`, the seat page) | outbox rows, a Redis stream, sockets, the page's timers and view | dispatch, publish, relay, reconnect, poll, refresh | holds, Redis |
| Notifications (`server/notifications`) | outbox rows, delivery attempts | claim, send, back off, dead-letter | tickets, mail provider |
| Jobs and supervision (`server/jobs`, `server/operations`) | delivery receipts, heartbeats | claim, run, record, prune; beat; report readiness | all batch jobs |
| Seat maps, venues (`server/seat-maps`, `server/venues`) | status of venue and space, versions and layouts | edit, generate, delete, publish, clone | events |
| Catalogue (`server/events`, `server/venue-access`, `server/holds/inventory-service.ts`) | grants, event and session drafts, tiers, assignments, inventory | draft, price, assign, publish, materialise, backfill | seat maps, holds |
| Rate limits (`server/security`) | windows in Redis and in each process | count, fall back, cool down | every route |
| Deployment (`env`, `features/operations`, `scripts`, `server/payments/*-provider.ts`) | environment variables, the memoized payment adapter | import, check, deploy, build the adapter, answer a webhook | payments, mail |
| Auth, UI, observability | sessions, none | HTTP and text | everything |

What is hard here: check-then-act around a transaction (an idempotency lookup,
a status read, the clock); several operations racing for one hold; webhooks
that are duplicated, reordered, early or late; provider calls whose answer is
lost; crashes between two transactions; work that must eventually be done by a
job; an operation whose trigger read a row that changes before it commits; a
configuration that changes between check and use. `PROJECT.json` lists each such hazard at its line.

What makes each part correct, in a sentence: a seat is never sold twice nor
trapped; a cancelled session sells nothing; an order is paid, booked and
seated all together or goes to review; a final outcome stands; a payment is
never refunded beyond what was captured; a ticket admits once, and only its
newest credential does; a lost dispute is charged back once; what an outbox
counts as delivered was delivered; a published session has one priced row for
each seat; a deployment that simulates payments touches neither cards nor
customers.

## 2. Modules

    SeatAllocation          what the seats of a session promise (abstract)
      ^ refines
    SeatHolds               holds, inventory, sessions, event, outbox rows
      ^ extends, refines
    Checkout                orders, payments, webhooks, bookings, provider

    RefundAllocation        what refunds promise about a booking's price (abstract)
      ^ refines
    Refunds                 refunds of one payment, provider, ledger, tickets touched

    Admission               what a pass promises at the door (abstract)
      ^ refines
    Tickets                 tickets of a booking: issuance, scans, rotation, revocation

    Disputes                disputes of a payment, next to its refunds
    Notifications           mail outbox and download links
    SeatMaps                venue, space, versions and layouts of a seat map
    Catalogue               event, sessions, prices, publication, inventory
    RateLimit               one subject of one rate limit
    Deployment              configuration, checks, payment adapter, webhook answers
    Realtime                inventory outbox, stream, gateway, seat page
    Operations              job delivery, heartbeats, readiness

    SeatHoldsProofs         theorems about SeatHolds
    SeatHoldsRefinement     SeatHolds implements SeatAllocation (proof)
    CheckoutProofs          theorems about Checkout; it implements SeatHolds, and so SeatAllocation
    RefundsProofs           theorems about Refunds and sums over sets; it implements RefundAllocation
    TicketsProofs           theorems about Tickets; it implements Admission
    DisputesProofs          theorems about Disputes
    DeliveryProofs          theorems about Operations, Realtime, RateLimit, Notifications
    BeforeSaleProofs        theorems about SeatMaps, Deployment, Catalogue
    MCSeatHolds, MCCheckout, MCRefunds   instances for TLC
    MCAroundSale            instance of Tickets to Deployment
    MCPlatform              instance of Realtime, Operations and Refunds under fairness

### SeatHolds

One event with its sessions. `hold` is the `SeatHold` table with the inventory
rows of its items, `inv` is `SessionSeatInventory`, `outbox` the deduplication
keys of `InventoryEventOutbox`, `session` and `event` the statuses with what
the lifecycle CHECKs look at, and `pending` what a request in flight has read.

| action | code |
| --- | --- |
| `StartAcquire`, `CommitAcquire` | `acquireSeatHold` before and inside its transaction |
| `StartRelease`, `CommitRelease` | `releaseSeatHold` |
| `ReleaseExpired` | `releaseExpiredHoldsForSession`, called by checkout's jobs |
| `SweepExpiredHolds` | one batch of `sweepExpiredHolds` |
| `ConvertHold` | the inventory and hold part of fulfilment |
| `StartSessionOp`, `CommitPauseOrResume`, `CommitCancelSession` | session staff operations |
| `CancelEvent`, `StartArchiveEvent`, `StartRestoreEvent`, `CommitArchiveOrRestore` | event staff operations |
| `Abandon` | refusals, rollbacks, exhausted retries, a dead process |

A transaction is one step. That is sound for the properties here because each
transaction locks the rows it decides on (`FOR UPDATE`, or the conditional
update itself) before it reads them, and cancellation runs SERIALIZABLE. Two
reads are not covered by a lock: acquisition and checkout read the event and
session status while a pause or an archive may commit. Those write nothing the
acquisition reads again, so the outcome is that of the acquisition first.

### Checkout

Extends SeatHolds, so the two are composed by conjunction: `HoldStep` runs
unchanged next to the payment operations, and `ReleaseExpired` and
`ConvertHold` are called from them. A hold has at most one order and an order
one attempt and at most one booking, so all go by the hold's identifier.
`Verdict` gives the early returns of `processVerifiedWebhookRecord` in their
order; each way out is an action. The provider (`IntentFor`, `Emit`) is
external: it honours idempotency keys, may answer or not, and may deliver any
event any number of times.

### Refunds

One captured payment with its booking. A refund goes by the idempotency key of
its request, from which the key of the provider call is derived. `refund` is
`Refund` with its `RefundSeat`s, `totals` the two aggregates on
`PaymentAttempt`, `made` and `sent` the provider, `work` and `found` what a
submission worker and the reconciliation have in hand between transactions.

| action | code |
| --- | --- |
| `StartRequest`, `CommitRequest`, `RefuseRequest` | `requestRefund`: the reads before the payment's lock, and what follows it |
| `StartClaim`, `CommitClaim` | `claimRefundForSubmission` |
| `ProviderAnswers`, `StartRecording`, `CommitAttach`, `CommitTimeout`, `CommitReject` | the rest of `submitRefund`, `failRefund` |
| `FindExternal`, `StartAdopt`, `CommitAdopt` | `reconcileAmbiguousRefunds` |
| `ParkUnknown`, `IgnoreEvent`, `StartSettle`, `CommitSucceeded`, `CommitFailed`, `CommitReview` | `processVerifiedRefundRecord`, `settleRefundFromVerifiedEvent` |
| `EmitReport` | the provider (external) |
| `Abort`, `WorkerDies` | a rollback; a dead process |
| `IssueTickets`, `ScanTicket` | issuance and an accepted scan, as far as refunds meet them |

Here a transaction is not one step. Each write of a `Refund` fires the trigger
that recounts the totals in one `UPDATE`, and under READ COMMITTED an `UPDATE`
that has to wait for the payment's row does not compute its sums again. So
`Start` takes the refund's row and the snapshot of the other refunds, and the
commit uses that snapshot. A request locks the payment first and is one step.
A provider error is "timeout" or "rejected" by its wording (`isAmbiguousFailure`),
so after either the provider may have made the refund (`ProviderAnswers`).
`late` on an event says whether the outcome was on record before the event
occurred: the code compares the event's time with the time of processing.

`ShareView` is the abstract view: of each seat, which refunds claim or have
returned its price. `RefundAllocation` has no rows, workers or totals: a refund
claims its seats together, gives them up together or returns them together, and
what is returned stays so.

Left out: `FIXED_AMOUNT` refunds (no caller creates one), `RefundAttempt`
rows (history nobody reads back), and storing an event apart from processing it
(every delivery processes what is stored).

### Tickets

The tickets of one booking. `LockCredential`, `CommitScan` are
`validateTicketEntry` at its two row locks, with the time its transaction began; `StartStaff`,
`StaffLocksCredential`, `CommitRotate`, `CommitRevoke` the staff operations,
which lock in the other order; `StartSettle` to `CommitSettle` the
consequences of a refund; `ClaimRequest`, `CommitIssue`, `RecordFailure`,
`RetryDeadLetter` issuance. A transaction is a step per lock it may wait for,
its writes appear with the last, and each may be undone instead. `PassView`
is the abstract view: of each seat, the state of its ticket and the versions of
the credentials it answers to. In `Admission` the passes are handed out
together, one gets a newer key, opens the door once with the key it has at that
moment, or is voided.

### Disputes

`StoreDisputeEvent` stores a verified event, `ReadDisputedPayment` and
`LockDispute` begin its transaction, and `openDispute`, `advanceDispute`,
`reviewDispute`, `ignoreDispute` are its ways out. `disputeLog` is
`PaymentDisputeEvent`, `disputeLedger` the entries by cause. Refunds
(`SettleOtherRefund`), fulfilment, issuance and entry happen around it;
`raiseDivergence` is the reconciliation's comparison of totals and ledger.

### Notifications

`ClaimNotice`, `SendMail`, `CommitNotice` are one row of
`dispatchNotificationBatch`: the mail leaves inside the transaction, so
`AbortNotice` may undo the row and not the mail. `LockGrant`,
`CommitDownload` are `consumeBookingPdfGrant`.

### SeatMaps and Catalogue

SERIALIZABLE transactions are one step. A publication reads first and commits
later (`ReadForPublication`, `CommitPublication`; `ReadForSale`, `CommitSale`),
and is undone when a SERIALIZABLE step has changed what it read. Deletions in a
seat map, and updates and deletions of a price tier, are READ COMMITTED
statements: a check by the application or a trigger (`CheckDelete`,
`WriteDelete`, `WriteTier`), then the commit, of which a publication takes no
notice: the trigger on inventory compares its rows with tiers of the
publication's own snapshot, and the foreign key's lock passes over an update of
a price. `updated` says whether a tier's `updatedAt` is later than its
`createdAt`.

### RateLimit

`Increment` is the Redis script and `CountArrives` its answer; a time-out
(`BackendFails`) leaves the increment made. `consumeRateLimit` is the
process-local fallback. Both failure modes of a policy are explored.

### Deployment

A variable's value is the class the code tells apart. `Configure` edits or
imports variables (`runImport`, also half way), `Deploy` and `CheckAndDeploy`
start a process, `UseAdapter` memoizes the provider, `WebhookArrives` is the
route: size, provider name, signature header, secret window, normalisation.

### Realtime and Operations

`ClaimBatch`, `publish`, `CommitBatch` are the outbox dispatcher, which
publishes inside its transaction; the gateway reads the stream from where it
first went live; the page has a socket, a fallback timer, a poll timer and one
refresh at a time, which later triggers join. An attempt that fails is made
again, one that the gateway denies ends the client's attempts (`AttemptDenied`).
The stream is what was ever appended: the trimming of old entries
(`REDIS_STREAM_MAX_LENGTH`) and a Redis that loses data are left out. `HandleDelivery` is the job endpoint, call by
call, since nothing there is one transaction; `Deliver`, `GiveUp` the
scheduler; `recordWorkerHeartbeat` a heartbeat write that may land late or not.

## 3. Runs

| run | instance | shows |
| --- | --- | --- |
| contention | 2 customers, 1 session, 2 seats, 2 holds, 2 requests, all staff operations, 3 instants | all safety properties of SeatHolds, and SeatAllocation |
| webhooks | 1 order, 2 intents, 2 events and event cancellation, or 2 customers after 1 seat with 2 calls in flight and 1 event | all safety properties of Checkout, and SeatHolds |
| settles | 1 order, or 2 holds of 2 sessions with cancellation; fairness | orders reach a final status, holds end |
| latepayment | 1 order, 1 event, fairness | section 6 |
| refund_races | 2 refunds, 2 seats of equal price and 1 outcome, or 1 refund and 2 events of any status | no seat paid back twice, outcomes and ledger stand, the refunded total claims nothing that was not paid, and RefundAllocation |
| totals, crash, rejected | 1 or 2 refunds, 1 event | section 6 |
| around_sale | 13 foci over seven modules, below | the properties of those modules, and Admission |
| refunded_seat, published_layout | one focus of it each | section 6 |
| platform | 5 foci over Realtime, Operations and Refunds, fairness | the same for the first two; what the provider made is found again |

`around_sale` and `platform` put modules side by side that share no variable.
Their product would show nothing new, so the initial state chooses a *focus*:
one part of one module moves and the rest stands still. A focus also bounds
what moves, with a predicate named in the MC module: `release`; `places`
(status of venue and space), `maps` (three versions with layouts of one seat)
and `layout` (one draft of two seats); `calendar` (two sessions, one tier) and
`pricing` (one session, two tiers); `budget` (two processes, three requests);
`issuance` (two issuers, staff and refunds) and `door` (two scans, a rotation
or revocation and a refund at one ticket); `order` (three dispute events of one
amount) and `money` (two of any amount, with refunds and entry); `mail` (two
notices, two dispatchers) and `pdf` (one notice, two downloads); `relay` (two
dispatchers, two changes), `page` (gateway and page), `fleet` (heartbeats of two
residents and probes), `jobs` (two deliveries at once of one message, whose
heartbeats grow stale too), `refund` (one refund with its jobs and one event of
any status). `webhooks`, `settles`
and `refund_races` are unions of two instances in the same way.

In Checkout, beside what the refinement carries over, `EverySaleIsPaid` relates
inventory, holds, orders and provider: a seat is BOOKED exactly when it is of a
booking, of one only, and each booking has a charge of its own that succeeded.
No run lists a type invariant: each is a theorem (section 4).

In Refunds `UnknownIsNotFailed` is about retries: once a refund was recorded as
submitted, or its outcome as unknown, no second answer of the provider fails it
and opens its seats, only a report of the provider that it failed.
`AcceptedRefundIsFound` is what reconciliation and webhooks owe a refund the
provider made, unless its worker has failed it; that this exception occurs is
the run `rejected`.

What the properties of the other modules say. *Tickets*: a ticket is used exactly when one scan of
it was accepted (`AdmittedOnce`), by its newest credential
(`OnlyNewestCredentialAdmits`); completed issuance left every good ticket with
one credential and the owner told (`CompletedIssuanceIsWhole`). *Disputes*: a
chargeback is in the ledger exactly for disputes first decided LOST
(`ChargebackIsTheOutcome`), and the history is one chain (`HistoryIsAChain`).
*Notifications*: attempts explain the status, and a link serves once
(`NoticesAndLinksHold`). *SeatMaps*: no two seats of a section at one spot
(`SpotsAreDistinct`). *Catalogue*: a published session has a row for each
sellable seat, of the tier of its section, at the tier's price unless that was
ever updated and then still at one price for all its rows (`InventoryIsWhole`). *RateLimit*: no window
admits more than its limit, and a policy that fails closed admits only what
Redis counted (`BudgetHolds`). *Deployment*: what a process becomes is what
its configuration was admitted as (`ProviderMatchesDeployment`), and an old
webhook secret stops verifying although the adapter is kept
(`RotationCloses`). *Realtime*: a row counts as delivered only if its event was
appended to the stream (`StreamTellsTheOutbox`), and a page in the fallback state
catches up (`FallbackCatchesUp`). *Operations*: an accepted message has had a
run that ended, unless its receipt lost the insert race
(`AcceptedIsAccountedFor`), and lost workers show in the readiness report
(`LostWorkersAreReported`).

Bounds. Two requests in flight and two holds are the smallest instance in
which a request acts on a read that another has overtaken; a hold lasts one
instant and the sales window two, so a hold can lapse inside the window, at
its end, and a second one can be made. `MaxLag` 1 lets every transaction work
with a time that is one instant old. Two events are the smallest number for
duplicates and contradictions. Two refunds of two seats of equal price are the
smallest instance in which refunds compete for a seat, for the totals and for
a provider refund. Reconciliation tells refunds apart by amount only, so
`AcceptedRefundIsFound` is checked with one refund. Scans of tickets meet one
refund at a time (`OneOutcome`). Two of everything that
competes (scans, issuers, dispatchers, deliveries, processes) is where an
interleaving first matters; attempts and versions go to 2 so that one is the
last; three dispute events are needed for one to open, one to decide and one to
contradict; two prices are the fewest that a row can get wrong; a heartbeat that
is older than one step is stale; the clock of Tickets passes before, in and
after the entry window; days go past the rotation window of 1 counted from any
day the adapter can be built on. A page polls every 2 ticks and reconnects after 1, the order the
code's 30 s and its longest reconnection delay have. The theorems do not depend
on any bound.

Deadlock is checked in SeatHolds. It is not in Checkout: with the clock at its
bound, all events delivered and all orders final, nothing is left to do. Nor in
Refunds, around_sale or platform, for the same reason.

Fairness. The sweeper and the order expiry job run on a schedule (cron or
worker loop), so each is weakly fair; the clock advances; a provider redelivers
an event until it is acknowledged, so storing and processing of each event are
weakly fair. In Refunds the submission and reconciliation jobs are weakly fair
too, a living worker goes on, and a transaction that is tried again and again
is committed in the end if it can be (strong fairness of `Commit`: faults are
transient). Nothing keeps a worker alive. In Realtime dispatchers run again and
again and their transactions are not undone for ever (strong fairness of
publishing and committing), timers fire, messages not lost with their socket
arrive, and not every refresh fails. In Operations only time and heartbeat
writes under way are fair: no worker, scheduler or request is. No customer or staff action is
assumed to happen.

## 4. Proofs

All theorems are for every value of the constants, under the named assumptions
of the modules, which TLC evaluates in every run. Every invariant, every action
property and every refinement a passing run checks is proved; what a run checks
and no theorem states is liveness.

| theorem | property | theorem | property |
| --- | --- | --- | --- |
| `HoldsAreWhole` | `HoldOwnsItsSeats` | `OneAdmission` | `AdmittedOnce` |
| `NoSeatIsTrapped` | `HeldSeatHasLiveHold` | `NewestAdmits` | `OnlyNewestCredentialAdmits` |
| `NoDoubleSale` | `SoldOnce` | `IssuanceIsWhole` | `CompletedIssuanceIsWhole` |
| `HoldsAreLegal` | `ActiveHoldsAreLegal` | `ChargedBackOnce` | `ChargebackIsTheOutcome` |
| `LazyExpiry` | `OverdueHoldsDoNotBlock` | `HistoryIsOneChain` | `HistoryIsAChain` |
| `Terminal` | `TerminalIsForever` | `NoticesAndLinksAreSound` | `NoticesAndLinksHold` |
| `OutboxIsComplete` | `ExitAnnouncedOnce` | `BudgetIsKept` | `BudgetHolds` |
| `Refinement` | `ImplementsAllocation` | `DeliveredIsStreamed` | `StreamTellsTheOutbox` |
| `CheckoutRefinement` | `ImplementsSeatHolds` | `NoWorkIsLost` | `AcceptedIsAccountedFor` |
| `SalesArePaid` | `EverySaleIsPaid` | `SeatsAreApart` | `SpotsAreDistinct` |
| `MoneyFollowsSeats` | `MoneyAndSeatsAgree` | `PublishedIsWhole` | `InventoryIsWhole` |
| `SuccessIsTold` | `SuccessIsNeverSilent` | `ProcessIsWhatWasAdmitted` | `ProviderMatchesDeployment` |
| `NoSecondIntent` | `OneIntentPerOrder` | `OldSecretsStop` | `RotationCloses` |
| `ExpiryFreesSeats` | `ExpiredOrderHoldsNothing` | `NoSeatPaidBackTwice` | `SeatRefundedOnce` |
| `FirstOutcomeIsFinal` | `FirstOutcomeStands` | `OnlyReportsFailTheSubmitted` | `UnknownIsNotFailed` |
| `WrittenOnce` | `WriteOnce` | `LedgerIsTrue` | `LedgerTellsTheOutcome` |
| `TotalIsHonest` | `RefundedTotalIsHonest` | `TicketsAdmit` | `ImplementsAdmission` |
| `RefundsAllocate` | `ImplementsRefundAllocation` | `CheckoutAllocates` | `ImplementsAllocation`, of Checkout |

Theorems about definitions no run lists: `LayoutsHangTogether`
(`NothingHangsLoose`: a row is in a section that is there, a seat in a row that
is there), and the type invariant of every module: `TypeInvariant` (SeatHolds),
`CheckoutTypes`, `RefundsTypes`, `TicketTypes`, `DisputeTypes`,
`NotificationTypes`, `LimiterTypes`, `RealtimeTypes`, `OperationsTypes`,
`SeatMapTypes`, `CatalogueTypes`, `DeploymentTypes`. TLC found all of them to
hold on the instances of section 3. They bound what the code bounds: attempts
by their maximum, versions and labels by theirs, statuses by their enumeration.

### SeatHolds

Assumptions: each seat has a session; NULL is not a hold; a sales window is not
empty and ends by the start; limits are positive.

`SeatHoldsProofs` proves `Spec => []IndInv`. Its conjuncts are `TypeOK`,
`HoldOwnsItsSeats`, `HeldSeatHasLiveHold`, the two halves of `SoldOnce`,
`ActiveHoldsAreLegal` and that the outbox is exactly the history of the holds.
None is inductive alone: that a new hold takes only free seats needs that a
seat under an overdue hold belongs to that hold alone (`HeldSeatHasLiveHold`),
which needs `HoldOwnsItsSeats` to survive the end of another hold; that
`Enqueue` never refuses an expiry needs that an ACTIVE hold has told no end.
The lemmas `EndStep`, `AcquireStep` and `ConvertStep` treat the three ways the
tables change; `StepKinds` classifies every action as one of them, as a
request step or as a staff step. Action properties and the refinement
(`SeatHoldsRefinement`: every step gives up, reserves, sells or stutters)
rest on the same invariant.

### Checkout

`CheckoutProofs` first shows `CheckoutRefinement`: a payment operation reaches
holds and inventory only through `ReleaseExpired` and `ConvertHold`, so
`IndInv` holds of every checkout. `CheckoutInv` is the type and the wiring: an
order has a hold, an intent was made for its order, a call in flight and a
stored event point at what they are about, and an event says of a charge what
the provider did. `Outcomes` then adds to the two properties it is to prove
that an order no intent is attached to still has its payment CREATED and is
PENDING or EXPIRED (`UnpaidIsUntouched`), that an order and its hold expire
together, and that a processed event is linked to its order.
`MoneyAndSeatsAgree` alone is not inductive: that the success which converts a
hold is a charge of this order's own intent comes from the wiring, and that an
order without an intent has not been paid from `UnpaidIsUntouched`.

`SalesArePaid` needs nothing new: it joins `MoneyAndSeatsAgree` (a booking is a
CONVERTED hold), `SoldOnce` of SeatHolds (a BOOKED seat is of one CONVERTED
hold) and the wiring (the intent of an order was made for it, so two orders
have two). `CheckoutAllocates` composes two refinements: a step of checkout is
one of SeatHolds, and that is one of SeatAllocation.

### Refunds

Assumptions: NULL is not a refund; event identifiers differ from the names of
the other writers; a booking has finitely many seats, whose prices are not
negative (CHECK `BookingSeat_price_check`).

`RefundsProofs` proves `Spec => []IndInv`. From it follow `SeatRefundedOnce`,
`UnknownIsNotFailed`, `LedgerTellsTheOutcome` and `WriteOnce`. Why each part is
needed: a row that is written may only be paying if it was before, which rests
on status and outcome going together (`StatusFollowsOutcome`); a request must
not overwrite a row somebody has in hand (`AbsentUntouched`); a worker's
rejection never meets a refund already submitted or in doubt, because a claim
happens once and its worker records the one answer it has (`DoubtAfterClaim`,
`FailureIsFinal`); a reported failure is about the refund it settles because the event that holds a
row names it (`EventConcerns`). The lemmas `LockStep`, `UnlockStep`,
`QuietStep`, `ProgressStep` and `OutcomeStep` are the kinds of step; each
action is shown to be one of them. The totals take no part: these results hold
although the totals may be stale.

`TotalIsHonest` is about the totals. Its invariant `HonestInv` adds that a
refund has seats and that what a writer's snapshot counts as succeeded still
is; then a recount from an old snapshot is a sum over fewer refunds. The sums
need the theory of `MapThenSumSet`, a recursive function over the subsets of
its set: it exists, is unique, does not depend on the order of its elements,
adds over disjoint sets and grows with the set (`SumsExist` to `SumGrows`).
Each of these is an induction; since the library's induction theorems take an
operator, it is done with a least counterexample (`LeastWrong`), which the
well-foundedness of strict inclusion gives for a set. Seats that no two refunds
share make the total the price of their union (`TotalIsOfSeats`), so a total as
high as the captured amount leaves no priced seat out (`PaidInFull`).

`RefundsAllocate`: a step writes no row, a new one or one that is there, whose
seats it keeps (`RowsWritten`). That a new row claims only seats whose price is
kept is the request's check under the payment's lock together with
`SeatRefundedOnce`; that a rewritten row claims, gives up or returns all its
seats at once is the trigger's order of statuses (`RefundWriteAllowed`).

`RefundsTypes` includes that the totals are natural numbers. They are sums over
the refunds that exist in some snapshot; these are finitely many although
`Refunds` need not be, because each step adds at most one. So the invariant
says that the rows and every snapshot in hand have finitely many refunds
(`CountsInv`), next to the ledger and outbox being of refunds (`PapersInv`).

### Tickets and Disputes

`TicketsInv`: per seat (`SeatsAreSound`), without a ticket there is no
credential, above an active version there is none, and at most one scan was
accepted, which used the ticket and left no active credential. A scan under
way has a credential that exists and a request without an answer
(`ScansHoldCredentials`); what staff have in hand is still active, and so is
the credential they saw (`StaffIsCurrent`); a settlement's credentials exist
and are of its tickets (`SettlementIsOfItsTickets`); one issuer at a time
creates the missing tickets and arms the seats without an active credential
(`IssuersAreCurrent`). `AdmittedOnce` needs them all: what a scan or a
transaction read must still be so when it decides. `TicketsAdmit` rests on the
same invariant: a rotation replaces the key the pass still has, and a
settlement voids passes that are still good, because what they locked has not
changed. `TicketTypes` assumes that the powers of two the
retry delay uses are natural numbers (`PowersOfTwo`), which the provers do not
compute with and TLC evaluates.

`DisputesInv`: a row a transaction has locked is as it read it
(`LockedIsCurrent`), by one transaction at most (`LockIsExclusive`), rows obey
the lifecycle CHECK (`RowsAreLegal`) and the log is of settled events
(`LogIsOfSettled`). With it `ChargebackOnce` and `HistoryIsAChain` are
inductive.

### Operations, Realtime, RateLimit, Notifications

`JobsInv` (Operations): a run that ended has its outcome on record, and an
answer of 200, a completed receipt and an accepted message are each accounted
for, by a run that ended or by the delivery that displaced it. `RelayInv`
(Realtime): rows, batches and entries are of committed changes; what was
answered, marked PROCESSED or remembered was appended to the stream; and a key
occurs twice only if it was forgotten (`OnlyForgottenTwice`). `BudgetInv` (RateLimit):
those admitted to a window, the counted answers under way included, are within
the limit and the current window's count, and no future window has any
(`HoldersFit`); what `fail_closed` admits was counted by the shared counter
(`ClosedIsShared`). It assumes that the shared counter's name is no process
name. `MailInv` (Notifications): a transaction alone has its pending row, its
attempt is the next one, a pending row has attempts left and the attempts
explain the status. `LinksInv`: a link being rendered is usable, and one that
was served is used.

### SeatMaps, Deployment, Catalogue

`LayoutsInv`: the seats of a section are at distinct spots with coordinates in
range. Generation places a row below every seat there is; that this is a new
place is the lemma `GeneratedApart`. `LayoutsHangTogether` is about the two
steps of a deletion: a layout is a tree of sections, rows and seats (`TreeOf`),
and what a deletion has written can still be removed when it commits
(`Removable`): its trigger found nothing below the target, and an edit that would
hang something there waits for the target's row lock. It assumes that
`STANDARD`, the kind bulk generation gives, is a kind of seat.

`ReleaseInv`: a running adapter is the one its configuration names and allows,
a release that was checked names real providers, and the previous secret's
expiry is a day, which `RotationCloses` compares with today. For
`DeploymentTypes` every start configuration is a base with some variables
replaced (`With`), and replacing one by a value of its class keeps a
configuration one (`WithKeeps`, `IsConfig`); so does an import that stops half
way. It assumes that there is at least one day.

`CatalogueInv`: a section is priced by a tier of its own session and by none
that is being deleted (`PricesAreOwn`), and, for each session (`Sound`), a
draft was never on sale, what was never on sale has no inventory, a publication
in flight is of a draft and what it read is still whole, and so is inventory.
`InventoryIsWhole` alone is not inductive: a commit writes what was read long
before, and only that every SERIALIZABLE change of a draft undoes its
publication keeps it whole. That a row is there for each seat and no more is a
bijection between rows and seats (`ComputedIsWhole`). That a row has its tier's
price needs that its tier is still assigned and so still there (`PricesFollow`):
a tier that is assigned can only be updated, and then says so. It assumes that tiers,
sections and seats are finite, that sections of a map share no seat (a seat
belongs to a row, and a row to a section), that the space has a published map,
and that there are prices and currencies to choose from.

### Only model-checked

* Liveness, and the run's own fairness: `OrdersSettle`, `HoldsEnd`,
  `AcceptedRefundIsFound`, `FallbackCatchesUp`, `LostWorkersAreReported`.
  Fairness and ENABLED are beyond the prover.
* The violations of section 6, which are counterexamples and need no proof.

## 5. Plan

The components are modelled and their safety properties, refinements and types
proved; what is left, in order:

1. `HoldTransactions`: statements and row locks refining SeatHolds, with the
   lock-order inversion between cancellation and release and its retry. It is
   the one grain at which a deadlock can be seen.
2. Pure functions against reference definitions: refund amounts, order totals.
   What they compute for every input needs induction over data.

The runs are kept to about a dozen, one per question: runs of instances that
another run contains, or of disagreements section 6 records, gave way to the
newer components.

## 6. Disagreements found

* `latepayment`: a success processed after the order expired is meant to make
  it PAID_UNFULFILLED (docs/architecture.md:125), and the code tries; the
  trigger that makes EXPIRED final aborts the transaction, every time. The
  webhook stays FAILED, the attempt PENDING, and the order never says it was
  paid.
* `totals`: a recount that waited for the payment's row overwrites the totals
  with sums that miss a refund committed meanwhile. Seats are still protected
  (`NoSeatPaidBackTwice`).
* `crash`: a refund claimed by a worker that dies before the provider call is
  never taken up again.
* `rejected`: what counts as a clean rejection is decided by the wording of the
  provider's error. A broken connection in other words, or a status the adapter
  does not know on a refund just created, fails the refund and opens its seats
  although the provider has made it, against submission-service.ts:221. The
  webhook of that refund finds no row with its identifier.
* `refunded_seat`: issuance after a partial refund gives the refunded seat a
  ticket that is good for entry, against docs/architecture.md:229.
* `published_layout`: the deletion of a seat commits after the publication that
  validated the layout with it, against docs/phase-2-operations.md:44.

The models also have these behaviours, which no run is spent on.

Checkout:

* a success stored before its intent is attached is settled as
  UNKNOWN_PAYMENT_INTENT, and reprocessing a settled event returns at once
  (webhook-service.ts:121, 295, 308), against docs/architecture.md:125.

Refunds:

* the settlement of a reported cancellation sets `submittedAt` again, which the
  trigger forbids, and is rolled back at each delivery
  (settlement-service.ts:302), against docs/refunds-and-disputes.md:70-71;
* a full refund revokes every active ticket of the booking, also that of a seat
  under another refund that has not succeeded (`Revoked`);
* reconciliation matches by amount, not by key, so one of two refunds of equal
  amount can adopt the other's, against docs/architecture.md:237
  (`FindExternal`);
* a contradicting event that occurred before the outcome was processed is
  dropped as stale and freezes nothing (`Decision`), against
  docs/refunds-and-disputes.md:102;
* an event parked because it overtook the provider's identifier is not replayed.

Disputes:

* no code writes a PAYMENT_CAPTURED entry, so the divergence report flags every
  payment that has a refund or a lost dispute (docs/refund-reconciliation.md:63);
* a LOST dispute writes two settling debits, and a dispute opened before its
  booking keeps no booking, so losing it revokes no ticket;
* a later event can lower the order's review state; a CLOSED event always
  violates the lifecycle CHECK; nothing dispatches the financial outbox.

Notifications: the notice of a refunded booking throws before it is recorded
(dispatcher-service.ts:117), stays the oldest due row and ends each batch, against
docs/architecture.md:155.

Realtime: an event that a live page hears while a refresh is on its way joins
it although the snapshot may be older, and one with an older timestamp than the
last is ignored, so a live page can stay stale until it regains focus or
reconnects (docs/security.md:83). While the gateway is down each attempt to
reconnect takes the page out of the fallback state and restarts the poll timer,
which is longer, so the page never polls (docs/incident-response.md:99);
`FallbackCatchesUp` is therefore about a page that makes no attempts.

Operations: the loser of the insert race answers 200 before the winner has
ended (delivery-receipt.ts:83-85); if the winner then fails, the scheduler
does not come again for that delivery. `displaced` marks this case.

SeatMaps: deleting a section or row that is not empty always fails, because the
trigger of the cascaded children no longer finds its parent
(docs/phase-2-operations.md:40); an update of a venue that read before it was
archived un-archives it.

Catalogue: an update of a price tier that passed its trigger while the session
was a draft, and commits at any time after the publication has taken its
snapshot, during the publication or later, leaves inventory at the old price and
the tier at the new one (docs/architecture.md:75, docs/phase-3-operations.md:21;
the trigger in the phase 4A migration, lines 202-214, compares with the tier of
the snapshot); `InventoryIsWhole` therefore compares a row with its tier only if
that was never updated. A creation and an update of tiers side by side can
mix currencies, which the coverage check at publication catches.

Deployment:

* the webhook route reads only `x-seatflow-signature` (route.ts:76); Stripe
  sends `Stripe-Signature`, so its deliveries are answered 400, against
  docs/provider-secret-rotation.md:53;
* `requires_payment_method`, also the status of a new intent, is normalised to
  FAILED (status.ts:17); `refund.failed` is acknowledged as unsupported;
* production:check looks at neither the rotation window's length nor the webhook
  secret's, so what it passes may refuse to start payments;
* a staging file with an origin that is not on vercel.app and no declared
  staging origin passes the staging validation and is a production profile at
  run time, which refuses payments; no script calls
  `validateStagingDemoConfiguration`;
* a development build declared "production" simulates payments without the
  banner.

Read in the code and not in the model: `submitPendingRefunds` takes every
REQUESTED refund, and nothing reads `approvedByUserId`.

## 7. Not modelled

Authentication, organizations and role checks (one request, no state that
interleaves with the above); logging and redaction; metrics, which only count
rows; rendering, PDF and QR content, form actions that only call a modelled
service; seeding, load tests and command-line wrappers. Of webhooks the bytes
of signatures and HTTP; of the configuration, the variables no modelled
decision reads (database URLs, intervals, batch sizes, mail text) and the
wording of the reports. Names and descriptive fields, and the renaming of
sections, rows and seats. Row locks inside the transactions of SeatHolds and
Checkout (section 2, SeatHolds), and with them deadlocks, which PostgreSQL
breaks and `runInTransaction` retries.
