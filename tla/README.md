# Verification of the durable services of workmax

TLA+ models, TLC runs and TLAPS proofs for the parts of this repository in which
several processes share durable state: who may execute an Agent Turn, what is
written to its log, what leaves the system on its behalf, how it is paid for;
and the generation queue, the Credits ledger, the payment inbox, the account
pool and the desktop login around it. `PROJECT.json` holds the map from
definitions to source lines, the hazards, the runs and their mutants.

## 1. The system and its modules

| Part (under `src/server`) | Module | Proofs |
|---|---|---|
| Turn kernel: `service/agentturn/sql_store.go`, `sql_execution_store.go`, `reconcile.go`, `settlement.go`, `reservation_admission.go` | `AgentTurn`; promise `TurnLifecycle`, mapping `AgentTurnLifecycle` | `AgentTurnProofs`, `AgentTurnLifecycleProofs` |
| Turn worker: `service/agentturn/worker.go`, `worker_limits.go` | `TurnWorker` | `TurnRuntimeProofs` |
| Event stream: `service/agentturn/event_stream.go` | `TurnEventStream` | `TurnRuntimeProofs` |
| Effect outbox and dispatcher: `effect_outbox.go`, `effect_dispatcher.go` | `EffectOutbox` | `EffectOutboxProofs` |
| Discovery and retirement: `sql_claim_next.go`, `reconcile.go`, `service/agentbilling/expired_reservation_reconciler.go` | `TurnRecovery` | `AgentTurnLifecycleProofs` |
| Credits, packs, reservations: `service/account` | `CreditLedger` | `CreditLedgerProofs` |
| Billing of Turns, reviews, usage journal: `service/agentbilling`, `agentturn/settlement_review*.go`, `provider_usage_journal.go` | `AgentBilling` | `AgentBillingProofs` |
| Generation tasks: `service/tools/task_queue.go`, `api/pro/tools/generator_api.go` | `GenerationTask` | `GenerationTaskProofs` |
| Account pool and circuit breaker: `service/tools/workagent` | `AccountPool` | `ServicesProofs` |
| Payment events: `service/commerce/provider_event_service.go`, `scheduler/commerce_provider_event_reconciler.go` | `ProviderEvents` | `ServicesProofs` |
| Desktop refresh tokens: `service/desktop/oauth/refresh_chain.go` | `RefreshChain` | `ServicesProofs` |
| Desktop login: `service/desktop/logintransaction` | `LoginTransaction` | `ServicesProofs` |

Compositions: `TurnWorker`, `TurnEventStream`, `EffectOutbox` and `TurnRecovery`
extend `AgentTurn` and share its tables; `AgentBilling` and `GenerationTask`
extend `CreditLedger`. `MC*` modules add symmetry and concrete functions for TLC.
Two of them are sums: a behaviour of `MCServices` or `MCTurnRuntime` is one of a
single component, chosen at the start by `part`, so that components which share
no variables add their state spaces instead of multiplying them. Fairness is
stated for the chosen part only.

### How the state and the actions correspond to the code

* **`AgentTurn`** has one variable per table and one action per transaction,
  because every command takes the Turn's row lock first and rolls back as a
  whole. There is no worker in it: a command names an Attempt, and whoever once
  got that Attempt may use it at any later time. This covers a paused or
  partitioned worker, a duplicated request and a crash. Deadlines are kept as the
  time that remains; `Tick` passes a unit of database time on all of them.
  `Authority` stands for the five ways a store can be composed: none, plain, one
  that can hold an outcome for review, a trusted meter, the provider usage
  journal. The authority itself is outside; `ledger` records what it is told.
  The unfenced commands of the original Store are `LegacyNext`.
* **`TurnLifecycle`** is what the kernel promises a caller who sees neither
  Attempts nor leases: one epoch after another within the budget, no work after a
  cancellation, one end, billed in the same step, free only without work.
* **`TurnWorker`** adds the goroutines of a worker: run loop, executor,
  heartbeat, an Emit in flight, the limits, quiescence before the terminal commit,
  and the poisoning of a process whose executor does not stop. A step that touches
  the store is a step of `AgentTurn`.
* **`TurnEventStream`** adds observers: pages, the decision that a stream is over,
  waits, reconnection. A page and the buffer are the sets of their sequence numbers;
  `Next` hands out the least. A broker signal only shortens a wait, so a wait may end
  at any time, with or without one.
* **`EffectOutbox`** separates scan, claim, provider call and report, and lets a
  dispatcher lose its memory or a report at each of them.
* **`TurnRecovery`**: a page is read without a lock in one step and used row by
  row in later ones, as in the three loops. A row is a position in the order of
  admission and a page is a set of rows, least first.
* **`CreditLedger`** has packs, reservations with their allocations (for each pack
  the Credits drawn from it and the rank in which it was drawn), project budgets,
  the refund under a savepoint with its durable intent, the review hold, the
  sweeper with its stale page, and the reversal of a purchase.
* **`AgentBilling`** binds reservations to Turns: settlement, hold, attested usage
  receipts, capture of the evidence, resolution, and the cursor pass over pending
  refunds (its page is a set of Turns, by outcome row), with a row that always fails.
* **`GenerationTask`** has the submit and the cancel handler step by step, the
  channel and its mutex, workers, a crash with the recovery pass, refunds. A read or
  a write outside a transaction may fail wherever the code logs or discards the error,
  as with the `failed` that ends a rejected submission (`generator_api.go:1486`). The
  cancel handler's phase says what it read, whether it ended the task, and whether a
  worker heard of it; that a submission was rejected is remembered across a crash.
  Both serve `RunningIsFunded`.
* **`AccountPool`** has breakers with their half-open probe, selection, automatic
  and manual switches whose reads precede their transactions, deletion, toggles.
* **`ProviderEvents`** has the webhook and the reconciler as processes that claim
  a leased row, prepare, and commit, with commits whose answer is lost.
* **`RefreshChain`** and **`LoginTransaction`** separate the unlocked lookup of a
  request from its compare-and-swap.

### Abstractions

* A replayed command whose receipt exists is answered from the receipt and writes
  nothing, so replays are no actions. Digests, signatures, plugin and topic scope,
  payloads and row-integrity errors are left out. A failing authority or statement
  rolls its transaction back and is no step.
* The lease owner of an effect is folded into its dispatch token, which is unique
  per claim. A scan returns any `BatchLimit` ready rows; the code orders them.
* A row that is pending although its Turn is under review makes the code report an
  integrity error; the model skips it. `ReviewHoldsEffects` shows there is none.
* In `TurnRecovery` executors finish with the intent "finalize" and create no
  effects; the operations of the epochs are what makes a Turn ambiguous.
* In `CreditLedger` the sweeper re-checks a row against its current expiry, not
  the cutoff of its scan, and in `AgentBilling` an attested receipt is accepted
  for a running Turn without the check of the lease. Both allow more than the code.
* `RecoverLimit`, submissions of several tasks and the monthly clipping of
  subscription packs are left out; a retried task is a new submission.
* In `LoginTransaction` a caller is one that holds the secrets it needs. The
  version check alone and the state check alone would each suffice for some of the
  writes; the model keeps both, as the code does.

## 2. Runs

| Run | Instance | Shows |
|---|---|---|
| `kernel` | two Turns, three epoch ids, trusted meter | `SingleOwner`, `NoStaleCommit`, `ReceiptsMatchLog`, `CommercialOutcome`, `ReleaseProvesEmpty`, `LiveLeaseRespected`, and that `AgentTurn` implements `TurnLifecycle` |
| `outbox` | two dispatchers of any speed, batch of two | one holder of a row's token; delivered, dead and held effects stay so |
| `outbox_drains` | batch of one, provider journal | one call in flight per effect, no resend of an unknown outcome, holds survive late reports, every effect settles |
| `recovery` | two Turns with reservations, pages of one row | if something schedules the expired-reservation pass: no Turn stays stuck, queued or unowned with an expired hold forever |
| `turn_runtime` | two workers and a crash; one observer | the terminal commit races nothing of its epoch, every Turn ends; streams are in order, complete, and end |
| `generation` | one task, two packs, two workers, a crash, writes that fail | books balance, decisions stand, running work is funded but for named gaps, one runner, refunds are real, ended tasks settle |
| `agent_billing` | two Turns and a foreign reservation, two packs of different lives | outcome and ledger agree, a review is decided once on all the usage, the pack that lapses first is spent first and refunded last, queued refunds converge |
| `services` | sum of four components | refresh chains, breaker probes, payment events, logins (section 1) |

Four runs are expected to fail. Each states what a comment in the code claims and
shows a behaviour of the code that contradicts it.

* `outbox_batch`. `effect_dispatcher.go:67` bounds the delivery timeout by the lease
  so that a superseded dispatcher and its replacement are not both in flight. A
  batch is leased at once and delivered serially, so a later delivery may start with
  little or none of its lease left. `outbox_drains` shows that the argument holds
  for a batch of one.
* `recovery_starved`. `reconcile.go:591` says one poisoned row must not stall the
  others. The page is the oldest `BatchLimit` rows and has no cursor, so that many
  Turns with unadjudicable usage stop the Reconciler for all. The run uses a limit
  of one, the default is 64. `recovery` shows that a page of one suffices with an
  authority that can open reviews, since no row is then unadjudicable, provided that
  expired holds are swept (see Fairness).
* `generation_enqueue`. `task_queue.go:388` calls the check of the queue's room
  atomic. The recovery pass sends without the mutex, so a submission can block on a
  full channel while it holds the mutex that every worker needs.
* `account_switch`. `agent_account_pool_switch.go:68` guarantees one active account
  to every fresh query. The account to disable is read before the transaction, and
  a deletion checks `is_active` in a statement of its own.

Remarks without a run:

* `execution_types.go:569` says that retiring a Turn is not settlement, while
  `ReconcileTerminal` settles it.
* `settlement.go:173` says no Turn is ever finished and unbilled. `Transition` of the
  original Store ends a Turn without calling the authority, and one it moves to
  running is found by no scan. Nothing in production calls it.
* `task_queue.go:208` speaks of a periodic recovery of tasks left processing by a
  crash; there is none. Such a task keeps its reservation.
* `generator_api.go:2360` says that a request which cannot be stopped is not cancelled
  "so the user doesn't lose credits on a request we can't actually stop". The handler
  goes by the status it read. If that was pending and a worker starts the task before
  the handler's transaction, nothing is refused and no worker is told: the Credits go
  back and the request goes on. A worker that has not yet registered is not found
  either. `RunningIsFunded` names the two gaps (`untold`, `missed`) and shows that
  there is no other, and that a provider which cannot abort meets only the first.
* `generator_api.go:1486` discards the error of the write that fails the rows of a
  rejected submission, whose Credits are already released. Such a row stays pending
  and unfunded, and the recovery pass of the next start may hand it to a worker.
* `circuit_breaker.go:96` asks a caller to use the account it was granted. The loop
  at `agent_account_pool.go:416` goes on when the budget does not fit, with the
  probe slot taken; `ProbesResolve` shows that the limit on a probe frees it.

### Bounds

Two Turns suffice for the interference of Turns: their rows meet only in pages and
outbox scans. Three Attempts with a budget of two give a first epoch, a takeover and
one claim too many, and in `kernel` a reservation lives long enough for it.
`recovery` has enough Attempts for it never to run out of executors. Two operations
give a receipt before and at the terminal commit. `MaxDurableSequence` is above any
number reached in `kernel` and `recovery`; the stream part of `turn_runtime` reaches
it. One effect in `kernel` suffices for `ReleaseProvesEmpty`; `outbox` has two,
one inserted by the commit that opens a review and one that was there before.
`MaxDispatchToken`, `MaxLosses`, `MaxCrashes`, `MaxRefundFailures`, `MaxAdminCalls`
and `MaxVersion` bound claims, faults and calls; in `outbox_drains` the token bound
is above any value reached, so it blocks no claim.

`generation` has one task because tasks meet only in packs and in the channel:
the packs are also shared by the two Turns of `agent_billing`, and the channel in
`generation` has room for one, so that a submission and the recovery pass compete
for it. In `agent_billing` a Turn reserves two of three Credits of a pack, so
that the second allocation spans two packs, and one queued refund always fails
with pages of one row. Its first pack lasts for ever and its second lapses, so that
the order of expiry is not the order of identifiers. Only one of its Turns is metered:
that evidence belongs to no other Turn is shown by the theorem alone. `services` has two concurrent rotations of a chain of up to
three tokens; two accounts, two requests and one administrator; two events, one
webhook and the reconciler with pages of one; two concurrent requests of a login,
each of which may be any of its operations.

`CHECK_DEADLOCK` is off where a system whose work is done has nothing to do; in
`generation` and `agent_billing` deadlock is checked.
Runs about liveness use no symmetry.

### Fairness

* `outbox_drains`: time passes and each dispatcher's loop keeps taking steps
  (`RunWithPulse` loops until shutdown); losses are bounded.
* `recovery`: the claim loop and the Reconciler run on; `compose.go` of the agent
  worker starts both. Nothing is assumed of executors, users or the clock: a Turn whose
  owner keeps its lease for ever is never stuck. The third loop is different:
  `expired_reservation_reconciler.go:109` says that the type "owns no scheduler or
  production wiring", and only tests construct it. Its fairness is no part of
  `RecoverySpec`. It is the premise `ExpiryScheduled` of the three properties, which
  is void in a composition without reservations. With reservations the premise is
  needed: a Turn whose hold ran out is left to that pass by the claim loop and by the
  Reconciler, and on a page of one row it hides the Turns behind it. So the run
  says what holds once the pass is scheduled, and not that it is. Without reservations
  the first two properties hold with no premise: TLC checks that variant with
  `ReservationAware = FALSE` and four Attempts (339,985 states); it is no run of its own.
* `turn_runtime`: a worker's run loop and its timers, the replacement of a poisoned
  process, the Reconciler and time. Nothing is assumed of the executor, which may
  hang, of its Emits or of the heartbeat. An attached client keeps calling `Next`.
* `generation`: the sweeper's timer fires and time passes (`cron_v2.go` starts the timer
  where the configuration turns it on; without it nothing settles a lost account).
  Handlers, workers and the recovery pass may stop anywhere.
* `agent_billing`: passes start and end, and not every one of them is abandoned
  before a row (strong fairness of a row's step). The repository has no production
  caller of the pass; the contract is the one stated in `pending_reconciler.go`.
* `services`: time passes; requests report, because each is under a timeout; the
  reconciler's ticker, which the configuration turns on as well, goes on. Webhooks may stop anywhere. `ProbesResolve` has a
  premise about the environment: now and then a request is put through the whole
  list of accounts (`Traffic`).

## 3. Proofs

Checked by TLAPS for all values of the constants that satisfy the named assumption
of each module: null values are no identifiers, budgets, limits and TTLs are
positive, the sequence bound is above the budget, a delivery timeout is below the
lease of an effect (`Validate` refuses others), a probe's slot frees no later than
the breaker recovers, effects, accounts and reservations are finite sets, and
`TerminalOperation` gives each epoch an operation of its own. Every invariant and
every action property that a passing run checks is also proved.

| Module | Theorem | Establishes |
|---|---|---|
| `AgentTurnProofs` | `TypeCorrect`, `OneOwner`, `BilledOnce` | `[]TypeOK`, `[]SingleOwner`, `[]CommercialOutcome` |
| | `LeaseProtects`, `CancellationKept`, `CancellationStops`, `FinishedIsFinal` | `LiveLeaseRespected`, `[]CancelledEndsStopped`, `CancelStopsWork`, `TerminalIsFinal` |
| | `FreeOnlyWhenEmpty`, `HeldUnderReview` | `[]ReleaseProvesEmpty`, `[]ReviewHoldsEffects` |
| | `StaleNeverCommits`, `BudgetKept`, `LogHasNoGaps`, `ReceiptsAreHonest` | `[]NoStaleCommit`, `[]AttemptBudget`, `[]LogContiguous`, `[]ReceiptsMatchLog` |
| | `MixedStore`, `MixedStoreSteps` | `[]` of `SingleOwner`, `NoStaleCommit`, `AttemptBudget`, `LogContiguous`, `ReceiptsMatchLog`, `FencedOutcome`; `LiveLeaseRespected`, `TerminalIsFinal`; all with the unfenced commands |
| `AgentTurnLifecycleProofs` | `KernelImplementsLifecycle` | `ImplementsLifecycle` |
| | `DiscoveryImplementsKernel`, `DiscoveryKeepsLifecycle`, `DiscoveryInvariant`, `CursorMovesForward` | `RecoverySpec => Spec`, hence the lifecycle; what stale pages may hold; the sweep's cursor |
| | `AbandonedUntilRetired`, `StuckLeadsToRetired` | an abandoned Turn stays so until it is retired; what `StuckTurnsRetire` therefore means |
| `TurnRuntimeProofs` | `CommitsAreQuiet`, `WorkersImplementTurns`, `WorkersOwnAndBill` | `[]QuietCommit`; `WorkerSpec => Spec`; hence the kernel's theorems for workers |
| | `NothingIsDropped`, `EventsSeenInOrder`, `StreamsOnlyRead` | `[]NothingDropped`, `SeenInOrder`; `StreamSpec => StoreSpec` |
| `EffectOutboxProofs` | `ReviewHoldsDispatchers`, `OneHolderAlways`, `FinalEffectsStayFinal` | `[]ReviewHoldsEffects`, `[]OneHolder`, `FinalEffectsStay`, with dispatchers |
| | `OneInFlightWhenBatchesFit`, `OneInFlightOneByOne`, `UnknownNotResentWhenBatchesFit` | `[]OneInFlight`, `UnknownNotResent`, under the hypothesis below |
| `CreditLedgerProofs` | `BooksAlwaysBalance`, `SoonestAlwaysFirst`, `DecisionsAlwaysStand` | `[]BooksBalance`, `SoonestFirst`, `DecisionsStand`, for any caller |
| `GenerationTaskProofs` | `TasksCallTheLedger`, `TaskBooksBalance`, `TaskDecisionsStand` | `GenSpec => LedgerSpec`, hence the ledger's theorems for tasks |
| | `NeverTwoRunners`, `RefundsAreAlwaysReal`, `WorkInvariant`, `RunningIsAlwaysFunded` | `[]OneRunner`, `[]RefundsAreReal`, why a worker is at work, `[]RunningIsFunded` |
| `AgentBillingProofs` | `BillingCallsTheLedger`, `TurnsPayInOrder`, `TurnBooksBalance`, `TurnDecisionsStand` | `BillingSpec => LedgerSpec`, hence the ledger's theorems for Turns |
| | `OutcomeAlwaysMirrors`, `ReviewAlwaysDecides`, `UsageAlwaysCountedOnce` | `[]OutcomeMirrorsLedger`, `[]ReviewDecides`, `[]UsageCountedOnce` |
| `ServicesProofs` | `InboxTypeCorrect`, `AppliedExactlyOnce` | `[]InboxTypeOK`, `[]AppliedOnce` |
| | `TradedInOnce`, `EndedForGood` | `[]OneSuccessor`, `EndedChainsStay` |
| | `LoginTypeCorrect`, `CodeIssuedOnce`, `NoWayBack` | `[]LoginTypeOK`, `[]OneCodePerLogin`, `LoginsOnlyAdvance` |
| | `ProbeIsAlone` | `[]OneProbe` |

**Ownership.** `SingleOwner` is not inductive. It says that a running epoch is the
one its Turn points to; when a claim replaces an epoch it expires the epoch the Turn
points to, and one needs that this is a running epoch of this Turn. `ActiveRuns`
says so, and `OwnerInv == TypeOK /\ SingleOwner /\ ActiveRuns` is inductive (theorem
`Ownership`). Everything else about the kernel rests on it.

**Settlement.** A command leaves outcomes alone, or it finds its Turn unfinished,
hence without an outcome, and leaves it finished with one (`OutcomeStep`). `FreeOnlyWhenEmpty` adds
that a Turn with an outcome gains neither receipt nor effect, and that a release
with evidence becomes a review (`EmptyBilled`, `EmptyKept`). `HeldUnderReview` needs
`KernelInv`: an open Turn has no bill, so the review that is opened is its only one,
and the step that opens it holds the Turn's effects, old and new.

**Steps.** The action properties follow from `OwnerInv` command by command: an epoch
is taken only from a Turn that is `Vacant`, and the epoch that ends is one of that
Turn. `CancellationStops` also needs that a Turn which was never admitted was never
cancelled (`AbsentUncancelled`).

**Fencing.** `NoStaleCommit` compares receipts with each other, which no command
reads. `EpochFences` orders the fences of epochs below their Turn's, and
`ReceiptFences` ties each receipt to its epoch and below its Turn's last sequence
number. A new receipt carries the Turn's fence and the next number, so it is behind
no earlier one. `FenceInv`, their conjunction with `OwnerInv`, is inductive (theorem
`Fencing`). The log and the receipts grow together, which gives the other two.

**The whole Store.** `StoreSpec` in `AgentTurnProofs` adds `LegacyNext`, the unfenced
commands that `Service` still exports. They check only that the Turn's fence is zero.
`EpochsNumbered`, every epoch has a positive fence, makes that check mean something:
with it and `FenceInv` a fence of zero says that no epoch and no receipt belongs to the
Turn (`NobodyOwns`), so the unfenced commands disturb nobody. `CommercialOutcome` does
not survive them, nor does `CancelledEndsStopped`; `FencedOutcome` is what is left: an
outcome belongs to a finished Turn and is its only one, and only a Turn that no epoch
ever owned can finish without one.

**Refinement of the lifecycle.** The mapped row of a Turn changes only in the
commands of that Turn. `CommercialOutcome` is needed because an ending Turn must
have had no bill, and `OwnerInv` because a commit must end its own Turn.

**Discovery.** `DiscoveryInv` says that every admitted Turn has exactly one row, that
what the loops have read are rows, with reasons for which `ReconcileTerminal` is
defined (`Actionable` filters the lapsed leases), and that the rows left to a sweep
lie between its cursor and its mark. A row that was claimed, cancelled or retired
since the page was read therefore costs a refused try, and every step of the loops is
one of the kernel or none.

**Abandoned Turns.** TLC checks that no Turn stays stuck forever. A Turn could leave
that state by coming back to life, which would make the check worthless. `AbandonedStep`
shows that it cannot: its last epoch has lost its lease, so it can neither renew it nor
commit, and no other may be opened. What is left is retirement, and from this and the
checked formula `StuckLeadsToRetired` follows by temporal logic alone. It assumes that
formula and, where reservations are on, `ExpiryScheduled`; it proves neither.

**Workers.** `WorkerInv` says what a worker's own memory is worth: beyond its claim
it knows its epoch, and before the terminal commit its executor is back and no Emit
is in flight. Every other step maps to a command of `AgentTurn` or to none.

**Event stream.** Its writers include the unfenced commands. `StoreInv` keeps what an
observer needs of the store under all of them: the log of a Turn has no gap. A step shows an observer nothing, or one more event of
a Turn that had not ended (`StoreMoves`). `StreamInv` then says that the buffer continues
the cursor without a gap, and that an observer who has seen the Turn over knows its
last sequence number.

**Outbox.** Dispatchers write nothing of the kernel but outbox rows, so `KernelInv`
survives them (`DispatchInv`). What a dispatcher holds in memory may be older than
its row; `TokenInv` says that it was drawn for that row, no later than the row's
token, and that no two dispatchers hold the same one. `OneInFlight` needs time:
`LeaseInv` says of a delivery under the current token that the lease outlasts it and
all calls before it in the batch. This takes two hypotheses, stated in the theorem:
the dispatcher is `Prompt` (it does not stand still between two calls of a batch) and
`BatchLimit * DeliveryTimeout < EffectLeaseTTL`. `OneInFlightOneByOne` shows that
for batches of one the second is what `Validate` enforces; `outbox_batch` shows what
happens when it fails.

**Ledger.** `LedgerSpec` in `CreditLedgerProofs` has any caller reserve, finalize,
release and hold with any arguments, a sweeper told anything about who owns what,
revoked packs, and a page that may be lost. `LedgerInv` pairs `BooksBalance` with
what a row says of itself (`RowSound`): its allocations add up to what it reserved,
and neither its charge nor its queued refund exceeds that. The first half of the
module is about `Share`, the operator by which an amount is handed out in order: it
exhausts the amount or the packs, and a refund in reverse order of what was drawn
leaves the charge on the first ones. The queue and the billing of Turns are then shown
to be callers: every one of their steps is a step of `LedgerSpec`.

**Spending order.** `SoonestFirst` speaks of balances and of the packs' lives, not of
the ranks that an allocation records, so it needs what ties them together: `OrderInv`.
The lives that remain are in the order of the lives that were granted as long as a
pack is alive (`LivesInOrder`), and each reservation drew from its packs in that order
(`DrawnInOrder`). A reservation then spends in order because packs are sorted by what
remains, and a refund returns in order because it walks the ranks backwards. Only
steps that reserve or refund move a balance; the others are idle (`IdlePacks`).

**Generation tasks.** A task taken by a worker has left pending for good, so the copy
of it that recovery or a second submission leaves in the channel is not run
(`WorkersOwn`, `Forward`). `RefundsAreReal` and the first half of `RunningIsFunded`,
about rows, are inductive beside `GenInv` and `LedgerInv`, because the ledger does not
revise a decision. The second half, about workers, needs `WorkInv`. A worker at work
has a row that says processing, or a rejected submission, or a cancelled row whose
cancel handler did not reach it (`Explained`). A handler that went on after it read
"processing" had an abortable task before it, and has it still (`CancelsAllowed`).
`OneRunner` enters where the cancellation is told: the worker that hears of it is the
only one with the task.

**Billing.** `OutcomeMirrorsLedger` needs `TurnSound`: a Turn's reservation is open
exactly while the Turn may run, so nobody but the step that writes the outcome
settles it; the sweeper's page holds no Turn's reservation. A review's evidence
is a finite part of the journal and belongs to its Turn alone (`UsageSound`).

**Inbox.** A commit needs the status processing and leaves it for good, so the number
of applications is a function of the status. For the hook the invariant says of a
process on its way to it that it is the only one for its event and that the hook
has not run (`NotifiersOK`).

**Refresh chains.** `OneSuccessor` needs that a parent is in the state rotated
(`ParentsRotated`): the compare-and-set then fails for a second child.

**Logins.** Google is asked only once the transaction has left its early states for
good, by the request whose swap took it out of them (`AskedOnce`).

**Breakers.** `PoolInv` measures the two clocks against each other: while a probe is
young its breaker, unless it is closed again, waits at least as long
(`ProbesAreWaitedFor`), so no second request is let through beside it.

Only model-checked: the liveness properties of the runs (`EffectsSettle`,
`StuckTurnsRetire`, `QueuedTurnsMove`, `ExpiredHoldsEnd`, `WorkedTurnsEnd`,
`StreamsEnd`, `EndedTasksSettle`, `PendingRefundsConverge`, `ProbesResolve`,
`EventsSettled`), which rest on fairness and ENABLED and are out of the prover's
reach. `MixedStore` belongs to no run: `kernel` has no unfenced commands, the stream
part of `turn_runtime` has them. The library's induction
theorems take operators, which the provers cannot instantiate; the proofs use the
least element of a set of numbers and induction over the subsets of a finite set,
stated with sets (`LeastNumber`, `SubsetInduction`). For the same reason pages, buffers
and allocations are sets and functions in the modules, not sequences built by
`SelectSeq`.

The type invariants and `LogContiguous`, `CancelledEndsStopped`, `CancelStopsWork`,
`TerminalIsFinal` and `AttemptBudget` are proved and belong to no run. All but the
first two also follow, in what concerns the life of a Turn, from
`ImplementsLifecycle`, which `kernel` checks.

## 4. Not modelled

The repository has over 200,000 lines, most of them HTTP handlers, views, provider
clients, prompts, migrations and tests. The project covers a small share of them:
those in which processes share durable state. What is left out:

* **Memory store and admission service of `agentturn`**: a test double of the modelled
  transactions, and validation in front of them. **Schema, readiness, plugin scope**:
  probes and query filters.
* **Authorities without a caller.** `NotifyTurnEvent`, `ReconcileDuePendingPass`,
  `CaptureSettlementReviewUsageEvidence`, `ResolveSettlementReview` and the
  `ExpiredReservationReconciler` have no production caller in the repository. The last
  four are modelled from their code alone. `compose.go` of the agent worker wires
  workers, the Reconciler and the effect dispatcher, and the composition that
  `main.go` of that command uses refuses to start. In production only the password login is wired (`login_api.go:64` passes no
  Google adapter); the model has both.
* **OAuth codes, pending authorizations, device sessions**: single-use rows with one
  conditional update each, of the kind `RefreshChain` models.
* **Desktop sync**: a replica that pulls pages by cursor; it shares nothing with the
  parts above and would be the next module.
* **Account pool**: the flush of statistics and the creation of accounts.
* **Orders and subscriptions**: what an event does to them is one step of
  `ProviderEvents`; the monthly clipping of packs is left out of `CreditLedger`.
* **Threads, SSE connections, processor, canvas, local inference, cloud proxy, HTTP
  API, middleware, renderer**: streaming, process control, request parsing and views.
