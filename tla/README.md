# FUNI: a TLA+ model of the live execution core

FUNI is a TypeScript program that opens, watches and closes concentrated-liquidity
positions for one managed wallet, driven from a Telegram bot and a CLI, with a
background worker that reconciles what the chain did with what the local SQLite
ledger says. This directory models the part of it where a mistake costs money and
where a unit test hardly reaches: signing, journalling and broadcasting under crashes
and concurrency, and the recovery that follows.

## 1. Inventory

| component | source | state | operations | status |
|---|---|---|---|---|
| durable transaction boundary | `apps/cli/src/transaction-boundary.ts` | locals of a call | load, nonce mutex, sign, commit PREPARED, broadcast, probe the exact hash, classify, hand off, release | `DurableTransaction` |
| transaction journal and nonce mutex | `packages/lp-ledger/src/index.ts`, `infra/migrations/034_multichain_identity.sql` | `chain_transaction_journal`, `nonce_mutex` | persist, transition, reconcile; acquire, release | `DurableTransaction`, promise in `StageAuthority` |
| bid-ladder submit | `apps/cli/src/v4-bid-ladder-live.ts` | journal rows, ladder projections | attempt numbering, receipt wait, terminal transitions, inline projection | `DurableTransaction`, `EconomicWork` |
| durable journal reconciliation | `apps/cli/src/v4-durable-journal-reconcile.ts` | none of its own | pick candidates, observe, settle, finalise | `DurableTransaction`, `EconomicWork` |
| economic work queue and worker | `apps/cli/src/economic-reconciliation-*.ts`, migration 059, `infra/pm2/reconcile-worker.sh` | `economic_reconciliation_work` | discover, ensure, lease, complete, retry, fail closed | `EconomicWork` |
| chain and providers | (environment) | account nonce, mempool, receipts | mine, evict, replace, deliver late | `WalletChain` |
| operational open executor | `apps/cli/src/v4-operational-executor.ts`, `v4-operational-open.ts`, `v4-live-open-terminalize-no-broadcast-cli.ts` | `v4_live_open_intents`, transitions, receipts | preview, claim, approvals, mint, identical resend, terminalisation | `OperationalOpen` |
| USDG reset reposition | `apps/cli/src/v4-bid-ladder-usdg-reset.ts`, the bot's consumer | `v4_bid_ladder_usdg_reset_v1`, `v4_bid_ladder_usdg_reset_execution_leases` | confirm, lease, close, converge, prove the principal, plan, authorize, open, rematerialize, cancel, stop, resume | `UsdgReset` |
| bid-ladder previews, opens and cancellation | `live-preview-lifecycle.ts`, `v4-bid-ladder-cancellation.ts`, `v4-bid-ladder-live.ts`, the bot | previews and authorities in memory; flow, ladder and journal rows | amount, preview, supersede, deliver, confirm, approve, mint, expire | `LadderOpen` |
| Telegram flows and callbacks | `packages/lp-ledger`, `apps/telegram-lp-bot/src` | flow rows | compare-and-set on revisions, expiry, supersession | `LadderOpen` (BID ladder path) |
| bid-ladder close, claim, convergence | `v4-bid-ladder-live.ts`, `v4-bid-ladder-terminal-convergence.ts` | batches, positions, ladder and leg rows, events | close, claim, project, converge | `LadderClose` |
| position truth and its readers | `active-position-reconciliation.ts`, the urgent and the state-cache worker | `active_position_reconciliations`, request queue | select, read, persist, complete | `LadderClose` |
| external settlement | `external-v4-mutation-reconciliation.ts` | `v4_external_close_settlements` | find, prove, settle | `LadderClose` |
| cards of realized results | `pnl-card-delivery.ts`, `telegram-sender.ts`, `packages/lp-ledger` | `pnl_card_deliveries` | ensure, claim, send, finalize, recover | `PnlCard` in `LadderClose` |
| generic position lifecycle | `v4-lifecycle.ts`, `v4-telegram-management.ts`, `v4-realized-accounting.ts`, close and burn of `v4-live-canary.ts` | `v4_lifecycle_intents`, receipts, basis events | preview, confirm, send, observe, book | `PositionLifecycle` |
| foreground demand | `packages/lp-ledger` 516-1006 | marker files, the database lock | publish, retry, wait, clear | `ForegroundDemand` |
| state refresh queue, registry cursor | `packages/lp-ledger` | queue rows, cursor | enqueue, lease, complete, advance | not modelled |
| position adoption, V3 canary | `position-adoption.ts`, `guarded-canary.ts` | requests, canary intents | adopt; open one V3 position | not modelled |
| adapters, price and portfolio reads, formatting, market data | remaining packages | none that is shared | pure reads and arithmetic | not modelled |

Components meet in four places. The SQLite file is shared by the bot, the CLI and
the worker; every write is one transaction and the journal is the authority. The
wallet has one account nonce, guarded by the nonce mutex row, which every signer
takes and no reconciler does. The work queue hands an unresolved or confirmed
journal row from an executor to the worker, which never signs. Marker files in a directory
beside the database tell background writers that an economic commit is under way.

Hard behaviours: the process may die at every await; the nonce mutex expires and is
released by wallet and not by holder; evidence about a hash is collected by several
provider calls and is stale when it is written; an operator can use the wallet by
hand; cycles lease work under the wallet's address and so under one name. The list
with source lines is `hazards` in `PROJECT.json`.

What makes each component correct: nothing is broadcast that is not journalled; a
stage (a mint, a close, a collect) takes effect once; a settled row is final; what is
shown as open or closed was executed; a row whose nonce is used is settled, and a
confirmed stage projected, without the executor that started it; what the user has
overtaken has no effect; a ladder is closed when, and only when, it is empty, and is
accounted in one way; what landed is never given up, and cost basis is consumed in order;
a commit is not starved by workers, nor they by a dead one; a close is told once.

## 2. Modules

| module | models | extends |
|---|---|---|
| `WalletChain` | the environment: account nonce, mempool, raw bytes on their way, receipts | |
| `DurableTransaction` | `submit`, `broadcastDurableTransaction`, the journal, the nonce mutex, `reconcileDurableV4Journals` | `WalletChain` |
| `StageAuthority` | the abstract promise of the journal | |
| `EconomicWork` | the reconcile worker's cycle, `economic_reconciliation_work`, the projections | `DurableTransaction` |
| `OperationalOpen` | the operational open from its preview to its terminalisation, with columns, receipts, projection and work item | `WalletChain` |
| `UsdgReset` | the reposition of a ladder, with the worker, the state cache and the operator beside it | |
| `LadderOpen` | from an amount typed in the chat to a minted ladder: flow, previews, authority, approvals, expiry | |
| `LadderClose` | the end of a ladder: close, claim, readers, convergence, external settlement | instance of `PnlCard` |
| `PnlCard` | the row of a close card, its two consumers and the sender | |
| `PositionLifecycle` | collect, partial close, full close and burn of one position, and its books | |
| `ForegroundDemand` | foreground commits and background writers of the ledger, in time | |
| `MC*` | model values and symmetry sets | the module of the same name |
| `DurableTransactionProofs` | theorems about the journal | `DurableTransaction` |
| `EconomicWorkProofs` | theorems about the work queue | `EconomicWork`, `DurableTransactionProofs` |
| `OperationalOpenProofs`, `UsdgResetProofs`, `LadderOpenProofs`, `LadderCloseProofs`, `PositionLifecycleProofs`, `ForegroundDemandProofs` | theorems | the module of the same name |

A step is the code between two awaits, or one SQLite transaction. `PROJECT.json` maps every definition to its lines.
Operators under a comment that begins with "Fault" are wrong variants of the operator
that follows them; no specification uses them. They are what the properties are shown
to detect.

### WalletChain

A signed transaction is its hash, and a hash is a record of the stage it was built
for, the nonce and a variant (gas price, deadline, refreshed calldata). A send is
accepted, or fails with the bytes at the node, lost, or (`LateDelivery`) travelling.
Nodes evict and replace; `ForeignSend` is the operator using the wallet by hand, which
the repository's README tells them to do in an emergency.

### DurableTransaction

`pc` is the await at which a call stands: `load` and `acquire` (`ReadJournal`,
`LoadJournal`, `AcquireNonceMutex`), `sign`, `persist`, `broadcast`, `probe` and `count`
(`exactHashEvidence`), `classify` with the `finally` block's release, `receipt`
(`waitForTransactionReceipt` and the terminal transition). Reconcilers go through
`PickCandidate`, the same probe, and `RecordEvidence`. `journal` holds the rows by stage
and attempt, `mutex` the row without an owner column. Three details of the code carry
most of the difficulty and are kept as they are:

- `submit` computes the attempt number before it owns the mutex, and what the boundary
  then loads may be a newer row (`job.attempt` against `job.row`);
- `releaseNonceMutex` deletes by wallet: an executor whose lock has expired releases
  somebody else's;
- `markSubmitted` looks at the latest row and moves the caller's, and the revert path
  moves the latest row rather than the caller's.

Gas caps, price guards, envelope validation and provider errors only make a call end
early, so they are alternatives of `Sign` and `PersistPrepared` that release and return.

### EconomicWork

`cycle` is a run of `runEconomicReconciliationCycle`; several may be alive and all lease
under the wallet's address. `work` is the queue, `projection` the ladder's positions and
deposits, in two steps. `inline` is the executor's own projection after its receipt.
Every background write may give way to foreground demand or to `SQLITE_BUSY`
(`FinalizeFails`, `WriteFails`, `AbortCycle`, a partial `Discover`).

### OperationalOpen

The older lane does not use the journal: `row[i].hash` are the columns
`erc20_approval_hash`, `permit2_approval_hash`, `mint_hash` of `v4_live_open_intents`, and a
state such as `MINT_SUBMITTED` is the pair of a phase and a step. One call at most runs
for an intent (`activeOperationalIntents` in the bot's memory), so calls are named by
intents, and `CrashBot` ends them all. An intent is previewed again only as a fresh one
(`FreshAllowed`), which the code derives from the row of the base key alone. `audit` holds
the intents an operator has terminalised (`TerminalizeNoBroadcast`): the command proves
from the transitions and the columns that nothing was broadcast (`NoBroadcastEvidence`) and
asks for a failure reason (`TerminalReason`). Left open on purpose: what an allowance read
returns (others change it), whether the nonce mutex is had (it excludes nobody for
certain). Prices and gas caps only refuse. Left out: the receipts of approvals, which
nothing reads again, and the checks with which a terminalisation reads its own writes.

### UsdgReset

A reposition closes a ladder, proves what came back, and opens a child with it. Ladders
are numbered in the order in which they are created, and `ladder[l]` holds the parent row
and the row of the reset; the columns are `status`, `provenance`, `phase`, `reason`, `auth`
(the close workflow identity), `previous`, `next`, `reopen`, `jit`. `close`, `open` and
`approval` are the journal rows of a ladder, taken as `StageAuthority` promises them:
absent, pending, then confirmed or failed once. `live` is the chain: the ladders whose
positions hold liquidity. `realized` is the accounting. There are two callers, the user's
confirmation and the bot's consumer; `pc` and `call` are where they stand and what they
remember from before the await: the source, the child, the rematerialization attempt.

- The lease (`lease`) may expire under its holder. The holder goes on until it next calls
  `assertV4BidLadderRepositionLease` (`Asserted`), and only there.
- What a call decides after an await is decided from what it remembers: `PlanChild` re-reads
  the phase inside its transaction (`MayPlan`), `Mint` re-reads the child's status
  (`Admitted`), `Rematerialize` compares the attempt it read.
- `Terminates` is the catch clause around the opening: it asks the journal whether
  something may still open the child, blocks the source, and then, in a second
  transaction, converges the orphan; a crash may come between the two.
- `ProjectedClose` is the worker's or the executor's projection of a confirmed close,
  `ConvergeTerminal` the state cache's, which needs no receipt of ours but does not book.

Prices, geometry, balances and allowances only let a step refuse or ask for an
approval, and are choices (`Drift`, `Open`, `Fails`, `ProofRefused`). Left out: the early
return after the close receipt and the allowance healer `prepareAllowanceAndContinue`, which
no app calls; generation numbers; a database failure between blocking the source and
converging the orphan (the crash there is modelled); and, of `resume`, the reads that come
before its transaction, which reads them again.

### LadderOpen

`flow` is the session row of the chat with its `revision`; every handler writes it through
the compare-and-set (`Applicable`). `previews[e]` is an execution of `runLivePreview...`: where
it stands, the phase of its lifecycle, the session and revision it was started from.
`authority[l]` is the preview that was delivered without blockers and may open the ladder;
`calls[l]` an open on its way from the button to the receipt. `ladders[l]` joins the parent
row, its approvals and the row of its mint; what `submit` does with that row is one step,
because `DurableTransaction` is about it. A callback may arrive late or twice: an action
needs only what its handler checks. `picking` is a depth selection that reads the chain
between taking its revision and writing the flow. Handlers overlap here as the code would
let them; grammY's sequential polling admits fewer overlaps, except between an update and
what earlier updates left running. A restart forgets executions, authorities and calls.
Transfers of position tokens, and the amounts, are left out.

### LadderClose and PnlCard

Each leg's position on `chain` is full, or emptied by the close batch or by its owner.
`truth[l]` is the verdict the readers have stored, with its block and freshness; `mirror[l]`
the row the bot shows. A reader (`readers[r]`) gets the number of the block and the data by
two calls, which are answered in either order, so that the label may be older or newer than
what it labels, and persists both in one transaction. Everything that may end a ladder goes
through `Converge`, inside the transaction of whoever calls it; only `CloseDirectly` does
not. `close` and `collect` are the two batches, `call` and `projection` what a handler and a
projection remember across awaits, `settlement` the account of a ladder that was emptied
elsewhere. The bot works on one update at a time; the workers are other processes.

A position is full or empty; blocks are counted by the changes of the positions; a
settlement is never `FULL` (the cycle passes no attribution of swaps) and an `INCOMPLETE` one
is not a candidate again. Evidence that cannot be decoded is in the subset `found`. Close fee
attribution does not steer anything and is left out.

`PnlCard` is one delivery row: `Claim` and `Finalized` are compare-and-sets, `started` is the
column that separates what was certainly not sent from what may have been. The row appears
in the transaction that books the close (`CardOf`), or later by the reconcile command
(`EnsureMissing`). Between claim and send a consumer awaits nothing, so that its lease of 30 s
is assumed to outlast that stretch unless it dies; the send itself may outlast any lease.

### PositionLifecycle

Rows of `v4_lifecycle_intents` by the order of their creation. `bot` is the await at which the
one running update stands, with what it read before; `chain` holds the position and the
transactions that landed, in order; `basis` the closes that have consumed cost basis, `ingested`
those whose removal is in the ledger, `canary` the row of the live canary, whose close and
burn use the same executor. The worker (`Discover`, `Lease`, `Book`) books collects and full
closes only; partial closes and burns are booked inline or not at all. A prepared row that has
a hash is never sent again: `Confirm` on it asks for the receipt. The reader (`Refresh`) copies
the chain into the row of the position between any two of these steps. How many removals of
half the liquidity fit is bounded by `InitialLiquidity` = 2: of the rest the code refuses 50 %.
Left out: `cancelV4LifecyclePreview`, which nothing calls, the canary's open, which the code
switches off, and the sender used in local tests.

### ForegroundDemand

`life[f]` is what is left of a process's marker, `orphan` of one whose owner died, `lock` the
database lock, `proc` the timers of each process: retries and pauses of a commit
(`maxAttempts`, its budget), the wait of a worker. `windows[f][p]` counts the windows other
processes opened while `f`'s commit was under way. `Tick` passes only when nobody is due, the
sizes of the intervals are the constants, in units of about a second. A commit may hand work
to the queue inside its own window (`HandoffWait`): it then waits for its own marker. Left
out: background windows that do not ask for demand (the RPC read lease, telemetry), the limit
of 128 markers and the checks of a marker's content.

### The constants that choose between the code and an ideal

| constant | the code | the ideal, and why there is one |
|---|---|---|
| `AtomicEvidence` | `FALSE`: hash lookups and nonce counts are separate calls | `TRUE`: what holds if they were read at one instant |
| `LateDelivery` | `TRUE`: an environment where bytes may arrive late | `FALSE`: a send that failed has failed |
| `MintLabel` | `"MINT"`, written by `submit` | `"V4_MINT"`, which every reader looks for: only with it does every action of `OperationalOpen` occur |
| `AlternateProvider` | `FALSE`: the bot passes none | `TRUE`: the resend path, which the executor supports |
| `TerminalReason` | `"GAS_CAP"`: the one reason the terminalisation takes | |

With `AtomicEvidence = FALSE`, `FailedNeverLands` is violated (`journal_failed_lands`), and
with `LateDelivery = TRUE` it would be even with atomic evidence, because an executor
whose send failed trusts the *pending* count, and a pending transaction of somebody
else can be evicted while ours is still travelling. `SingleExecution` and `FailedNeverLands` are the
two properties a passing run has only under an ideal (`journal_single_execution`, which names
it in the first line of its cfg). `work_queue` and `work_settles` read evidence as the code
does; what `open_once` checks is proved for both labels and with or without a second provider,
and what the label of the code means for an open is the theorem `UnreadMintNeverBooked`.

## 3. Runs

| run | instance | distinct states | question |
|---|---|---|---|
| `journal_single_execution` | 1 executor, 1 reconciler, 2 stages, 2 nonces, 2 attempts; atomic evidence | 416,737 | is nothing sent unjournalled; does a stage take effect once; is a row that is given up really lost; does the journal implement `StageAuthority` and absorb late evidence |
| `journal_failed_lands` | as coded | violation, 12 steps | is a row that is given up really lost |
| `work_queue` | 2 cycles, 1 executor, late delivery, evidence as coded | 281,156 | do work items end once, and never while their row is open; does the queue leave the journal to its own steps |
| `work_settles` | 1 cycle, 1 executor, late delivery, evidence as coded, fairness | 32,267 | do consumed rows settle; do confirmed stages get projected unless stale evidence has closed their item |
| `open_once` | 1 intent, nonces 0..1, two variants of each transaction, labels that agree, second provider | 1,775,298 | does an intent mint once; is what may be replaced really unsent |
| `reposition` | 3 ladders, 2 callers, 1 rematerialization, 2 attempts, 1 fault, fairness | 111,093 | is the principal invested once; does a confirmed reposition end, while leases expire, callers die, the user cancels, stops and resumes, and the child expires |
| `close_unbooked` | 2 ladders, 1 attempt, no fault, fairness | violation, 4 steps | is a confirmed close booked as realized |
| `ladder_open` | 2 ladders, 2 sessions, 6 revisions, 2 previews, 2 opens, restarts at any time | 1,833,403 | can anything the user overtook still act; can an expired ladder have a transaction |
| `ladder_close` | 2 legs, 2 readers, 2 attempts of the close, 2 consumers of its card | 3,192,766 | is a closed ladder empty and accounted once; is it told once |
| `ladder_found` | 2 legs, 1 reader, 1 attempt, a claim, a failed read or abandoned projection, fairness | 803,673 | is an emptied ladder found out |
| `lifecycle` | 3 rows, 2 previews, liquidity 2, fairness | 183,840 | is what landed kept; is cost basis taken in order; is what was confirmed booked |
| `foreground` | 2 foreground processes, 2 workers, marker of 8 units | 2,593,241 | can workers starve a commit or get in front of it twice; can a dead process stop workers |

`CHECK_DEADLOCK FALSE` is set where nonces, attempts, revisions or previews are bounded, and a
system that has used them up has nothing left to do; `lifecycle` checks for deadlock.

Bounds. Two attempts and two nonces are the least with which a retry, a nonce shared
by two rows and a foreign transaction at a row's nonce can happen. Two stages of one wallet
compete for nonces in `journal_single_execution`; with one stage three nonces and three attempts
(284,574 states) and, of the properties that are also proved, two executors (1,950,372 states)
were checked too. `work_queue` and `work_settles` use one attempt, because work
items of different attempts are independent; two cycles are what a lost lease needs.
`open_once` lets two transactions be mined, an approval and the mint or two of which one
is foreign, and any number be evicted; two intents at once make more than 13 million states.

`reposition` needs three ladders: a child that is cancelled and the one a resume plans
after it; two attempts make a retried close and a retried opening, and the one fault is a
lease lost by a live holder, a crash, or an error that ends a call. A second fault repeats the first
on a state the first has left reachable; what one lost lease does with two callers is
already every overlap of them.

`ladder_open` needs two previews for one to overtake the other, two ladders for an expired one
beside a live one, two sessions for a cancelled flow and its successor. `ladder_close` needs two
legs: with one, fresh evidence of a leg is evidence of the ladder; two readers for evidence that
arrives out of order; two attempts for a close that reverts and is sent again for fewer legs.
Its card needs a second consumer for a claim that is taken over. `ladder_found` leaves out the
urgent reader and the card, which owe it nothing, and adds what may disturb a single pass: a
claim and one failure. `lifecycle` has three rows: a partial close whose order with a full
close matters, and a burn or a collect beside them. `foreground` scales 5 s of marker life, 3 s
of retries and 250 ms of SQLite's own waiting to a marker of 8, a budget of 6 and 1, with four
attempts; workers wait as long as a marker lives. These sizes meet `Outlives` and `FewWindows`
(section 4) with nothing to spare: one unit less of the marker, or one attempt less, and TLC
finds a property violated.

Fairness. Of `EconomicWork` only the worker's (`DurableTransaction` and `OperationalOpen` state no liveness): `infra/pm2/reconcile-worker.sh` starts it for ever. Weak
fairness for a cycle's own steps and for the passing of a lease's time; strong fairness
where a provider or the database may refuse but not every time (`Discover`, `LeaseDue`,
`TakeItem`, a conclusive probe, `RecordEvidence`, `Finalize`). Nothing is assumed of executors, of locks
or of the chain: a row settles only *if* its nonce is used, and the runs show that it
then does although the executor is dead. `UsdgReset` assumes more, since it is about the
bot: its consumer loop (`usdResetRepositionConsumer`) takes due rows, a call that has
begun goes on, the worker and the state cache converge what is confirmed, the lease of a
dead holder runs out (30 s), and a pending row is decided in the end (`WF(Settle)`). The
last is an assumption about the chain and about somebody resending a row that was
prepared and never sent. User, operator and expiry are not fair. `LadderClose` assumes that a
transaction that was sent is mined and observed, that the background reader and the worker
run for ever, and that time passes; it takes nothing from the urgent worker, the claim or the
settlement. `PositionLifecycle` assumes the worker only: weak fairness of discovery, strong of a
lease and of a booking that may be refused. `LadderOpen` and `ForegroundDemand` state no
liveness; what time does in the second is in `Tick`.

### What the violations say

1. `journal_failed_lands`. Receipt, transaction and nonce count come from three calls. A
   transaction mined in between is absent to the first two and its nonce is used to the
   last: its row becomes `FAILED` for good although it succeeded, and the next
   confirmation opens the stage again.
2. `close_unbooked`. The close is confirmed and its inline projection fails; before the worker's
   turn the state cache sees empty positions and closes the ladder. The worker takes a
   confirmed close only while its ladder is not `CLOSED`, so the realized event is never written.

Two more things the code does are recorded by a property and a theorem instead of a run of
their own:

3. A cycle that found neither receipt nor transaction, and then sees the nonce used, meets a row
   the executor has confirmed meanwhile. The journal absorbs the evidence
   (`v4-durable-journal-reconcile.ts:331-348`), but the outcome returned is still `FAILED`, and the
   cycle writes `FAILED_CLOSED` (`economic-reconciliation-cycle.ts:17-18`), which neither
   discovery nor a hand-off revives. If the inline projection was given up, the confirmed stage
   is never projected, although the comment at `v4-bid-ladder-live.ts:2032-2033` leaves it to the
   worker. `ConfirmedProjected` therefore names this end as its one excuse: the run shows that a
   confirmed stage misses its projection in no other way. `OpenRowsReachable` shows that the same
   never happens to a row that is still open.
4. `OperationalOpen` stores the mint's receipt and state under `MINT` and `MINT_PREPARED`
   (`v4-operational-executor.ts:520`), while projection, catch clause and discovery look for
   `V4_MINT` (`v4-operational-executor.ts:372`, `373`, `527`;
   `economic-reconciliation-work.ts:42`, `48`). No open is ever booked, not even where a
   second confirmation has stored the receipt under the label that is looked for. A run can show
   one execution in which a position is missing; that it is missing in all of them, for any number
   of intents, is what `UnreadMintNeverBooked` states and proves. How the projection fails
   and is repeated is modelled, but no property is stated of it as long as it never succeeds.

Met while modelling and not kept as runs, because they have these causes or concern a path the
apps do not take:

- `submit` fails the row that is latest when it learns of its revert, which may be a newer
  attempt on its way (`v4-bid-ladder-live.ts:1024`); it takes a second executor.
- A confirmation that read its intent's state before the worker reconciled it overwrites
  `POSITION_RECONCILED` later; and a repeated confirmation overwrites `MINT_SUBMITTED` with
  `RANGE_REFRESHED`, after which a receipt that takes longer than the wait fails an intent whose
  mint may still land. `MintsOnce` holds all the same, since the stored hash and not the state
  decides; but a fresh preview is offered after `FAILED`, and its mint would be a second one.
- `v4_live_transitions` keeps the first `PREPARED` request of a phase (`UNIQUE(intent_id,state)`
  with `INSERT OR IGNORE`), so that a phase that was signed twice can never be resent.
- The terminalisation asks for the reason `V4_TX_GAS_CAP_EXCEEDED` alone; the executor of today
  appends the stage to it, so that the command ends older rows only.
- A hand-off after a confirmed receipt waits, as a background write, for the marker of its own
  process, and `EconomicForegroundDemandActiveError` is not a SQLite code: in
  `v4-operational-executor.ts:522`, `v4-bid-ladder-live.ts:1908` and `v4-lifecycle.ts:132` it ends a
  call that has succeeded.
- A resume of a reposition can only be blocked again: see `RepositionEnds` below.
- After the button back, a new amount in the same session supersedes the running preview
  without a message; and the button that resumes an open is always refused.
- The projection of a claim that was read before a close and written after it gives the closed
  positions their liquidity back (`v4-bid-ladder-live.ts:2605`), and repeats that while the
  valuation is incomplete. `ClosedIsEmpty` is about the chain and not disturbed.
- A partial external close followed by the program's close books the proceeds of the remaining
  legs against the whole basis; an incomplete external settlement is never tried again; fee
  attribution of a close is bound once and never repaired.
- The background reader always takes the first open ladder that has a terminal leg, and while
  that ladder stays open no other position without a request is read.
- A full close stays without basis for ever when an older row was left `CLAIMED`, `PREPARED` or
  `SUBMITTED`, or when a preview older than a booked removal is confirmed after it
  (`Stuck` in `ConfirmedIsBooked`). A refresh between the receipt of a partial close and its
  booking makes the booking fail for good, and one after a burn is undone by a late projection.
- A marker of 5 s outlives a commit only where SQLite waits 250 ms; the CLI's own connections
  wait 5 to 10 s. With a marker that is too short by one unit (`Outlives` in section 4) `BypassOnce` fails.
- A HTTP 5xx of Telegram counts as not delivered, which the chat may see otherwise; and neither
  the start of a send nor its end names the claim it belongs to, so that a consumer that stalls
  for its whole lease between claim and send may end another's.
- The state refresh queue deletes a request that arrived while its row was in service, and
  `portfolio_refresh_requests` postpones one until the completion of the row it was merged into.

`RepositionEnds` excuses two endings, because the code has them. A planned child that is
30 minutes old is cancelled by the expiry inside its own opening; the refusal counts as
retryable, so the source stays in `REOPEN_PLANNED` (`ChildExpired`) and, as a row of the
immediate lane, keeps the periodic cycle from running for every other ladder. And an
approval that is sent beside a mint which lands, and then fails, makes the authorization
refuse for good although the child is open (`ChildUnauthorized`). The property also counts
`BLOCKED` as an end, and a resumed child always ends there: its predecessor is the
cancelled child, while `assertV4BidLadderReplacementAuthorization` asks for the source.
Faults are bounded, so errors of the immediate lane that never go away (a proof of the
principal that fails for a lasting reason is not classified there) are outside it.

## 4. Theorems

The theorems hold for arbitrary sets of ladders, legs, intents, stages, readers, callers,
executors and reconcilers and for arbitrary bounds. Assumptions: the named ones of the modules
(bounds are naturals, kinds of processes are disjoint, `NULL` is none of the values it stands
beside). A few theorems have a condition more, each of them met by the values of the code or a range around them:

| condition | says | why |
|---|---|---|
| `MintLabel = "MINT"` | the label the code writes | for `UnreadMintNeverBooked` alone, which is about that label |
| `Outlives` | `AcquireTime + Budget + Busy < Ttl`, `AcquireTime + HandoffWait < Ttl` | the code: 3 s and 250 ms, or 500 ms, against 5 s, which leaves 1.75 s to publish a marker |
| `FewWindows` | `(W + 1) * Window < Attempts * Busy` for `W` workers, and all attempts but the last fit the budget | the code: 7 attempts of 250 ms, so that with 4 workers a callback must hold the lock for less than 350 ms; 6 attempts and the pauses between them take 2,875 ms at most of 3 s. How long a callback takes the code does not bound |
| `MaxWait >= Ttl` | a worker waits as long as a marker lives | the code: 5,250 ms against 5,000; hand-offs and the direct lookup wait for 500 ms and are outside |

| theorem | argument |
|---|---|
| `TypeCorrect` | `TypeInv`: `TypeOK`, and an executor past signing holds a hash of its own stage, a row holds a hash of its stage. One lemma per action; all of them also give `JournalMove`, which says how one row may change |
| `RowsSettle` | from `JournalMove` and `TypeInv` |
| `NonceExclusion` | a row becomes open only in `PersistPrepared`, under `~NonceTaken` and `~HashTaken`; every other move keeps or closes it |
| `AttemptsOrdered` | `OrderInv`: not inductive alone, since the attempt number is old when it is used. `EarlierFailed` says that what is below a call's attempt is, and stays, `FAILED` |
| `JournalledFirst` | `SentInv`: a call about to send holds a hash that is in the journal, and rows keep their hash |
| `ConfirmedWasExecuted` | `ConfirmInv`: what a call believes of its row (`JobInv`): the row exists, has its hash, and success evidence means `executed`. Needed because the evidence is old when it is written |
| `JournalIsAuthority` | step simulation: with `AttemptsInOrder` a stage has one row at most that is not failed (`SoleRow`), so the `CHOOSE` of the mapping is determined, and each row move is `Authorise`, `Confirm`, `Revoke` or a stutter |
| `OnlyMisjudgedRepeats` | from `AttemptsOrdered` and `JournalledFirst`: two transactions of one stage that succeeded are two rows, the earlier of which is `FAILED`. So a stage takes effect twice only in a state with a failed row that succeeded, which `journal_failed_lands` reaches; nothing else, neither a lost mutex nor a late delivery, does it alone |
| `QueueKeepsToJournal` | step simulation: a step of the queue is one of `DurableTransaction` or leaves its variables alone |
| `WorkTyped`, `ItemsEndOnce` | `QueueInv`: an item has a journal row (`ItemsHaveRows`), and a cycle works on an item that was made (`Worker`). `WorkMove` says how one item may change: it is ended out of a lease alone, and an ended one is never leased |
| `OpenRowsStayReachable` | `ReachInv`: a cycle about to end an item leaves no open row behind it, for whatever evidence it has read it has recorded it, and one about to complete it has projected (`MayEnd`) |
| `OpenTyped`, `IntentMintsOnce`, `ReplaceableWasNotSent` | `OpenInv`: what is on the network is stored in its intent's columns (`NetworkStored`), a stored column is the hash that was signed for it, and a call that has signed knows it (`CallKnows`); an intent that may be replaced has no call under way and nothing signed (`ReplaceableAtRest`) |
| `UnreadMintNeverBooked` (`MintLabel = "MINT"`) | the worker never gets past its projection, and no other step reconciles a row (`UnbookedInv`) |
| `ResetTyped`, `PrincipalInvestedOnce`, `CancelledLadderNeverMints`, `RepositionedOnUserWord` | `ResetInv`: the decision between two callers is in the rows, not in the lease. A ladder with a successor is over and empty, one ladder of the lineage has none, and a call's child stays the child of its source |
| `LadderOpenTyped`, `AbandonedLadderNeverMints`, `OvertakenWithoutEffect` | `OpenInv`: revisions grow and flow ids are not reused, so that what was read before a write never matches again; an authority belongs to a preview that has ended, was not overtaken and was not used |
| `CloseTyped`, `ClosedLadderIsEmpty`, `ClosedOnOneAccount` | `LadderInv`: an emptied position stays empty, and so does what any reader, call, row or mirror remembers of one (`ReadersKnow`, `CallKnows`, `RowKnows`, `EmptyIsEmpty`), although the block it is labelled with may be wrong |
| `CardShownOnce` | `CardKnows`: one consumer at a time has begun, and one that is sending has not shown the card |
| `LifecycleTyped`, `LandedActionIsKept`, `CloseTakesWhatIsLeft` | `LifeInv`: a row and its transaction fit (`RowsSound`), keys find their rows (`KeysSound`), what bot and worker remember of a row holds (`BotSound`, `WorkSound`), and what has taken basis has landed and was confirmed (`BooksSound`) |
| `DemandTyped` | `ClockInv`: time spent and time left stay below what the attempts, pauses and windows begun so far take (`Fits`); `StoreInv` for lock, markers and histories |
| `WorkersBypassOnce` (under `Outlives`) | `CoverInv`: what is left of a commit's marker and the time it has spent make up the whole marker, so that its marker is up as long as it tries; then nobody passes the check, and a worker that had its window is not about to open one (`WindowInv`) |
| `WorkersDoNotExhaust` (under `Outlives`, `FewWindows`) | `BlockedInv`, a potential: the time a commit has been kept waiting, what is left of the open window, and one window for every worker past the check are never more than `W + 1` windows together, unless another commit came between |
| `DeadOwnersTurnNobodyAway` (under `MaxWait >= Ttl`) | `AgeInv`: a marker that was there when a wait began ages with it |

Three of the models were wrong where a proof first did not go through, and were corrected:
`AcquireNonce` of `OperationalOpen` kept a note that the nonce was still to be taken;
`ParentConverged` and `Reconciled` of `UsdgReset` had guards that overlap, so that their value was
left open; and `Publish` of `ForegroundDemand` gave a marker a negative life when it is published
after its own expiry.

Only model-checked: what holds under fairness (`ConsumedRowSettles`, `ConfirmedProjected`,
`RepositionEnds`, `EmptiedIsClosed`, `ConfirmedIsBooked`), which is out of the
prover's reach; and `SingleExecution` and `FailedNeverLands`, which hold under an ideal only.
`CloseIsBooked` is false of the code.

## 5. Not modelled

- The state refresh queue and the registry cursor: a cache of what the bot shows, which no
  trade trusts. What was seen in them is among the observations.
- Position adoption: a request queue and a question to the user. The V3 canary: a smaller
  form of what `OperationalOpen` models; V3 positions are read, not traded.
- Adapters, planning and valuation as far as they are arithmetic without state; RPC fallback
  and quotas (the models see them as providers that fail, disagree or answer late);
  presentation, market data and caches without authority over money.
- Code without a caller in `src`: `prepareAllowanceAndContinueV4BidLadderReposition` and its
  eligibility, `reconcileV4BidLadderOpenReceipt`, `cancelV4LifecyclePreview`, the targeted lane of
  the background reader.
- Steps left out of modelled components: the swap of a `PERMIT2` approval's kept state for
  `PERMIT2_POSITION_MANAGER_RECOVERY_SELECTED` (`v4-operational-executor.ts:494`); an approval of a
  ladder that is mined and reverted; a booking of a generic close that is repeated because its
  completion was refused (`economic-reconciliation-cycle.ts:22-23`); and the refusal of a hand-off
  that ends a close before its burn (`v4-lifecycle.ts:132`), whose states `Defer` and a crash reach.
- V3, SPOT and adoption flows of the bot, which use the operations of `LadderOpen`'s flow with
  other steps; DAILY cards, rendered by a command that reads.
- Schema migrations are taken as run.

## 6. Plan

Done: every module of section 2, and the theorems of section 4, which state every invariant and
every action property that a run checks as coded. Next, in this order:

1. Which of the conditions of section 4 can be weakened: `BypassOnce` with the connections of
   the CLI, which wait longer than 250 ms.
2. Theorems of what the rows of `PROJECT.json` take for granted of each other: that the promise
   `StageAuthority` makes is the one `UsdgReset` and `LadderOpen` take their journal rows by.
3. A model of the state refresh queue, if it ever decides anything.
