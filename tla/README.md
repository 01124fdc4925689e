# Formal verification of kira-ledger

TLA+ models of the ledger's money core, its routing engine, its payout providers,
its settlement path, its deposit watcher and its reconciliation, and of the
process that runs them together; checked with TLC on small instances, and
theorems about them proved with TLAPS for every instance. Every
definition is translated from the TypeScript under `src/src` and the SQL under
`src/migrations`; `PROJECT.json` maps each one to its lines.

## 1. The system

A client's stablecoin deposit is detected on chain, booked as *pending*,
converted to spendable USD once it is final on the chain or under enough
confirmations, and paid out, either by a direct payout or by standing routes that fire when the conversion is
confirmed. Postgres holds all durable state. Processes (HTTP handlers, the
watcher) share nothing else, except the mock providers' memory.

| component | state it keeps | operations | talks to |
|---|---|---|---|
| ledger core (`domain/ledger.ts`, `domain/offramp.ts`, `db.ts`, 001) | `transfers`, append-only `entries`, `spend_guards` (headroom, pending) | `recordDeposit`, `confirmOfframp`, `confirmOfframpConverted`, `createPayout`, reversal, all through `createBalancedTransfer` in `withTx` | called by everyone |
| off-ramp arithmetic (`domain/offramp.ts`) | none | `usdcMinorToUsdCents`, `feeFromBps`, `quoteUsdcToUsd` | called by the conversion |
| deposit watcher (`chain/watcher.ts`, 003) | `chain_events` | detect, confirm, hook | Solana RPC, ledger, routing hook |
| chain webhook (`routes/webhooks.ts`) | none | book a deposit | ledger, same key as the watcher |
| routing engine (`routing/engine.ts`, 004) | `routes`, `route_actions`, `route_executions`, `route_legs` | trigger, reserve, retry, dispatch | ledger, providers |
| settlement (`routing/settlement.ts`) | `route_legs`, `provider_statements` | apply a provider event | ledger, routing |
| providers (`vendors/*`) | payouts by client reference, in memory | initiate, poll, settle lever, statements | called by dispatch, poll and lever |
| reconciliation (`recon/recon.ts`) | none | anti-joins and drift reports | reads all tables |
| server bridge (`server.ts`) | none durable | the hook: reserve in a second transaction, then dispatch | awaited by the watcher's tick, calls routing |
| API, dashboard, observability, config, scripts | none of interest | validation, presentation, logs | - |

What is hard in it:

* **Concurrency.** Transactions run under READ COMMITTED. Correctness rests on
  UNIQUE keys that make a second insert wait, on row locks of guard rows, and on
  guarded updates; a statement sees what others committed and nothing they have not.
* **Failure.** A process may die between COMMIT and the event, between a
  provider's ack and the update that records it, between the credit and the hook;
  the mock providers' memory, and the bank's counter of references, die with it.
* **Delivery.** Webhooks, provider events, triggers and retries arrive twice,
  late, in any order, or contradict each other.
* **Boundaries.** Sub-cent deposits, rounding ties, 0 and 100 percent fees,
  limits of 100 rows.

`PROJECT.json` lists these as hazards, at their lines, with the properties aimed
at them.

What makes each component correct: the ledger never overdraws, posts each key
once and whole, and keeps counters equal to entries; the quote loses less than a
cent and rounds fairly; a deposit is credited once, only when it is final or past
the threshold, and eventually if it is final; a route reserves all its legs or none and each reservation ends as
exactly one of settled or released; an execution's outcome is that of its legs;
nothing is paid out of a deposit that was dropped short of that; recon has what is
open in its stuck queries, and finds no orphan and no drift of the process's own making.

## 2. Modules

| module | models | state and actions against the code |
|---|---|---|
| `Offramp` | arithmetic | one operator per function; what the code throws is `QuoteRefused` |
| `Postings` | posting lists | one operator per domain operation; `ClientEntry` is a posting with a `balance`, `Entry` one without |
| `Ledger` | `createBalancedTransfer` under concurrency | a session is one `withTx`: `Begin` (a caller), `InsertTransfer` or `ReplayTransfer`, `PostEntry`/`PostWithBalance` per line, `RefuseSpend`, `Commit`/`Rollback`, `Reply`, `Crash`. `draft` is what the transaction wrote and nobody sees yet, `guardLock` the row locks |
| `AtomicLedger` | what the ledger promises | one action: a whole balanced transfer under an unused key |
| `Providers` | the three adapters behind one port | `payout` is the record under each client reference, `issued` the bank's counter; dedupe, the settle lever, elapsed finality, polls, and `ForgetPayouts` when the process dies |
| `Routing` | engine and dispatch | a reservation is one transaction over the routes of the account, one step per statement: `InsertExecution` or `AlreadyFired` (a retry claims its row in `BeginRetry`), `ReserveLeg` per leg, then `ReleaseSavepoint`, or `RefuseLeg` with the rollback to the savepoint, or `ThrowLeg` with the rollback of all, and `CommitReservation`. `firing` is the executions it has yet to reserve, `draft` the legs and `won` the executions it wrote and nobody sees yet, `guardLock` and `execLock` its row locks. Dispatch is one step per await: `queue` is the executions a session has yet to hand over, `left` the legs its SELECT found, taken oldest route and lowest `seq` first; instantiates `Providers`, a leg being a client reference |
| `Settlement` | provider events beside `Routing` | one action per statement: `LockLeg`, `MoveLeg`, `CloseExecution`, `CommitSettlement`, and the early returns; `Settle` and `Poll` are the two ways an event arrives; `Restart` is the death of the process |
| `Watcher` | watcher and webhook | one action per awaited unit of a tick; the booking and the credit are transactions of one step; `finality` is what the cluster says of a deposit: confirmed, deep (past the threshold), final, dropped before either, or reorged (dropped although deep); `rooted` is what the batched status call answered, which the credits rely on later |
| `System` | `server.ts` | extends `Settlement`, instantiates `Watcher` with its deposits as triggers. `CreditDeposit` is the credit and the confirmation in one transaction; `HookBegin`, `HookReserve` and `HookCommit` (or `HookThrows`) are the reservation after it, statement by statement beside the handlers, `HookDispatch` the dispatch the tick awaits; handlers serve the routing endpoints |
| `Recon` | `recon.ts` | one operator per query, on the state of `System`; the drift query covers the fee account too, to which nothing in `System` posts |
| `MC*` | instances | constant values, symmetry, properties that need sums or the abstract module, comments of the code under test |
| `SumTheorems` | - | what the proofs use of sums over finite sets |
| `OfframpProofs`, `PostingsProofs`, `MCOfframpProofs`, `LedgerProofs`, `WatcherProofs`, `SettlementProofs`, `SystemProofs` | proofs | lemmas and theorems |

`Ledger` extends `Postings`, which extends `Offramp`; `Recon` extends `System`,
which extends `Settlement`, which extends `Routing`, which instantiates
`Providers`; `Watcher` extends `Offramp` and is instantiated by `System`.
`MCLedger` instantiates `AtomicLedger` with the deposit of an off-ramp as a
parameter. There are two refinements: `Ledger` implements `AtomicLedger`
(checked and proved), and `System`, seen through the routing tables, implements
`Settlement` (proved), which is why what holds of `Settlement` alone, with
triggers confirmed by anybody, holds of the whole process.

Granularity, and why it loses nothing:

* A ledger transaction is split at every statement that takes a lock or may
  wait, because lock order and waiting are what is in question.
* A **reservation** is split at its statements too: each insert or claim of an
  execution, which takes that row's lock, each leg, whose spend takes the guard's,
  the rollback to the savepoint, which gives up what was written and locked since
  it, and the COMMIT, where what it wrote becomes visible. A leg is one step, a
  balanced transfer and a row under keys of its own; the statements inside such a
  transfer are `Ledger`'s subject.
* In **settlement** the lookup locks every row its `external_ref` matches, and waits
  for all of them at once, which is when it would go on with any of them. The writes
  become visible in `CommitSettlement`. A failure's `MoveLeg` includes its reversal,
  which updates the guard row of the user and keeps its lock; the addition is visible
  from COMMIT on.
* `RecordAck` takes no leg lock: a settlement can lock a leg only through its
  `external_ref`, which `RecordAck` itself first writes.
* The watcher's two **transactions per deposit** open with a write of the
  deposit's `chain_events` row or its key, which serialises them. In `System` they
  also wait for the guard row of the account while a reservation or a reversal has it.
* **Finality** is what the watcher takes for it (`watcher.ts:220`): finalised, rooted, or
  as deep as `CONFIRMATIONS` (12 by default, `config.ts:9`). A deposit past that depth
  may still be dropped by the chain, is credited and paid out all the same, and stays
  so: ADR-010 and ADR-022 accept that. The models have this behaviour (`reorged`), and
  what is claimed is only that none dropped short of the threshold is credited.
* A **recon query** is one SELECT, a snapshot of its own. A row is reported by one
  statement from that snapshot, so a property of the query in every reachable
  state is one of the report, however transfers commit between its statements.
* `position` is `SUM(entries)` per account, kept as a variable beside the entries.
  `MCLedger`'s refinement ties it to their sum.
* Events logged inside transactions, wording and schemas are left out.

Idealised: payers of payouts are client accounts; a confirmation clears the user and
the amount its deposit booked, as its input's comment demands (`offramp.ts:188`),
except in `Watcher`, where the watcher's own choice of both is the point;
`confirmOfframp` has no caller outside tests and is kept because it shares every path;
the digests two providers derive their references from do not collide (the bank's
counted references do, after a restart, and are modelled so); no direct payout carries
the header `solana-devnet:<sig>`, or that with `:offramp`, in `Watcher` (in `Ledger` a
payout may have any key, these two included); routes are created before the run and
stay active (nothing in the code deactivates one); the ids that order a user's routes
are their `created_at` order.

## 3. Runs

| run | instance | result |
|---|---|---|
| `offramp_arithmetic` | deposits around every cent boundary, fees over the whole range | four properties hold; the model ends when its grid does, so deadlock is not checked |
| `offramp_residue` | the same with other remainders | **violated**: the conversion keeps up to 0.9999 cent |
| `ledger` | 3 sessions, 2 base keys (4 keys), deposits of 0 and 3 cents, spends of 0 and 1, fee 50 percent | seven properties hold |
| `ledger_liveness` | 2 sessions, 2 base keys, one amount each, fairness | every call ends |
| `ledger_replay` | payouts of 1 and 2 under the same keys | **violated**: same key, another body, stored answer |
| `settlement` | 2 handlers, 1 off-ramp of 3, 1 restart, 3 routes: the first takes 1; the second has room for its first leg (whose two amounts differ) and not for its second until the first route's leg has failed; the third reserves a leg and then trips over one without conversion accounts | six safety properties hold and every handler ends |
| `settlement_skew` | 1 route of 2 legs | **violated**: both settled, execution still reserved |
| `settlement_redispatch` | same, triggers and settlements redelivered for ever | **violated**: an acknowledged leg stays reserved |
| `watcher` | 2 workers, 2 deposits (one dust, which may also be dropped, short of the threshold or past it), truthful webhook, 1 crash | six properties hold, one of them liveness |
| `watcher_webhook` | webhook with another user or amount | **violated**: pending not drained by what was booked |
| `system` | the watcher and 1 handler, 1 deposit that may be dropped at any time before it is final, 2 routes of which one has a leg without conversion accounts, 1 restart | four properties hold, one of them liveness |
| `recon_restart` | 2 deposits paid out by the bank, 1 restart | **violated**: an open leg is missing from the report |

Why the bounds are enough for the question asked: two sessions suffice for a race
on a key or a row and a third for a bystander that holds the other lock of a
cycle; two base keys give a deposit and an unrelated transfer, and a payout key
may coincide with either, as any header may; the three routes make a refusal after
a leg was reserved, a throw after a leg was reserved, and a retry happen; two
legs are what a write skew needs. One restart lets the providers forget, and a
counted reference repeat, while a leg waits for its settlement; it also comes
between the credit and the hook. Zero amounts are included so that the refusal
branches are taken. `MaxCrashes`, `MaxRestarts`, `ScanLimit` and `BatchLimit` are the
only numeric caps; in the `watcher` run the window and the batch hold what is there,
and with as many undying rows as the batch holds, or more deposits between two
ticks than the window, `FinalDepositIsCredited` is false of the code (hazards at
`watcher.ts:235` and `:35`).

`RefsLast` names the case the bank's counter breaks. `settlement` has no leg at the
bank; `recon_restart` has, with a restart, and shows what it costs.

Symmetry of sessions and base keys is used in the safety run `ledger` only.

### Fairness

* `Ledger!FairSpec`: strong fairness of each session's next statement. Postgres
  wakes the waiters of a row or key in queue order, so a statement that is enabled
  again and again is executed. No caller is obliged to call, and a crash is never
  forced. Postgres' deadlock detector is not modelled; `EveryCallEnds` shows that
  transactions of a single transfer never need it, `EverySessionEnds` that
  reservations of many legs, retries, settlements and reversals never do.
* `Settlement!FairSpec`: strong fairness of each handler's next step, a dispatch
  await or a statement of a reservation or a settlement, once it has started; row
  locks of legs, guards and executions are granted in queue order. Nobody is obliged to call.
  `RedeliverySpec` adds that each trigger, and the settlement of each payout its
  provider knows, is delivered infinitely often, to show that redelivery does not
  help.
* `Watcher!FairSpec`: the chain decides (deepens, finalises or drops) what it shows, the poller
  reschedules itself after success and failure alike, and an RPC or database call
  that is attempted for ever succeeds at some time (strong fairness of the
  detection, the batch read and the credit).
* `System!FairSystemSpec`: that of the watcher, its hook and the hook's dispatch
  included, since the tick awaits them, with strong fairness of the reservation's
  statements, which wait for row locks. No handler is obliged to call; one that has
  begun goes on (`Continue`) or fails, so that it does not keep a lock for ever.

### What the violated runs say

1. `settlement.ts:79`: two legs settled at once each run `NOT EXISTS` on a snapshot
   without the other's commit. The row lock the comment relies on is on different
   leg rows. Nothing completes the execution later.
2. `settlement.ts:34`: the `reserved` status admitted for the crash window cannot
   be reached, because the lookup needs the `external_ref` that window lacks.
3. `engine.ts:466`, in the same run: nothing dispatches a reserved leg again;
   `already_fired` is not dispatched and the retry accepts only `insufficient_funds`.
4. `ledger.ts:76`: replay does not compare requests, while `DECISIONS.md:76` has 422.
5. `offramp.ts:140`: the conversion floors to the cent, so up to 9999 of the 10000
   minor units of a cent stay on the conversion account; the policy above it
   (`offramp.ts:123`) has less than a 100th of a cent.
6. `watcher.ts:268`: the credit clears the chain's amount from the configured user,
   the deposit may have booked the webhook's.
7. `legacybank.ts:93`: the counter of references starts at zero with the process.
   The leg of a new payout takes an `external_ref` an older, settled one has, and
   the older statement clears it from recon's stuck-leg query. A settlement under
   that reference matches both legs, and the one the lookup returns first may be
   the settled one, so that the event is stale and the open leg waits on.

## 4. Proofs

**Arithmetic.** `OfframpProofs` proves for all naturals and every legal fee rate:
the par conversion is the floor (`ParConversionFloors`), the fee is a nearest
integer and the even one at a tie (`FeeRoundsHalfEven`), it is within the amount
(`FeeWithinAmount`), and a larger deposit nets no less (`NetIsMonotone`, from the
half-step bound on the fee's error: two roundings cost at most one cent together,
and exactly one only at 100 percent, where nothing is rounded). `MCOfframpProofs`
proves that the fee *is* the CHOOSE definition of banker's rounding
(`FeeIsNearestEven`: a rival as near makes a tie, so the fee is even and the rival
is odd) and from these the four properties of the grid run for every grid that
satisfies `GridAssumption`. `PostingsProofs` types every posting list.

**Ledger.** `LedgerProofs` proves for every set of sessions, accounts, keys and
amounts, from the named assumptions `LedgerAssumption`, `PayoutKeyAssumption`,
`AccountAssumption` and `CurrencyAssumption`:

* `TypeCorrect`, `NeverOverdrawn`, `AppendOnly`, by one inductive invariant,
  `TypeOK` with
  * *JobInv*: a session's job is one a caller made, and its progress is within it;
  * *DepositInv*: a committed deposit has the shape `recordDeposit` gave it, so
    that what a confirmation later reads of it is typed;
  * *KeyInv*: at most one session has a key inserted, and while it has, no committed
    transfer has that key. This is what makes the COMMIT of a key a first one;
  * *GuardInv*: a session with a change on a guard's headroom holds that row's lock,
    and committed headroom plus its change is not negative. Without the
    lock conjunct the check a spend made would say nothing about the COMMIT.
* `Refinement`: every behaviour is one of `AtomicLedger`. The step simulation needs
  *DetailInv*: a job's postings have one of the four shapes (*ShapeInv*), a draft is
  the sum of the postings made so far (*DraftInv*), and a cleared deposit has its
  off-ramp committed (*ClearInv*), so that a confirmation whose key was free finds its
  deposit open. A COMMIT then maps to one balanced
  transfer, with the sums of its entries as its effect, and everything else to a
  stutter. The shapes are balanced by adding up their at most five lines.
* `PendingMatchesDeposits`: the pending counter is the sum of the open deposits. It is
  inductive on top of *DetailInv*: a COMMIT changes one term of the sum and the
  counter by the same amount.
* `AnnouncedOnce`, from *AnnouncedInv*: a caller about to announce a payout is the one
  that committed it, and nobody announced it before.
* `GuardsMatch`, from the further assumption `PayoutsLeave` (no destination is a
  client account), by the *MirrorInv* that every draft changes headroom plus pending by
  the negative of the position. The assumption is needed: the destination's posting
  has no bucket (`ledger.ts:186`), whatever account it names.

**Watcher.** `WatcherProofs` proves `EventsAlwaysMatchLedger`, `HookAtMostOnce` and
`OnlyPastThresholdIsCredited` for every number of workers, deposits and webhooks, with
any limits and any crashes. The properties are strengthened by *RootedInv* (what the
status call showed as final or deep enough is still past the threshold, or was dropped
past it, when the credit relies on it) and *HookInv* (a worker at its hook has
credited the row before it, whose hook has not been called, and no other worker is at
that hook). Nothing of this depends on the lists the workers walk. Further:

* `PendingMatchesDeposits`: a pending bucket is what the open deposits booked,
  from the assumption `WebhooksAgree` (a webhook names the account and the amount
  the watcher will credit). Without it *PendingInv* alone is proved: the bucket is what
  the deposits booked less what the credits drained, which `watcher_webhook` shows is
  not the same.
* `WatcherTypeCorrect`: the lists hold deposits, and a worker at its hook has one at
  the head of its list. `Only`, the fold in place of `SelectSeq`, is opened as the
  table of its values on the sets of positions.

**Settlement.** `SettlementProofs` proves `NoPartialFills`, `BooksAlwaysFollowLegs`,
`OutcomeAlwaysMatchesLegs`, `NeverBackward`, `HeadroomAlwaysBacked` and
`SettlementTypeCorrect` for every set of handlers, routes, actions, triggers and
credits, with any restarts. Only `BooksAlwaysFollowLegs`, which says of a statement
whose it is, assumes `RefsLast`: no restart, or no leg at the bank. The inductive
invariant adds to `AllLegsOrNone`, `OutcomeMatchesLegs` and the holds' part of
`BooksFollowLegs`

* *PayoutInv*: a payout carries its own reference, and what the bank counted it
  counted once;
* *AckInv*: a dispatch about to record an ack has one;
* *RefInv*: a leg has a reference once it is initiated, and the statements are those
  of settled legs;
* *SessionInv*: a settlement holds the lock of the leg it moves, which stays movable
  until it commits; what it wrote to the execution it wrote under that row's lock,
  and a failure that wrote nothing found the execution failed. Without this last
  part a failed leg could be committed under a reserved execution;
* *DraftInv*: a reservation has the lock of every execution it works on, all of
  which are without a leg so far; those it has won are in with all their legs, and
  beyond that it has only legs of the execution it is at. `AllLegsOrNone` at COMMIT
  follows from the last two parts, and would not without the rollback to the
  savepoint: a refused execution would keep a draft leg that nobody won;
* *OwnInv*, for `BooksAlwaysFollowLegs`: a leg's reference is its own for good. After
  a restart of the bank it would not be, as `recon_restart` shows;
* *MoneyInv*, for `HeadroomAlwaysBacked`: headroom is the sum of the credits less the sum
  of what the legs hold, and is not negative;
* *PurseInv*: a reservation has locked the guards of those it takes from, and takes
  from nobody more than is there. The lock keeps it true while others commit, and
  the COMMIT then moves the sum over the legs by what the draft holds. A release gives
  back its leg's debit only if the reversal balances;
* *ReversalInv*: a failure is only committed, and a leg only reversed, where the
  amounts of the leg balance. Otherwise the release would differ from the debit.

**Sums.** Sums over deposits, legs and entries are `SumFunctionOnSet`, a fold of the
community modules. Induction over a set cannot be instantiated by the provers, but
its contrapositive can: `SumTheorems` shows each fact by a smallest counterexample
(*SmallestBad*: strict inclusion is well-founded on the subsets of a finite set). From
the recursion inside the fold, opened as a table of partial sums, it gets that any
element may be taken out first, that a change at one place changes the sum by as
much, and that sums add and split. They need finite tables: `FiniteKeys`,
`FiniteTx` and `FiniteAssumption` say so of the ledger's keys, the deposits, and the
routes and triggers; for the legs it is derived (*FiniteLeg*).

**System.** `SystemProofs` proves `SystemImplementsSettlement`, the step simulation of
the composition, and with it `NonePaidShortOfThreshold`: no leg under a deposit that
was dropped before it was final or past the threshold, from *ChainInv* (confirmed
triggers and rooted rows are past the threshold, or were dropped past it) and
*FiredInv* (what has fired, is to fire or is locked belongs to a confirmed trigger).
`NoFalseAlarm` (no orphan and no drift) and `NothingSlipsThrough` (what is open is in
the stuck queries) are recon's two promises. Both rest on *ReconInv*: the invariants
above with, for the watcher's tables inside `System`, *WatchInv* (the events match the
ledger), *BucketInv* (a pending bucket is booked less drained) and *HoldInv* (a leg
has its transfer). The second also needs *OwnInv* and so assumes `RefsLast`, without
which `recon_restart` refutes it; the first assumes nothing. Drift is then two sums
that cancel: the entries of the deposits are pending and credits negated, the entries
of the legs are what they hold. Webhooks need not agree: a wrong booking moves counter
and entries alike.

Each is `Init => Inv`, one step per action for `Inv /\ [Next]_vars => Inv'`, and a
temporal step closed by PTL; each inductive invariant was first checked with TLC.

Only model-checked: liveness under fairness (`EveryCallEnds`, `EverySessionEnds`,
`FinalDepositIsCredited`, `FinalDepositIsRouted`), which is outside the prover's reach.
Every safety invariant and action property that a passing run checks is also a
theorem, under the assumptions named above.

## 5. Not modelled, and what is left

Not modelled: account and route creation, balance reads, the API key check,
signature verification, dashboards, schemas, logs, configuration, scripts and the
report's coverage counters. They keep no state that interacts, or are
presentation. The currency of a payout is not compared with the unit of the
headroom it draws on; the models count one unit, as the counter does. Events
logged inside a transaction before its COMMIT are left out: nothing reads them.

Read in the code and recorded here, without a run of its own:

* `DECISIONS.md:69` (ADR-010) has compensating entries reverse the pending credit of a
  deposit dropped before the threshold; no code does. In the models it stays pending,
  and recon lists it as stuck. Nor is there the claw-back it describes for one dropped
  past the threshold;
* `engine.ts:192` says the watcher calls `onOfframpConfirmed` in the same transaction
  that confirmed the off-ramp; the bridge (`server.ts:96`, ADR-026 in `DECISIONS.md:203`)
  opens a new one, and so does the model;
* the destination posting of a payout has no bucket (`ledger.ts:186`), even if it names
  a client account, whose counter then no longer mirrors its entries, against
  `recon.ts:20-24`; the runs pay to external accounts only;
* the providers' statement export is never read: `provider.ts:64` and
  `routes/routing.ts:282` call it the input of reconciliation, which joins
  `provider_statements` instead, a table settlement itself writes;
* recon has no query for an execution left `reserved` with all its legs settled
  (`settlement_skew`), nor for a confirmed off-ramp without execution (which
  `DECISIONS.md:204` names as open);
* a direct payout stays `pending` for ever, and so becomes a stuck transfer past the
  SLA; the `system` run has no direct payouts.

Left, in order of worth: direct payouts inside `System`, so that recon's stuck
transfers are seen with both kinds of pending transfer; events of one transaction
against its COMMIT; the ledger's atomic transfers as what a reservation of
`Settlement` is made of.

## 6. Running

In this directory, `tlc -config MCLedger.cfg MCLedger.tla` checks one run (see
`PROJECT.json` for the pairs), `tlapm LedgerProofs.tla` checks one proof module.
Operators whose comment starts with *Mutant* are single plausible faults; each
replaces the definition after it to show that a property would catch it.
