# TLA+ models of hb-enhanced-opms

The repository adds execution algorithms, market-making controllers and safety
machinery to Hummingbot (HB).  This directory holds TLA+ models of that code, the
TLC configurations that check them, and proofs for TLAPS.  Paths below are relative
to the repository's root.

## The system

Trading runs in one asyncio event loop per HB process: *executors* work one order
flow each, *controllers* decide each cycle which executors exist, HB's connectors
deliver order events by synchronous callbacks.  Between two `await`s a handler is
atomic; across them, and between processes, everything interleaves.

| Component | State | Operations | What must hold |
|---|---|---|---|
| Passive-aggressive executor (`src/opms/executors/passive_aggressive_executor.py`) | child slots, one record per order ever sent, totals, retries, timers | `control_task`, fill / completion / cancel / failure handlers, `early_stop` | quantity stays in its budget, one working order, nothing counted twice, nothing sent after a stop, a truthful close type, every run ends |
| AC schedule executor (`ac_schedule_executor.py`, `_ac_math.py`) | schedule, slice index, submitted and failed slices, total | `_tick`, volume schedule, completion / failure handlers, `early_stop` | slices add up to the total, retries resend what failed |
| Buffered maker executor (`buffered_maker_executor.py`) | one order, retry time | HB's order executor with a post-only buffer and a retry delay | one order, no retry before its delay |
| Resilience (`src/opms/resilience.py`) | failures, retry time, flags; missing-since, open-until | circuit breaker, quote liveness watchdog | open circuits stay open for their delay; missing quotes trip in bounded time |
| Keeper bridge (`perp_mm_bridge.py`) | last intent, positions | `send_intent`, `set_positions`, `send_portfolio_intent` | a flatten stays latched until done, or is replaced by one at least as urgent |
| Perp controller (`perp_mm_controller.py`) | refresh flag, suspension, circuit, watchdog, margin cache and lock (shared), intent | `control_task`, `update_processed_data`, `determine_executor_actions` | no overlap of old and new quotes, no quotes while suspended, failures end in a flatten, a running close is not restarted |
| Portfolio stop (`portfolio_stop.py`) | one SQLite table, one row per leg | `update` from each process | a stop or an emergency of one leg reaches all, stale legs only hold |
| Fill observer (`fill_observer.py`) | ledger, markouts, time of the last fill | fill callback, mid updates | a fresh ledger is not undone by a lagging venue position |
| Gateway bridge (`gateway/exec_bridge.py`) | position per pool | deposit, withdraw, swap, `refresh_bundle` | a failed step leaves the position book as the chain is |
| Dual live soak (`deploy/run_dual_live_soak.sh`, `scripts/monitor_hl_soak.py`, `cleanup_hl_soak.py`, `check_hl_account_state.py`, `isolated_runtime.py`) | processes, exit status, read outage, what is left of the cleanup | preflight, launch, sample, stop, cleanup, postflight | a soak that succeeds leaves the accounts flat, trading is never long unobserved, the soak ends |
| Live write gates (`scripts/run_hb_mainnet_quote_gate.py`, `run_hb_mainnet_derisk_gate.py`) | the executors they created, `failures` | create, await, refresh, stop, open, de-risk, teardown | a gate that passed leaves nothing behind, quotes of two generations never overlap, one position at most |
| DLMM and hedge controllers, shared risk book | shared deltas and hedge decisions | one cycle each | the hedge acts on current deltas, once |
| TWAP round trip, TVL monitor, forecaster, topology, bbo patch, calibration, research | little or none | | |

The controllers give an executor a quantity, a side and a close or open action
(`_execution_actions`), stop it (`early_stop`), and read its close type and its
executed quantity.  The executor talks to the venue through HB's connector and hears
of its orders by the four event callbacks.

Hard behaviours: late, repeated and reordered order events; timers that race
acknowledgements; stops that race handlers; lost cancels; retries; two-phase quote
refresh; cancellation of a control cycle at any `await`; caches shared by
controllers; a table shared by processes; bundles of on-chain steps that fail
half-way.  `PROJECT.json` lists them line by line under "hazards".

## The modules

| Module | Models | Uses |
|---|---|---|
| `PassiveAggressive` | the passive-aggressive executor and its venue | |
| `BudgetedExecution` | what a controller may rely on (abstract) | refined by `PassiveAggressive` |
| `ACSchedule` | the AC executor and the merging of slices | |
| `QuoteLifecycle` | the perp controller as the owner of its executors, with the latch, the watchdog and the quote executors | |
| `MarginRead` | the margin read several controllers share, and the venue circuit | |
| `PositionAuthority` | which position a decision uses | |
| `VenueReads` | one control cycle's reads | composes `MarginRead` and `PositionAuthority` |
| `PortfolioStop` | the legs of a basket and their table | |
| `GatewayBridge` | the verbs on the Gateway, the book of positions, the chain | |
| `SoakRun` | a dual live soak | |
| `GateVenue` | executors and orders as a gate sees them | extended by `QuoteGate`, `DeriskGate` |
| `QuoteGate`, `DeriskGate` | the two live write gates | |
| `*Proofs` | theorems | each extends its module; `GateProofs` both gates, `VenueReadsProofs` the three modules of a cycle's reads |


### PassiveAggressive

The executor, its event loop, and the venue.  Each handler is one action, with the
orders it submits or cancels.

| Code | Model |
|---|---|
| `__init__`, `_build_child_slots` | `Init`, `NumChildren`, `Target` |
| `validate_sufficient_balance` | `ValidateSufficientBalance` |
| `control_task`, `_step` | `ControlTask` = `Step` (its branches `StepAllTerminal`, `StepIdle`, `StepActive`, `StepWait`) or `ShutDown` |
| `_place_limit`, `_place_aggressive`, `_submit`, `_room`, `_outstanding` | `PlaceLimit`, `PlaceAggressive`, `Submit`, `Room`, `Outstanding` |
| `_cancel_child`, `_cancel_all_open` | `CancelChild`, `CancelAllOpen` |
| `_credit`, `_record`, `_is_active` | `Credit`, `Gain`, `FillKids`, `EndOrder`, `IsActive` |
| `process_order_filled_event` | `OrderFilled` |
| `process_order_completed_event` | `OrderCompleted` |
| `process_order_canceled_event` | `OrderCanceled` |
| `process_order_failed_event` | `OrderFailed`, `ReduceOnlyRejected` |
| `early_stop`, `close_execution_by`, `_final_close_type` | `EarlyStop`, `CloseExecutionBy`, `FinalCloseType` |

Data.  Quantities are lots; a trade is one lot.  The k-th order submitted has id k,
and the trades of an order that were counted have the ids 1 to `fill_sum`, so a
replay is a trade id that is not above it.  Prices are left out; that the book may
have none (and the child then retries a second later) is a choice in `StepIdle`.
Timestamps are ages that saturate at the limit the code compares them with.  Only
the current child's timestamps are kept: those of earlier children are never read
again, those of later ones are not set.  The refresh age saturates at once when no
child is `ACTIVE`, because it is set again before it is read.  `late` is an
auxiliary variable: the lots credited to ended orders since the last submission.

The venue (external).  Events are heard only while the executor runs or shuts down;
HB unregisters the listeners at `stop()`.  The venue may execute any part of any
order it was sent, before or after that order ended (HB keeps a cancelled order
fillable), repeat trades and completions, and report in a completion less than was
traded: `tests/test_pa_executor.py` does each of these.  It ends an order by a
completion, a cancel or a failure; a cancel or a failure of an order that had ended
comes only once that order is no child's current one, since HB stops updating an
order that completed.  Unasked cancels, failures, lost cancel requests, and
completions that tell something new of an order that had ended each use up one of
`MaxFaults`; trades do not.  Connector calls that raise are not modelled.
`evaluate_max_retries` has no caller in the repository, HB's base class does not
call it, and it is not modelled.  A stop is asked for only while the executor is
attached, as HB's orchestrator does.

### BudgetedExecution

What a controller may rely on: at most one open order, never one that could take the
executed quantity past the total, none once told to stop, and closed only with
nothing open.  Only late fills of ended orders can take the executed quantity past
the total, and the state counts them (`late`).  `KeepsPromise` states that
PassiveAggressive implements it under the mapping: `phase` from the status, `done`
the cumulative quantity, `open` the outstanding one.

### ACSchedule

The Almgren-Chriss executor and the merging of its slices.

| Code | Model |
|---|---|
| `validate_ac_config` | `ValidAcConfig`, assumed in `ACConfigAssumption` |
| `build_schedule`, `_merge_min_size` | `Trajectories`, `CutSlice`, `MergeMinSize`, `Schedule` |
| `_tick`, `_submit_next_slice`, `_all_done` | `TickBody`, `SubmitNextSlice`, `SliceAmount`, `ExactRemainder`, `AllDone` |
| `_maybe_resolve_volume_schedule` | `AwaitForecast` (up to the `await`), `ResumeTick` (the rest of that tick) |
| `control_task` | `ControlTask` = `AwaitForecast`, `ResumeTick`, `Tick` or `ShutDown` |
| `process_order_completed_event`, `process_order_failed_event`, `process_order_canceled_event` | `OrderCompleted`, `OrderFailed`, `OrderCanceled` |
| `early_stop`, `close_execution_by`, `_final_close_type` | `EarlyStop`, `CloseExecutionBy`, `FinalCloseType` |

Data.  The trajectory is any list of sizes that adds up to the total; the schedule
is that list after merging.  A forecast cuts as many sizes as the schedule had
slices.  `submitted` is `_submitted` and holds what the venue did of each order too;
a failed order leaves it, and nothing reads `_failed`.

External.  The code asks each `TrackedOrder` whether it is done and what it
executed, and attaches no order to it (line 298), so in Hummingbot both answers may
stay "no" and zero; the test stub (`tests/conftest.py:98-106`) has them so and the
tests set `is_done` by hand.  `updated` chooses once whether tracked orders follow
their orders; every property is checked for both.  The venue executes a market order
in parts, owes one completion when all of it executed (`Due`), fails only orders
that executed nothing, and may cancel.  A completion may also come again, or before
the last fills; it then tells what the order executed so far or all that it asked
for.  Such completions, failures and cancels use up `MaxFaults`.  The model follows
the venue until the executor closes.  A configuration without a minimum size, whose
volume buckets of zero make orders of zero, is not modelled.

### QuoteLifecycle

One perp controller and everything it decides about.  An action `CycleSucceeds` is
one whole control cycle from the reading of the position to the queue of actions:
`set_positions`, the keeper's intent, `send_intent` and
`determine_executor_actions`.  This is atomic in the code: the margin read, the only
`await` of `update_processed_data` that waits for the venue, comes before the
position is taken, and what is awaited after it runs inline.  The position it
decides on is any of `Known`: what `_position_for_decision` returns may miss the
latest fills or count them twice (`lag` lots at most) until reports and polls have
brought it up to date (`PositionSettles`).  The queued actions are executed later
(`ExecuteActions`), stops are confirmed later (`StopConfirmed`), and orders fill in
between.

| Code | Model |
|---|---|
| `set_positions`, `send_intent`, `intent_to_execution_request` | `SetPositions`, `SendIntent` with `Latched` and `Priority`, `ExecutionRequests` |
| `determine_executor_actions`, branch by branch | `CancelOnly`, `StaleBook`, `CloseInFlight`, `Draining`, `Drained`, `CircuitOpen`, `KeepQuotes`, `StartRefresh`, `Executing` |
| `_cancel_timed_out` | `CancelTimesOut` |
| `_quote_create_actions`, `_execution_actions`, `_execution_signature` | `QuotesFor`, `CloseOf`, `Signature` |
| `_economic_refresh_reason` | `Outdated`, and the free choice of `StartRefresh` where prices decide |
| `QuoteLivenessWatchdog.observe`, `suspend`, `trip`, `allow_quotes` | `Observe`, `Suspend`, `Trip`, `AllowQuotes` |
| `_force_flatten_intent`, the failed cycle of `control_task` | `CycleFails` |
| the buffered maker executor | `QuoteSent`, `QuoteAcked`, `QuoteRejected` |

Data and external parts.  Quantities are lots, times are control intervals, the
limits of a close (5, 15 and 60 s) are 1, 2 and 3 of them.  The keeper (a library)
may ask for anything in a cycle: quotes that respect the cap for the position it was
given, holding, or flattening at any urgency.  The inside of a close executor is
`PassiveAggressive`; here it crosses when its time is over, gives up, or is stopped.
The venue fills a reduce-only order only towards zero.  A market-data age that is
too old, an unknown equity and a price that asks for a refresh are choices.  An
emergency smaller than the minimum order is left out.  The retry delay of a rejected
quote is any wait.  Which of the positions in `Known` the code returns is the
subject of `PositionAuthority`.  `late` is an auxiliary variable: the most that a
cycle that created quotes was ever wrong about the position.  `WithinCap` says that
the position passes the cap by no more than that.

### MarginRead, PositionAuthority, VenueReads

`MarginRead`: controllers of one connector queue for one lock (`waiters`); the
holder uses the cache, fails closed (`FailsClosed`: shared backoff or its own
circuit), or sends a request, which is answered, refused with or without a
retry-after header, times out, or is cancelled with its whole cycle by the deadline
(`CycleCancelled`).  `RecordFailure`, `FailureDelay` and `RecordSuccess` are
`VenueCircuitBreaker`.  The code reads `now` before the request and stamps cache and
backoff with it afterwards; so does the model (`cacheAge' = request`).  Two
auxiliary variables hold the venue's side: `asked` is the retry-after of the last
refusal that had one, whatever the code makes of it, and `quiet` what is left of it,
counted from the refusal.  The code grants all of it but `Ungranted`: what is longer
than `venue_backoff_max` (line 91 of `resilience.py` cuts it), and the time of the
refused request (the delay counts from before it).

`PositionAuthority`: fills at the venue, their events, the connector's polls, and
`_position_for_decision`.  A fill's event may come at any time after the fill, and
the connector may be silent for any time.  The ledger may refuse a fill (`dropped`),
after its receipt time was set.  Each of the two can make a decision miss a reported
fill; `doubtful`, an auxiliary variable, is true from then until a decision is made
on a poll that is not older than `Window`, the length of the ledger's authority,
when the ledger's authority is over.  `NoFillErased` holds whenever it is false.  An
event that comes after a poll that already showed its fill counts the fill twice
until the authority ends: `NoFillErased` bounds the position from below only.
`VenueReads` joins the two: a decision is made in the step that ends a margin read.

### PortfolioStop

Each leg is a process: `TakeNow` reads the time, `Update` is the transaction of
`PortfolioStopBook.update`, which comes up to a lock wait later, `CycleFails` is
`_publish_portfolio_emergency` (which may fail as well), `Crash` and `Restart` leave
the table as it is.  Times are ages of the rows.  The targets of a stop are a
library's and left out; the basket's mode is followed.

### GatewayBridge

The keeper (a library) calls deposit, `refresh_bundle` or withdraw; `verb` holds the
calls the verb has still to make, so the market moves (`MarketMoves`) between any
two of them.  Each call may be refused, its answer may be lost although the chain
changed, and the answer to a deposit may carry no name (`positionAddress`), in which
case the book stays as it is and the verb goes on.  `unnamed` is an auxiliary
variable: the positions whose name never reached the bridge.  `book` is `_positions`
of one pool.  `Crosses`, `Remaining` and `Accepted` are the checks of
`deposit_single_sided`, `Lands` is the slippage the Gateway was given.  The keeper
keeps a position it could not withdraw.  Partial withdrawals, reads of pool and
balances, and receipts are left out.

### SoakRun

The launcher (`Preflight`, `LauncherFails`, `DeadlineReached`, `BeginCleanup`,
`Postflight`), the monitor (`Samples`, `Breaches`, `ReadFails`, `MonitorWakes`,
`MonitorDies`), the cleanup (`CancelOrders`, `ClosePositions`, `Snapshot`,
`CleanupAborts`) and the processes (`Exits` with its `finally`, `Crashes`, `Kill`).
Orders of a stopped process can fill until they are cancelled.  One unit of time is
10 s.  A read of the monitor takes any time up to `MaxRead`, a bound of the model:
the client has no timeout (`check_hl_account_state.py:31-36`).  `reads` is an
auxiliary variable: the time of the first read that failed since the last sample,
which the outage does not count, and of the read in progress.  The calls of the
cleanup and of the checks take no time; a call of the cleanup that the venue refuses
without an exception is not recorded as a failure.

### GateVenue, QuoteGate, DeriskGate

The gates create and stop executors themselves, without HB's orchestrator.
`GateVenue` has `_create_executors` (`CreateOne`), `_stop_executors` (`EarlyStop`,
then `Stop`, which kills what did not close: `Forced`), and an executor with one
order, which it places, cancels, and closes itself only without one; a killed
executor's order stays where it is.  The steps of `main` are the values of `step`,
in the order of the code, and each `failures.append` is a `Checks` or `Fails`:
`Await` is the wait for the first orders, `AwaitNew` that for their replacements,
which asks for less.  What the controller decides and what the waits return is a
choice.  In `DeriskGate` all executors but the openers reduce only, since the script
drops quotes.

## Runs

| Run | Instance | Shows |
|---|---|---|
| `pa_open` | OPEN, total 2 in one child, cycle 2 ticks, refresh 1, no retry, 1 fault; 78,675 states | `TypeOK`, `OneLiveOrder`, `NoDoubleCount`, `TruthfulClose`, `CycleEnds` |
| `pa_close` | CLOSE, total 2 in two children, cycle and refresh 1, one retry, 1 fault, cancels can be lost; 153,590 states | `Budget`, `ChildBudget`, `CreditsSettle`, `NoSubmitAfterStop`, `KeepsPromise`, `StopEnds` |
| `pa_oversized` | as `pa_open` | violates `OversizedIsCanceled` |
| `pa_lost_cancel` | as `pa_open`, cancels can be lost | violates `CycleEnds` |
| `ac_schedule` | total 5 cut into 2 sizes, minimum 2, a forecast, one retry, 2 faults; 167,730 states | `TypeOK`, `SlicesAddUp`, `NoSliceLost`, `OverrunBounded`, `TruthfulClose`, `NoSliceAfterStop`, `StopEnds`, `EndsIfUpdated` |
| `ac_remainder` | total 4 cut into 3 sizes, minimum 2, no forecast, no faults | violates `RemainderIsExact` |
| `ql_cycle` | cap 1, quotes of up to 2, timeout 1, cooldown 2, two urgencies, one lot missed or counted twice, 1 fault; 321,983 states | `WithinCap`, `Apart`, `CircuitHolds`, `LatchHolds`, `QuotesDrain`, `CloseEnds`, `DarkEnds` |
| `ql_flatten` | cap 1, 1 failed cycle | violates `FlattenReached` |
| `vr_cycles` | two controllers, request 2 and cycle 4 ticks, backoff 1 to 4, headers 0, 3 and 6, 2 faults, one fill, which may be refused; 1,118,370 states | `NoFillErased`, `QuietAfterRefusal`, `ReadsRecover` |
| `ps_basket` | two legs, stale after 4, lock wait 1, period 3, 3 faults; 363,672 states | `QuotesKnowTheBasket`, `BasketRecovers` |
| `sr_soak` | two accounts, 80 s, outage limit 20 s, reads of up to 20 s, 3 faults; 1,448,223 states | `PassedMeansFlat`, `NoLongBlindness`, `SoakEnds` |
| `gb_verbs` | five bins, tolerances refused, used up and left, 3 positions, 4 moves, 2 faults; 807,373 states | `BookIsOpen`, `OnePosition`, `PlacedNearExpected` |

The bounds of `pa_*`.  Two lots make partial fills and replacements; one child of
two lots has both on one child, two children of one lot have late fills that cross
children.  Two ticks of cycle and one of refresh let a child be refreshed before it
expires; equal limits are how the controller configures emergency closes.  One fault
of any kind is enough for each handler to meet an order it did not expect to end;
two (1.0 million states) show nothing more.  A run has no other bound: how often the
control task runs, events repeat and orders are replaced is unlimited, as the cycle
limit ends every child.  Deadlock is not checked, because the executor ends.

The bounds of `ac_*`.  Two sizes and a minimum of two give every kind of merging:
none, forward, and a rest for the last slice or as the only one; five lots in two
slices can have either slice the larger, so a completion can tell more than the
other slice.  Two slices have one in flight while the last is sized.  Two faults and
one retry reach `FAILED`, let both slices of a run fail, and let an order be
reported complete too soon and once again.

The bounds of the others.  `ql_cycle`: with a cap of one lot a quote may ask for two
when the position is one on the other side, fills may come in parts, and old and new
quotes that overlapped would pass the cap; a timeout of one interval and a cooldown
of two let a cancel be confirmed before, at and after the timeout; one lot that a
cycle may miss or count twice takes the position past the cap, which shows that
`late` is needed; one fault is a failed cycle, a close that gives up, or a cycle
that decides on an outdated position.  How often cycles run, quotes are refreshed
and rejected is not bounded.  `vr_cycles`: three controllers with 15 s per cycle and
5 s per request have the same proportion as two with 4 and 2: a controller can spend
its whole deadline in the queue, or be cancelled while it holds the lock.  One
header is shorter than the longest backoff and one is longer.  The connector may be
silent for longer than the window.  `ps_basket`: the times are 20 s, 5 s and 15 s in
units of 5 s; three faults are a crash, a lock wait and a failed cycle.  With these
times the clock skew of one second is less than a unit.  `sr_soak`: the run lasts
longer than a whole read outage whose reads hang: a first read of 20 s, an outage of
20 s, a delay of 20 s and a last read of 20 s.  `gb_verbs`: three positions are one,
its replacement and one opened after a lost answer or one without a name.  The gates
have no run: the two theorems about each hold for every number of executors, and
everything in them that a run could show is a safety property.

Fairness.  HB calls `control_task` every update interval, and time passes.  The
venue answers each cancel request that it did not lose, completes an order all of
which traded, and completes a market order.  Nothing is assumed of trades, failures
or stops.  In ACSchedule the venue executes every market order that it does not
cancel or fail, and reports it.  In QuoteLifecycle control cycles go on, queued
actions are executed, time passes, an executor that was stopped confirms it, and a
close whose time is over crosses; that a quote is sent, acknowledged or filled is
not assumed.  In VenueReads the controllers go on cycling, the event loop serves the
lock, the deadline cancels, and a request that is not failed is answered; nothing is
assumed of fills, reports and polls there or in QuoteLifecycle; in PortfolioStop a
crashed leg is started again and its reason for a stop passes; in SoakRun the
scripts run on and `timeout --kill-after` kills.  That the scripts run on includes
that a read of the venue ends at some time: no timeout in the code enforces it.
Faults are bounded, so "in the end" means: once they are over.

What `ac_schedule` says of the code: `EndsIfUpdated` and the last line of
`TruthfulClose` together mean that a run ends by itself if and only if Hummingbot
attaches orders to the tracked orders; otherwise only a stop ends it.
`TruthfulClose` and `NoSliceLost` leave room for what completions told and the venue
did not execute (`Untrue`, `CountedAs`): see the observations.  `NoSliceAfterStop`
has one exception: a stop that comes while the first tick awaits the forecast is
followed by a slice, because the tick does not look at the status again.  A failure
sends the last submitted slice again, whichever failed; `NoSliceLost` shows that the
last slice makes up for it.  The other side is `OverrunBounded`: without a failure
the orders pass the total by the slices before the last one at most (`ac_remainder`
shows that they can pass it; that bound is reached when none of these slices has
executed by the time the last is sized), and each retry adds less than one more
total, since a small order may fail and a larger one be sent for it.

Findings.  `pa_oversized`: a fill event of a retired order cancels a replacement it
leaves oversized, a completion event that brings the same news does not, though the
docstring promises it of every late fill.  `pa_lost_cancel`: while the executor
runs, a lost cancel request is not repeated, and the child neither crosses nor gives
way; only after a stop are cancels repeated (`StopEnds` holds with lost cancels).
`ac_remainder`: the last slice is not the exact remainder: it leaves out what a
slice in flight may still execute, so without any failure the orders can add up to
more than the total.  `ql_flatten`: the emergency flatten of a failed cycle is built
from the position of that moment.  When it is zero while quotes are being stopped,
the intent asks for no execution; a quote that fills before its stop is confirmed
leaves a position, the latch then refuses every quote and every less urgent intent
because the target is not reached, and nothing closes the position until another
emergency replaces the intent.

Observations on the code that no run refutes:

- The book of the Gateway bridge drops a position whatever the close returned.
  After a refused close only the keeper still knows the position; the book never
  names a closed one.  A comment (`exec_bridge.py:262-267`) says the deposit of the
  second side overwrites the id of the first; since the first stored its id, the
  second is in fact added to the same position.  When the answer to the first
  carries no name (lines 287-291), the verb goes on, the second side opens another
  position, and the first is in no book: `OnePosition` counts without such ones
  (`unnamed`).
- `process_order_completed_event` of the AC executor (lines 320-335) adds what the
  event tells each time it comes.  A repeated completion, or one that tells the
  whole amount of an order that executed less, is counted in full, the last slice is
  made smaller by it, and the run may report `COMPLETED` with less executed.  The
  passive-aggressive executor guards against both (`CountedOnce`).
- A retry-after longer than `venue_backoff_max` is cut (`resilience.py:91-94`), and
  the delay is stamped with the time before the request (lines 381 and 581 of
  `perp_mm_controller.py`): `QuietAfterRefusal` has both as `Ungranted`.
- The monitor's reads have no timeout (`check_hl_account_state.py:31-36`), and the
  outage is counted from the end of the first read that failed
  (`monitor_hl_soak.py:253`).  With reads that hang, the accounts may be traded
  without a sample for longer than interval, outage limit and delay together by two
  reads; `NoLongBlindness` has both.
- `cleanup_hl_soak.py` does not look at the answers of its cancels and closes (lines
  78-83 and 92-98).  It does no harm to the result: the postflight check reads the
  account again.
- A list of coins in lower case (`SOAK_COINS`) passes the validation, which
  upper-cases it, as the monitor does; `check_hl_account_state.py` and
  `cleanup_hl_soak.py` do not, and would find nothing in their scope.  The scope is
  not modelled.
- The de-risk gate ignores which executors it had to force before its second phase
  (line 438), although the docstring of `_stop_executors` calls a forced stop "a
  gate failure, not normal teardown".  `NeverMore` and `FlatAfterPass` show why it
  does no harm: what is left only reduces, and the teardown looks at the venue.
- The quote gate cleans up orders and positions only on its straight path: after an
  exception the `finally` block stops the executors it knows of and reads nothing.
  `PassedMeansClean` holds because such a gate has failed.
- A fill the ledger refuses still makes the ledger authoritative for 30 s
  (`fill_observer.py:164`), in which the venue's position is not used, although the
  comment on the refusal says that it "is re-read every cycle, so dropping is safe".
  And a connector that is silent for longer than that erases reported fills when the
  ledger's authority ends.  `doubtful` stands for both.
- A read that fails in `cleanup_hl_soak.py` is not caught and ends the cleanup of
  that account; the postflight check then fails the soak.

## Proofs

The theorems hold for every value of the constants that satisfies the assumption of
the module.  The assumptions say what the code's configuration checks or its types
say: quantities and limits are positive or natural numbers, in `ConfigAssumption` a
plan has no more children than the code's cap, in `ACConfigAssumption` a slice lasts
at least one second (`validate_ac_config`), in `MarginAssumption` the first backoff
is at most the last and a request times out before the cache is too old.

Every invariant and every action property that a passing run checks is also a
theorem.  A run shows that its property is not empty (for each, a change of the code
breaks it); the theorem shows that it does not depend on the bounds.

### Executors

| Theorem | States | Argument |
|---|---|---|
| `TypeCorrect` (`PassiveAggressiveProofs`) | `TypeOK` always | inductive by itself; one lemma per action and per helper that builds an order record or a child slot |
| `AtMostOneLiveOrder` | `OneLiveOrder` always | inductive with `TypeOK`: an order is submitted only when every earlier one ended (`AllEnded`), and each handler that submits first ends the tracked order |
| `NothingAfterStop` | `NoSubmitAfterStop` | from the step relation with `TypeOK`: each way to `Submit` needs the status `RUNNING` |
| `CountedOnce` | `NoDoubleCount` always | `RecordsOK`: the distinct trades and the largest completion of an order stay within what was sent, and what was credited is the larger of the two |
| `WithinTheTotal` | `Budget` always | below |
| `WithinEachTarget` | `ChildBudget` always | with `Accounts`, below |
| `CreditsAddUp` | `CreditsSettle` always | with `Accounts`, below |
| `PromiseKept` | `KeepsPromise` | each action is a step of BudgetedExecution or does not change what it sees (`NextAllowed`) |
| `PromiseBounds` | what keeps `KeepsPromise` stays `WithinBudget` | of BudgetedExecution alone: inductive with the three quantities natural |
| `ClosesTruthfully` | `TruthfulClose` always | `CloseOK`: no close type before a stop or the end, and only a stop's while shutting down; each step that closes finds nothing outstanding (`Closing`) |
| `TypeCorrect` (`ACScheduleProofs`) | `TypeOK` always | below |
| `KeepsTheTotal` | `SlicesAddUp` always | below |
| `LosesNoSlice` | `NoSliceLost` always | below |
| `OverrunIsBounded` | `OverrunBounded` always | below |
| `ClosesTruthfully` | `TruthfulClose` always | `CreditsCounted`: the cumulative quantity is the sum of what completions told of each order |
| `SendsNothingAfterStop` | `NoSliceAfterStop` | from the step relation |

`Budget` of PassiveAggressive is not inductive.  What is outstanding is a sum over
the live orders, so the proof needs `OneLiveOrder` to turn it into the amount of one
order minus what was credited to it; `RecordsOK`, so that this is never negative;
and `AllEnded` where a replacement is sized, so that the new order is all there is.
The inductive invariant is `TypeOK /\ OneLiveOrder /\ RecordsOK /\ Budget`.  The
refinement needs the first three and `StartOK` (nothing is sent before the executor
runs) because refusing to start for lack of balance closes the executor.

`ChildBudget` and `CreditsSettle` look at what a step does to the accounts:
`NextAccounts` shows that every step, of whatever handler, leaves them alone
(`Kept`), submits one order (`Sent`), or credits one order with some lots and the
order's child and the total with as many (`Credited`).  Both invariants then have
three cases each.  `CreditsSettle` counts lots in sets that grow with every
submission; a credit adds an interval of lots of one order to its child's set and to
the set of all, and to no other.

The schedule of the AC executor is computed by folds over sequences of any length.
A fold of the community modules is a function chosen among those that satisfy its
equation; `FoldExists` shows that there is one and `FoldRuns` that it goes through
the sequence element by element.  Both need an induction over the naturals.  The
library's induction theorem takes an operator, which no prover here can instantiate;
`Induction` states it for a set of naturals instead, and follows from the
well-foundedness of `<` (`LeastMember`).  Then:

- `Sum` is what one expects of it when a sequence gets one element more
  (`SumAppend`), one less (`SumRemoved`) or a different one (`SumChanged`), and is
  split at an index (`SumParts`).
- Along the run of the fold that merges undersized slices `CutSoFar` holds: what was
  cut and what waits is what was read; what waits is less than the minimum; every
  slice that was cut is at least the minimum; and each ends where one of the sizes
  ends.  At the end this is `SlicesAddUp` (`MergeKeepsTotal`).
- The invariant of the executor, `IInv`, adds to `TypeOK` and `NoSliceLost`: the
  schedule comes from a trajectory, an order executes no more than it asks for and
  is credited nothing before a completion (`OrdersWithin`), the cumulative quantity
  is what completions told (`CreditsCounted`), nothing is sent before the forecast
  is in (`Unresolved`), and what a stop or an end says is true (`Stopping`,
  `Closed`).  `Covers` is the reason why the last slice leaves nothing short: it is
  the total less what was credited and what open orders executed, and these are part
  of what the orders sent count as.
- `WithinReach` bounds what was asked for by the index: `Reach(s)[i]` is the sum of
  the first `i` slices, and the last one adds the whole total, since the exact
  remainder is at most that.  A slice sent moves both sides alike.  A failed order
  takes at least one lot away and the index back over at most one total, while one
  retry adds the total less one lot.  A step keeps it given `IInv`, and a forecast
  re-cuts the schedule only while nothing is sent.  `OverrunBounded` is its worst
  case, the end of the schedule.

### Controllers and processes

| Theorem | States | Argument |
|---|---|---|
| `StaysWithinCap`, `NeverBoth` (`QuoteLifecycleProofs`) | `WithinCap`, `Apart` always | below |
| `CircuitRespected`, `LatchKept` | `CircuitHolds`, `LatchHolds` | from the same invariant, branch by branch of the decision; of `LatchHolds` only the cycle and the failed cycle touch the intent |
| `DecisionsKeepFills` (`VenueReadsProofs`) | `NoFillErased` always, for `PositionSpec` | while nothing is doubtful: the ledger holds every reported fill as long as it is authoritative; once it is not, the last fill is older than the last poll, so the polled position holds them |
| `CyclesKeepFills` | `NoFillErased` always, for VenueReads | every step of the composition is a step of PositionAuthority or leaves it alone (`ReadsKeepPosition`), so the same invariant holds |
| `VenueLeftAlone` | `QuietAfterRefusal` | `Locked`: one controller at a time has a request in flight; `Covered`: what is left of the retry-after is at most the shared backoff plus `Ungranted`, and the backoff is zero whenever a request is sent |
| `TypesHold`, `NobodyQuotesOnStaleNews` (`PortfolioStopProofs`) | `TypeOK`, `QuotesKnowTheBasket` always | a leg that quotes has read its peers' rows as fresh, and since then its `idle` time has grown as fast as their age; a row that changes gets younger |
| `BookStaysOpen`, `NoSecondPosition`, `PlacedWithinTolerance` (`GatewayBridgeProofs`) | `BookIsOpen`, `OnePosition`, `PlacedNearExpected` always | `OneKnown`: what is open and named is what book and keeper know; and `Depositing`: a verb that has calls to place left has withdrawn first and has tolerance left |
| `SuccessIsFlat` (`SoakRunProofs`) | `PassedMeansFlat` always | `AllStopped`: nothing trades once the cleanup begins; `CleanSoFar`: with status 0, the accounts the script is done with are clean, and no later step dirties them |
| `SeenInTime` | `NoLongBlindness` always | `Watched`: a process is up only while the launcher runs its loop, with a monitor; `SightBounded`: the time without a sample is bounded by the age of the outage, the delay until the next read, the first failed read and this one |
| `CleanAfterPass`, `NeverTwoGenerations` (`GateProofs`) | `PassedMeansClean`, `OneGeneration` always | before the first failure the script knows every running executor (`AllKnown`), and has seen all older ones closed wherever it creates or ends (`AllEnded`) |
| `NeverMore`, `FlatAfterPass` | `OnePositionOnly`, `PassedMeansFlat` of DeriskGate always, for `Size` of at least one lot | what is held plus what may still be bought is at most the size (`Bounded`); only the last opener may have an order (`OneBuyer`) |

That the position stays within the cap rests on the whole of QuoteLifecycle's
invariant: a quote that fills completely stays in the cap (`Fits`), and a fill of
the other side only makes room; there is at most one quote per side (`OnePerSide`);
quotes and closes are apart; a close only reduces (`Reducing`); and what was decided
still holds when it is executed (`Queued`), although orders fill in between.
`DrainClosed` says that no drain is pending while the liveness circuit is open,
which is why the branch that re-creates quotes after a drain need not look at the
circuit.  A decision has one lemma per branch, and `DecisionInv` puts the branches
together.

No property of these tables but the types is inductive by itself; each proof module
names the parts of its invariant, has a lemma for each action that can disturb a
part, and one that combines them for a step of the next-state relation.

Only model-checked: liveness under fairness (`CycleEnds`, `StopEnds`,
`EndsIfUpdated`, `QuotesDrain`, `CloseEnds`, `DarkEnds`, `ReadsRecover`,
`BasketRecovers`, `SoakEnds`), since the provers have neither fairness nor ENABLED;
and the violations, which are counterexamples.

## Not modelled

- The hedge controller: it keeps no state and creates an executor in every cycle in
  which the position differs from the target, whatever executors still run.  Nothing
  bounds what it orders, so there is no property the code keeps.
- The DLMM controller hands each cycle to a library's keeper; the calls that keeper
  makes are in `GatewayBridge`.
- The round trip, the TVL monitor, the connector topology: straight lines of code or
  checks at start, with no interleaving.
- Keepers, risk policies, PnL and markouts, the volume forecaster, the bbo patch,
  soak calibration: libraries, or computations over floats that no decision modelled
  here reads.
- The smoke test, the credentials import, the research command lines, the shadow
  session and the configuration checks: input and output.
- Malformed values, the contents of logs and reports, and what happens inside
  Hummingbot beyond the calls and events the code uses.
