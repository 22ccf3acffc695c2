# dodash: specifications and proofs

dodash is a trading agent that runs as a Cloudflare Durable Object. Every interval it reads its
account, fetches closed candles, evaluates its strategies, and may place an order: on paper, on
Coinbase, or on Hyperliquid. Around it stand a market data server, an AI producer of trend signals,
a collector of prospective evidence (P7), backtests, and a dashboard. This directory models that
system in TLA+, checks it with TLC, and proves what matters most of it with TLAPS.

    tlc -workers 2 -config Agent.cfg MCTradingAgent.tla     # one run
    tlapm TradingCycle_proofs.tla                           # one module of proofs

`PROJECT.json` lists the components, the runs, the source lines of every definition (`map`), the
hazards of the code and the properties that cover them, the mutated forms of the code that break
each property, the findings and the theorems. Source paths below are relative to the repository.

## 1. The system

| Part | State it keeps | What is hard | Modules |
|---|---|---|---|
| trading cycle machine and its interpreter (`models/trading-cycle.machine.ts`, `apps/agent/src/interpreter.ts`) | phase, shutdown mode, outcome, order in flight, attempts, last decided candle; private copies of artifacts and portfolio | a shutdown around an order in flight; six retry budgets in one loop of 64 steps; checkpoint failures | `TradingMachine`, `TradingCycle`, `CycleRuns` |
| the agent (`trading-agent.ts`, `trading-effects.ts`) | configuration, machine, portfolio, schedule, `dodash_cycles`, `dodash_orders`, two alarms | invocations that overlap while one awaits the network; evictions between two writes; commands at any time | `TradingAgent`, `CycleRuns` |
| Coinbase account, kill and protected SELL (`coinbase-control.ts`, `live-*.machine.ts`) | orders, brackets and balances at the exchange; checkpoints in `dodash_sell_workflows` | lost answers, late requests, crash between cancel and sell, a kill that half worked | `CoinbaseAccount`, `AccountKill`, `ProtectedSell`, `AccountExit` |
| perpetual orders (`hyperliquid-*.ts`) | `dodash_perp_orders`, `dodash_perp_fills` | recovery against orders being placed; a capped backfill | `PerpOrders` |
| portfolio of products (`portfolio-runtime.ts`, `multi-product-portfolio.machine.ts`) | one runtime per product under one admission | a kill while a cycle is in flight, a cap shared by interleaved cycles | `Portfolio` |
| schedule and market feed (`cycle-schedule`, `market-retry-schedule`, `apps/mcp-market-data`) | decision window, planned retries, caches, failover | late alarms, deadlines, candles that expire | `MarketFeed` |
| indicators (`packages/indicators-prolog`) | folds of a series | windows one candle short | `Indicators` |
| AI trend signals | rows of signals, tasks | productions that end late or out of order | `AITrend` |
| operator notifications | last notification per class | deduplication before delivery | `OperatorNotifications` |
| figures of an account (valuation, daily risk, execution resolution, dashboard figures) | rows of cycles | day changes, carried marks, a page that recomputes | `Valuation`, `PaperFigures` |
| backtests (`packages/backtest`) | position, plan, filter, orders | executed at other prices than decided | `Replay`, `ProtectiveOrder`, `RegimeFilter`, `PortfolioReplay` |
| P7 collector (`apps/p7-shadow-collector`, `models/p7-*`) | projection, captured requests, jobs, reports | evidence lost in an eviction; commits of a campaign that ended between them | `P7Models`, `P7Shadow` |
| dashboard (`apps/dashboard`) | session, perp form, wallet | answers that outlive the session that asked | `Dashboard`, `BaseWallet` |

The parts of an agent interact by calls within one Durable Object, by its state and SQLite rows, by
the alarms of the Agents SDK, and by requests to the market server, the exchange and the venue. An
object has one thread and gives it up only where it awaits the network (or a timer): every model
takes that as its grain of interleaving. The dashboard and the collector are separate programs and
meet the others only through requests.

What the parts must guarantee: the machine resolves every order that may be in flight, forgets no
kill and no terminal failure, and ends within the loop's bound; a cycle decides once per closed
candle; what reaches an exchange is explained by durable records; a halt means an empty account;
a position is never left without a bracket or a workflow that knows of it; every execution on paper
is booked once; alarms agree with phases; products together stay under their cap; no decision is
taken on evidence that was lost; what a page shows is confirmed; and what began comes to an end.

## 2. Modules

    TradingMachine             the machine, as operators from machine to machine
      TradingCycle             the machine under the loop, every result of every effect
        TradingCycle_proofs
        MCDecision             with MarketFeed, Indicators, AITrend, OperatorNotifications,
                               Replay (ProtectiveOrder, RegimeFilter), PortfolioReplay
          Decision_proofs
      CycleRuns                the loop with its real effects, storage and exchange
        TradingAgent           commands, alarms, evictions, the environment
          TradingAgent_proofs, MCTradingAgent
    CoinbaseAccount            orders and balances of the exchange, the requests on them
      AccountKill              live-account-control.machine.ts and executeCoinbaseKill
        ProtectedSell          live-sell-protection.machine.ts, its checkpoints; implements AccountExit
          ProtectedSell_proofs, MCProtectedSell
    PerpOrders                 PerpOrders_proofs, MCPerpOrders
    Portfolio                  Portfolio_proofs, MCPortfolio
    P7Models > P7Shadow        P7Shadow_proofs, MCP7Shadow
    Dashboard                  MCConsole (with BaseWallet, Valuation > PaperFigures)
                                 Console_proofs

`MCDecision` and `MCConsole` explore several modules in one run. Their parts share no state: an
initial state chooses the part, its actions are the only ones taken, and the others rest at their
start. What the parts of `MCDecision` are parameterised by are its CONSTANTS, with one named assumption
per part: the values are given in `Decision.cfg`, and `Decision_proofs` is about all values.

**TradingMachine** has one operator per event: the event's guards in the order of the source, its
assigns, and then `Enter`, the eventless `always` transition of the phase entered (a pending shutdown
goes to `cancelling`, or from `submittingOrder` to `reconcilingOrder`). Numbers stand for identifiers
and candles, 0 for null. `PERMISSION_REVOKED` is left out because nothing sends it.

**TradingCycle** is `runTradingCycle` with effects that may return anything: one action per phase, a
count of the loop's iterations, the commands, the wakes, and evictions. The machine is judged alone
in it, and the proofs of the machine are about it.

**CycleRuns** gives the effects their content. A *run* is an invocation in flight with its private
`m`, `art`, `port` and `authorized`, as the locals of `runTradingCycle`. `current` is the run that
holds the thread; an action is one iteration of the loop, or the part of it up to a network await.
Storage is `machine`, `portfolio`, `schedule`, `retryAlarm`, `rows` (`dodash_cycles`) and `orders`
(`dodash_orders`); the exchange keeps per order whether it is open, filled, void or closed and whether
its bracket attached. A live order is a BUY here; the SELL is a workflow of its own.

**TradingAgent** adds `StartAgent`, `Control` (stop and kill: the event goes to the *persisted*
machine whatever is in flight), `ResetAgent`, `RunNow`, `ScheduledTick`, `RetryTick`, `Publish` (the
end of `runCurrent`), `OnStart`, and the environment: candles close, deadlines pass, orders settle,
the object is evicted. A request in flight then may or may not have arrived, and a kill may have
closed any part of the account. `setup` is the instance explored: the mode, the number of runs in
flight, and the bounds.

**CoinbaseAccount, AccountKill, ProtectedSell** take the account request by request: an answer may be
lost, a request may arrive late, a write may be refused, the object may be evicted anywhere, and the
workflow resumes from its checkpoint. Quantities are whole increments, of which `Dust` cannot be
sold. `AccountExit` states what leaving a position promises in one page: *covered* (bracket or
workflow), and an outcome that is told only when it is true and that nothing undoes. `ProtectedSell`
implements it (`ExitIsSafe`).

**PerpOrders** has `runOrder` of each order, the recovery of the tick and that of a cycle, all
interleaved at their requests. **Portfolio** has the orchestrator, one machine per product reduced to
what crosses the portfolio, the alarm and the requests as runs with copies of their own, and
`retryTick`, which runs the one product its alarm names. **MarketFeed** counts in half seconds.
**P7Shadow** has the alarm, the jobs, their commits and the reports of a campaign; a captured book with a
field of its own is refused by every command that observes it, at each attempt again. **Dashboard** separates the state from what
was last *rendered*: an effect runs only after a rendering, and answers carry no mark of the request.

### Abstractions that matter

- A write is durable when it returns; an eviction keeps a prefix of the writes. A write that the code
  guards with `catch` may be refused, within a bound on mishaps. A failed read is modelled where it
  changes what happens (`SubmitPaperOrder`); elsewhere it throws and ends the invocation as an
  eviction would.
- A request whose answer is lost either reached the exchange before the timeout or never does, but for
  the orders of `CoinbaseAccount` and `PerpOrders`, which may arrive late.
- The exchange is idempotent per client order identifier, as `models/effects.md` demands; an
  identifier whose request never arrived counts as fresh.
- What strategies, the allocator, the risk check and a classification conclude is a free choice, where
  the module is not about that computation. Quantities and prices are small whole numbers.
- A retried start uses the same product and interval; only well-formed, authorized commands arrive.
- The classes that one record is told of are a set; their order, which no property tells apart, is left out.
- History variables (`decisions`, `executions`, `session`, `abandoned`, `missed`, `contested`, `overlap`,
  `evicted`, ...) are read by properties only.
- ProtectedSell: the product belongs to the agent alone, the adapter returns valid snapshots, and order
  sizes exceed one increment by far. Replay: cash, signals and approval are choices, the filter's
  classification too. AITrend: one product, one production at a time, restarted freely. P7Shadow: a
  response is forgotten when its job is done, a page of 32 jobs holds all that are due, amounts are left
  out. PaperFigures: paper only, one order per cycle, slippage as a price difference, evictions between
  cycles.

## 3. Runs

| Run | Instance | Question |
|---|---|---|
| `Decision` | the machine with one retry of each kind and 29 iterations; the feed for 17 half seconds; every series of three candles; trend signals on grids 1 and 2; three notifications; the backtest of one product under four policies; the backtest of two products | what a decision is made of, part by part |
| `Agent` | paper and live with one invocation at a time, 2 cycles, 2 candles, 2 faults (live 1), 3 commands, live with an eviction; paper with two overlapping invocations | do decisions, fills, alarms, rows and the exchange agree? can overlapping runs execute an order twice? |
| `AgentLiveness` | live: 2 cycles, 1 fault, 1 eviction; and with a kill: 2 faults, 3 commands, no eviction | does every cycle that began end, and does a kill bring the agent to rest? |
| `ProtectedSell` | 2 or 3 increments, 2 flattening attempts, 1 retry of the other kinds, 1 mishap | is the position ever left without a bracket or a workflow that knows? |
| `PerpOrders` | 2 orders, the tick's and a cycle's recovery, 2 gaps, 2 mishaps | are the rows true, is anything filled forgotten? |
| `Portfolio` | 2 products of one unit, cap of one unit, an alarm and a request, 3 commands, 1 mishap | the consolidated cap, the end of a drain |
| `P7Shadow` | a campaign of one day, one interim report, lag 1, 1 mishap | what is decided, valued and reported without evidence; does every job end? |
| `Console` | 2 agents, 2 connections, 2 clicks, 1 change; a wallet of 2 addresses on 2 chains; a paper agent through 3 cycles | is what the page shows confirmed, and true? |

Four more runs (`Doc*`) expect a violation (section 5).

The properties, and why they could fail:

- Machine (`Decision`): `InFlightIsReconciled` holds only through the order of guards in `persisting`,
  the eventless transitions and every event that clears a flag; `NeverThrows`, with a budget of
  exactly the longest invocation: with 28 iterations instead of 29 it is violated.
- Feed: `NoStrandedRetry`, a planned retry has an alarm, though identical alarms are deduplicated;
  `NeverBoth`, no candle is both missed and decided. Indicators: `PreparedIsComputed`, a value
  computed on a bounded window, or continued candle by candle, is that of the whole series. Trend:
  `NoLookahead`, `PastStands`. Notifications: `ToldOncePerWindow`.
- Backtests: `PositionIsGuarded` (a plan of the position's own size and side, events never out of
  sequence), `ExitIsTraded` (an exit is at a price its candle traded, but for ATR plans that an
  increase made anew, which `models/protective-order.md:49-50` excepts from its own rule),
  `RegimeIsConfirmed`, and `WithinCap` (orders admitted together at one close respect the cap when
  they are executed at the next open; the replay never fails).
- `Agent`: `OneDecisionPerCandle` (through retries, resumption, the next tick and a live restart);
  `BooksEveryFill` (at rest the paper portfolio is exactly the recorded executions of the session,
  though `Confirm` takes the portfolio over *before* a checkpoint that may be refused);
  `ArmedWhenEnabled`; `HaltedIsFlat`; `RecordsSuffice` (what was sent can be reconciled from storage
  alone, at most one order is in doubt, a resumed phase finds its inputs, and what is recorded as
  confirmed was never left unprotected); `OneExecutionPerOrder`, also under overlap. `AgentLiveness`:
  `CycleSettles`, `KillSettles`.
- `ProtectedSell`: `OneFlattenInDoubt` (a kill in doubt about its order sends no other);
  `KillMeansFlat` (a kill that completed left at most dust, and the executor's bound is never what
  ends it); `ExitIsSafe` (implements `AccountExit`); `ExitEnds`.
- `PerpOrders`: `RowsAreTrue`, `NothingIsForgotten` (but for an order that a recovery found not placed
  before its request arrived, the variable `contested`), `GapsAreFilled`.
- `Portfolio`: `CapHolds` (until something is evicted or a product has two cycles in flight);
  `DrainEnds` (an enabled portfolio at rest has its alarm, a draining one takes up no order, and it
  halts).
- `P7Shadow`: `LostEvidenceSuspends`, `FillsAwaitMarks`, `VerdictsStand` (no way back from a campaign
  that is over, no report rewritten after its cutoff), `EveryJobEnds` (unless a captured FINAL book is
  refused: section 5).
- `Console`: `ShownIsConfirmed`, `OneSubmissionPerOrder`, `BusyEnds`, `SessionFollowsWallet`,
  `FiguresAreAccepted` (the page recomputes and accepts what the agent projects), `FiguresAreTrue`
  (they are those of the account). `ShownIsConfirmed` and the monotony in `BusyEnds` hold until a
  session is closed with a request in flight (`abandoned`), `SessionFollowsWallet` unless the wallet
  changes before the page listens (`missed`).

Each property is also run against a mutated form of a definition it depends on, kept beside the
original and marked `mutant` (a dropped guard, a swapped order, a missing write); TLC finds the
property violated.

### Bounds

One retry of each kind makes every retry and every exhaustion happen; the machine only compares a
count with its limit. Two cycles and two candles are what it takes for a candle to be fetched twice
and for an order of one cycle to be in doubt during the next. Two runs are what it takes for one to
publish over the other; they are interchangeable, hence `SYMMETRY` in `Agent`, which checks invariants
only. One mishap at any instant puts each failure next to each other step once; where a failure of a
failure matters there are two. Three commands start an agent, disturb it and recover it.
`MaxKillSteps = 32` is what `KillBudget` gives for the instance's limits; the limits of the code,
3/4/2/4, fit `MAX_CONTROL_STEPS` (theorem `CodeNumbers`). In P7Shadow a tick is longer than anything
but a request and a late alarm. `Dust` 1 of 3 increments is enough for dust to be left by a sale and
for a residual above it.

`CHECK_DEADLOCK FALSE` is set where the bounds on commands, cycles, clicks or candles let the
environment stop, or the workflow ends; in `P7Shadow` deadlock is checked.

### Fairness

- `TradingAgent`: weak fairness of a step of a run (the thread goes on, and every network call has a
  timeout, `AbortSignal.timeout`), of the publication, of `ScheduledTick` and `RetryTick` (the platform
  delivers armed alarms), of a retry's deadline, of `OnStart` *while an alarm is armed* (only an alarm
  wakes an evicted object without a request), and of the settling of an order. Operators, candles,
  faults and evictions are under no obligation. The second setup of `AgentLiveness` has no evictions
  on purpose: a kill removes the grid alarm before it works on the account, and an object evicted in
  between sleeps until someone sends a request; with one eviction `KillSettles` fails by exactly that.
- `ProtectedSell`: the steps of the kill and of the SELL, the kill that the failed SELL demands, and the
  reconciliation that resumes a checkpoint. `PerpOrders`: steps of orders and recoveries, the arrival
  of what was sent, and the tick. `Portfolio`: steps of runs, the shared alarm, and `OnStart`.
- `P7Shadow`: the object's steps, armed alarms, time, and a wake when no alarm is armed: a `begin` that
  was evicted before its first alarm leaves none, and the operator has to call again.
- `Dashboard`: React renders, and every request ends (answer, error or abort).

## 4. Proofs

TLC checks the instances above; the theorems hold for every value of the constants, from the named
assumptions beside them. All of them are proved by tlapm to the last leaf, by an inductive invariant
(`Soundness` in each module) of which the properties follow.

| Module | Theorems | Assumes |
|---|---|---|
| `TradingCycle_proofs` | `Soundness`, `InFlightSafety` (`InFlightIsReconciled`), `TerminalFailureSafety`, `KillSafety`, `HaltSafety`, `DefaultBudget`, `TypeCorrectness` (`TypeOK`), `NeverExhausted` (`NeverThrows`) | retry limits and candles are numbers; the last two: `FullCycle <= MaxSteps` |
| `TradingAgent_proofs` | `Soundness`, `TypeCorrectness`, `SerialSoundness`, `DecidesOnce` (`OneDecisionPerCandle`), `AlarmsAgree` (`ArmedWhenEnabled`), `HaltIsFlat` (`HaltedIsFlat`), `RecordsAreEnough` (`RecordsSuffice`), `ExecutesOnce` (`OneExecutionPerOrder`), `FillsBooked` (`BooksEveryFill`) | the iteration budget covers a full cycle; no run is `None`; retry limits, candles and the bounds of every setup are natural numbers |
| `ProtectedSell_proofs` | `Soundness`, `TypeCorrectness`, `OneFlatten` (`OneFlattenInDoubt`), `KillIsBudgeted`, `KillSafety` (`KillMeansFlat`), `CodeNumbers`, `ExitInForm`, `ExitSafety` (`ExitIsSafe`) | limits and quantities are numbers, dust is less than what is held or asked; `KillSafety`: `KillBudget <= MaxKillSteps` |
| `PerpOrders_proofs` | `Soundness`, `TypeCorrectness`, `TrueRows` (`RowsAreTrue`), `NothingForgotten` (`NothingIsForgotten`) | bounds are numbers, at least one gap is backfilled |
| `Portfolio_proofs` | `Soundness`, `TypeCorrectness`, `CapSafety` (`CapHolds`), `ArmedSafety`, `DrainSafety` (both parts of `DrainEnds`) | two products or more, positive caps |
| `P7Shadow_proofs` | `Soundness`, `LostEvidence` (`LostEvidenceSuspends`), `MarkedFills` (`FillsAwaitMarks`), `Verdicts` (`VerdictsStand`) | the calendar of the campaign (`P7Assumption`), bounds are numbers |
| `Console_proofs` | `Soundness`, `ShownConfirmed` (`ShownIsConfirmed`), `OneSubmission` (`OneSubmissionPerOrder`), `ScreenNeverGoesBack` (a part of `BusyEnds`), `WalletSoundness`, `SessionSafety` (`SessionFollowsWallet`) | bounds are numbers |
| `Decision_proofs` | `NoticeSoundness`, `ToldOnce` (`ToldOncePerWindow`); `TrendSoundness`, `NothingAhead` (`NoLookahead`), `RecordsStand` (`PastStands`); `FeedSoundness`, `RetryIsAwaited` (`NoStrandedRetry`), `MissedOrDecided` (`NeverBoth`); `ReplaySoundness`, `PositionStaysGuarded` (`PositionIsGuarded`), `ExitsAreTraded` (`ExitIsTraded`), `RegimeSoundness`, `RegimeFollows` (`RegimeIsConfirmed`) | one assumption per part (timetables, grids, windows, distances a price can tell apart); `ExitsAreTraded`: `CostsWithinStops` |

*The machine.* That a kill is pending until executed (`KillIsPending`) is not inductive: nothing in it
says that `stopped` is never reached with a kill pending. `Sound(m)` adds that the phase `Fits` the
order in flight, the terminal failure and the shutdown, and that a shutdown occupies only
`SettlingPhases`. `Lands` is `Sound` without `halted`: every event but `PERSIST_SUCCEEDED` lands. One
lemma per event, one step per action. *Its budget:* `Cost(m, p)` is the number of iterations a machine
in phase `p` can still use: one per phase ahead, plus two for each retry still allowed (three for a
retried submission, which authorizes again). Every event is `Cheaper`. An alarm still to be fired is
worth `FullCycle`, in which the reconciliation counts twice because `ACCOUNT_RECONCILED` restores the
budget the order uses. The default limits cost 59 iterations of 64.

*The agent.* Three layers. `IInv` holds for any number of overlapping invocations: one run holds the
thread and the others await the network (`ThreadInForm`), a run awaits only what its phase asks for,
nothing is known of a cycle that was not drawn (`CyclesAreFresh`), and a machine with a pending
shutdown is in a phase that ends it. `SerialForm` is for agents whose invocations do not overlap
(`OneByOne`): the only run works on the machine of the state (`Alone`), a decided candle is remembered
(`Decided`), a run that goes on to another cycle has its alarm (`AlarmIsDue`), a completed kill left an
empty account and nothing that could fill it (`KillIsFlat`). Upon these rest `RecordsSuffice` and the
figures of paper: artifacts only grow, a row is a copy of them, and a phase is entered with what it
needs; every order at the exchange has its intent on record, of all orders at most one is in doubt, and
it is the one of the cycle under way (`OrdersAreTrue`, `ConfirmedIsSure`, `DoubtIsOne`); an order of
which no execution was recorded was not executed (`NotExecuted`), and the portfolio of the run that
holds the thread is what was booked (`FillsAreBooked`). The hypotheses are those of the properties:
`RecordsSuffice`, `HaltedIsFlat` and `OneDecisionPerCandle` are stated for `OneByOne`,
`OneExecutionPerOrder` for `OneByOne` or a storage that can be read, `BooksEveryFill` until the object
is evicted. With two overlapping runs the first three are false (section 5).

*The protected SELL.* `IInv` adds to the types: what open SELLs have left is held (`Accounted`), only
a stray order buys (`OrdersInForm`), a balance that was read has only shrunk since (`KillInForm`), of
the flattening orders of one kill at most one is pending (`FlattenInForm`), and what each phase of the
SELL, or of its checkpoint, says of the account is so (`SellInForm`). `OneFlattenInDoubt` alone is not
inductive: it takes that an order is only replaced by another when it was seen terminal. `KillIsBudgeted`
is a second induction over it: steps taken, steps left in the phase, retries left and orders that may
still open never exceed `KillBudget = 2 + 2(c + r + v) + 4f + 2|OrderIds|`. `ExitSafety` is the
refinement: initial states map to initial states, and every step is a step of `AccountExit` or leaves
its variables as they are, through every eviction and resumption.

*Perpetual orders.* An order is at the venue only after its row (`RunIsRecorded`), recoveries work only
on recorded orders (`WorkIsRecorded`), and a row is rejected only when the order is gone
(`RejectedIsGone`); the rows are in an injective order, for which sequence lemmas are proved.

*The portfolio.* `CapHolds` does not see the orders in flight, so it is strengthened by
`OrdersAreAdmitted`: positions and the targets of all products that order stay together under the cap,
because the one that is admitted holds the thread from its admission to its execution (`ThreadIsHeld`,
`PhasesFit`) and its copy of the product is the product (`InSync`, as long as nothing was evicted or
overlapped, the very condition of `CapHolds`). `ArmedWhenEnabled` does not see the runs that will arm:
`AlarmIsDue` says that without the alarm every enabled product is ahead of a run.

*P7.* The invariant relates the projection to what is in flight: a fill comes after the proven marks
of every fill before it; what is in flight is waited for, or the campaign no longer observes; a
cutoff that a commit has passed has its checkpoint. `VerdictsStand` is an action property: `StepIsGood`
is proved of every step, `OverStays` and `FrozenStays` are its two parts.

*The page.* The one request of the session is the one its state asks for (`RequestIsCurrent`), every
view is of the agent that was asked and no later than its state (`ViewsAge`), and an order that is
confirmed and not posted has an identifier of its own (`OrderIsFresh`). *The wallet:* a connected
session listens to its provider (`SessionListens`), an attempt that asks holds what the wallet said
(`AttemptsAreTrue`), and a session knows what the wallet last told (`SessionIsTrue`).

*What a decision is made of.* Each part of `MCDecision` has its own invariant, which the steps of the
others leave alone.

- Notifications (`NoticeInv`): what the deduper of a process remembers is the latest notification of
  each class (`MemoryIsTrue`), and what it sent is remembered (`SentIsRemembered`).
- Trend signals (`TrendInv`): no question that is recorded, running or in a batch rests on a close later
  than its candle. `PastStands` is proved of every step.
- Feed (`FeedInv`): a planned retry has a row that takes it up, now or rearmed to its instant
  (`RetryIsArmed`, `TakesUp`); `NeverBoth` takes that reports are of windows that are over
  (`ReportsAreOver`) and that decided candles are past.
- Backtest (`ReplayInv`): `Guarded` says of every point of a candle what `PositionIsGuarded` says of its
  beginning: before an open the actor awaits a candle that it has not seen (`Waits`), between the open
  and the range it sees this one (`Sees`). That a plan is valid at all is arithmetic on rounded shares
  (`ShareIsProper`, `PlanIsValid`): an average entry is never below every price that was paid
  (`AverageIsEntry`). `ExitInv` adds the levels: they are on either side of the open (`Around`) unless an
  increase remade them in multiples of the ATR. For the other policies a new average lies between the
  old one and the purchase (`AverageIsBetween`), shares and stops grow with their price (`ShareGrows`,
  `StopGrows`), so that the new levels are around the open if the purchase cost less than a stop's
  distance (`CostsWithinStops`, a fact about the configuration that the instance satisfies). Without it
  the property is false: an increase with fees and slippage over the distance of a fixed stop leaves
  the stop above the open, and `RangeExit` fills there.
- Regime filter (`RegimeInv`): a streak is exactly the number of the latest classifications that agree
  (`IsStreak`), the pending one before a regime is confirmed and the opposing one afterwards; so no
  regime is due that is not in force, and `RegimeIsConfirmed` follows in both directions.

Checked by TLC only, and why:

- Liveness (`CycleSettles`, `KillSettles`, `ExitEnds`, `GapsAreFilled`, `DrainEnds` but for the parts
  above, `EveryJobEnds`, `BusyEnds` but for `NeverBackwards`): the prover has no fairness or `ENABLED`.
- What is computed by recursion or folds over data: `PreparedIsComputed` (a window against the whole
  series), `FiguresAreAccepted` and `FiguresAreTrue` (rows of cycles folded into accounts), `WithinCap`
  (orders admitted and executed product by product). Induction over data is out of the prover's reach.
- `RecordsSuffice`, `HaltedIsFlat`, `OneDecisionPerCandle` for overlapping invocations: they do not hold.

## 5. Where the documents and the code disagree

| Run | The document | The code |
|---|---|---|
| `DocRiskSeesAccount` | the other exposure is never zero by construction in live mode (`models/live-account-control.md:186`) | a cycle resumed by its market retry checks risk with the initial 0 (`interpreter.ts:129`) |
| `DocRejectedIsVoid` | only a terminal order closes the reconciliation (`models/agent-runtime.md:139`) | a refused replay closes it although the first request was accepted (`trading-agent.ts:2928`) |
| `DocAdmissionIsDecided` | every admission is a guard of the model (`models/multi-product-portfolio.md:85`) | the last decision is read although the machine ignored the proposal (`portfolio-runtime.ts:155`) |
| `DocPageLoads` | `/pnl` answers a projection (`models/dashboard-pnl-history.md:152`) | the worker sends the result around it, and the page refuses it (`worker.ts:81`, `dashboard-api.ts:862`) |

Met while modelling, each kept as a note on its hazard or as a statement that no run checks:

- Agent: two overlapping invocations publish over each other, so that `failed` and `halted` can be
  left without a reset (against `models/README.md:17`), and a candle can be decided twice, a fill lost
  from the portfolio, or an agent left unarmed. A failed read of an order's row counts as "not
  executed" (`trading-agent.ts:2514`), and with it an overlapping run executes an order again. A fill
  is also lost when the agent is evicted between a checkpoint and the publication (`:1110`). A
  confirmed perpetual order is reported CONFIRMED whatever was found (`:2872`). A stop after an eviction
  replaces a kill (`KillIsNotCancelled`; `models/live-account-control.review.md:42`).
- Schedule: a cycle that ends before its decision window does leaves a missed candle unreported
  (`MissedIsReported`; `models/cycle-schedule.md:90-91`); the closed-window cache keeps a series for six
  hours (`coinbase.ts:340`, `models/effects.md:72-74`); after its retries are used up the market may be
  fetched several times in a row (`models/market-retry-schedule.md`, sections 3 and 4.1); the failover
  is not armed in a long outage (`models/market-source-failover.ts:88` against `:30-33`).
- Portfolio: the cap rejects a SELL of a portfolio that a rise brought over it
  (`DeriskingIsNeverBlocked`; `models/multi-product-portfolio.md:69-71`).
- Perpetual orders: with more gaps than the backfill takes, accepted orders without fills occupy it and
  an older gap is never filled (`GapsAreFilled` with `MaxGaps = 1`); a submission whose answer was lost
  is offered again under a new identifier.
- Page: the state of a portfolio or of an agent that was never configured has no machine and is refused
  (`trading-agent.ts:1309-1319`, `dashboard-api.ts:356`); perpetual agents are refused (`:255`), and
  phases of a reconciling agent are unknown to the page; a fee of 0 is accepted by the agent
  (`configuration.ts:218`) and refused by the page; the history of `/pnl` has no product
  (`trading-agent.ts:906-962`); a failed first load cannot be retried (`models/dashboard-session.md:20`).
- Trend signals: `v2` shadow and both retrospective productions drop the timeframe
  (`trading-agent.ts:2066-2073`, `:2180`, `:2239`), and existing rows are matched without it
  (`models/ai-trend-signal.md:220-222`).
- P7: an admitted decision whose command throws is completed as if it were decided (`worker.ts:926`;
  `models/p7-shadow-runner.md:87-91`); a first wake evicted before its alarm leaves none. A FINAL book
  with an unknown field is captured and then refused (`p7-prospective-event-marks.ts:70`); each attempt
  reads the captured body again (`worker.ts:359`), and past T1 FINAL is the first job of every plan
  (`p7-shadow-runner.ts:472`): every alarm throws, and neither the jobs still due nor the last report
  end (`FinalEnds`; `models/p7-shadow-runner.md:34-36` has FINAL observed at T1). A leg, a quote, an hourly mark and the mark
  of a fill that are refused in this way hold up the jobs behind them until their window or the
  observation ends.
- Backtest: an ATR plan remade by an increase may be executed outside of its candle, and so may a fixed
  stop when the costs of the entry exceed its distance (`replay.ts:632`).

## 6. What is not modelled

Value types and their parsers (`domain`), signing, settings and preflights, JWT, telemetry, P7
statistics, launch checklists and the market source probe: no state over time, or only cryptography
and operators. Amounts and rounding, the formatting of requests, authentication, funding, metrics,
the demo gateway, and the archive of P7 are left out of the modules named above. `PROJECT.json`
says for each component what its module leaves out.

## 7. Plan

1. The refinement of `TradingCycle` by a serial `TradingAgent`, through its machine: `MachineInForm` and
   `Alone` are the invariants it takes.
2. The same for the paper orders of `CycleRuns` and one ledger that books each execution once.
3. The admission of `PortfolioReplay` for a fixed number of products, where its folds can be unrolled.
