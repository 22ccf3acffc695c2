------------------------------ MODULE CycleRuns ------------------------------
(***************************************************************************)
(* runTradingCycle with its real effects (interpreter.ts,                  *)
(* trading-effects.ts and the persistence methods of trading-agent.ts), on *)
(* the storage of one Durable Object and one exchange account.             *)
(*                                                                         *)
(* A run is one invocation in flight.  It holds private copies of the      *)
(* machine, the artifacts and the portfolio, taken when it started, and    *)
(* writes the machine back at each send.  The object has one thread:       *)
(* `current` is the run that holds it, and a run gives it up only while it *)
(* awaits the network.  Paper orders are executed by the object itself,    *)
(* live orders (BUY: the protected SELL is a workflow of its own) by the   *)
(* exchange.                                                               *)
(***************************************************************************)
EXTENDS TradingMachine, FiniteSets

CONSTANTS Runs,    \* invocations that may be in flight together
          None,    \* no run
          Setups   \* the agents and bounds one check goes through

ASSUME RunsAssumption == None \notin Runs
ASSUME SetupsAssumption ==
  \A s \in Setups:
    /\ s.mode \in {"paper", "live"}
    /\ {s.runs, s.cycles, s.candles} \subseteq Nat \ {0}
    /\ s.faults \in Nat

VARIABLES
  setup,       \* the agent's mode and the bounds, chosen at the start
  machine,     \* state.machine
  portfolio,   \* state.portfolio: the cycles whose fills it holds
  schedule,    \* state.schedule: the grid alarm is armed
  retryAlarm,  \* the one-shot retryTick alarm is armed
  rows,        \* dodash_cycles
  orders,      \* dodash_orders, one order per cycle
  run,         \* the runs
  current,     \* the run that holds the thread
  used,        \* cycle identifiers drawn so far
  candle,      \* the last closed candle
  triggered,   \* the last closed candle when each cycle was triggered
  retryDue,    \* the deadline of the planned market retry has passed
  exchange,    \* the exchange's record of each order
  bracket,     \* the filled order has its protective bracket
  faults,      \* failures so far
  session,     \* history: cycles drawn before the last paper start
  decisions,   \* history: cycles that decided on each candle since then
  executions,  \* history: paper executions of each order
  blindRisk    \* history: live risk approved without the account's exposure

Mode == setup.mode
MaxCycles == setup.cycles   \* bound: cycles begun
MaxCandle == setup.candles  \* bound: candles closed
MaxFaults == setup.faults   \* bound: storage and network failures

Cycles == 1..MaxCycles

durable == <<machine, portfolio, schedule, retryAlarm, rows, orders>>
market == <<used, candle, triggered, retryDue>>
venue == <<exchange, bracket>>
history == <<session, decisions, executions, blindRisk>>
runVars == <<durable, run, current, market, venue, faults, history>>

Artifacts == {"market", "indicators", "signals", "order", "risk", "execution"}

NoArtifacts == [loaded |-> FALSE, has |-> {}, retry |-> 0]
NewArtifacts == [NoArtifacts EXCEPT !.loaded = TRUE]

ArtifactSets == [loaded: BOOLEAN, has: SUBSET Artifacts, retry: Nat]

OrderStatuses == {"none", "INTENT_PERSISTED", "CONFIRMED", "REJECTED",
                  "OUTCOME_UNKNOWN", "ACKNOWLEDGED", "PROTECTION_FAILED"}

(* The network call a run awaits; "none" while it computes, "return" when  *)
(* it has left the loop without an event.                                  *)
Calls == {"none", "return", "account", "market", "submit", "replay",
          "lookup", "unwind", "kill"}

ExchangeStates == {"none", "open", "filled", "void", "closed"}

IdleRun == [active |-> FALSE, call |-> "none", m |-> NewMachine(0),
            art |-> NoArtifacts, authorized |-> FALSE, port |-> {},
            exposureKnown |-> FALSE, trigger |-> FALSE, pending |-> FALSE,
            byAlarm |-> FALSE, cycle |-> 0]

RunRecords == [active: BOOLEAN, call: Calls, m: Machines, art: ArtifactSets,
               authorized: BOOLEAN, port: SUBSET Cycles,
               exposureKnown: BOOLEAN, trigger: BOOLEAN, pending: BOOLEAN,
               byAlarm: BOOLEAN, cycle: 0..MaxCycles]

CycleRows == [stored: BOOLEAN, art: ArtifactSets, outcome: Outcomes]

OrderRows == [status: OrderStatuses, idKnown: BOOLEAN,
              booked: SUBSET Cycles]

RunsTypeOK ==
  /\ setup \in Setups
  /\ machine \in Machines
  /\ portfolio \subseteq Cycles
  /\ schedule \in BOOLEAN
  /\ retryAlarm \in BOOLEAN
  /\ rows \in [Cycles -> CycleRows]
  /\ orders \in [Cycles -> OrderRows]
  /\ run \in [Runs -> RunRecords]
  /\ current \in Runs \cup {None}
  /\ used \in 0..MaxCycles
  /\ candle \in 1..MaxCandle
  /\ triggered \in [Cycles -> 0..MaxCandle]
  /\ retryDue \in BOOLEAN
  /\ exchange \in [Cycles -> ExchangeStates]
  /\ bracket \in [Cycles -> BOOLEAN]
  /\ faults \in 0..MaxFaults
  /\ session \in 0..MaxCycles
  /\ decisions \in [1..MaxCandle -> Nat]
  /\ executions \in [Cycles -> Nat]
  /\ blindRisk \in BOOLEAN

RunsInit ==
  /\ setup \in Setups
  /\ machine = NewMachine(0)
  /\ portfolio = {}
  /\ schedule = FALSE
  /\ retryAlarm = FALSE
  /\ rows = [c \in Cycles |-> [stored |-> FALSE, art |-> NoArtifacts,
                               outcome |-> "IDLE"]]
  /\ orders = [c \in Cycles |-> [status |-> "none", idKnown |-> FALSE,
                                 booked |-> {}]]
  /\ run = [r \in Runs |-> IdleRun]
  /\ current = None
  /\ used = 0
  /\ candle = 1
  /\ triggered = [c \in Cycles |-> 0]
  /\ retryDue = FALSE
  /\ exchange = [c \in Cycles |-> "none"]
  /\ bracket = [c \in Cycles |-> FALSE]
  /\ faults = 0
  /\ session = 0
  /\ decisions = [k \in 1..MaxCandle |-> 0]
  /\ executions = [c \in Cycles |-> 0]
  /\ blindRisk = FALSE

-----------------------------------------------------------------------------
(* The account, as the exchange sees it.                                   *)
OpenOrders == {c \in Cycles: exchange[c] = "open"}
Held == {c \in Cycles: exchange[c] = "filled"}

(* loadKnownProtectiveOrderIds: brackets recorded in dodash_orders.        *)
KnownBrackets ==
  {c \in Cycles: orders[c].status \in {"CONFIRMED", "PROTECTION_FAILED"}}

(* reconcileCoinbaseOwnedAccount: every open order of the product, the     *)
(* brackets included, is one the agent has recorded.                       *)
AccountIsOwned ==
  OpenOrders \cup {c \in Held: bracket[c]} \subseteq KnownBrackets

(* A kill cancels the open orders and sells what is held.                  *)
Closed(S) ==
  [c \in Cycles |-> IF c \notin S THEN exchange[c]
                    ELSE IF exchange[c] = "open" THEN "void" ELSE "closed"]

-----------------------------------------------------------------------------
(* Steps of a run.                                                         *)
Fault == faults < MaxFaults /\ faults' = faults + 1

At(r, p) == current = r /\ run[r].call = "none" /\ run[r].m.phase = p

Has(r, a) == a \in run[r].art.has

With(r, a) == [run[r].art EXCEPT !.loaded = TRUE, !.has = @ \cup {a}]

(* session.send, then persistMachine: the whole machine is written back.   *)
Send(r, m) ==
  /\ machine' = m
  /\ run' = [run EXCEPT ![r].m = m, ![r].call = "none"]
  /\ current' = r

(* The same with new artifacts.                                            *)
SendWith(r, m, art) ==
  /\ machine' = m
  /\ run' = [run EXCEPT ![r].m = m, ![r].call = "none", ![r].art = art]
  /\ current' = r

Await(r, call) ==
  /\ run' = [run EXCEPT ![r].call = call]
  /\ current' = None

(* An answer arrives when no other run holds the thread.                   *)
Answered(r, call) == current = None /\ run[r].call = call

(* The row of the cycle, written whole.                                    *)
Saved(r, art, outcome) ==
  [rows EXCEPT ![run[r].cycle] =
     [stored |-> TRUE, art |-> art, outcome |-> outcome]]

(* checkpoint: the row takes the artifacts and the outcome of the machine  *)
(* in the state; when the write fails the artifacts in memory have changed *)
(* all the same and the failure event is sent.                             *)
Checkpoint(r, art, success, failure) ==
  \/ /\ rows' = Saved(r, art, machine.outcome)
     /\ SendWith(r, success, art)
     /\ UNCHANGED faults
  \/ /\ Fault
     /\ SendWith(r, failure, art)
     /\ UNCHANGED rows

(* "waiting", with the alarm of this invocation.                           *)
FireAlarm(r) ==
  LET m == AlarmFired(run[r].m, run[r].cycle)
  IN  /\ At(r, "waiting")
      /\ run[r].trigger
      /\ machine' = m
      /\ run' = [run EXCEPT ![r].m = m, ![r].art = NewArtifacts,
                            ![r].trigger = FALSE]
      /\ UNCHANGED <<current, portfolio, schedule, retryAlarm, rows, orders,
                     market, venue, faults, history>>

ScheduleUnarmed(r) ==  \* mutant: the schedule is believed to be there
  /\ At(r, "scheduling")
  /\ Send(r, ScheduleSucceeded(run[r].m))
  /\ UNCHANGED <<portfolio, schedule, retryAlarm, rows, orders, market, venue,
                 faults, history>>

EnsureSchedule(r) ==
  /\ At(r, "scheduling")
  /\ \/ /\ schedule' = TRUE
        /\ Send(r, ScheduleSucceeded(run[r].m))
        /\ UNCHANGED faults
     \/ /\ Fault
        /\ Send(r, ScheduleFailed(run[r].m, TRUE))
        /\ UNCHANGED schedule
  /\ UNCHANGED <<portfolio, retryAlarm, rows, orders, market, venue, history>>

RetryNow(r) ==
  /\ \E p \in RetryPhases \ {"retryingMarketData"}: At(r, p)
  /\ Send(r, RetryTimerElapsed(run[r].m))
  /\ UNCHANGED <<portfolio, schedule, retryAlarm, rows, orders, market, venue,
                 faults, history>>

(* "retryingMarketData" without a plan for this attempt: an exhausted plan *)
(* retries at once; otherwise the deadline is written before its alarm is  *)
(* scheduled, and the run returns.                                         *)
PlanMarketRetry(r) ==
  LET attempt == run[r].m.attempts["marketData"]
      planned == [run[r].art EXCEPT !.loaded = TRUE, !.retry = attempt]
  IN  /\ At(r, "retryingMarketData")
      /\ run[r].art.retry # attempt
      /\ \/ /\ Send(r, RetryTimerElapsed(run[r].m))
            /\ UNCHANGED <<rows, retryAlarm, retryDue, faults>>
         \/ /\ rows' = Saved(r, planned, machine.outcome)
            /\ run' = [run EXCEPT ![r].art = planned, ![r].call = "return"]
            /\ retryAlarm' = TRUE
            /\ retryDue' = FALSE
            /\ UNCHANGED <<machine, current, faults>>
         \/ /\ Fault
            /\ run' = [run EXCEPT ![r].call = "return"]
            /\ UNCHANGED <<machine, current, rows, retryAlarm, retryDue>>
      /\ UNCHANGED <<portfolio, schedule, orders, used, candle, triggered,
                     venue, history>>

ResumeMarketRetry(r) ==
  /\ At(r, "retryingMarketData")
  /\ run[r].art.retry = run[r].m.attempts["marketData"]
  /\ \/ retryDue /\ Send(r, RetryTimerElapsed(run[r].m))
     \/ /\ ~retryDue
        /\ run' = [run EXCEPT ![r].call = "return"]
        /\ UNCHANGED <<machine, current>>
  /\ UNCHANGED <<portfolio, schedule, retryAlarm, rows, orders, market, venue,
                 faults, history>>

(* A paper account is its local portfolio; a live one is read.             *)
ReconcileAccount(r) ==
  /\ At(r, "reconcilingAccount")
  /\ \/ /\ Mode = "paper"
        /\ Send(r, AccountReconciled(run[r].m))
     \/ /\ Mode = "live"
        /\ Await(r, "account")
        /\ UNCHANGED machine
  /\ UNCHANGED <<portfolio, schedule, retryAlarm, rows, orders, market, venue,
                 faults, history>>

AccountAnswer(r) ==
  /\ Answered(r, "account")
  /\ \/ /\ AccountIsOwned
        /\ machine' = AccountReconciled(run[r].m)
        /\ run' = [run EXCEPT ![r].m = machine', ![r].call = "none",
                              ![r].port = Held, ![r].exposureKnown = TRUE]
        /\ current' = r
        /\ UNCHANGED faults
     \/ /\ ~AccountIsOwned
        /\ Send(r, AccountReconciliationFailed(run[r].m, FALSE))
        /\ UNCHANGED faults
     \/ /\ Fault
        /\ \E retryable \in BOOLEAN:
             Send(r, AccountReconciliationFailed(run[r].m, retryable))
  /\ UNCHANGED <<portfolio, schedule, retryAlarm, rows, orders, market, venue,
                 history>>

FetchMarketData(r) ==
  /\ At(r, "fetchingMarketData")
  /\ Await(r, "market")
  /\ UNCHANGED <<machine, portfolio, schedule, retryAlarm, rows, orders,
                 market, venue, faults, history>>

(* The series ends at or before the candle closed when the cycle was       *)
(* triggered; it is checkpointed, then its last candle is sent.            *)
MarketAnswer(r) ==
  LET m == run[r].m
      at == triggered[run[r].cycle]
  IN  /\ Answered(r, "market")
      /\ \/ \E k \in {at - 1, at} \ {0}, fresh \in BOOLEAN:
              LET next == MarketDataReady(m, k, fresh)
              IN  /\ Checkpoint(r, With(r, "market"), next,
                                MarketDataFailed(m, TRUE))
                  /\ decisions' =
                       IF machine'.phase = "computingIndicators"
                       THEN [decisions EXCEPT ![k] = @ + 1] ELSE decisions
         \/ /\ Fault
            /\ \E retryable \in BOOLEAN:
                 Send(r, MarketDataFailed(m, retryable))
            /\ UNCHANGED <<rows, decisions>>
      /\ UNCHANGED <<portfolio, schedule, retryAlarm, orders, market, venue,
                     session, executions, blindRisk>>

(* A pure computation on artifacts that must be there, checkpointed when   *)
(* it succeeds.                                                            *)
Compute(r, p, needs, yields, next) ==
  /\ At(r, p)
  /\ \/ /\ needs \subseteq run[r].art.has
        /\ Checkpoint(r, With(r, yields), next, CycleFailed(run[r].m))
     \/ /\ \/ Fault
           \/ ~(needs \subseteq run[r].art.has) /\ UNCHANGED faults
        /\ Send(r, CycleFailed(run[r].m))
        /\ UNCHANGED rows
  /\ UNCHANGED <<portfolio, schedule, retryAlarm, orders, market, venue,
                 history>>

ComputeIndicators(r) ==
  Compute(r, "computingIndicators", {"market"}, "indicators",
          IndicatorsComputed(run[r].m))

EvaluateStrategies(r) ==
  Compute(r, "evaluatingStrategies", {"market", "indicators"}, "signals",
          StrategiesEvaluated(run[r].m))

(* Without an order the checkpoint holds nothing that is read again.       *)
Allocate(r) ==
  \/ Compute(r, "allocating", {"market", "signals"}, "order",
             AllocationCompleted(run[r].m, TRUE))
  \/ Compute(r, "allocating", {"market", "signals"}, "signals",
             AllocationCompleted(run[r].m, FALSE))

(* A risk artifact is kept here only when it is an approval.               *)
CheckRisk(r) ==
  /\ At(r, "checkingRisk")
  /\ \/ /\ {"market", "order"} \subseteq run[r].art.has
        /\ \/ /\ Checkpoint(r, With(r, "risk"), RiskApproved(run[r].m),
                            CycleFailed(run[r].m))
              /\ blindRisk' = \/ blindRisk
                              \/ /\ Mode = "live"
                                 /\ ~run[r].exposureKnown
                                 /\ machine' = RiskApproved(run[r].m)
           \/ /\ Checkpoint(r, run[r].art, RiskRejected(run[r].m),
                            CycleFailed(run[r].m))
              /\ UNCHANGED blindRisk
     \/ /\ \/ Fault
           \/ /\ ~({"market", "order"} \subseteq run[r].art.has)
              /\ UNCHANGED faults
        /\ Send(r, CycleFailed(run[r].m))
        /\ UNCHANGED <<rows, blindRisk>>
  /\ UNCHANGED <<portfolio, schedule, retryAlarm, orders, market, venue,
                 session, decisions, executions>>

NotIntended(c) == orders  \* mutant: the intent stays in memory

Intended(c) ==
  IF orders[c].status = "none"
  THEN [orders EXCEPT ![c].status = "INTENT_PERSISTED"] ELSE orders

(* The row of the order exists before any network call for it; a row that  *)
(* is already there keeps its status.                                      *)
PersistOrderIntent(r) ==
  LET c == run[r].cycle
  IN  /\ At(r, "persistingOrderIntent")
      /\ \/ /\ Has(r, "order")
            /\ orders' = Intended(c)
            /\ Send(r, OrderIntentPersisted(run[r].m))
            /\ UNCHANGED faults
         \/ /\ Has(r, "order")
            /\ Fault
            /\ Send(r, CycleFailed(run[r].m))
            /\ UNCHANGED orders
         \/ /\ ~Has(r, "order")
            /\ Send(r, CycleFailed(run[r].m))
            /\ UNCHANGED <<orders, faults>>
      /\ UNCHANGED <<portfolio, schedule, retryAlarm, rows, market, venue,
                     history>>

(* The credential lives in the run alone.  It is minted locally: a live    *)
(* one fails only for a key that cannot sign, which no retry repairs.      *)
Authorize(r) ==
  LET m == AuthorizationReady(run[r].m, TRUE)
  IN  /\ At(r, "authorizing")
      /\ \/ /\ Has(r, "order")
            /\ machine' = m
            /\ run' = [run EXCEPT ![r].m = m, ![r].authorized = TRUE]
            /\ UNCHANGED <<current, faults>>
         \/ /\ Has(r, "order")
            /\ Mode = "live"
            /\ Fault
            /\ Send(r, AuthorizationFailed(run[r].m, FALSE))
         \/ /\ ~Has(r, "order")
            /\ Send(r, AuthorizationFailed(run[r].m, FALSE))
            /\ UNCHANGED faults
      /\ UNCHANGED <<portfolio, schedule, retryAlarm, rows, orders, market,
                     venue, history>>

-----------------------------------------------------------------------------
(* Submission and reconciliation of the order.                             *)

ReadyToSubmit(r) ==
  {"order", "risk", "market"} \subseteq run[r].art.has /\ run[r].authorized

(* An order that may have been sent before is never sent blindly: without  *)
(* the run's own credential the outcome is unknown.                        *)
SubmitUnprepared(r) ==
  /\ At(r, "submittingOrder")
  /\ ~ReadyToSubmit(r)
  /\ Send(r, OrderOutcomeUnknown(run[r].m))
  /\ UNCHANGED <<portfolio, schedule, retryAlarm, rows, orders, market, venue,
                 faults, history>>

TakenUnbooked(r, booked, m) ==  \* mutant: the portfolio is not taken over
  [run EXCEPT ![r].m = m, ![r].call = "none",
              ![r].art = With(r, "execution"), ![r].authorized = FALSE]

Taken(r, booked, m) ==
  [run EXCEPT ![r].m = m, ![r].call = "none", ![r].authorized = FALSE,
              ![r].art = With(r, "execution"), ![r].port = booked]

(* The interpreter takes over a confirmed submission: its portfolio, the   *)
(* execution artifact, and the event, unless the checkpoint fails.         *)
Confirm(r, booked, confirmed, failure) ==
  /\ \/ /\ rows' = Saved(r, With(r, "execution"), machine.outcome)
        /\ machine' = confirmed
        /\ UNCHANGED faults
     \/ /\ Fault
        /\ machine' = failure
        /\ UNCHANGED rows
  /\ run' = Taken(r, booked, machine')
  /\ current' = r

Refuse(r, m) ==
  /\ machine' = m
  /\ run' = [run EXCEPT ![r].m = m, ![r].call = "none",
                        ![r].authorized = FALSE]
  /\ current' = r

ExecutedHere(r) == Has(r, "execution")  \* mutant: the row is not consulted

Executed(r) == orders[run[r].cycle].status = "CONFIRMED"

(* submitPaperOrder: an order already confirmed is returned as recorded;   *)
(* one that is not, or whose row cannot be read, is executed against the   *)
(* run's portfolio and recorded.  (A failed read changes no state and is   *)
(* not counted among the faults.)                                          *)
SubmitPaperOrder(r) ==
  LET c == run[r].cycle
      m == run[r].m
      booked == run[r].port \cup {c}
  IN  /\ Mode = "paper"
      /\ At(r, "submittingOrder")
      /\ ReadyToSubmit(r)
      /\ \/ /\ Executed(r)
            /\ Confirm(r, orders[c].booked, OrderConfirmed(m),
                       OrderOutcomeUnknown(m))
            /\ UNCHANGED <<orders, executions>>
         \/ /\ ~Executed(r) \/ MaxFaults > 0
            /\ \/ /\ orders' = [orders EXCEPT ![c] =
                                 [status |-> "CONFIRMED", idKnown |-> TRUE,
                                  booked |-> booked]]
                  /\ executions' = [executions EXCEPT ![c] = @ + 1]
                  /\ Confirm(r, booked, OrderConfirmed(m),
                             OrderOutcomeUnknown(m))
               \/ /\ Refuse(r, OrderRejected(m, FALSE))
                  /\ UNCHANGED <<rows, orders, executions, faults>>
               \/ /\ Fault
                  /\ Refuse(r, OrderOutcomeUnknown(m))
                  /\ UNCHANGED <<rows, orders, executions>>
      /\ UNCHANGED <<portfolio, schedule, retryAlarm, market, venue, session,
                     decisions, blindRisk>>

ReconcilePaperOrder(r) ==
  LET c == run[r].cycle
      m == run[r].m
  IN  /\ Mode = "paper"
      /\ At(r, "reconcilingOrder")
      /\ {"order", "risk"} \subseteq run[r].art.has
      /\ \/ /\ Executed(r)
            /\ Confirm(r, orders[c].booked, OrderReconciled(m, TRUE),
                       ReconciliationFailed(m, TRUE))
         \/ /\ ~Executed(r)
            /\ Refuse(r, OrderReconciled(m, FALSE))
            /\ UNCHANGED <<rows, faults>>
         \/ /\ Fault
            /\ Refuse(r, ReconciliationFailed(m, TRUE))
            /\ UNCHANGED rows
      /\ UNCHANGED <<portfolio, schedule, retryAlarm, orders, market, venue,
                     history>>

ReconcileNothing(r) ==
  /\ At(r, "reconcilingOrder")
  /\ ~({"order", "risk"} \subseteq run[r].art.has)
  /\ Send(r, ReconciliationFailed(run[r].m, FALSE))
  /\ UNCHANGED <<portfolio, schedule, retryAlarm, rows, orders, market, venue,
                 faults, history>>

SubmitLiveOrder(r) ==
  /\ Mode = "live"
  /\ At(r, "submittingOrder")
  /\ ReadyToSubmit(r)
  /\ Await(r, "submit")
  /\ UNCHANGED <<machine, portfolio, schedule, retryAlarm, rows, orders,
                 market, venue, faults, history>>

(* The exchange accepts an identifier once; a second request with it finds *)
(* the first order.                                                        *)
Accepted(c) ==
  exchange' = IF exchange[c] = "none" THEN [exchange EXCEPT ![c] = "open"]
              ELSE exchange

(* persistLiveOrderResult, which may fail; an identifier is never erased.  *)
Record(c, status, id) ==
  orders' = [orders EXCEPT ![c].status = status, ![c].idKnown = id \/ @]

(* submitLiveOrder: acknowledged with its identifier; refused before it    *)
(* was sent or by the exchange; or without a usable answer, whether or not *)
(* the request arrived.  A result that cannot be recorded is used all the  *)
(* same, except that an acknowledgement loses its identifier.              *)
SubmitAnswer(r) ==
  LET c == run[r].cycle
      m == run[r].m
  IN  /\ Answered(r, "submit")
      /\ \/ /\ Accepted(c)
            /\ Refuse(r, OrderOutcomeUnknown(m))
            /\ \/ Record(c, "ACKNOWLEDGED", TRUE) /\ UNCHANGED faults
               \/ Fault /\ UNCHANGED orders
         \/ /\ Fault
            /\ \E retryable \in BOOLEAN: Refuse(r, OrderRejected(m, retryable))
            /\ \/ Record(c, "REJECTED", FALSE)
               \/ UNCHANGED orders
            /\ UNCHANGED exchange
         \/ /\ Fault
            /\ \/ Accepted(c)
               \/ UNCHANGED exchange
            /\ Refuse(r, OrderOutcomeUnknown(m))
            /\ \/ Record(c, "OUTCOME_UNKNOWN", FALSE)
               \/ UNCHANGED orders
      /\ UNCHANGED <<portfolio, schedule, retryAlarm, rows, market, bracket,
                     history>>

(* reconcileLiveOrder: without the exchange's identifier the same request  *)
(* is replayed first; with it the order is looked up.                      *)
ReconcileLiveOrder(r) ==
  /\ Mode = "live"
  /\ At(r, "reconcilingOrder")
  /\ {"order", "risk"} \subseteq run[r].art.has
  /\ Await(r, IF orders[run[r].cycle].idKnown THEN "lookup" ELSE "replay")
  /\ UNCHANGED <<machine, portfolio, schedule, retryAlarm, rows, orders,
                 market, venue, faults, history>>

(* A replay that is refused, even by a rate limit or before it is sent,    *)
(* closes the reconciliation as a rejection.                               *)
ReplayAnswer(r) ==
  LET c == run[r].cycle
      m == run[r].m
  IN  /\ Answered(r, "replay")
      /\ \/ /\ Accepted(c)
            /\ \/ /\ Record(c, "ACKNOWLEDGED", TRUE)
                  /\ Await(r, "lookup")
                  /\ UNCHANGED <<machine, faults>>
               \/ /\ Fault
                  /\ Refuse(r, ReconciliationFailed(m, TRUE))
                  /\ UNCHANGED orders
         \/ /\ Fault
            /\ \/ /\ Record(c, "REJECTED", FALSE)
                  /\ Refuse(r, OrderReconciled(m, FALSE))
               \/ /\ \E retryable \in BOOLEAN:
                       Refuse(r, ReconciliationFailed(m, retryable))
                  /\ UNCHANGED orders
            /\ UNCHANGED exchange
         \/ /\ Fault
            /\ \/ Accepted(c)
               \/ UNCHANGED exchange
            /\ Refuse(r, ReconciliationFailed(m, TRUE))
            /\ UNCHANGED orders
      /\ UNCHANGED <<portfolio, schedule, retryAlarm, rows, market, bracket,
                     history>>

Protected(c) == exchange[c] = "filled" /\ bracket[c]

(* getCoinbaseOrder: an order that is not terminal answers nothing.        *)
StillOpen(c) == exchange[c] = "open"

(* getCoinbaseOrder and confirmCoinbaseProtectiveOrder.  Only a terminal   *)
(* order answers: one without a fill is a rejection, a filled one is       *)
(* confirmed with its bracket, and without it, or when the bracket cannot  *)
(* be checked, the account is unwound.  The last disjunct is a failure of  *)
(* the lookup, or of the record of what it found.                          *)
LookupAnswer(r) ==
  LET c == run[r].cycle
      m == run[r].m
  IN  /\ Answered(r, "lookup")
      /\ \/ /\ Protected(c)
            /\ Record(c, "CONFIRMED", TRUE)
            /\ Confirm(r, run[r].port \cup {c}, OrderReconciled(m, TRUE),
                       ReconciliationFailed(m, TRUE))
         \/ /\ exchange[c] \in {"filled", "closed"}
            /\ \/ ~Protected(c) /\ UNCHANGED faults
               \/ Fault
            /\ Await(r, "unwind")
            /\ UNCHANGED <<machine, rows, orders>>
         \/ /\ exchange[c] = "void"
            /\ Record(c, "REJECTED", TRUE)
            /\ Refuse(r, OrderReconciled(m, FALSE))
            /\ UNCHANGED <<rows, faults>>
         \/ /\ StillOpen(c)
            /\ Refuse(r, ReconciliationFailed(m, TRUE))
            /\ UNCHANGED <<rows, orders, faults>>
         \/ /\ Fault
            /\ \E retryable \in BOOLEAN:
                 Refuse(r, ReconciliationFailed(m, retryable))
            /\ UNCHANGED <<rows, orders>>
      /\ UNCHANGED <<portfolio, schedule, retryAlarm, market, venue, history>>

OrdersCancelled == exchange' = Closed(OpenOrders)  \* mutant: nothing is sold

(* executeCoinbaseKill: success means that nothing is open and nothing is  *)
(* held; a failure may have closed any part of the account.                *)
Flattened == exchange' = Closed(OpenOrders \cup Held)

PartlyFlattened ==
  \E S \in SUBSET (OpenOrders \cup Held): exchange' = Closed(S)

UnwindAnswer(r) ==
  LET c == run[r].cycle
      m == run[r].m
      failed == OrderProtectionFailed(m)
  IN  /\ Answered(r, "unwind")
      /\ \/ /\ Flattened
            /\ \/ /\ Record(c, "PROTECTION_FAILED", TRUE)
                  /\ machine' = failed
                  /\ run' = [run EXCEPT ![r].m = failed, ![r].call = "none",
                                        ![r].art = With(r, "execution"),
                                        ![r].port = {},
                                        ![r].exposureKnown = TRUE]
                  /\ current' = r
                  /\ UNCHANGED faults
               \/ /\ Fault
                  /\ Refuse(r, ReconciliationFailed(m, TRUE))
                  /\ UNCHANGED orders
         \/ /\ Fault
            /\ PartlyFlattened
            /\ \E retryable \in BOOLEAN:
                 Refuse(r, ReconciliationFailed(m, retryable))
            /\ UNCHANGED orders
      /\ UNCHANGED <<portfolio, schedule, retryAlarm, rows, market, bracket,
                     history>>

-----------------------------------------------------------------------------
(* Shutdown and the end of the cycle.                                      *)

(* cancelCurrentEffect: the grid alarm is removed first; only a live kill  *)
(* then works on the account.                                              *)
CancelCurrentEffect(r) ==
  /\ At(r, "cancelling")
  /\ \/ /\ schedule' = FALSE
        /\ IF Mode = "live" /\ run[r].m.shutdownMode = "kill-switch"
           THEN Await(r, "kill") /\ UNCHANGED machine
           ELSE Send(r, EffectCancelled(run[r].m))
        /\ UNCHANGED faults
     \/ /\ Fault
        /\ Send(r, EffectCancelFailed(run[r].m))
        /\ UNCHANGED schedule
  /\ UNCHANGED <<portfolio, retryAlarm, rows, orders, market, venue, history>>

(* applyKilledAccount writes the flat portfolio into the state.            *)
KillAnswer(r) ==
  /\ Answered(r, "kill")
  /\ \/ /\ Flattened
        /\ portfolio' = {}
        /\ Send(r, EffectCancelled(run[r].m))
        /\ UNCHANGED faults
     \/ /\ Fault
        /\ PartlyFlattened
        /\ Send(r, EffectCancelFailed(run[r].m))
        /\ UNCHANGED portfolio
  /\ UNCHANGED <<schedule, retryAlarm, rows, orders, market, bracket, history>>

(* Without artifacts there is no row to write.                             *)
PersistCycle(r) ==
  /\ At(r, "persisting")
  /\ \/ /\ rows' = IF run[r].art.loaded
                   THEN Saved(r, run[r].art, run[r].m.outcome) ELSE rows
        /\ Send(r, PersistSucceeded(run[r].m))
        /\ UNCHANGED faults
     \/ /\ run[r].art.loaded
        /\ Fault
        /\ Send(r, PersistFailed(run[r].m, TRUE))
        /\ UNCHANGED rows
  /\ UNCHANGED <<portfolio, schedule, retryAlarm, orders, market, venue,
                 history>>

(* The run has left the loop.                                              *)
Finished(r) ==
  /\ current = r
  /\ \/ run[r].call = "return"
     \/ /\ run[r].call = "none"
        /\ \/ ~IsEnabled(run[r].m)
           \/ run[r].m.phase = "waiting" /\ ~run[r].trigger

RunStep(r) ==
  \/ FireAlarm(r) \/ EnsureSchedule(r) \/ RetryNow(r) \/ PlanMarketRetry(r)
  \/ ResumeMarketRetry(r) \/ ReconcileAccount(r) \/ FetchMarketData(r)
  \/ ComputeIndicators(r) \/ EvaluateStrategies(r) \/ Allocate(r)
  \/ CheckRisk(r) \/ PersistOrderIntent(r) \/ Authorize(r)
  \/ SubmitUnprepared(r) \/ SubmitPaperOrder(r) \/ SubmitLiveOrder(r)
  \/ ReconcileNothing(r) \/ ReconcilePaperOrder(r) \/ ReconcileLiveOrder(r)
  \/ CancelCurrentEffect(r) \/ PersistCycle(r)

Answer(r) ==
  \/ AccountAnswer(r) \/ MarketAnswer(r) \/ SubmitAnswer(r) \/ ReplayAnswer(r)
  \/ LookupAnswer(r) \/ UnwindAnswer(r) \/ KillAnswer(r)

=============================================================================
