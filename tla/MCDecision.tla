----------------------------- MODULE MCDecision -----------------------------
(* What a decision is made of, live and replayed: the machine of a cycle,  *)
(* the market it is fed, the indicators, the trend signals beside it, what *)
(* an operator is told of it, and the two backtests.  They share no state  *)
(* here: one part is explored, the others stay at their start.             *)
EXTENDS TradingCycle, Integers, Sequences

CONSTANTS
  Parts,  \* the parts explored
  Timeframe, MaxStaleness, Interval, Offset, RetryDelays, MaxDelay, MaxRearms,
  RetryLimit, RetryAfters, RequestTimeout, MaxTime,        \* MarketFeed
  Grids, Tasks, Paths, LastMinute, Horizon, MinCandles, MaxRetries,
  MaxBatchCandles, Settled, Retryable,                     \* AITrend
  Telemetry, Floor, Ceiling, DedupeWindow, PostTimeout, MaxAttempts,
  LastInstant, MaxRecords, MaxProcesses,                   \* notifications
  Prices, MaxPosition, MaxOrder, Warmup, Whole, MinObservations,
  ConfirmationCount, SlopePeriods, Setups                  \* Replay

VARIABLES
  part,
  now, published, windows, reference, phase, triggeredAt, attempts, retryAfter,
  lastDecision, marketRetry, called, pendingAlarm, alarms, gridDue, lastMissed,
  decided, reports, triggered, elapsed,                    \* MarketFeed
  config, candles, folds, snapshot,                        \* Indicators
  setting, minute, rows, tasks, batch,                     \* AITrend
  clock, process, lastSentAt, sent, posted, emitted,       \* notifications
  setup, pc, bar, at, candle, position, entry, order, actor, active, atr,
  lastExitAt, filter, failure, exit, remade, kinds,        \* Replay
  broker, index, stage, price, cash, quantity, spent, lastTradeAt, window,
  previous, orders, decisions, error                       \* PortfolioReplay

-----------------------------------------------------------------------------
(* The machine: one retry of every kind, and exactly the steps that a full *)
(* cycle can cost.                                                         *)
OneRetry == [k \in AttemptKinds |-> 1]
TightBudget == 14 + 15
TwoCandles == {1, 2}

(* The feed: candles of four seconds, decisions in three, wakes half a     *)
(* second after the close, two retries.                                    *)
Delays == <<2, 4>>
Feed == INSTANCE MarketFeed
feedVars ==
  <<now, published, windows, reference, phase, triggeredAt, attempts, retryAfter,
    lastDecision, marketRetry, called, pendingAlarm, alarms, gridDue, lastMissed,
    decided, reports, triggered, elapsed>>

(* The indicators: three candles that differ in all they are computed of,  *)
(* and periods of which one at a time exceeds the others.                  *)
SomeCandles == {[high |-> 5, low |-> 3, close |-> 4, volume |-> 1],
                [high |-> 8, low |-> 4, close |-> 7, volume |-> 0],
                [high |-> 4, low |-> 1, close |-> 1, volume |-> 2]}
Least == [rsi |-> 1, fast |-> 1, slow |-> 2, atr |-> 1, volatility |-> 2,
          momentum |-> 1, returns |-> <<1>>, vwap |-> 1, relativeVolume |-> 1,
          volumeTrend |-> 2, trendStrength |-> 1,
          signalFast |-> 0, signalSlow |-> 0]
Periods ==
  {[Least EXCEPT ![p] = 4] :
     p \in {"rsi", "slow", "atr", "volatility", "momentum", "vwap",
            "relativeVolume", "volumeTrend"}}
  \cup {Least, [Least EXCEPT !.trendStrength = 2],
        [Least EXCEPT !.returns = <<1, 4>>],
        [Least EXCEPT !.signalFast = 2, !.signalSlow = 4]}
Inputs == INSTANCE Indicators WITH
  Candle <- SomeCandles, Config <- Periods, MaxCandles <- 6
inputVars == <<config, candles, folds, snapshot>>

(* The trend signals: a price that rises, falls and stays, on two grids.   *)
PricePaths == {<<10, 12, 11, 14, 14, 10>>}
Trend == INSTANCE AITrend WITH MaxTime <- LastMinute
trendVars == <<setting, minute, rows, tasks, batch>>

(* The notifications: records of one class and of several.              *)
Cycle(outcome, issue, pnl, exposure) ==
  [kind |-> "cycle", outcome |-> outcome, error |-> issue, pnl |-> pnl,
   exposure |-> exposure]
Records ==
  {Cycle("FAILED", "ORDER_OUTCOME_UNKNOWN", -1, 0),
   Cycle("COMPLETED", "none", 0, 3),
   [Cycle("FAILED", "none", 0, 0) EXCEPT !.kind = "decision"]}
LossFloor == -1
Notices == INSTANCE OperatorNotifications WITH now <- clock
noticeVars == <<clock, process, lastSentAt, sent, posted, emitted>>

-----------------------------------------------------------------------------
(* The backtest of one product: a fixed and a trailing stop, with costs    *)
(* that may use it up; multiples of the ATR, which may be zero; and a      *)
(* policy per regime.                                                      *)
Levels == INSTANCE ProtectiveOrder
Regimes == {"none", "BULLISH", "BEARISH", "RANGE"}
Always(policy) == [r \in Regimes |-> policy]
Fixed == Levels!Policy("FIXED", 1, 2)
Trailing == Levels!Policy("TRAILING", 1, Levels!None)
PerRegime == [r \in Regimes |-> CASE r = "BULLISH" -> Trailing
                                  [] r = "RANGE" -> Levels!NoPolicy
                                  [] OTHER -> Fixed]
Backtests ==
  [policy : {Always(Fixed)}, filtered : {FALSE}, candles : {5}, ratio : {1, 2},
   cost : {0, 2}, atrs : {{1}}]
  \cup
  [policy : {Always(Trailing)}, filtered : {FALSE}, candles : {5}, ratio : {2},
   cost : {0}, atrs : {{1}}]
  \cup
  [policy : {Always(Levels!Policy("ATR", 1, 1))}, filtered : {FALSE},
   candles : {5}, ratio : {1}, cost : {0}, atrs : {{0, 1, 5}}]
  \cup
  [policy : {PerRegime}, filtered : {TRUE}, candles : {8}, ratio : {1},
   cost : {0}, atrs : {{1}}]
Backtest == INSTANCE Replay WITH
  config <- setup, index <- bar, lastTradeAt <- lastExitAt, error <- failure
backtestVars ==
  <<setup, pc, bar, at, candle, position, entry, order, actor, active, atr,
    lastExitAt, filter, failure, exit, remade, kinds>>

(* The backtest of a portfolio: two products, one with a pair of strategies*)
(* and one with three, that buy, sell, or hold; whole prices and amounts.  *)
Neutral == [ema |-> <<100, 100>>, signal |-> <<>>, rsi |-> 50, funding |-> <<>>,
            close |-> 2, highest |-> 2, lowest |-> 2]
Observations ==
  <<{Neutral, [Neutral EXCEPT !.ema = <<101, 100>>],
     [Neutral EXCEPT !.signal = <<2, 1>>, !.rsi = 80],
     [Neutral EXCEPT !.ema = <<99, 100>>, !.signal = <<1, 2>>]},
    {Neutral, [Neutral EXCEPT !.ema = <<102, 100>>],
     [Neutral EXCEPT !.ema = <<98, 100>>, !.funding = <<1>>],
     [Neutral EXCEPT !.close = 3], [Neutral EXCEPT !.close = 1]}>>
Strategies == <<{"ema-cross", "rsi-reversion"},
                {"ema-band-trend", "funding-trend", "breakout"}>>
Weights == [s \in Strategies[1] \cup Strategies[2] |->
              IF s \in {"ema-cross", "breakout"} THEN 2 ELSE 1]
Policies == INSTANCE PortfolioReplay WITH
  Products <- <<1, 2>>, Registry <- Strategies, Observation <- Observations,
  Prices <- {2, 4}, Weight <- Weights,
  Brokers <- {[slippage |-> 0, fee |-> 0], [slippage |-> 1, fee |-> 1]},
  InitialCapital <- 16, MaxDecisionNotional <- 8, MinNetQuantity <- 0,
  Risk <- [maxDailyLoss |-> 2, cooldown |-> 1, maxOrderNotional |-> 6,
           maxPositionNotional |-> 7],
  PortfolioRisk <- [maxGrossExposure |-> 6, maxDailyLoss |-> 3],
  Warmup <- 2, NumCandles <- 4, CandlesPerDay <- 2
policyVars ==
  <<broker, index, stage, price, cash, quantity, spent, lastTradeAt, window,
    previous, orders, decisions, error>>

-----------------------------------------------------------------------------
(* The delays, distances and windows are numbers; a retry may be rearmed,  *)
(* a class is told again only later.                                       *)
ASSUME FeedAssumption ==
  /\ Timeframe \in Nat \ {0} /\ MaxTime \in Nat /\ Timeframe <= MaxTime
  /\ {MaxStaleness, Interval, Offset, MaxDelay, RetryLimit, RequestTimeout}
       \subseteq Nat
  /\ Interval > 0 /\ MaxRearms \in Nat \ {0}
  /\ RetryDelays \in Seq(Nat) /\ RetryDelays # <<>>
  /\ RetryAfters \subseteq Nat

ASSUME TrendAssumption == Grids \subseteq Nat \ {0} /\ Horizon \in Nat

ASSUME NoticesAssumption == DedupeWindow \in Nat \ {0}

(* A policy of a backtest has distances that its prices can tell apart     *)
(* (isValidProtectiveExitPolicy), or is in multiples of the ATR.           *)
Distance(n) == n \in Nat /\ \A p \in Prices: p * n >= Whole
Usable(policy) ==
  \/ policy = Levels!NoPolicy
  \/ policy \in [mode: {"ATR"}, stop: Nat, take: Int]
  \/ /\ policy \in [mode: {"FIXED", "TRAILING"}, stop: 0 .. Whole - 1, take: Int]
     /\ Distance(policy.stop)
     /\ policy.take = Levels!None \/ Distance(policy.take)

ASSUME ReplayAssumption ==
  /\ Prices \subseteq Nat \ {0}
  /\ {Whole, MinObservations, ConfirmationCount} \subseteq Nat \ {0}
  /\ {MaxPosition, MaxOrder, Warmup, SlopePeriods} \subseteq Nat
  /\ \A s \in Setups:
       /\ s.ratio \in Nat \ {0} /\ s.cost \in Nat /\ s.atrs \subseteq Nat
       /\ \A r \in Regimes: Usable(s.policy[r])

-----------------------------------------------------------------------------
(* What is not explored has one start.                                     *)
FeedRests == /\ phase = "waiting" /\ published = 0 /\ reference = Feed!None
             /\ lastDecision = 0
TrendRests == setting.grid = 1 /\ ~setting.v2
BacktestRests == setup.ratio = 1 /\ setup.cost = 0 /\ setup.policy = Always(Fixed)

DecisionInit ==
  /\ part \in Parts
  /\ Init
  /\ Feed!Init /\ (part = "feed" \/ FeedRests)
  /\ Inputs!Init /\ (part = "inputs" \/ config = Least)
  /\ Notices!Init
  /\ Trend!Init /\ (part = "trend" \/ TrendRests)
  /\ Backtest!Init /\ (part = "backtest" \/ BacktestRests)
  /\ Policies!Init /\ (part = "policies" \/ broker.fee = 0)

DecisionNext ==
  \/ /\ part = "machine" /\ Next
     /\ UNCHANGED <<part, feedVars, inputVars, trendVars, noticeVars,
                    backtestVars, policyVars>>
  \/ /\ part = "feed" /\ Feed!Next
     /\ UNCHANGED <<part, vars, inputVars, trendVars, noticeVars,
                    backtestVars, policyVars>>
  \/ /\ part = "inputs" /\ Inputs!Next
     /\ UNCHANGED <<part, vars, feedVars, trendVars, noticeVars, backtestVars,
                    policyVars>>
  \/ /\ part = "trend" /\ Trend!Next
     /\ UNCHANGED <<part, vars, feedVars, inputVars, noticeVars, backtestVars,
                    policyVars>>
  \/ /\ part = "notices" /\ Notices!Next
     /\ UNCHANGED <<part, vars, feedVars, inputVars, trendVars, backtestVars,
                    policyVars>>
  \/ /\ part = "backtest" /\ Backtest!Next
     /\ UNCHANGED <<part, vars, feedVars, inputVars, trendVars, noticeVars,
                    policyVars>>
  \/ /\ part = "policies" /\ Policies!Next
     /\ UNCHANGED <<part, vars, feedVars, inputVars, trendVars, noticeVars,
                    backtestVars>>

decisionVars ==
  <<part, vars, feedVars, inputVars, trendVars, noticeVars, backtestVars,
    policyVars>>

DecisionSpec == DecisionInit /\ [][DecisionNext]_decisionVars

-----------------------------------------------------------------------------
(* MarketFeed: a planned retry has an alarm; no candle is both missed and  *)
(* decided; a missed decision is reported.                                 *)
NoStrandedRetry == Feed!NoStrandedRetry
NeverBoth == Feed!NeverBoth
MissedIsReported == Feed!MissedIsReported

(* Indicators: what is prepared candle by candle is what is computed.      *)
PreparedIsComputed == Inputs!PreparedIsComputed

(* AITrend: no signal looks ahead, and what was recorded stands.           *)
NoLookahead == Trend!NoLookahead
PastStands == Trend!PastStands

(* OperatorNotifications: an operator is told of a class once a window.    *)
ToldOncePerWindow == Notices!ToldOncePerWindow

(* Replay: a position is guarded, left at a traded price, under a regime   *)
(* that was confirmed.                                                     *)
PositionIsGuarded == Backtest!PositionIsGuarded
ExitIsTraded == Backtest!ExitIsTraded
RegimeIsConfirmed == Backtest!RegimeIsConfirmed

(* PortfolioReplay: orders admitted together stay within the cap.          *)
WithinCap == Policies!WithinCap
=============================================================================
