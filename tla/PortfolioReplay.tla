--------------------------- MODULE PortfolioReplay ---------------------------
(***************************************************************************)
(* The decision core of every policy, from the indicators to the paper     *)
(* broker, as the backtest of several products drives it: what is decided  *)
(* at a close is executed at the next open, at another price, one product  *)
(* after the other, from one cash account.                                 *)
(*                                                                         *)
(* Prices, quantities and amounts are whole; a quotient is rounded down, a *)
(* slippage and a fee are amounts per unit.                                *)
(***************************************************************************)
EXTENDS Integers, Sequences, SequencesExt, FiniteSetsExt

CONSTANTS Products,        \* sequence of the products, sorted
          Registry,        \* product -> its strategies
          Observation,     \* product -> indicators that may be computed
          Prices,
          Weight,          \* strategy -> suggestedSize * confidence
          Brokers,         \* records [slippage, fee]
          InitialCapital, MaxDecisionNotional, MinNetQuantity,
          Risk,            \* checkRisk's limits, the same for every product
          PortfolioRisk,   \* [maxGrossExposure, maxDailyLoss]
          Warmup, NumCandles, CandlesPerDay

VARIABLES broker, index, stage, price,
          cash, quantity,
          spent,          \* net amount a product has cost so far
          lastTradeAt, window, previous,
          orders,         \* allocated at the last decision
          decisions,      \* evaluatePortfolioRisk's outcomes
          error

account == <<cash, quantity, spent, lastTradeAt>>
decision == <<window, previous, orders, decisions>>
vars == <<broker, index, stage, price, account, decision, error>>

Product == ToSet(Products)
Null == -1
NoOrder == [side |-> "HOLD", quantity |-> 0]
SumOver(f) == FoldLeft(LAMBDA total, p : total + f[p], 0, Products)

-----------------------------------------------------------------------------
(* The strategies.                                                         *)

Side(buy, sell) == IF buy THEN "BUY" ELSE IF sell THEN "SELL" ELSE "HOLD"

(* emaPair: the signal pair, when both snapshots have one.                 *)
Pair(o, other) == IF o.signal # << >> /\ other.signal # << >> THEN o.signal ELSE o.ema

EmaCross(o, before) ==
  IF before = << >> THEN "HOLD"
  ELSE LET was == Pair(before[1], o)
           is == Pair(o, before[1])
       IN  Side(was[1] <= was[2] /\ is[1] > is[2],
                was[1] >= was[2] /\ is[1] < is[2])

(* A band of one hundredth around the slow average.                        *)
EmaBandTrend(o, before) ==
  LET Above(ema) == ema[1] * 100 > ema[2] * 101
      Under(ema) == ema[1] * 100 < ema[2] * 99
  IN  IF before = << >> THEN "HOLD"
      ELSE Side(~Above(before[1].ema) /\ Above(o.ema),
                ~Under(before[1].ema) /\ Under(o.ema))

RsiReversion(o) == Side(o.rsi < 30, o.rsi > 70)

Breakout(o) == Side(o.close > o.highest, o.close < o.lowest)

(* funding: the rolling average over its threshold, none while warming up. *)
FundingTrend(o) ==
  IF o.funding = << >> THEN "HOLD"
  ELSE Side(o.ema[1] > o.ema[2] /\ o.funding[1] <= -1,
            o.ema[1] < o.ema[2] /\ o.funding[1] >= 1)

Evaluate(strategy, o, before) ==
  CASE strategy = "ema-cross" -> EmaCross(o, before)
    [] strategy = "ema-band-trend" -> EmaBandTrend(o, before)
    [] strategy = "rsi-reversion" -> RsiReversion(o)
    [] strategy = "breakout" -> Breakout(o)
    [] strategy = "funding-trend" -> FundingTrend(o)

(* evaluateAll                                                             *)
Signals(p, o) ==
  {[strategy |-> s, side |-> Evaluate(s, o, previous[p])] : s \in Registry[p]}

-----------------------------------------------------------------------------
(* The allocator.                                                          *)

Net(signals) ==
  LET For(side) == MapThenSumSet(LAMBDA s : Weight[s.strategy],
                                 {s \in signals : s.side = side})
  IN  For("BUY") - For("SELL")

SideOf(net) == IF net > 0 THEN "BUY" ELSE "SELL"

AllocateOne(acc, p, signals, marketPrice) ==
  LET net == Net(signals)
      size == Min({Max({net, -net}), acc.remaining \div marketPrice})
      contributors == {s \in signals : s.side = SideOf(net)}
  IN  IF size <= MinNetQuantity THEN acc
      ELSE [remaining |-> acc.remaining - size * marketPrice,
            failed |-> acc.failed \/ contributors = {},
            orders |-> [acc.orders EXCEPT ![p] =
                          [side |-> SideOf(net), quantity |-> size]]]

AllocateSignals(signals, marketPrices) ==
  FoldLeft(LAMBDA acc, p : AllocateOne(acc, p, signals[p], marketPrices[p]),
           [remaining |-> Min({Max({0, cash}), MaxDecisionNotional}),
            failed |-> FALSE, orders |-> [p \in Product |-> NoOrder]],
           Products)

-----------------------------------------------------------------------------
(* The risk.                                                               *)

UtcDay(i) == i \div CandlesPerDay

(* productPnlProxy: realized and unrealized are what the product is worth  *)
(* less what it cost.                                                      *)
PnlProxy(p, marketPrice) == quantity[p] * marketPrice - spent[p]

ResolveDailyRiskWindow(current, now, marked) ==
  IF current = << >> \/ current[1].day # UtcDay(now)
  THEN [day |-> UtcDay(now), opening |-> marked] ELSE current[1]

Signed(order) == IF order.side = "BUY" THEN order.quantity ELSE -order.quantity

EvaluatedAt(p) == Max({index, lastTradeAt[p]})

CheckRisk(p, order, marketPrice, dailyPnl) ==
  LET projected == quantity[p] + Signed(order)
  IN  CASE dailyPnl <= -Risk.maxDailyLoss -> "DAILY_LOSS_LIMIT"
        [] /\ dailyPnl > -Risk.maxDailyLoss
           /\ lastTradeAt[p] # Null /\ EvaluatedAt(p) - lastTradeAt[p] < Risk.cooldown
           -> "COOLDOWN_ACTIVE"
        [] OTHER ->
             IF order.quantity * marketPrice > Risk.maxOrderNotional
             THEN "ORDER_NOTIONAL_LIMIT"
             ELSE IF projected < 0 THEN "SPOT_SHORT_FORBIDDEN"
             ELSE IF projected * marketPrice > Risk.maxPositionNotional
             THEN "POSITION_NOTIONAL_LIMIT"
             ELSE "APPROVED"

AdmitAlone(acc, p, order, marketPrice, dailyPnl) ==   \* variant: not accumulated
  LET delta == Signed(order) * marketPrice
      local == CheckRisk(p, order, marketPrice, dailyPnl)
      status == IF order = NoOrder THEN "NO_ORDER"
                ELSE IF local # "APPROVED" THEN local
                ELSE IF acc.gross + delta > PortfolioRisk.maxGrossExposure
                THEN "CONSOLIDATED_GROSS_EXPOSURE_LIMIT" ELSE "APPROVED"
  IN  [gross |-> acc.gross, decisions |-> [acc.decisions EXCEPT ![p] = status]]

(* One product of evaluatePortfolioRisk's loop.                            *)
Admit(acc, p, order, marketPrice, dailyPnl) ==
  LET delta == Signed(order) * marketPrice
      local == CheckRisk(p, order, marketPrice, dailyPnl)
      status == IF order = NoOrder THEN "NO_ORDER"
                ELSE IF local # "APPROVED" THEN local
                ELSE IF acc.gross + delta > PortfolioRisk.maxGrossExposure
                THEN "CONSOLIDATED_GROSS_EXPOSURE_LIMIT" ELSE "APPROVED"
  IN  [gross |-> IF status = "APPROVED" THEN acc.gross + delta ELSE acc.gross,
       decisions |-> [acc.decisions EXCEPT ![p] = status]]

EvaluatePortfolioRisk(allocated, marketPrices, dailyPnl) ==
  IF SumOver(dailyPnl) <= -PortfolioRisk.maxDailyLoss
  THEN [p \in Product |-> "CONSOLIDATED_DAILY_LOSS_LIMIT"]
  ELSE FoldLeft(LAMBDA acc, p :
                  Admit(acc, p, allocated[p], marketPrices[p], dailyPnl[p]),
                [gross |-> SumOver([p \in Product |-> quantity[p] * marketPrices[p]]),
                 decisions |-> [p \in Product |-> "NO_ORDER"]],
                Products).decisions

-----------------------------------------------------------------------------
(* The paper broker.                                                       *)

ExecutionPrice(order, open) ==
  open + (IF order.side = "BUY" THEN broker.slippage ELSE -broker.slippage)

CapSpotOrder(order, open, acc, held) ==
  LET available == IF order.side = "BUY"
                   THEN acc.cash \div (ExecutionPrice(order, open) + broker.fee)
                   ELSE held
  IN  [order EXCEPT !.quantity = Min({@, available})]

(* executePaperOrder, on the cash that the products before it left.        *)
ExecutePaperOrder(acc, p, order, open) ==
  LET amount == ExecutionPrice(order, open) * Signed(order)
                  + broker.fee * order.quantity
  IN  [acc EXCEPT !.cash = @ - amount, !.spent[p] = @ + amount,
                  !.quantity[p] = @ + Signed(order),
                  !.traded = @ \cup {p},
                  !.error = IF order.side = "BUY" /\ amount > acc.cash
                            THEN "INSUFFICIENT_CASH"
                            ELSE IF -Signed(order) > acc.quantity[p]
                            THEN "INSUFFICIENT_POSITION" ELSE @]

(* One pending order: the permission, the cap, the execution.              *)
Execute(acc, p, open) ==
  LET capped == CapSpotOrder(orders[p], open, acc, acc.quantity[p])
  IN  IF \/ decisions[p] # "APPROVED" \/ acc.error # "none"
         \/ acc.quantity[p] + Signed(orders[p]) < 0
         \/ capped.quantity <= MinNetQuantity
      THEN acc ELSE ExecutePaperOrder(acc, p, capped, open)

-----------------------------------------------------------------------------
Init ==
  /\ broker \in Brokers
  /\ index = 0 /\ stage = "open" /\ price = [p \in Product |-> Null]
  /\ cash = InitialCapital
  /\ quantity = [p \in Product |-> 0] /\ spent = [p \in Product |-> 0]
  /\ lastTradeAt = [p \in Product |-> Null]
  /\ window = [p \in Product |-> << >>] /\ previous = [p \in Product |-> << >>]
  /\ orders = [p \in Product |-> NoOrder]
  /\ decisions = [p \in Product |-> "NO_ORDER"]
  /\ error = "none"

(* The open of a candle: the orders of the last close are executed.        *)
Open ==
  /\ stage = "open" /\ index < NumCandles
  /\ \E opens \in [Product -> Prices] :
       LET after == FoldLeft(LAMBDA acc, p : Execute(acc, p, opens[p]),
                             [cash |-> cash, quantity |-> quantity,
                              spent |-> spent, traded |-> {}, error |-> error],
                             Products)
       IN  /\ cash' = after.cash /\ quantity' = after.quantity
           /\ spent' = after.spent
           /\ lastTradeAt' = [p \in Product |-> IF p \in after.traded
                                                THEN index ELSE lastTradeAt[p]]
           /\ error' = after.error
           /\ stage' = IF after.error = "none" THEN "close" ELSE "failed"
  /\ UNCHANGED <<broker, index, price, decision>>

(* The close of a candle before the indicators are warm.                   *)
WarmUp ==
  /\ stage = "close" /\ index < Warmup - 1
  /\ index' = index + 1 /\ stage' = "open"
  /\ UNCHANGED <<broker, price, account, decision, error>>

(* The close of a candle: signals, allocation, windows and risk.           *)
Decide ==
  /\ stage = "close" /\ index >= Warmup - 1
  /\ price' \in [Product -> Prices]
  /\ \E o \in [Product -> UNION {Observation[p] : p \in Product}] :
       /\ \A p \in Product : o[p] \in Observation[p]
       /\ LET allocation ==
                AllocateSignals([p \in Product |-> Signals(p, o[p])], price')
              pnl == [p \in Product |-> PnlProxy(p, price'[p])]
              windows == [p \in Product |->
                            ResolveDailyRiskWindow(window[p], index, pnl[p])]
              dailyPnl == [p \in Product |-> pnl[p] - windows[p].opening]
          IN  /\ window' = [p \in Product |-> <<windows[p]>>]
              /\ previous' = [p \in Product |-> <<o[p]>>]
              /\ orders' = allocation.orders
              /\ decisions' = EvaluatePortfolioRisk(allocation.orders, price', dailyPnl)
              /\ error' = IF allocation.failed THEN "EMPTY_STRATEGIES"
                          ELSE IF \E p \in Product : lastTradeAt[p] > EvaluatedAt(p)
                          THEN "INVALID_RISK_SNAPSHOT" ELSE "none"
              /\ stage' = IF error' = "none" THEN "open" ELSE "failed"
  /\ index' = index + 1
  /\ UNCHANGED <<broker, account>>

Next == Open \/ WarmUp \/ Decide

Spec == Init /\ [][Next]_vars

-----------------------------------------------------------------------------
Gross(q, prices) == SumOver([p \in Product |-> q[p] * prices[p]])

(* A replay of valid series ends: whatever the gap between a close and the *)
(* next open, no order that was approved is refused by the broker, and     *)
(* neither the allocation nor the risk check fails.                        *)
ReplayNeverFails == error = "none"

(* What is executed at an open never brings the positions over the         *)
(* consolidated cap that was evaluated at the close before it, however the *)
(* orders of several products are admitted, dropped or capped              *)
(* (multi-product-replay.ts:253-316, portfolio.ts:140-186), and is never   *)
(* refused.                                                                *)
WithinCap ==
  /\ [][stage = "open" /\ quantity' # quantity
          => Gross(quantity', price) <= PortfolioRisk.maxGrossExposure]_vars
  /\ []ReplayNeverFails

(* models/multi-product-portfolio.md:69-71: an order that does not add to  *)
(* the exposure is never blocked by the consolidated cap.                  *)
DeriskingIsNeverBlocked ==
  \A p \in Product :
    orders[p].side = "SELL" => decisions[p] # "CONSOLIDATED_GROSS_EXPOSURE_LIMIT"
=============================================================================
