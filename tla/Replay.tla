-------------------------------- MODULE Replay --------------------------------
(***************************************************************************)
(* The backtest replay (packages/backtest/src/replay.ts): the candles of a *)
(* product are walked one by one; an order that is decided at a close is   *)
(* executed at the next open, between the open and the range that the      *)
(* protective order sees, and a confirmed regime may replace the policy of *)
(* that order.  A decision candle holds `ratio` execution candles.         *)
(*                                                                         *)
(* Prices and quantities are small integers, so that what a plan is made   *)
(* of is computed; cash is left out: how much of a purchase it pays for,   *)
(* what the strategies and the allocator propose and whether the risk      *)
(* check approves are choices.                                             *)
(***************************************************************************)
EXTENDS Integers, Sequences

CONSTANTS Prices, MaxPosition, MaxOrder, Warmup,
          Whole, MinObservations, ConfirmationCount, SlopePeriods,
          Setups  \* what a backtest can be configured with

(* A set-up: the policy of each regime, that of none (warm-up) included;   *)
(* whether the regime filter is on; decision candles, and execution        *)
(* candles in each; what slippage and fees add to the price of a purchase; *)
(* the ATRs that may be observed, one where no policy uses it.             *)
INSTANCE ProtectiveOrder
Filter == INSTANCE RegimeFilter

VARIABLES
  config,    \* the set-up
  pc,        \* what the replay does next
  index,     \* the decision candle
  at,        \* the execution candle in it
  candle,    \* its start, open, high and low
  position, entry,
  order,     \* what was decided at the last close
  actor,     \* the protective order
  active,    \* the policy in force
  atr,       \* of the last decision, 0 before
  lastTradeAt,
  filter,    \* the regime filter
  error,
  exit,      \* history: the last protective exit, and the candle it fell in
  remade,    \* history: the mode of a plan made anew in this candle
  kinds      \* history: the latest classifications

holding == <<position, entry>>
protection == <<actor, active>>
history == <<exit, remade, kinds>>
vars == <<config, pc, index, at, candle, holding, order, protection, atr,
          lastTradeAt, filter, error, history>>

Regimes == Filter!Kinds \cup {Filter!NoKind}
NoOrder == [side |-> "none", quantity |-> 0]
NoCandle == [start |-> 0, open |-> 1, high |-> 1, low |-> 1]
NoTrade == [exit |-> NoExit, candle |-> NoCandle, remade |-> "none"]

Init ==
  /\ config \in Setups
  /\ pc = "open" /\ index = 0 /\ at = 0 /\ candle = NoCandle
  /\ position = 0 /\ entry = 0 /\ order = NoOrder
  /\ actor = NoActor /\ active = config.policy[Filter!NoKind]
  /\ atr = 0 /\ lastTradeAt = None
  /\ filter = Filter!WarmingUp
  /\ error = "none"
  /\ exit = NoTrade /\ remade = "none" /\ kinds = <<>>

-----------------------------------------------------------------------------
(* Starts of the candles, from 1 on.                                       *)
StartOf(i, k) == i * config.ratio + k + 1

Stop(why) == error' = why /\ pc' = "stopped"

(* actorFailure, and executeTriggeredProtectiveExit: an exit sells all.    *)
Settle(a, next) ==
  CASE a.state = "failed" ->
         /\ Stop(a.fault)
         /\ actor' = a /\ UNCHANGED <<holding, lastTradeAt, exit>>
    [] a.state = "triggered" ->
         /\ actor' = NoActor
         /\ position' = 0 /\ entry' = 0
         /\ lastTradeAt' = candle'.start
         /\ exit' = [exit |-> a.exit, candle |-> candle', remade |-> remade']
         /\ pc' = next /\ UNCHANGED error
    [] OTHER ->
         /\ actor' = a /\ pc' = next
         /\ UNCHANGED <<holding, lastTradeAt, exit, error>>

(* The next execution candle, and its open.                                *)
Open ==
  /\ pc = "open"
  /\ \E open \in Prices:
       candle' = [start |-> StartOf(index, at), open |-> open,
                  high |-> open, low |-> open]
  /\ remade' = "none"
  /\ LET next == IF at = 0 THEN "orders" ELSE "range"
     IN IF actor = NoActor
        THEN /\ pc' = next
             /\ UNCHANGED <<holding, actor, lastTradeAt, exit, error>>
        ELSE Settle(CandleOpened(actor, candle'), next)
  /\ UNCHANGED <<config, index, at, order, active, atr, filter, kinds>>

(* capSpotOrder: as much as the cash pays for, or as there is to sell.     *)
Affordable(o) ==
  IF o.side = "BUY" THEN 0..o.quantity
  ELSE {IF o.quantity < position THEN o.quantity ELSE position}

(* executePaperOrder: the average entry bears slippage and fees.           *)
Bought(quantity) ==
  (position * entry + quantity * (candle.open + config.cost))
    \div (position + quantity)

(* A fault: a smaller position leaves the plan as it is.                   *)
UnreducedActor(remaining) == actor

ReducedActor(remaining) == PositionReduced(actor, remaining, candle.start)

(* armProtectivePosition: a position opened at the open has seen it.       *)
ArmAtOpen(quantity, price) ==
  LET armed == Arm(active, quantity, price, atr, candle.start)
  IN IF Armed(armed) THEN CandleOpened(armed, candle) ELSE armed

Buy(quantity) ==
  LET price == Bought(quantity)
      held == position + quantity
      opened == ArmAtOpen(held, price)
      next == IF actor = NoActor THEN opened
              ELSE PositionIncreased(actor, held, price, atr, candle.start)
  IN IF active = NoPolicy
     THEN /\ position' = held /\ entry' = price /\ lastTradeAt' = candle.start
          /\ pc' = "range" /\ remade' = "none"
          /\ UNCHANGED <<actor, exit, error>>
     ELSE /\ remade' = IF actor = NoActor THEN "none" ELSE active.mode
          /\ IF next.state \in {"failed", "triggered"} THEN Settle(next, "range")
             ELSE /\ position' = held /\ entry' = price
                  /\ lastTradeAt' = candle.start
                  /\ actor' = next /\ pc' = "range"
                  /\ UNCHANGED <<exit, error>>

Sell(quantity) ==
  LET remaining == position - quantity
      reduced == ReducedActor(remaining)
  IN /\ position' = remaining
     /\ entry' = IF remaining = 0 THEN 0 ELSE entry
     /\ lastTradeAt' = candle.start
     /\ CASE active = NoPolicy ->
               pc' = "range" /\ UNCHANGED <<actor, error>>
          [] active # NoPolicy /\ remaining = 0 ->
               actor' = NoActor /\ pc' = "range" /\ UNCHANGED error
          [] OTHER ->
               IF actor = NoActor THEN Stop("sequence") /\ UNCHANGED actor
               ELSE /\ actor' = reduced
                    /\ IF reduced.state = "failed" THEN Stop(reduced.fault)
                       ELSE pc' = "range" /\ UNCHANGED error
     /\ UNCHANGED exit

(* The order decided at the last close, at the first open of the candle.   *)
ExecuteOrder ==
  /\ pc = "orders"
  /\ UNCHANGED <<config, index, at, candle, active, atr, filter, kinds>>
  /\ \E quantity \in IF order = NoOrder THEN {0} ELSE Affordable(order):
       CASE quantity = 0 ->
              /\ pc' = "range"
              /\ UNCHANGED <<holding, actor, lastTradeAt, error, exit, remade>>
         [] quantity > 0 /\ order.side = "BUY" -> Buy(quantity)
         [] OTHER -> Sell(quantity) /\ remade' = "none"
  /\ order' = NoOrder

(* The range of the candle, and the next candle or the close.              *)
Range ==
  /\ pc = "range"
  /\ UNCHANGED <<config, index, order, active, atr, filter, remade, kinds>>
  /\ \E high \in {p \in Prices: p >= candle.open},
        low \in {p \in Prices: p <= candle.open}:
       candle' = [candle EXCEPT !.high = high, !.low = low]
  /\ LET last == at + 1 = config.ratio
         next == IF last THEN "close" ELSE "open"
     IN /\ at' = IF last THEN 0 ELSE at + 1
        /\ IF actor = NoActor
           THEN /\ pc' = next
                /\ UNCHANGED <<holding, actor, lastTradeAt, exit, error>>
           ELSE IF actor.state # "awaitingRange"
           THEN Stop("sequence") /\ UNCHANGED <<holding, actor, lastTradeAt, exit>>
           ELSE Settle(CandleRangeReplayed(actor, candle'), next)

-----------------------------------------------------------------------------
(* The close of a decision candle.                                         *)

NextIndex ==
  /\ index' = index + 1
  /\ pc' = IF index + 1 = config.candles THEN "finished" ELSE "open"

(* Too few candles for the indicators.                                     *)
WarmUp ==
  /\ pc = "close" /\ index < Warmup - 1
  /\ NextIndex
  /\ UNCHANGED <<config, at, candle, holding, order, protection, atr,
                 lastTradeAt, filter, error, history>>

(* A fault: the plan of the old regime stays with the position.            *)
KeepPlan(policy) == actor

(* The regime has another policy: the old plan is cancelled, and a new one *)
(* made from the position, to be used from the next candle on.             *)
Replanned(policy) ==
  IF policy = NoPolicy \/ position = 0 THEN NoActor
  ELSE Arm(policy, position, entry, atr, StartOf(index, 0))

(* A fault: the risk check at the start of the decision candle.            *)
(* resolveRiskEvaluationTimestamp                                          *)
RiskNow ==
  IF StartOf(index, 0) > lastTradeAt THEN StartOf(index, 0) ELSE lastTradeAt

(* allocateSignals, resolveSpotPermission and checkRisk: at most one order *)
(* for the product, of which a sale that exceeds the position is dropped.  *)
(* Without a confirmed regime the filter lets no signal through.           *)
Decisions(f) ==
  {NoOrder} \cup
  {o \in [side: {"BUY", "SELL"}, quantity: 1..MaxOrder]:
     /\ config.filtered => f.regime # Filter!NoKind
     /\ o.side = "SELL" => o.quantity <= position
     /\ o.side = "BUY" => position + o.quantity <= MaxPosition}

(* What the last ConfirmationCount classifications were.                   *)
Latest(kind) ==
  LET all == IF kind \in Filter!Kinds THEN Append(kinds, kind) ELSE kinds
      n == Len(all)
  IN IF n > ConfirmationCount THEN Tail(all) ELSE all

Decide(f) ==
  IF RiskNow < lastTradeAt
  THEN Stop("risk") /\ UNCHANGED <<index, order>>
  ELSE order' \in Decisions(f) /\ NextIndex /\ UNCHANGED error

(* regimeActor and the point of replan, then the decision.                 *)
Evaluate(f) ==
  LET policy == config.policy[f.regime]
      next == IF policy = active THEN actor ELSE Replanned(policy)
  IN /\ filter' = f /\ active' = policy /\ actor' = next
     /\ IF f.failed THEN Stop("regime") /\ UNCHANGED <<index, order>>
        ELSE IF next.state = "failed"
        THEN Stop(next.fault) /\ UNCHANGED <<index, order>>
        ELSE Decide(f)

(* An observation may lack an average and is then not fed to the filter.   *)
Close ==
  /\ pc = "close" /\ index >= Warmup - 1
  /\ \/ Evaluate(filter) /\ UNCHANGED kinds
     \/ /\ config.filtered
        /\ \E kind \in Filter!Classes(filter):
             /\ Evaluate(Filter!CandleClosed(filter, kind, StartOf(index, 0)))
             /\ kinds' = Latest(kind)
  /\ atr' \in IF pc' = "open" THEN config.atrs ELSE {atr}
  /\ UNCHANGED <<config, at, candle, holding, lastTradeAt, exit, remade>>

Next == Open \/ ExecuteOrder \/ Range \/ WarmUp \/ Close

Spec == Init /\ [][Next]_vars

-----------------------------------------------------------------------------
(* The replay never sends the protective order, the risk check or the      *)
(* regime filter what they refuse: no backtest ends in                     *)
(* PROTECTIVE_ORDER_FAILURE, RISK_FAILURE or REGIME_FILTER_FAILURE, but    *)
(* for a plan in multiples of an ATR that has no valid levels.             *)
NeverOutOfSequence ==
  error # "none" => error = "plan" /\ active.mode = "ATR"

(* Before a candle opens, a position under a policy has an armed plan of   *)
(* exactly its quantity and policy, and nothing else has one (models/      *)
(* protective-order.md, invariant 2; models/regime-exit.md, RE2 and RE8);  *)
(* and nothing reaches a machine out of its sequence.                      *)
PositionIsGuarded ==
  /\ pc = "open" =>
       IF position > 0 /\ active # NoPolicy
       THEN /\ actor.state = "awaitingOpen"
            /\ actor.plan.quantity = position /\ actor.policy = active
       ELSE actor = NoActor
  /\ NeverOutOfSequence

(* A protective exit is executed at a price the candle traded at.  A plan  *)
(* in multiples of the ATR that an increase makes anew after the open may  *)
(* have its levels behind the open, and its exit is outside of the range.  *)
ExitIsTraded ==
  \/ exit.remade = "ATR"
  \/ exit.exit = NoExit
  \/ exit.exit.price \in exit.candle.low..exit.candle.high

(* The regime changes when, and only when, the last ConfirmationCount      *)
(* classifications agree on another one, after MinObservations candles     *)
(* (models/regime-filter.md, invariants 3 and 4).                          *)
Confirmed(kind) ==
  /\ Len(kinds') = ConfirmationCount
  /\ \A i \in DOMAIN kinds': kinds'[i] = kind
  /\ filter'.count >= MinObservations

RegimeIsConfirmed ==
  [][/\ filter'.regime # filter.regime => Confirmed(filter'.regime)
     /\ \A kind \in Filter!Kinds: Confirmed(kind) => filter'.regime = kind]_vars
=============================================================================
