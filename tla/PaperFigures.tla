---------------------------- MODULE PaperFigures ----------------------------
(***************************************************************************)
(* The figures of a paper agent: what its cycles store (dodash_cycles and  *)
(* dodash_orders, the runtime of each product), what /state, /portfolio    *)
(* and /pnl make of it, and what the page reads of their answers.  An agent*)
(* trades one product, or a portfolio of several whose cycles share the    *)
(* two tables.  Quantities are whole, one unit is bought at a time.        *)
(***************************************************************************)
EXTENDS Valuation, FiniteSets, SequencesExt

CONSTANTS Inputs,      \* configurations submitted to start
          Capital,     \* initialCapital
          Fee,         \* of a fill
          Slippage,    \* of a fill, in price
          Timeframe,   \* a candle
          CandlePaths, \* price of each product at the close of each candle
          MaxSlots,    \* MAX_AGENT_PRODUCTS
          Limit,       \* cycles of a history
          MaxNow, MaxCycles, MaxShared, MaxStarts \* bounds: instants, cycles,
                       \* cycles when a portfolio runs, starts

VARIABLES
  prices,  \* the path the closes follow
  instant, \* Date.now()
  starts,  \* starts so far
  agent,   \* the stored configuration and its runtime, by product
  flights, \* the cycle in flight of each product
  ledger   \* dodash_cycles with the order of each cycle, oldest first

figureVars == <<prices, instant, starts, agent, flights, ledger>>

SingleProduct(input) == Len(input.products) = 1

(* parseMultiProductAgentConfiguration, or parseAgentConfiguration for one *)
(* product: sorted slots, each once, under limits from two on.             *)
Slots(input) == SetToSortSeq(Range(input.products), <)
Configured(input) ==
  /\ Len(input.products) \in 1..MaxSlots
  /\ Cardinality(Range(input.products)) = Len(input.products)
  /\ ~SingleProduct(input) => input.limited
Configuration(input) == [products |-> Slots(input), limited |-> input.limited]

Empty == [cash |-> Capital, quantity |-> 0, cost |-> 0]
InitialRuntime ==
  [account |-> Empty, mark |-> None, risk |-> NoRisk, last |-> None, phase |-> "waiting"]
Unstarted == [configuration |-> None, enabled |-> FALSE, runtime |-> <<>>]
Products == DOMAIN agent.runtime
NoFlight == [phase |-> "none"]

(* A paper agent stored before the field lastPaperMark existed may hold a  *)
(* position without a mark.                                                *)
Legacy(input) ==
  LET p == input.products[1]
  IN [configuration |-> Some(Configuration(input)), enabled |-> TRUE,
      runtime |-> p :> [InitialRuntime EXCEPT
        !.account = [cash |-> Capital, quantity |-> 1, cost |-> 10]]]

Init ==
  /\ prices \in CandlePaths
  /\ instant = Timeframe
  /\ agent \in {Unstarted} \cup
       {Legacy(i) : i \in {j \in Inputs : Configured(j) /\ SingleProduct(j)}}
  /\ starts = IF agent = Unstarted THEN 0 ELSE 1
  /\ flights = [p \in Products |-> NoFlight]
  /\ ledger = <<>>

Idle == \A p \in Products : flights[p].phase = "none"

(* startAgent and startPortfolioAgent of a paper agent that is not running:*)
(* fresh accounts, over the tables of what ran before.                     *)
Start(input) ==
  /\ starts < MaxStarts
  /\ ~agent.enabled /\ Idle /\ Configured(input)
  /\ starts' = starts + 1
  /\ agent' = [configuration |-> Some(Configuration(input)), enabled |-> TRUE,
               runtime |-> [p \in Range(Slots(input)) |-> InitialRuntime]]
  /\ flights' = [p \in Range(Slots(input)) |-> NoFlight]
  /\ UNCHANGED <<prices, instant, ledger>>

(* A stop between two cycles.                                              *)
Halt ==
  /\ agent.enabled /\ Idle
  /\ agent' = [agent EXCEPT !.enabled = FALSE,
       !.runtime = [p \in Products |-> [@[p] EXCEPT
                       !.phase = IF @ = "waiting" THEN "stopped" ELSE @]]]
  /\ UNCHANGED <<prices, instant, starts, flights, ledger>>

(* resolveRestoredPortfolioSession, after an eviction between two cycles:  *)
(* the stored configuration is parsed again, and the marks once more; a    *)
(* session that is refused is forgotten and the agent disabled.            *)
Restorable ==
  LET stored == The(agent.configuration)
  IN /\ Configured(stored) /\ stored.limited /\ ~SingleProduct(stored)
     /\ Slots(stored) = stored.products
     /\ Range(stored.products) = Products
RestoredRuntime(p) ==
  [agent.runtime[p] EXCEPT !.mark = Normalized(@)]
Restored ==
  IF SingleProduct(The(agent.configuration)) \/ Restorable
  THEN [agent EXCEPT !.runtime = [p \in Products |-> RestoredRuntime(p)]]
  ELSE Unstarted
Restart ==
  /\ agent.configuration # None /\ Idle
  /\ agent' = Restored
  /\ flights' = [p \in DOMAIN agent'.runtime |-> NoFlight]
  /\ UNCHANGED <<prices, instant, starts, ledger>>

Elapse ==
  /\ instant < MaxNow /\ instant' = instant + 1
  /\ UNCHANGED <<prices, starts, agent, flights, ledger>>

(* The series of a cycle ends with the last candle closed when it was      *)
(* triggered, however late it is fetched.                                  *)
CandleOf(at) == at \div Timeframe
MarkOf(p, at) ==
  [price |-> prices[p][CandleOf(at)], closedAt |-> CandleOf(at) * Timeframe]

(* The artifacts of a cycle, its order and two facts no answer shows: the  *)
(* account of the product before the cycle and its mark.                   *)
NoTrade == [side |-> "none", fill |-> 0, quantity |-> 0, after |-> Empty]
RowOf(p, at) ==
  [product |-> p, at |-> at, done |-> None, snapshot |-> None,
   trade |-> NoTrade, before |-> agent.runtime[p].account,
   accepted |-> agent.runtime[p].mark]

(* Rows change where they are: a cycle knows the place of its row.         *)
SetRow(p, row) == ledger' = [ledger EXCEPT ![flights[p].row] = row]
Row(p) == ledger[flights[p].row]
MoveTo(p, phase) == flights' = [flights EXCEPT ![p].phase = phase]

(* runCurrent and runProduct at an alarm: the cycle of a product.  Two     *)
(* alarms of a product are never at the same instant.                      *)
Trigger(p) ==
  /\ agent.enabled /\ agent.runtime[p].phase = "waiting"
  /\ flights[p].phase = "none"
  /\ Len(ledger) < IF Cardinality(Products) = 1 THEN MaxCycles ELSE MaxShared
  /\ \A i \in DOMAIN ledger : ledger[i].product = p => ledger[i].at < instant
  /\ ledger' = Append(ledger, RowOf(p, instant))
  /\ flights' = [flights EXCEPT ![p] = [phase |-> "fetching", row |-> Len(ledger) + 1]]
  /\ UNCHANGED <<prices, instant, starts, agent>>

StartRisk(p) ==
  LET runtime == agent.runtime[p]
      at == Row(p).at
  IN RiskOf(runtime.risk, at, Valued(runtime.account, runtime.mark, at))

(* The market is served, or a retry is planned and the invocation ends: it *)
(* publishes the risk it began with.                                       *)
Fetch(p) ==
  /\ flights[p].phase = "fetching"
  /\ LET mark == MarkOf(p, Row(p).at)
     IN SetRow(p, [Row(p) EXCEPT !.snapshot = Some(mark), !.accepted = Some(mark)])
  /\ MoveTo(p, "deciding")
  /\ UNCHANGED <<prices, instant, starts, agent>>
PlanRetry(p) ==
  /\ flights[p].phase = "fetching"
  /\ agent' = [agent EXCEPT !.runtime[p].risk = StartRisk(p)]
  /\ UNCHANGED <<prices, instant, starts, flights, ledger>>

(* executePaperOrder: one unit bought, or the holding sold.                *)
FillPrice(side, price) == IF side = "BUY" THEN price + Slippage ELSE price - Slippage
Bought(account, fill) ==
  [cash |-> account.cash - fill - Fee, quantity |-> account.quantity + 1,
   cost |-> (account.quantity * account.cost + fill + Fee) \div (account.quantity + 1)]
Sold(account, fill) ==
  [cash |-> account.cash + fill * account.quantity - Fee, quantity |-> 0, cost |-> 0]
MayTrade(account, side, fill) ==
  IF side = "BUY" THEN fill + Fee <= account.cash ELSE account.quantity > 0

(* submitPaperOrder: the order's row receives the execution.               *)
Submit(p, side) ==
  LET account == agent.runtime[p].account
      fill == FillPrice(side, The(Row(p).snapshot).price)
  IN /\ flights[p].phase = "deciding"
     /\ MayTrade(account, side, fill)
     /\ SetRow(p, [Row(p) EXCEPT !.trade =
          [side |-> side, fill |-> fill,
           quantity |-> IF side = "BUY" THEN 1 ELSE account.quantity,
           after |-> IF side = "BUY" THEN Bought(account, fill)
                     ELSE Sold(account, fill)]])
     /\ MoveTo(p, "persisting")
     /\ UNCHANGED <<prices, instant, starts, agent>>

(* The end of a cycle: persistCycle, which may fail for good, and the      *)
(* publication of the account, the mark, the risk and the summary.         *)
AccountAfter(row) == IF row.trade.side = "none" THEN row.before ELSE row.trade.after
CompletionRisk(p, mark) ==
  LET row == Row(p)
  IN RiskOf(StartRisk(p), row.at, Valued(AccountAfter(row), mark, row.at))
CycleSummary(row) ==
  [at |-> row.at, done |-> instant,
   price |-> IF row.snapshot = None THEN None ELSE Some(The(row.snapshot).price)]
EndCycle(p, stored) ==
  LET row == Row(p)
      mark == Accepted(row.snapshot, agent.runtime[p].mark)
  IN /\ flights[p].phase # "none"
     /\ SetRow(p, IF stored THEN [row EXCEPT !.done = Some(instant)] ELSE row)
     /\ flights' = [flights EXCEPT ![p] = NoFlight]
     /\ agent' = [agent EXCEPT
          !.enabled = stored \/ \E q \in Products \ {p} : agent.runtime[q].phase = "waiting",
          !.runtime[p] =
            [account |-> AccountAfter(row), mark |-> mark,
             risk |-> CompletionRisk(p, mark),
             last |-> Some(CycleSummary(row)),
             phase |-> IF stored THEN "waiting" ELSE "failed"]]
     /\ UNCHANGED <<prices, instant, starts>>

Next ==
  \/ \E i \in Inputs : Start(i)
  \/ Halt \/ Restart \/ Elapse
  \/ \E p \in Products :
       \/ Trigger(p) \/ Fetch(p) \/ PlanRetry(p)
       \/ \E side \in {"BUY", "SELL"} : Submit(p, side)
       \/ \E stored \in BOOLEAN : EndCycle(p, stored)

Spec == Init /\ [][Next]_figureVars

---------------------------------------------------------------------------
(* /state and /portfolio at an instant.                                    *)
ProductSummary(p) ==
  LET runtime == agent.runtime[p]
  IN [product |-> p, account |-> runtime.account, phase |-> runtime.phase,
      valuation |-> Valued(runtime.account, runtime.mark, instant),
      pnl |-> runtime.risk.pnl, last |-> runtime.last]

Total(numbers) == FoldLeft(+, 0, numbers)
Worst(qualities) ==
  IF "unavailable" \in qualities THEN "unavailable"
  ELSE IF "stale" \in qualities THEN "stale" ELSE "fresh"

(* What is consolidated over the valuations of the products: nothing is    *)
(* added up as soon as one of them is missing.                             *)
Consolidated(summaries) ==
  LET all == Range(summaries)
      equities == \A s \in all : The(s.valuation).equity # None
      exposures == \A s \in all : The(s.valuation).exposure # None
      values == [i \in DOMAIN summaries |-> The(summaries[i].valuation)]
  IN [equity |-> IF equities THEN Some(Total([i \in DOMAIN values |-> The(values[i].equity)])) ELSE None,
      quality |-> IF equities THEN Worst({The(s.valuation).quality : s \in all})
                  ELSE "unavailable",
      exposure |-> IF exposures THEN Some(Total([i \in DOMAIN values |-> The(values[i].exposure)])) ELSE None,
      exposureQuality |-> IF exposures
                          THEN Worst({The(s.valuation).exposureQuality : s \in all})
                          ELSE "unavailable"]

(* projectPortfolioSessionSummary: none when a product cannot be valued.   *)
Summary ==
  IF agent.configuration = None \/ SingleProduct(The(agent.configuration))
  THEN Some([kind |-> "single-product"])
  ELSE LET slots == The(agent.configuration).products
           summaries == [i \in DOMAIN slots |-> ProductSummary(slots[i])]
       IN IF \E s \in Range(summaries) : s.valuation = None THEN None
          ELSE Some([kind |-> "portfolio", asOf |-> instant,
                     products |-> summaries, consolidated |-> Consolidated(summaries)])

(* toAgentStateSnapshot: the machine, the configuration, the account and   *)
(* its valuation belong to an agent of one product; a portfolio leaves them*)
(* as they are before any start.                                           *)
StateAnswer ==
  IF agent.configuration # None /\ SingleProduct(The(agent.configuration))
  THEN LET runtime == agent.runtime[The(agent.configuration).products[1]]
       IN [machine |-> Some(runtime.phase), account |-> runtime.account,
           last |-> runtime.last, summary |-> Summary,
           valuation |-> Some(Valued(runtime.account, runtime.mark, instant))]
  ELSE [machine |-> None, account |-> [Empty EXCEPT !.cash = 0], last |-> None,
        summary |-> Summary, valuation |-> None]

(* /pnl: the last rows by their trigger, in any order among the simultaneous*)
Window ==
  {W \in SUBSET (1..Len(ledger)) :
     /\ Cardinality(W) = IF Len(ledger) < Limit THEN Len(ledger) ELSE Limit
     /\ \A i \in W, j \in (1..Len(ledger)) \ W : ledger[i].at >= ledger[j].at}

(* One cycle of the history: what it makes of the portfolio and the mark   *)
(* carried so far.                                                         *)
CarriedMarkKept(carried, row) == IF carried.mark = None THEN row.snapshot ELSE carried.mark
CarriedMark(carried, row) == IF row.snapshot = None THEN carried.mark ELSE row.snapshot
CarriedAccount(carried, row) ==
  IF row.trade.side = "none" THEN carried.account ELSE Some(row.trade.after)
RealizedPnl(carried, trade) ==
  IF trade.side # "SELL" \/ carried.account = None THEN None
  ELSE LET before == The(carried.account)
           closed == IF before.quantity < trade.quantity
                     THEN before.quantity ELSE trade.quantity
       IN IF before.quantity > 0
          THEN Some((trade.fill - before.cost) * closed - Fee) ELSE None
ObservedSlippage(row) ==
  IF row.trade.side = "none" \/ row.snapshot = None THEN None
  ELSE Some((IF row.trade.side = "SELL" THEN -1 ELSE 1)
            * (row.trade.fill - The(row.snapshot).price))

Replayed(carried, row) ==
  LET account == CarriedAccount(carried, row)
      mark == CarriedMark(carried, row)
      asOf == IF row.done = None THEN row.at ELSE The(row.done)
      traded == row.trade.side # "none"
      valuation == IF account = None THEN None
                   ELSE Valued(The(account), mark, asOf)
  IN [account |-> account, mark |-> mark,
      ok |-> carried.ok /\ (account = None \/ valuation # None),
      cycles |-> Append(carried.cycles,
        [at |-> row.at, done |-> row.done, asOf |-> asOf, valuation |-> valuation,
         side |-> IF traded THEN Some(row.trade.side) ELSE None,
         fill |-> IF traded THEN Some(row.trade.fill) ELSE None,
         fee |-> IF traded THEN Some(Fee) ELSE None,
         realized |-> RealizedPnl(carried, row.trade),
         slippage |-> ObservedSlippage(row)])]

Chronological(W) ==
  SetToSortSeq(W, LAMBDA i, j : \/ ledger[i].at < ledger[j].at
                                \/ (ledger[i].at = ledger[j].at /\ i < j))
History(W) ==
  LET replay == FoldLeft(LAMBDA carried, i : Replayed(carried, ledger[i]),
                         [account |-> None, mark |-> None, ok |-> TRUE, cycles |-> <<>>],
                         Chronological(W))
  IN [ok |-> replay.ok, cycles |-> replay.cycles,
      open |-> IF replay.account # None /\ The(replay.account).quantity > 0
               THEN replay.account ELSE None]

---------------------------------------------------------------------------
(* The parsers of the page.                                                *)
ReadsProduct(s, asOf) ==
  /\ s.account.quantity >= 0 /\ s.account.cost >= 0
  /\ ReadsValuation(The(s.valuation)) /\ ReadsHolding(s.account, The(s.valuation))
  /\ The(s.valuation).asOf = asOf
ReadsSummary(summary) ==
  \/ summary.kind = "single-product"
  \/ /\ \A s \in Range(summary.products) : ReadsProduct(s, summary.asOf)
     /\ Len(summary.products) <= MaxSlots
          => summary.consolidated = Consolidated(summary.products)

(* parseAgentState                                                         *)
ReadsState(answer) ==
  /\ answer.machine # None
  /\ answer.account.cash >= 0 /\ answer.account.quantity >= 0
  /\ answer.summary # None /\ ReadsSummary(The(answer.summary))
  /\ answer.valuation # None =>
       LET result == The(answer.valuation)
       IN result # None => ReadsValuation(The(result))
                           /\ ReadsHolding(answer.account, The(result))

(* parsePnlHistory of a projection.                                        *)
Positive(option) == option # None => The(option) > 0
ReadsCycle(cycle) ==
  /\ cycle.valuation # None => ReadsValuation(The(cycle.valuation))
                               /\ The(cycle.valuation).asOf = cycle.asOf
  /\ IF cycle.side = None
     THEN cycle.fill = None /\ cycle.fee = None /\ cycle.realized = None
          /\ cycle.slippage = None
     ELSE Positive(cycle.fill) /\ Positive(cycle.fee)
ReadsHistory(history) == \A i \in DOMAIN history.cycles : ReadsCycle(history.cycles[i])

(* The body the agent's worker sends for /pnl is the result of the         *)
(* projection, and the page looks for the projection itself in it.         *)
PnlBody(W) == IF History(W).ok THEN [ok |-> TRUE, value |-> History(W)]
              ELSE [ok |-> FALSE]
ReadsBody(body) == "cycles" \in DOMAIN body /\ ReadsHistory(body)

---------------------------------------------------------------------------
(* What the agent projects of its figures, at any instant of any cycle, the*)
(* page accepts: the state of an agent of one product, the summary of a    *)
(* portfolio and the history of either (parseAgentState,                   *)
(* parsePortfolioSummary and parsePnlHistory recompute and compare).       *)
FiguresAreAccepted ==
  /\ Summary # None /\ ReadsSummary(The(Summary))
  /\ StateAnswer.machine # None => ReadsState(StateAnswer)
  /\ \A W \in Window : History(W).ok /\ ReadsHistory(History(W))

(* The daily loss that the risk check reads is the loss of the account at  *)
(* the last accepted mark since its window was opened, through failed      *)
(* fetches, retries, evictions and changes of day (models/daily-risk.md).  *)
RiskIsMarked ==
  \A p \in Products :
    LET runtime == agent.runtime[p]
        worth == Valued(runtime.account, runtime.mark, instant)
    IN runtime.risk.window # None /\ worth # None /\ The(worth).equity # None
       => runtime.risk.pnl = The(The(worth).equity) - The(runtime.risk.window).opening

(* Every figure of the history is a fact: a point of the curve is what the *)
(* account of the cycle was worth at its mark, a realized profit is the one*)
(* its sale made (getPnlHistory, projectDashboardPnlHistory).              *)
RealWorth(row) ==
  LET account == AccountAfter(row)
  IN account.cash + (IF account.quantity = 0 THEN 0
                     ELSE account.quantity * The(row.accepted).price)
RealProfit(row) == (row.trade.fill - row.before.cost) * row.trade.quantity - Fee
FiguresAreReal ==
  \A W \in Window :
    LET order == Chronological(W)
        history == History(W)
    IN history.ok => \A i \in DOMAIN order :
         LET row == ledger[order[i]]
             cycle == history.cycles[i]
         IN /\ cycle.realized # None => The(cycle.realized) = RealProfit(row)
            /\ cycle.valuation # None /\ The(cycle.valuation).equity # None
                 => The(The(cycle.valuation).equity) = RealWorth(row)

(* The same of an agent of one product that was never started again.       *)
OneAccountIsReal ==
  Cardinality(Products) = 1 /\ starts <= 1 => FiguresAreReal

(* The loss that limits the agent and the history that is shown of it are  *)
(* those of its account.                                                   *)
FiguresAreTrue == RiskIsMarked /\ OneAccountIsReal

(* The page of an agent that was started and ran a cycle reads its state   *)
(* and its history.                                                        *)
PageLoads ==
  agent.configuration # None /\ ledger # <<>> =>
    /\ ReadsState(StateAnswer)
    /\ \A W \in Window : ReadsBody(PnlBody(W))
=============================================================================
