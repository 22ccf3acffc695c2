----------------------------- MODULE Valuation -----------------------------
(***************************************************************************)
(* What a paper account is worth (models/paper-valuation.ts), what of it   *)
(* was lost today (models/daily-risk.ts), and what the parsers of the      *)
(* dashboard accept as a valuation (apps/dashboard/src/dashboard-api.ts).  *)
(* An optional value is a sequence of at most one element.                 *)
(***************************************************************************)
EXTENDS Integers, Sequences

CONSTANTS MaxAge,  \* maxMarketStalenessMs
          Day      \* a UTC day

None == <<>>
Some(x) == <<x>>
The(option) == option[1]

(* A mark is the close of a candle and the instant of that close.          *)
MarkIsValid(mark) == mark.price > 0 /\ mark.closedAt >= 0
Normalized(mark) ==
  IF mark # None /\ MarkIsValid(The(mark)) THEN mark ELSE None
Accepted(candidate, previous) ==
  IF Normalized(candidate) # None THEN candidate ELSE Normalized(previous)

QualityOf(mark, asOf) ==
  IF asOf - mark.closedAt <= MaxAge THEN "fresh" ELSE "stale"

(* projectPaperValuation without a mark: a holding has no price.           *)
Unmarked(account, asOf) ==
  LET flat == account.quantity = 0
  IN [asOf |-> asOf,
      equity |-> IF flat THEN Some(account.cash) ELSE None,
      exposure |-> IF flat THEN Some(0) ELSE None,
      exposureQuality |-> IF flat THEN "fresh" ELSE "unavailable",
      price |-> None, closedAt |-> None, age |-> None,
      quality |-> "unavailable"]

ExposureAged(account, mark, asOf) == QualityOf(mark, asOf)
ExposureQuality(account, mark, asOf) ==
  IF account.quantity = 0 THEN "fresh" ELSE QualityOf(mark, asOf)

Marked(account, mark, asOf) ==
  [asOf |-> asOf,
   equity |-> Some(account.cash + account.quantity * mark.price),
   exposure |-> Some(account.quantity * mark.price),
   exposureQuality |-> ExposureQuality(account, mark, asOf),
   price |-> Some(mark.price), closedAt |-> Some(mark.closedAt),
   age |-> Some(asOf - mark.closedAt),
   quality |-> QualityOf(mark, asOf)]

(* projectPaperValuation: none for an account in debt or a mark closed     *)
(* after the instant of the valuation.                                     *)
Valued(account, mark, asOf) ==
  IF account.cash < 0 \/ account.quantity < 0 THEN None
  ELSE IF mark = None THEN Some(Unmarked(account, asOf))
  ELSE IF ~MarkIsValid(The(mark)) \/ The(mark).closedAt > asOf THEN None
  ELSE Some(Marked(account, The(mark), asOf))

(* resolvePaperDailyRisk: an account that has a worth opens the window of  *)
(* a new day with it; one that has none keeps what it had.                 *)
NoRisk == [window |-> None, pnl |-> 0]
RiskOf(risk, at, valuation) ==
  IF valuation = None \/ The(valuation).equity = None THEN risk
  ELSE LET equity == The(The(valuation).equity)
           day == at \div Day
           window == IF risk.window # None /\ The(risk.window).day = day
                     THEN risk.window
                     ELSE Some([day |-> day, opening |-> equity])
       IN [window |-> window, pnl |-> equity - The(window).opening]

(* parsePaperValuation                                                     *)
ReadsValuation(v) ==
  LET marked == v.price # None
  IN /\ v.exposure = None \/ The(v.exposure) >= 0
     /\ marked => The(v.price) > 0
     /\ (v.closedAt # None) = marked /\ (v.age # None) = marked
     /\ marked => The(v.closedAt) <= v.asOf /\ The(v.age) >= 0
     /\ (v.quality = "unavailable") = ~marked
     /\ (v.exposure = None) = (v.exposureQuality = "unavailable")

(* What parseAgentState and parsePortfolioSummary recompute of a holding   *)
(* and its valuation.                                                      *)
ReadsHolding(account, v) ==
  IF account.quantity = 0
  THEN v.equity = Some(account.cash) /\ v.exposure = Some(0)
       /\ v.exposureQuality = "fresh"
  ELSE IF v.price = None
  THEN v.equity = None /\ v.exposure = None /\ v.exposureQuality = "unavailable"
  ELSE /\ v.equity = Some(account.cash + account.quantity * The(v.price))
       /\ v.exposure = Some(account.quantity * The(v.price))
       /\ v.exposureQuality = v.quality
=============================================================================
