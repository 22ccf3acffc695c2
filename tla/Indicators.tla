----------------------------- MODULE Indicators -----------------------------
(***************************************************************************)
(* The indicators of a candle series: the Prolog predicates, the reference *)
(* computeIndicators, and the computer of the backtests that continues the *)
(* accumulations candle after candle.  A goal is the set of its answers,   *)
(* empty when it fails; a number that floats compute is the term of its    *)
(* operands in the order they are taken, so that equal terms are equal to  *)
(* the bit.                                                                *)
(***************************************************************************)
EXTENDS Integers, Sequences, FiniteSetsExt, SequencesExt

CONSTANTS Candle,      \* records [high, low, close, volume]
          Config,      \* records of the periods of IndicatorConfig
          MaxCandles   \* bound: candles of a series

VARIABLES config,
          candles,   \* the series pushed
          folds,     \* FoldAccumulators, <<>> while null
          snapshot   \* what the last push returned, <<>> for null

vars == <<config, candles, folds, snapshot>>

Null == << >>
Field(series, f) == [i \in DOMAIN series |-> series[i][f]]
Total(series) == FoldLeft(LAMBDA a, b : a + b, 0, series)

-----------------------------------------------------------------------------
(* indicators.pl                                                           *)

LastN(list, n) ==
  IF n <= Len(list) THEN {SubSeq(list, Len(list) - n + 1, Len(list))} ELSE {}

EmaAcc(values, acc) == [acc EXCEPT !.folded = @ \o values]

Ema(closes, period) ==
  {EmaAcc(Tail(closes),
          [period |-> period, first |-> Head(closes), folded |-> << >>])}

TrueRange(candle, previousClose) ==
  LET Abs(x) == Max({x, -x})
  IN  Max({candle.high - candle.low,
           Abs(candle.high - previousClose), Abs(candle.low - previousClose)})

Ranges(series, previousClose) ==
  [i \in DOMAIN series |->
     TrueRange(series[i], IF i = 1 THEN previousClose ELSE series[i - 1].close)]

AtrContinue(series, previousClose, acc) ==
  [acc EXCEPT !.folded = @ \o Ranges(series, previousClose)]

(* The average of the first ranges, the first of which has no close before *)
(* it, smoothed with the others.                                           *)
Atr(series, period) ==
  LET first == <<series[1].high - series[1].low>>
                 \o Ranges(SubSeq(series, 2, period), series[1].close)
  IN  IF Len(series) < period THEN {}
      ELSE {AtrContinue(SubSeq(series, period + 1, Len(series)),
                        series[period].close,
                        [period |-> period, seed |-> first, folded |-> << >>])}

Deltas(closes) ==
  [i \in 1 .. Len(closes) - 1 |-> closes[i + 1] - closes[i]]

Rsi(closes, period) == LastN(Deltas(closes), period)

LogReturns(closes) ==
  [i \in 1 .. Len(closes) - 1 |-> <<closes[i + 1], closes[i]>>]

HistoricalVolatility(closes, period) ==
  {w \in LastN(LogReturns(closes), period) : Len(w) >= 2}

(* momentum subtracts and periodic_return divides the same two closes.     *)
Move(closes, period) ==
  {<<Head(w), w[Len(w)]>> : w \in LastN(closes, period + 1)}

OhlcvVwap(series, period) ==
  {w \in LastN(series, period) : Total(Field(w, "volume")) > 0}

RelativeVolume(volumes, period) ==
  {w \in LastN(volumes, period + 1) : Total(SubSeq(w, 1, period)) > 0}

VolumeTrend(volumes, period) ==
  {w \in LastN(volumes, period) : Len(w) >= 2 /\ Total(w) > 0}

(* A step for the sums of +DM, -DM and range; period of them, and period-1 *)
(* more for the first ADX.                                                 *)
DirectionalStep(candle, previous) ==
  LET up == candle.high - previous.high
      down == previous.low - candle.low
  IN  <<TrueRange(candle, previous.close),
        IF up > down /\ up > 0 THEN up ELSE 0,
        IF down > up /\ down > 0 THEN down ELSE 0>>

TrendStrength(series, period) ==
  LET steps == [i \in 1 .. Len(series) - 1 |->
                  DirectionalStep(series[i + 1], series[i])]
  IN  IF Len(steps) < 2 * period - 1 THEN {} ELSE {steps}

-----------------------------------------------------------------------------
(* engine.ts                                                               *)

HasSignalPair(c) == c.signalSlow > 0

ValidConfig(c) ==
  /\ \A p \in {c.rsi, c.fast, c.slow, c.atr, c.momentum, c.vwap,
               c.relativeVolume, c.trendStrength} : p > 0
  /\ c.volatility >= 2 /\ c.volumeTrend >= 2
  /\ c.returns # << >>
  /\ \A i \in DOMAIN c.returns :
       c.returns[i] > IF i = 1 THEN 0 ELSE c.returns[i - 1]
  /\ c.fast < c.slow
  /\ \/ c.signalFast = 0 /\ c.signalSlow = 0
     \/ 0 < c.signalFast /\ c.signalFast < c.signalSlow

LastReturn(c) == c.returns[Len(c.returns)]

RequiredIndicatorCandles(c) ==
  Max({c.rsi + 1, c.slow, c.signalSlow, c.atr, c.volatility + 1, c.momentum + 1,
       LastReturn(c) + 1, c.vwap, c.relativeVolume + 1, c.volumeTrend,
       c.trendStrength * 2})

(* slice(-n)                                                               *)
Window(series, n) ==
  SubSeq(series, Max({1, Len(series) - n + 1}), Len(series))

Unless(absent, answers) == IF absent THEN {Null} ELSE answers

(* evaluateBoundedIndicators: each goal on its window, which the property  *)
(* EveryGoalAnswers compares with the goal on the whole series.            *)
Bounded(series, c, windowed) ==
  LET closes == Field(series, "close")
      volumes == Field(series, "volume")
      Cut(s, n) == IF windowed THEN Window(s, n) ELSE s
      Traded(n) == Total(Window(volumes, n)) > 0
      PeriodicReturn(p) == Move(Cut(closes, p + 1), p)
      reference == Total(Front(Window(volumes, c.relativeVolume + 1)))
  IN  [rsi |-> Rsi(Cut(closes, c.rsi + 1), c.rsi),
       volatility |->
         HistoricalVolatility(Cut(closes, c.volatility + 1), c.volatility),
       momentum |-> Move(Cut(closes, c.momentum + 1), c.momentum),
       trend |-> TrendStrength(Window(series, c.trendStrength * 2),
                               c.trendStrength),
       returns |-> {f \in {[p \in ToSet(c.returns) |-> PeriodicReturn(p)]} :
                      \A p \in DOMAIN f : f[p] # {}},
       vwap |-> Unless(~Traded(c.vwap), OhlcvVwap(Cut(series, c.vwap), c.vwap)),
       relativeVolume |->
         Unless(reference = 0,
                RelativeVolume(Cut(volumes, c.relativeVolume + 1),
                               c.relativeVolume)),
       volumeTrend |-> Unless(~Traded(c.volumeTrend),
                              VolumeTrend(Cut(volumes, c.volumeTrend),
                                          c.volumeTrend))]

Macd(fast, slow) == {<<f, s>> : f \in fast, s \in slow}

(* The fields that accumulate over the whole series.                       *)
Accumulated(fast, slow, atr, signalFast, signalSlow) ==
  [emaFast |-> fast, emaSlow |-> slow, macd |-> Macd(fast, slow), atr |-> atr,
   signalEmaFast |-> signalFast, signalEmaSlow |-> signalSlow]

Snapshot(accumulated, series, c) ==
  accumulated @@ Bounded(series, c, TRUE) @@ [candles |-> {series}]

(* computeIndicators: the folds over the whole series.                     *)
ComputeIndicators(series, c) ==
  LET closes == Field(series, "close")
      Signal(p) == Unless(~HasSignalPair(c), Ema(closes, p))
  IN  Snapshot(Accumulated(Ema(closes, c.fast), Ema(closes, c.slow),
                           Atr(series, c.atr),
                           Signal(c.signalFast), Signal(c.signalSlow)),
               series, c)

-----------------------------------------------------------------------------
(* createIndicatorSeriesComputer                                           *)

Init ==
  /\ config \in {c \in Config : ValidConfig(c)}
  /\ candles = << >> /\ folds = << >> /\ snapshot = << >>

Grown(candle) == Append(candles, candle)

Push(candle) ==
  Len(candles) < MaxCandles /\ candles' = Grown(candle) /\ UNCHANGED config

WarmUp(candle) ==
  /\ Push(candle)
  /\ Len(Grown(candle)) < RequiredIndicatorCandles(config)
  /\ snapshot' = << >>
  /\ UNCHANGED folds

(* The first snapshot: the same folds as the reference, kept.              *)
Seed(candle) ==
  LET closes == Field(Grown(candle), "close")
      Signal(p) == Unless(~HasSignalPair(config), Ema(closes, p))
      seeded == Accumulated(Ema(closes, config.fast), Ema(closes, config.slow),
                            Atr(Grown(candle), config.atr),
                            Signal(config.signalFast), Signal(config.signalSlow))
  IN  /\ Push(candle)
      /\ Len(Grown(candle)) = RequiredIndicatorCandles(config)
      /\ folds' = <<seeded @@ [previousClose |-> candle.close]>>
      /\ snapshot' = <<Snapshot(seeded, Grown(candle), config)>>

ContinuedStale(f, candle) ==  \* mutant: the previous close is not renewed
  LET OnEma(emas) == {IF e = Null THEN Null ELSE EmaAcc(<<candle.close>>, e) :
                        e \in emas}
  IN  Accumulated(OnEma(f.emaFast), OnEma(f.emaSlow),
                  {AtrContinue(<<candle>>, f.previousClose, a) : a \in f.atr},
                  OnEma(f.signalEmaFast), OnEma(f.signalEmaSlow))
        @@ [previousClose |-> f.previousClose]

(* The accumulation predicates on the new candle alone.                    *)
Continued(f, candle) ==
  LET OnEma(emas) == {IF e = Null THEN Null ELSE EmaAcc(<<candle.close>>, e) :
                        e \in emas}
  IN  Accumulated(OnEma(f.emaFast), OnEma(f.emaSlow),
                  {AtrContinue(<<candle>>, f.previousClose, a) : a \in f.atr},
                  OnEma(f.signalEmaFast), OnEma(f.signalEmaSlow))
        @@ [previousClose |-> candle.close]

Continue(candle) ==
  /\ Push(candle)
  /\ Len(Grown(candle)) > RequiredIndicatorCandles(config)
  /\ folds # << >>
  /\ folds' = <<Continued(folds[1], candle)>>
  /\ snapshot' = <<Snapshot(Restrict(folds'[1],
                                     DOMAIN folds'[1] \ {"previousClose"}),
                            Grown(candle), config)>>

Next == \E candle \in Candle : WarmUp(candle) \/ Seed(candle) \/ Continue(candle)

Spec == Init /\ [][Next]_vars

-----------------------------------------------------------------------------
(* Once there are as many candles as requiredIndicatorCandles asks, no     *)
(* goal fails, whatever the prices and volumes, and a goal on its window   *)
(* answers what it answers on the whole series.                            *)
EveryGoalAnswers ==
  \A i \in DOMAIN snapshot :
    /\ \A f \in DOMAIN snapshot[i] : snapshot[i][f] # {}
    /\ Bounded(candles, config, TRUE) = Bounded(candles, config, FALSE)

(* The computer of the backtests returns what the reference computes on    *)
(* the same prefix: the same operands in the same order in every field,    *)
(* and nothing as long as the reference finds too few candles              *)
(* (models/backtest-run.md, INV-27); and the reference has an answer.      *)
PreparedIsComputed ==
  /\ snapshot = IF Len(candles) < RequiredIndicatorCandles(config) THEN << >>
                ELSE <<ComputeIndicators(candles, config)>>
  /\ EveryGoalAnswers
=============================================================================
