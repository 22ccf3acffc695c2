------------------------------ MODULE AITrend ------------------------------
(***************************************************************************)
(* The AI trend signals of one agent (apps/agent/src/ai-trend-*.ts, their  *)
(* part of trading-agent.ts, and the decision worker of models/).  After   *)
(* every market fetch a SHADOW production asks the gateway about the last  *)
(* closed candle, first question v1 and then, when enabled, v2; a          *)
(* RETROSPECTIVE batch asks about past candles at the same time; both write*)
(* the rows that a calibration reads and judges against later closes.      *)
(* Time is counted in minutes, a grid is the length of its candles.        *)
(***************************************************************************)
EXTENDS Integers, FiniteSets, Sequences

CONSTANTS Grids,          \* lengths of a candle the agent knows
          Tasks,          \* SHADOW productions
          Paths,          \* price at each minute, for the closes
          MaxTime,        \* last minute explored
          Horizon,        \* candles between a signal and its outcome
          MinCandles,     \* AI_TREND_V2_MIN_CANDLES
          MaxRetries,     \* AI_MAX_RETRIES
          MaxBatchCandles,\* AI_TREND_RETROSPECTIVE_MAX_CANDLES
          Settled,        \* answers that end a question: AI_REFUSED, AI_QUOTA,
                          \* AI_SCHEMA_MISMATCH
          Retryable       \* AI_TIMEOUT and AI_PROVIDER_ERROR

VARIABLES
  setting,  \* AI_TREND_TIMEFRAME, AI_TREND_V2 and the price path
  minute,   \* the clock
  rows,     \* ai_trend_signals: what is stored, by primary key
  tasks,    \* the SHADOW productions in flight
  batch     \* the retrospective batch in flight

trendVars == <<setting, minute, rows, tasks, batch>>

Version == {"v1", "v2"}
DefaultGrid == 1  \* ONE_MINUTE, the default of persistAiTrendSignal
NoAsk == [candle |-> 0, version |-> "v1", late |-> FALSE, theta |-> 0, attempts |-> 0]
NoTask == [phase |-> "none", ask |-> NoAsk, closes |-> {}]
NoBatch == [phase |-> "none"]

ReferenceCandle(t, grid) == (t \div grid) * grid

(* Closes of the candles that a window ending at `end` holds: the last     *)
(* Limit of them, none before the first minute.                            *)
Window(end, grid, limit) ==
  {c \in 1..end : c % grid = 0 /\ c > end - limit * grid}

(* The live filter: what closed at or before the reference candle.         *)
ClosedByAll(closes, candle) == closes
ClosedBy(closes, candle) == {c \in closes : c <= candle}

(* Threshold of v2: half the move over the last candles, at least one.     *)
Threshold(closes) ==
  LET price == {setting.path[c] : c \in closes}
      move == CHOOSE m \in 0..10 : \E p, q \in price :
                 m = p - q /\ \A r, s \in price : r - s <= m
  IN IF move \div 2 > 1 THEN move \div 2 ELSE 1

(* The question asked about a candle from the closes that are known: v1    *)
(* asks on any evidence, v2 computes its features from enough candles.     *)
Enough(closes, version) ==
  IF version = "v1" THEN closes # {} ELSE Cardinality(closes) >= MinCandles
Ask(candle, version, closes) ==
  [candle |-> candle, version |-> version, late |-> \E c \in closes : c > candle,
   theta |-> IF version = "v1" THEN 0 ELSE Threshold(closes), attempts |-> 1]

(* persistAiTrendSignal: an insert that, on conflict, replaces only what a *)
(* retrospective batch wrote.                                              *)
Row(ask, collection) ==
  [collection |-> collection, late |-> ask.late, theta |-> ask.theta]
Put(key, row) ==
  [k \in DOMAIN rows \cup {key} |-> IF k = key THEN row ELSE rows[k]]
Persisted(ask, grid, collection) ==
  LET key == <<ask.candle, ask.version, grid>>
  IN IF key \in DOMAIN rows /\ rows[key].collection # "RETROSPECTIVE"
     THEN rows ELSE Put(key, Row(ask, collection))

(* aiDecisionWorkerMachine: one more call after a timeout or a provider    *)
(* error, as long as the budget allows; everything else is final.          *)
GatewayAnswers == {"ANSWERED"} \cup Settled \cup Retryable
Retries(ask, answer) == answer \in Retryable /\ ask.attempts <= MaxRetries
Again(ask) == [ask EXCEPT !.attempts = @ + 1]

Init ==
  /\ setting \in [grid : Grids, v2 : BOOLEAN, path : Paths]
  /\ minute = 2
  /\ rows = <<>>
  /\ tasks = [t \in Tasks |-> NoTask]
  /\ batch = NoBatch

Tick ==
  /\ minute < MaxTime /\ minute' = minute + 1
  /\ UNCHANGED <<setting, rows, tasks, batch>>

(* collectAiTrendShadowTask, after a market fetch of this minute: the      *)
(* candles of the cycle hold the one in formation; a dedicated window stops*)
(* at the reference candle, or is missing and leaves nothing to ask about. *)
(* onMarketDataFetched fires for every fetch, so two productions may be    *)
(* about the same candle.                                                  *)
Seen(candle) ==
  {Window(candle, setting.grid, 3), Window(candle + setting.grid, setting.grid, 3), {}}
StartShadow(t) ==
  LET candle == ReferenceCandle(minute, setting.grid)
  IN /\ tasks[t].phase = "none"
     /\ \E closes \in Seen(candle) :
          tasks' = [tasks EXCEPT ![t] =
            [phase |-> "v1", ask |-> [NoAsk EXCEPT !.candle = candle], closes |-> closes]]
     /\ UNCHANGED <<setting, minute, rows, batch>>

(* collectTrendSignal and collectTrendSignalV2 up to their call: nothing to*)
(* ask about ends the question.                                            *)
Following(task) ==
  IF task.phase = "v1" /\ setting.v2
  THEN [task EXCEPT !.phase = "v2", !.ask = [NoAsk EXCEPT !.candle = task.ask.candle]]
  ELSE NoTask
AskShadow(t) ==
  LET task == tasks[t]
      closes == ClosedBy(task.closes, task.ask.candle)
  IN /\ task.phase \in Version /\ task.ask.attempts = 0
     /\ tasks' = [tasks EXCEPT ![t] =
          IF Enough(closes, task.phase)
          THEN [task EXCEPT !.ask = Ask(task.ask.candle, task.phase, closes)]
          ELSE Following(task)]
     /\ UNCHANGED <<setting, minute, rows, batch>>

(* The gateway answers a production: v1 is stored under its grid, v2 under *)
(* the default one, whose argument the caller drops.                       *)
AnswerShadow(t, answer) ==
  LET task == tasks[t]
  IN /\ task.phase \in Version /\ task.ask.attempts > 0
     /\ tasks' = [tasks EXCEPT ![t] =
          IF Retries(task.ask, answer) THEN [task EXCEPT !.ask = Again(@)]
          ELSE Following(task)]
     /\ rows' = IF answer = "ANSWERED"
                THEN Persisted(task.ask, IF task.phase = "v1" THEN setting.grid
                                         ELSE DefaultGrid, "SHADOW")
                ELSE rows
     /\ UNCHANGED <<setting, minute, batch>>

(* planRetrospectiveCandles: the candles of an aligned, bounded window.    *)
Plan(from, to, grid) ==
  IF from <= to /\ from % grid = 0 /\ to % grid = 0
     /\ (to - from) \div grid + 1 <= MaxBatchCandles
  THEN {c \in from..to : c % grid = 0} ELSE {}

(* collectAiTrendRetrospective: what exists is read once, by candle and    *)
(* version whatever the grid, before anything is awaited; v2 fetches its   *)
(* only window next.  The last row read of a candle counts.                *)
Stored(candles, version) == {k \in DOMAIN rows : k[1] \in candles /\ k[2] = version}
LastRead(old) ==
  {last \in [{k[1] : k \in old} -> {rows[k].collection : k \in old}] :
     \A c \in DOMAIN last : \E k \in old : k[1] = c /\ rows[k].collection = last[c]}
BatchWindows(to, grid, version) ==
  IF version = "v1" THEN {{}} ELSE {{}, Window(to, grid, 3), Window(to + grid, grid, 4)}
BeginBatch(grid, version, force) ==
  /\ batch.phase = "none"
  /\ \E from, to \in 0..minute :
       LET plan == Plan(from, to, grid)
       IN /\ plan # {}
          /\ \E last \in LastRead(Stored(plan, version)),
                window \in BatchWindows(to, grid, version) :
               batch' = [phase |-> "next", grid |-> grid, version |-> version,
                         window |-> window, ask |-> NoAsk,
                         todo |-> {c \in plan : c \in DOMAIN last =>
                                     force /\ last[c] = "RETROSPECTIVE"}]
  /\ UNCHANGED <<setting, minute, rows, tasks>>

(* The next candle of the batch.  v1 fetches a window of its own, where a  *)
(* candle closed later stops the whole batch; v2 keeps of its window what  *)
(* closed in time.  No window, or too small a one, skips the candle.       *)
Fetched(candle, grid) ==
  {{}, Window(candle, grid, 3), Window(candle + grid, grid, 3)}
NextInBatch ==
  /\ batch.phase = "next"
  /\ \E candle \in batch.todo :
       /\ \A c \in batch.todo : candle <= c
       /\ \E closes \in IF batch.version = "v2" THEN {ClosedBy(batch.window, candle)}
                         ELSE Fetched(candle, batch.grid) :
            LET rest == batch.todo \ {candle}
            IN batch' =
                 IF batch.version = "v1" /\ \E c \in closes : c > candle THEN NoBatch
                 ELSE IF Enough(closes, batch.version)
                 THEN [batch EXCEPT !.phase = "asked", !.todo = rest,
                                    !.ask = Ask(candle, batch.version, closes)]
                 ELSE [batch EXCEPT !.todo = rest]
  /\ UNCHANGED <<setting, minute, rows, tasks>>

(* The gateway answers the batch: its rows are stored under the default    *)
(* grid, whatever the grid of the command.                                 *)
AnswerBatch(answer) ==
  /\ batch.phase = "asked"
  /\ batch' = IF Retries(batch.ask, answer) THEN [batch EXCEPT !.ask = Again(@)]
              ELSE [batch EXCEPT !.phase = "next", !.ask = NoAsk]
  /\ rows' = IF answer = "ANSWERED"
             THEN Persisted(batch.ask, DefaultGrid, "RETROSPECTIVE") ELSE rows
  /\ UNCHANGED <<setting, minute, tasks>>

EndBatch ==
  /\ batch.phase = "next" /\ batch.todo = {} /\ batch' = NoBatch
  /\ UNCHANGED <<setting, minute, rows, tasks>>

(* resolveVolScaledOutcome, prices in the unit of the threshold.           *)
Scaled(reference, close, theta) ==
  CASE close > reference /\ close >= reference + theta -> "UP"
    [] close < reference /\ close <= reference - theta -> "DOWN"
    [] OTHER -> "FLAT"

(* The close a window gives for the candle closing at c: what the price is *)
(* now when the candle is still in formation, nothing before it opens.     *)
CloseOf(c, grid) ==
  IF c <= minute THEN setting.path[c]
  ELSE IF c - grid <= minute THEN setting.path[minute] ELSE -1

(* getAiTrendCalibration changes nothing.  It judges the rows it read on   *)
(* the grid of its query (resolveTrendOutcomes): an outcome that is not    *)
(* closed yet is PENDING, and the threshold is the row's.                  *)
Due(key, grid) == key[1] + Horizon * grid
Judged(key, grid, theta) ==
  Scaled(CloseOf(key[1], grid), CloseOf(Due(key, grid), grid), theta)
OutcomeInFormation(key, grid) ==
  IF CloseOf(Due(key, grid), grid) = -1 \/ key[1] = 0 THEN "PENDING"
  ELSE Judged(key, grid, rows[key].theta)
Outcome(key, grid) ==
  IF Due(key, grid) > minute \/ key[1] = 0 THEN "PENDING"
  ELSE Judged(key, grid, rows[key].theta)

Next ==
  \/ Tick
  \/ \E t \in Tasks : StartShadow(t) \/ AskShadow(t)
  \/ \E a \in GatewayAnswers :
       (\E t \in Tasks : AnswerShadow(t, a)) \/ AnswerBatch(a)
  \/ \E g \in Grids, v \in Version, f \in BOOLEAN : BeginBatch(g, v, f)
  \/ NextInBatch \/ EndBatch

Spec == Init /\ [][Next]_trendVars

---------------------------------------------------------------------------
(* No signal rests on a candle closed after the one it is about            *)
(* (mapCandlesToTrendState, buildRetrospectiveTrendState, INV 10).         *)
NoLookahead == \A k \in DOMAIN rows : ~rows[k].late

(* What was recorded stands.  A row stored in the live stays as it is,     *)
(* whatever batch was planned before it landed (persistAiTrendSignal, INV  *)
(* 12).  Once the outcome of a signal can be judged, every later reading on*)
(* that grid judges it the same, unless its row was collected anew         *)
(* (getAiTrendCalibration, resolveTrendOutcomes, INV 13 and INV 16): at an *)
(* instant the same row is read the same.                                  *)
Kept(k) == rows'[k] = rows[k]
PastStands ==
  [][/\ \A k \in DOMAIN rows : rows[k].collection = "SHADOW" => Kept(k)
     /\ minute' # minute =>
          \A k \in DOMAIN rows, g \in Grids :
            Kept(k) /\ Outcome(k, g) # "PENDING" => Outcome(k, g)' = Outcome(k, g)
    ]_trendVars
=============================================================================
