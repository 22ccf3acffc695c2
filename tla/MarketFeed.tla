----------------------------- MODULE MarketFeed -----------------------------
(***************************************************************************)
(* From the venues to the decision: the market data service with its cache *)
(* and its backups, the snapshot the agent asks of it, the retries planned *)
(* and rung by the Durable Object, the grid that wakes it, and the report  *)
(* of the decisions that were missed.  A candle is named by the instant it *)
(* closes; time runs in half seconds, for what an alarm does with instants *)
(* between two seconds.                                                    *)
(***************************************************************************)
EXTENDS Integers, Sequences, FiniteSetsExt

CONSTANTS Timeframe,      \* D, the duration of a candle
          MaxStaleness,   \* S, maxMarketStalenessMs
          Interval, Offset,   \* the grid of resolveCycleSchedule
          RetryDelays,    \* MARKET_RETRY_DELAYS_MS
          MaxDelay,       \* MARKET_RETRY_MAX_DELAY_MS
          MaxRearms,      \* MARKET_RETRY_MAX_REARMS
          RetryLimit,     \* retryLimits.marketData
          RetryAfters,    \* what a 429 may ask for, 0 for nothing
          RequestTimeout, \* of the venues, whose answers may take as long
          MaxTime         \* bound of the clock

VARIABLES now,
          published,    \* the last candle Coinbase answers with
          windows,      \* MARKET_CACHE: window asked -> its last candle
          reference,    \* MARKET_CACHE: the candle of the basis reference
          phase,        \* of the cycle machine, or of its invocation
          triggeredAt, attempts, retryAfter, lastDecision,   \* its context
          marketRetry,  \* artifacts.marketRetry
          called,       \* when the snapshot was asked for
          pendingAlarm, \* of the invocation's CycleWakePlan
          alarms,       \* the retryTick rows of the object
          gridDue,      \* when the grid alarm is due
          lastMissed,   \* lastMissedDecisionCandleClosedAt
          decided, reports, triggered, elapsed   \* what happened

market == <<published, windows, reference>>
cycle == <<phase, triggeredAt, attempts, retryAfter, lastDecision, called,
           pendingAlarm>>
wakes == <<marketRetry, alarms>>
history == <<lastMissed, decided, reports, elapsed>>
vars == <<now, market, cycle, wakes, gridDue, triggered, history>>

None == -1
Second == 2
Expected(t) == (t \div Timeframe) * Timeframe
ClosedCandles == {c \in Timeframe..MaxTime : Expected(c) = c}

-----------------------------------------------------------------------------
(* market-retry-schedule.ts                                                *)

UnalignedInstant(t) == t   \* variant: no alignment
alignRetryInstant(t) == ((t + Second - 1) \div Second) * Second

delayForAttempt(attempt, after) ==
  Min({Max({RetryDelays[Min({attempt + 1, Len(RetryDelays)})], after}),
       MaxDelay})

resolveMarketRetryDeadline(t) == Expected(t) + MaxStaleness
NextRetryAt(attempt, after) ==
  alignRetryInstant(now + delayForAttempt(attempt, after))

MissedAnyway ==   \* variant: an earlier decision does not count
  LET candle == Expected(triggeredAt)
  IN  now - candle > MaxStaleness /\ lastMissed < candle

(* resolveMissedDecision, of a cycle that completes now.                   *)
Missed ==
  LET candle == Expected(triggeredAt)
  IN  now - candle > MaxStaleness /\ lastDecision < candle /\ lastMissed < candle

-----------------------------------------------------------------------------
(* The invocations.                                                        *)

Fetch == phase' = "fetching" /\ called' = now

NewCycle ==
  /\ triggeredAt' = now /\ attempts' = 0 /\ retryAfter' = 0
  /\ triggered' = triggered \cup {Expected(now)}
  /\ marketRetry' = [attempt |-> 0, at |-> None]
  /\ Fetch

(* scheduleMarketRetry *)
Wake(at, n) == [at |-> at, attempt |-> n, rearm |-> 0]

(* retryingMarketData: the retry is persisted, then its alarm; a refused   *)
(* checkpoint ends the invocation, and a retry that would come too late is *)
(* made at once.                                                           *)
Retry(n, after) ==
  LET at == NextRetryAt(n - 1, after)
  IN  /\ attempts' = n /\ retryAfter' = after
      /\ IF at > resolveMarketRetryDeadline(triggeredAt)
         THEN Fetch /\ UNCHANGED <<wakes, pendingAlarm>>
         ELSE /\ phase' = "retryingMarketData" /\ pendingAlarm' = FALSE
              /\ UNCHANGED called
              /\ \/ UNCHANGED wakes
                 \/ /\ marketRetry' = [attempt |-> n, at |-> at]
                    /\ alarms' = alarms \cup {Wake(at, n)}
      /\ UNCHANGED <<triggeredAt, lastDecision, decided>>

(* The cycle closes, its market attempts forgotten when it was served.     *)
Close(n) == /\ phase' = "persisting" /\ attempts' = n
            /\ UNCHANGED <<triggeredAt, retryAfter, called, pendingAlarm, wakes>>
Abandon == Close(attempts) /\ UNCHANGED <<lastDecision, decided>>

(* MARKET_DATA_FAILED with a retryable error, which                        *)
(* qualifyMarketErrorRetryability may have made one that is not.           *)
MarketFailed(after) ==
  LET inTime == alignRetryInstant(called + delayForAttempt(0, after))
                  <= resolveMarketRetryDeadline(triggeredAt)
  IN  IF inTime /\ attempts < RetryLimit
      THEN Retry(attempts + 1, after)
      ELSE Abandon

(* MARKET_DATA_READY with the last candle of the series.                   *)
Fresh(candle) == candle <= triggeredAt /\ now - candle <= MaxStaleness
MarketReady(candle) ==
  LET fresh == Fresh(candle)
  IN  \/ /\ candle <= lastDecision
         /\ Close(0) /\ UNCHANGED <<lastDecision, decided>>
      \/ /\ candle > lastDecision /\ fresh
         /\ Close(0) /\ lastDecision' = candle /\ decided' = decided \cup {candle}
      \/ /\ candle > lastDecision /\ ~fresh /\ attempts < RetryLimit
         /\ Retry(attempts + 1, 0)
      \/ /\ candle > lastDecision /\ ~fresh /\ attempts >= RetryLimit
         /\ Abandon

(* The ticker, asked of the same source: a price, a failure, or an answer  *)
(* that cannot be read, which is not retried.                              *)
FetchTicker(candle) ==
  \/ MarketReady(candle)
  \/ \E after \in RetryAfters : MarketFailed(after)
  \/ Abandon

(* fetchMarketSnapshot, once a source has served its candles: the series   *)
(* and the ticker are read, and checked against each other: an incoherent  *)
(* ticker is retried, anything else is not.                                *)
Snapshot(candle) == FetchTicker(candle) \/ MarketFailed(0) \/ Abandon

-----------------------------------------------------------------------------
(* The market data service.                                                *)

(* A window is closed when it is asked for, and kept as it was answered;   *)
(* the cache may not answer.  Each answer renews the basis reference.      *)
Cached == {c \in {windows[Expected(triggeredAt)]} : c # None}
CoinbaseAnswer == Min({published, Expected(triggeredAt)})
WriteReference(candle) == reference' = candle

CoinbaseServes ==
  /\ phase = "fetching"
  /\ \/ \E candle \in Cached :
          /\ UNCHANGED windows
          /\ WriteReference(candle) /\ Snapshot(candle)
     \/ /\ windows' = [windows EXCEPT ![Expected(triggeredAt)] = CoinbaseAnswer]
        /\ WriteReference(CoinbaseAnswer) /\ Snapshot(CoinbaseAnswer)
  /\ UNCHANGED <<now, published, gridDue, triggered, lastMissed, reports, elapsed>>

(* The candles of the backups, the one in formation left out.              *)
HyperliquidCandles == {c \in {0} \cup ClosedCandles : c <= Expected(triggeredAt)}
DydxCandles == {c \in {0} \cup ClosedCandles : c <= Expected(triggeredAt)}

(* A backup counts when its last candle is the one of the reference, at a  *)
(* near price.                                                             *)
BasisGate(candle) == reference # None /\ candle = reference

BackupServes ==
  /\ phase = "fetching"
  /\ \E candle \in HyperliquidCandles \cup DydxCandles :
       BasisGate(candle) /\ Snapshot(candle)
  /\ UNCHANGED <<now, market, gridDue, triggered, lastMissed, reports, elapsed>>

(* Every source has failed, and the error of Coinbase is the answer.       *)
AllSourcesFail ==
  /\ phase = "fetching"
  /\ (\E after \in RetryAfters : MarketFailed(after)) \/ Abandon
  /\ UNCHANGED <<now, market, gridDue, triggered, lastMissed, reports, elapsed>>

-----------------------------------------------------------------------------
(* The Durable Object.                                                     *)

Idle == phase \in {"waiting", "retryingMarketData"}

(* runCurrent in retryingMarketData.                                       *)
Resume ==
  /\ phase = "resuming"
  /\ \/ /\ marketRetry.attempt # attempts
        /\ Retry(attempts, retryAfter)
     \/ /\ marketRetry.attempt = attempts /\ now >= marketRetry.at
        /\ Fetch
        /\ UNCHANGED <<triggeredAt, attempts, retryAfter, lastDecision,
                       pendingAlarm, wakes, decided>>
     \/ /\ marketRetry.attempt = attempts /\ now < marketRetry.at
        /\ phase' = "retryingMarketData" /\ pendingAlarm' = FALSE
        /\ UNCHANGED <<triggeredAt, attempts, retryAfter, lastDecision,
                       called, wakes, decided>>
  /\ UNCHANGED <<now, market, gridDue, triggered, lastMissed, reports, elapsed>>

Report(candle) == reports' = Append(reports, candle)   \* emitMissedDecision

(* The end of runCurrent for a cycle that ended; a grid wake that found it *)
(* under way starts the next one.                                          *)
EndCycle ==
  /\ phase = "persisting"
  /\ IF Missed
     THEN /\ lastMissed' = Expected(triggeredAt)
          /\ Report(Expected(triggeredAt))
     ELSE UNCHANGED <<lastMissed, reports>>
  /\ elapsed' = {c \in triggered : now - c > MaxStaleness} /\ pendingAlarm' = FALSE
  /\ IF pendingAlarm
     THEN NewCycle
     ELSE /\ phase' = "waiting"
          /\ UNCHANGED <<triggeredAt, attempts, retryAfter, called, triggered,
                         marketRetry>>
  /\ UNCHANGED <<now, market, lastDecision, alarms, gridDue, decided>>

(* scheduledTick: the grid alarm, on time or late.                         *)
GridTick ==
  /\ Idle /\ now >= gridDue
  /\ gridDue' = ((now - Offset) \div Interval + 1) * Interval + Offset
  /\ \/ /\ phase = "waiting"
        /\ NewCycle /\ UNCHANGED pendingAlarm
     \/ /\ phase = "retryingMarketData"
        /\ phase' = "resuming" /\ pendingAlarm' = TRUE
        /\ UNCHANGED <<triggeredAt, attempts, retryAfter, called, triggered,
                       marketRetry>>
  /\ UNCHANGED <<now, market, lastDecision, alarms, history>>

(* pendingMarketRetryAt: None for a cycle that waits for no retry.         *)
PendingAt == IF phase = "retryingMarketData" THEN marketRetry.at ELSE None

Rearmed(row) ==
  LET at == alignRetryInstant(PendingAt)
  IN  [row EXCEPT !.at = at, !.rearm = @ + 1]

(* retryTick, as resolveRetryWake has it: a row rings as soon as the second*)
(* of its instant begins, and is deleted when its handler ends.            *)
RetryTick ==
  \E row \in alarms :
    /\ Idle /\ now \div Second >= row.at \div Second
    /\ \/ /\ now < PendingAt /\ row.rearm < MaxRearms
          /\ alarms' = (alarms \cup {Rearmed(row)}) \ {row}
          /\ UNCHANGED phase
       \/ /\ now >= PendingAt /\ phase = "retryingMarketData"
          /\ alarms' = alarms \ {row} /\ phase' = "resuming"
       \/ /\ phase = "waiting" \/ (now < PendingAt /\ row.rearm >= MaxRearms)
          /\ alarms' = alarms \ {row} /\ UNCHANGED phase
    /\ UNCHANGED <<now, market, triggeredAt, attempts, retryAfter, lastDecision,
                   called, pendingAlarm, marketRetry, gridDue, triggered, history>>

(* The reference has reached BASIS_REFERENCE_MAX_AGE_MS, or was not kept.  *)
ReferenceExpires ==
  /\ reference # None
  /\ reference' = None
  /\ UNCHANGED <<now, published, windows, cycle, wakes, gridDue, triggered, history>>

Publish ==
  /\ published + Timeframe <= now
  /\ published' = published + Timeframe
  /\ UNCHANGED <<now, windows, reference, cycle, wakes, gridDue, triggered, history>>

(* Time passes between the invocations, and while a request is answered,   *)
(* which a timeout bounds.                                                 *)
Tick ==
  /\ now < MaxTime
  /\ Idle \/ (phase = "fetching" /\ now < called + RequestTimeout)
  /\ now' = now + 1
  /\ UNCHANGED <<market, cycle, wakes, gridDue, triggered, history>>

-----------------------------------------------------------------------------
(* The agent waits for its first wake, or was deployed with a retry that   *)
(* an earlier version planned between two seconds.                         *)
Init ==
  /\ now = Timeframe /\ published \in {0, Timeframe}
  /\ windows = [c \in ClosedCandles |-> None]
  /\ reference \in {None, Timeframe}
  /\ triggeredAt = now /\ lastDecision \in {None, 0}
  /\ retryAfter = 0 /\ called = now /\ pendingAlarm = FALSE
  /\ \/ /\ phase = "waiting" /\ attempts = 0 /\ alarms = {}
        /\ marketRetry = [attempt |-> 0, at |-> None]
     \/ \E at \in now + 1 .. now + MaxDelay :
          /\ phase = "retryingMarketData" /\ attempts = 1
          /\ marketRetry = [attempt |-> 1, at |-> at]
          /\ alarms = {Wake(at, 1)}
  /\ gridDue = now + Offset
  /\ lastMissed = None /\ decided = {} /\ reports = << >> /\ elapsed = {}
  /\ triggered = {}

Next == \/ CoinbaseServes \/ BackupServes \/ AllSourcesFail
        \/ Resume \/ EndCycle \/ GridTick \/ RetryTick
        \/ ReferenceExpires \/ Publish \/ Tick

Spec == Init /\ [][Next]_vars

-----------------------------------------------------------------------------
(* A cycle whose retry is planned and persisted has an alarm that will     *)
(* take it up, whatever alarms rang early, were rearmed or were overtaken  *)
(* by the grid (trading-agent.ts:810, market-retry-schedule.ts:123).       *)
NoStrandedRetry ==
  phase = "retryingMarketData" /\ marketRetry.attempt = attempts
    => \E row \in alarms : row.at <= alignRetryInstant(marketRetry.at)

(* No decision candle is reported as missed twice, or reported and decided *)
(* (trading-agent.ts:1189-1205), through cycles that are resumed, candles  *)
(* that are published late and windows that are cached.                    *)
NeverBoth ==
  /\ \A i, j \in DOMAIN reports : reports[i] = reports[j] => i = j
  /\ \A i \in DOMAIN reports : reports[i] \notin decided

(* models/cycle-schedule.md:90-91: a missed decision is reported at the    *)
(* latest by the first cycle that ends after its window.                   *)
MissedIsReported ==
  \A c \in elapsed :
    lastDecision < c => \E i \in DOMAIN reports : reports[i] = c
=============================================================================
