--------------------------- MODULE TradingMachine ---------------------------
(***************************************************************************)
(* models/trading-cycle.machine.ts: the XState machine that owns every     *)
(* decision of the trading cycle, as pure operators.  A machine is a       *)
(* record; each event of the machine is an operator from a machine to the  *)
(* machine after the event and after the eventless transitions it enables. *)
(* Identifiers and timestamps of the context that no guard reads are left  *)
(* out; a cycle and a candle are numbers, 0 standing for null.             *)
(***************************************************************************)
EXTENDS Naturals

CONSTANT RetryLimits  \* context.retryLimits: AttemptKinds -> Nat

AttemptKinds == {"schedule", "marketData", "authorization", "execution",
                 "reconciliation", "persistence"}

DefaultRetryLimits ==
  [k \in AttemptKinds |->
     CASE k \in {"schedule", "marketData"} -> 3
       [] k = "authorization"             -> 2
       [] k = "execution"                 -> 1
       [] k = "reconciliation"            -> 4
       [] k = "persistence"               -> 5]

ASSUME RetryLimitsAssumption == RetryLimits \in [AttemptKinds -> Nat]

(* Phases whose eventless transition sends a shutdown to "cancelling".     *)
CancellablePhases ==
  {"scheduling", "retryingSchedule", "waiting", "reconcilingAccount",
   "retryingAccountReconciliation", "fetchingMarketData",
   "retryingMarketData", "computingIndicators", "evaluatingStrategies",
   "allocating", "checkingRisk", "persistingOrderIntent", "authorizing",
   "retryingAuthorization", "retryingExecution"}

(* The phases without an eventless transition.                             *)
SettlingPhases ==
  {"stopped", "reconcilingOrder", "retryingReconciliation", "cancelling",
   "persisting", "retryingPersistence", "failed", "halted"}

Phases == CancellablePhases \cup {"submittingOrder"} \cup SettlingPhases

Outcomes == {"IDLE", "RUNNING", "NO_ACTION", "RISK_REJECTED",
             "ORDER_CONFIRMED", "ORDER_REJECTED", "CANCELLED", "FAILED"}

ShutdownModes == {"none", "stop", "kill-switch"}

Machines == [phase: Phases, shutdownMode: ShutdownModes,
             killCompleted: BOOLEAN, outcome: Outcomes,
             terminalFailure: BOOLEAN, orderMayBeInFlight: BOOLEAN,
             attempts: [AttemptKinds -> Nat], cycleId: Nat,
             lastDecisionCandle: Nat]

emptyAttempts == [k \in AttemptKinds |-> 0]

(* The initial context of createMachine; candle is the recovered           *)
(* lastDecisionCandleClosedAt of a live restart, 0 otherwise.              *)
NewMachine(candle) ==
  [phase |-> "stopped", shutdownMode |-> "none", killCompleted |-> FALSE,
   outcome |-> "IDLE", terminalFailure |-> FALSE,
   orderMayBeInFlight |-> FALSE, attempts |-> emptyAttempts,
   cycleId |-> 0, lastDecisionCandle |-> candle]

(* machineIsEnabled of apps/agent/src/state.ts.                            *)
IsEnabled(m) == m.phase \notin {"stopped", "failed", "halted"}

-----------------------------------------------------------------------------
(* Entering a phase runs its eventless transition: a pending shutdown      *)
(* leaves the cancellable phases at once, and leaves submittingOrder for   *)
(* the reconciliation of the order that may be in flight.                  *)
EnterAbandoning(m, p) ==  \* mutant: an order in flight is abandoned
  [m EXCEPT !.phase =
     IF m.shutdownMode # "none" /\ p \notin SettlingPhases
     THEN "cancelling" ELSE p]

Enter(m, p) ==
  [m EXCEPT !.phase =
     IF m.shutdownMode = "none" THEN p
     ELSE IF p \in CancellablePhases THEN "cancelling"
     ELSE IF p = "submittingOrder" THEN "reconcilingOrder"
     ELSE p]

Resettle(m) == Enter(m, m.phase)

CanRetry(m, kind) == m.attempts[kind] < RetryLimits[kind]

CountNothing(m, kind) == m  \* mutant: retries are free

CountAttempt(m, kind) == [m EXCEPT !.attempts[kind] = @ + 1]

RefundAttempt(m, kind) ==  \* mutant: gives one attempt back
  [m EXCEPT !.attempts[kind] = @ - 1]

ResetAttempt(m, kind) == [m EXCEPT !.attempts[kind] = 0]

(* A failure event: retry while the error allows it and the budget lasts,  *)
(* otherwise what the machine does when it gives up.                       *)
RetryOr(m, kind, retryable, retryPhase, giveUp) ==
  IF retryable /\ CanRetry(m, kind)
  THEN Enter(CountAttempt(m, kind), retryPhase)
  ELSE giveUp

EndWith(m, outcome, p) == Enter([m EXCEPT !.outcome = outcome], p)

(* recordError, markFailed: the cycle is over and its outcome is persisted *)
CycleFailed(m) == EndWith(m, "FAILED", "persisting")

-----------------------------------------------------------------------------
(* Operator commands.                                                      *)

StartRequested(m) ==
  Enter([m EXCEPT !.shutdownMode = "none", !.killCompleted = FALSE,
                  !.outcome = "IDLE", !.terminalFailure = FALSE,
                  !.attempts["schedule"] = 0],
        "scheduling")

StopRequested(m) == Resettle([m EXCEPT !.shutdownMode = "stop"])

RequestKill(m) ==
  [m EXCEPT !.shutdownMode = "kill-switch", !.killCompleted = FALSE]

KillSwitchEngaged(m) ==
  IF m.phase = "stopped" THEN Enter(RequestKill(m), "cancelling")
  ELSE Resettle(RequestKill(m))

Reset(m) ==
  IF m.phase \in {"failed", "halted"}
  THEN NewMachine(m.lastDecisionCandle)
  ELSE m

-----------------------------------------------------------------------------
(* Results of effects, one operator per event.                             *)

ScheduleSucceeded(m) == Enter(ResetAttempt(m, "schedule"), "waiting")

ScheduleFailed(m, retryable) ==
  RetryOr(m, "schedule", retryable, "retryingSchedule",
          EndWith(m, "FAILED", "failed"))

AlarmFired(m, cycle) ==
  IF cycle # m.cycleId
  THEN Enter([m EXCEPT !.cycleId = cycle, !.outcome = "RUNNING",
                       !.orderMayBeInFlight = FALSE, !.killCompleted = FALSE,
                       !.terminalFailure = FALSE,
                       !.attempts = emptyAttempts],
             "reconcilingAccount")
  ELSE m

RetryTarget(p) ==
  CASE p = "retryingSchedule"              -> "scheduling"
    [] p = "retryingAccountReconciliation" -> "reconcilingAccount"
    [] p = "retryingMarketData"            -> "fetchingMarketData"
    [] p = "retryingAuthorization"         -> "authorizing"
    [] p = "retryingExecution"             -> "authorizing"
    [] p = "retryingReconciliation"        -> "reconcilingOrder"
    [] p = "retryingPersistence"           -> "persisting"

RetryPhases ==
  {"retryingSchedule", "retryingAccountReconciliation",
   "retryingMarketData", "retryingAuthorization", "retryingExecution",
   "retryingReconciliation", "retryingPersistence"}

RetryTimerElapsed(m) == Enter(m, RetryTarget(m.phase))

AccountReconciled(m) ==
  Enter(ResetAttempt(m, "reconciliation"), "fetchingMarketData")

AccountReconciliationFailed(m, retryable) ==
  RetryOr(m, "reconciliation", retryable, "retryingAccountReconciliation",
          CycleFailed(m))

(* The guard of a candle that has been decided upon.                       *)
IsOlder(m, candle) ==  \* mutant: the last candle decides again
  m.lastDecisionCandle # 0 /\ candle < m.lastDecisionCandle

IsDuplicate(m, candle) ==
  m.lastDecisionCandle # 0 /\ candle <= m.lastDecisionCandle

(* The guards in order: duplicate decision candle, fresh data, retry of    *)
(* stale data, give up.                                                    *)
MarketDataReady(m, candle, fresh) ==
  IF IsDuplicate(m, candle)
  THEN EndWith(ResetAttempt(m, "marketData"), "NO_ACTION", "persisting")
  ELSE IF fresh
  THEN Enter([ResetAttempt(m, "marketData")
                EXCEPT !.lastDecisionCandle = candle],
             "computingIndicators")
  ELSE IF CanRetry(m, "marketData")
  THEN Enter(CountAttempt(m, "marketData"), "retryingMarketData")
  ELSE EndWith(CountAttempt(m, "marketData"), "NO_ACTION", "persisting")

MarketDataFailed(m, retryable) ==
  RetryOr(m, "marketData", retryable, "retryingMarketData", CycleFailed(m))

IndicatorsComputed(m) == Enter(m, "evaluatingStrategies")

StrategiesEvaluated(m) == Enter(m, "allocating")

AllocationCompleted(m, hasOrders) ==
  IF hasOrders THEN Enter(m, "checkingRisk")
  ELSE EndWith(m, "NO_ACTION", "persisting")

RiskApproved(m) == Enter(m, "persistingOrderIntent")

RiskRejected(m) == EndWith(m, "RISK_REJECTED", "persisting")

OrderIntentPersisted(m) == Enter(m, "authorizing")

AuthorizationReady(m, usable) ==
  IF usable
  THEN Enter([m EXCEPT !.orderMayBeInFlight = TRUE], "submittingOrder")
  ELSE RetryOr(m, "authorization", TRUE, "retryingAuthorization",
               CycleFailed(m))

AuthorizationFailed(m, retryable) ==
  RetryOr(m, "authorization", retryable, "retryingAuthorization",
          CycleFailed(m))

Landed(m) == [m EXCEPT !.orderMayBeInFlight = FALSE]

OrderConfirmed(m) == EndWith(Landed(m), "ORDER_CONFIRMED", "persisting")

OrderRejected(m, retryable) ==
  RetryOr(Landed(m), "execution", retryable, "retryingExecution",
          EndWith(Landed(m), "ORDER_REJECTED", "persisting"))

OrderOutcomeUnknown(m) == Enter(m, "reconcilingOrder")

OrderNoLongerNeeded(m) == EndWith(Landed(m), "NO_ACTION", "persisting")

OrderProtectionFailed(m) ==
  EndWith([Landed(m) EXCEPT !.terminalFailure = TRUE], "FAILED", "persisting")

OrderReconciled(m, found) ==
  EndWith(Landed(m), IF found THEN "ORDER_CONFIRMED" ELSE "ORDER_REJECTED",
          "persisting")

ReconciliationFailed(m, retryable) ==
  RetryOr(m, "reconciliation", retryable, "retryingReconciliation",
          EndWith(m, "FAILED", "failed"))

CancelledOnly(m) ==  \* mutant: an executed kill is not recorded
  EndWith(Landed(m), "CANCELLED", "persisting")

EffectCancelled(m) ==
  EndWith([Landed(m) EXCEPT
             !.killCompleted = (m.shutdownMode = "kill-switch") \/ @],
          "CANCELLED", "persisting")

EffectCancelFailed(m) ==
  EndWith([Landed(m) EXCEPT !.terminalFailure = TRUE], "FAILED", "persisting")

(* Terminal failure first, then stop, then a kill still to execute, then   *)
(* a completed kill; only an undisturbed cycle is rescheduled.             *)
PersistSucceeded(m) ==
  IF m.terminalFailure THEN Enter(m, "failed")
  ELSE IF m.shutdownMode = "stop" THEN Enter(m, "stopped")
  ELSE IF m.shutdownMode = "kill-switch" /\ ~m.killCompleted
  THEN Enter(m, "cancelling")
  ELSE IF m.shutdownMode = "kill-switch" THEN Enter(m, "halted")
  ELSE Enter(m, "scheduling")

PersistFailed(m, retryable) ==
  RetryOr(m, "persistence", retryable, "retryingPersistence",
          EndWith(m, "FAILED", "failed"))

=============================================================================
