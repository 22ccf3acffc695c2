---------------------------- MODULE TradingCycle ----------------------------
(***************************************************************************)
(* The trading machine driven by runTradingCycle (apps/agent/interpreter)  *)
(* with every result its effects can return.  The loop reads the phase,    *)
(* performs the phase's effect and sends the event of its result; it gives *)
(* up, throwing, after MaxSteps iterations.  Between two invocations the   *)
(* Durable Object may receive operator commands, and an invocation may be  *)
(* cut short by an eviction: the machine persisted by the last send stays. *)
(***************************************************************************)
EXTENDS TradingMachine

CONSTANTS MaxSteps,  \* MAX_INTERPRETER_STEPS
          Candles    \* close times of the candles a market fetch may return

ASSUME CandlesAssumption == Candles \subseteq Nat \ {0}

(* What a cycle can cost: fourteen phases once, two iterations for each    *)
(* retry and three for a retried submission; reconciliation counts twice,  *)
(* its budget is restored between the account and the order.               *)
FullCycle ==
  14 + 2 * RetryLimits["schedule"] + 2 * RetryLimits["marketData"]
     + 2 * RetryLimits["authorization"] + 3 * RetryLimits["execution"]
     + 4 * RetryLimits["reconciliation"] + 2 * RetryLimits["persistence"]

ASSUME BudgetAssumption == MaxSteps \in Nat /\ FullCycle <= MaxSteps

VARIABLES machine,  \* the machine of the session, persisted at every send
          trigger,  \* the invocation may still fire its alarm
          step,     \* iterations of the loop already spent
          result    \* of the invocation: running, returned, evicted

vars == <<machine, trigger, step, result>>

Results == {"running", "returned", "evicted"}

TypeOK ==
  /\ machine \in Machines
  /\ trigger \in BOOLEAN
  /\ step \in 0..MaxSteps
  /\ result \in Results

Init ==
  /\ machine = NewMachine(0)
  /\ trigger = FALSE
  /\ step = 0
  /\ result = "returned"

-----------------------------------------------------------------------------
(* One iteration of the loop that sends an event, and one that returns.    *)
In(p) == result = "running" /\ step < MaxSteps /\ machine.phase = p

Send(m) ==
  /\ machine' = m
  /\ step' = step + 1
  /\ UNCHANGED <<trigger, result>>

Return ==
  /\ result' = "returned"
  /\ step' = step + 1
  /\ UNCHANGED <<machine, trigger>>

AtRest ==
  /\ \E p \in {"stopped", "failed", "halted"}: In(p)
  /\ Return

Waiting ==
  /\ In("waiting")
  /\ ~trigger
  /\ Return

(* A cycle identifier is fresh: any other than the last one stands for it. *)
FireAlarm ==
  /\ In("waiting")
  /\ trigger
  /\ machine' = AlarmFired(machine, IF machine.cycleId = 1 THEN 2 ELSE 1)
  /\ step' = step + 1
  /\ trigger' = FALSE
  /\ UNCHANGED result

EnsureSchedule ==
  /\ In("scheduling")
  /\ \/ Send(ScheduleSucceeded(machine))
     \/ \E retryable \in BOOLEAN: Send(ScheduleFailed(machine, retryable))

(* Six of the retrying phases are left at once.                            *)
RetryNow ==
  /\ \E p \in RetryPhases \ {"retryingMarketData"}: In(p)
  /\ Send(RetryTimerElapsed(machine))

(* The market retry waits for its deadline, unless its plan is exhausted.  *)
RetryMarketData ==
  /\ In("retryingMarketData")
  /\ \/ Send(RetryTimerElapsed(machine))
     \/ Return

ReconcileAccount ==
  /\ In("reconcilingAccount")
  /\ \/ Send(AccountReconciled(machine))
     \/ \E retryable \in BOOLEAN:
          Send(AccountReconciliationFailed(machine, retryable))

FetchMarketData ==
  /\ In("fetchingMarketData")
  /\ \/ \E candle \in Candles, fresh \in BOOLEAN:
          Send(MarketDataReady(machine, candle, fresh))
     \/ \E retryable \in BOOLEAN: Send(MarketDataFailed(machine, retryable))

ComputeIndicators ==
  /\ In("computingIndicators")
  /\ \/ Send(IndicatorsComputed(machine))
     \/ Send(CycleFailed(machine))

EvaluateStrategies ==
  /\ In("evaluatingStrategies")
  /\ \/ Send(StrategiesEvaluated(machine))
     \/ Send(CycleFailed(machine))

Allocate ==
  /\ In("allocating")
  /\ \/ \E hasOrders \in BOOLEAN: Send(AllocationCompleted(machine, hasOrders))
     \/ Send(CycleFailed(machine))

CheckRisk ==
  /\ In("checkingRisk")
  /\ \/ Send(RiskApproved(machine))
     \/ Send(RiskRejected(machine))
     \/ Send(CycleFailed(machine))

PersistOrderIntent ==
  /\ In("persistingOrderIntent")
  /\ \/ Send(OrderIntentPersisted(machine))
     \/ Send(CycleFailed(machine))

Authorize ==
  /\ In("authorizing")
  /\ \/ \E usable \in BOOLEAN: Send(AuthorizationReady(machine, usable))
     \/ \E retryable \in BOOLEAN: Send(AuthorizationFailed(machine, retryable))

SubmitOrder ==
  /\ In("submittingOrder")
  /\ \/ Send(OrderConfirmed(machine))
     \/ \E retryable \in BOOLEAN: Send(OrderRejected(machine, retryable))
     \/ Send(OrderOutcomeUnknown(machine))
     \/ Send(OrderNoLongerNeeded(machine))
     \/ Send(OrderProtectionFailed(machine))

ReconcileOrder ==
  /\ In("reconcilingOrder")
  /\ \/ \E found \in BOOLEAN: Send(OrderReconciled(machine, found))
     \/ \E retryable \in BOOLEAN: Send(ReconciliationFailed(machine, retryable))
     \/ Send(OrderNoLongerNeeded(machine))
     \/ Send(OrderProtectionFailed(machine))

CancelCurrentEffect ==
  /\ In("cancelling")
  /\ \/ Send(EffectCancelled(machine))
     \/ Send(EffectCancelFailed(machine))

PersistCycle ==
  /\ In("persisting")
  /\ \/ Send(PersistSucceeded(machine))
     \/ \E retryable \in BOOLEAN: Send(PersistFailed(machine, retryable))

Iterate ==
  \/ AtRest \/ Waiting \/ FireAlarm \/ EnsureSchedule \/ RetryNow
  \/ RetryMarketData \/ ReconcileAccount \/ FetchMarketData
  \/ ComputeIndicators \/ EvaluateStrategies \/ Allocate \/ CheckRisk
  \/ PersistOrderIntent \/ Authorize \/ SubmitOrder \/ ReconcileOrder
  \/ CancelCurrentEffect \/ PersistCycle

-----------------------------------------------------------------------------
(* The shell: a command or a wake starts an invocation on the persisted    *)
(* machine; planCycleWake lets only a wake found in "waiting" fire.        *)
Invoke(m, alarm) ==
  /\ result # "running"
  /\ machine' = m
  /\ trigger' = (alarm /\ m.phase = "waiting")
  /\ step' = 0
  /\ result' = "running"

StartAgent ==
  /\ machine.phase = "stopped"
  /\ \E candle \in {0, machine.lastDecisionCandle}:
       Invoke(StartRequested(NewMachine(candle)), FALSE)

StopAgent == Invoke(StopRequested(machine), FALSE)

KillAgent == Invoke(KillSwitchEngaged(machine), FALSE)

(* resetAgent persists the machine and runs nothing.                       *)
ResetAgent ==
  /\ result # "running"
  /\ machine.phase \in {"failed", "halted"}
  /\ machine' = Reset(machine)
  /\ UNCHANGED <<trigger, step, result>>

Wake == \E alarm \in BOOLEAN: Invoke(machine, alarm)

Evict ==
  /\ result = "running"
  /\ result' = "evicted"
  /\ UNCHANGED <<machine, trigger, step>>

Next ==
  \/ Iterate
  \/ StartAgent \/ StopAgent \/ KillAgent \/ ResetAgent \/ Wake
  \/ Evict

Spec == Init /\ [][Next]_vars

-----------------------------------------------------------------------------
(* The budget of MAX_INTERPRETER_STEPS is never what ends an invocation:   *)
(* every mix of retries and failures, from whatever phase the machine was  *)
(* left in, comes to rest first: a running invocation has an iteration     *)
(* left.  Otherwise runTradingCycle would throw, with nothing published.   *)
NeverThrows == result = "running" => step < MaxSteps

(* After a possible submission the machine is in a phase that resolves the *)
(* order, or it failed with the order still in doubt: no stop, kill, retry *)
(* or eviction leads anywhere else (models/README.md, invariant 7).        *)
InFlightIsReconciled ==
  machine.orderMayBeInFlight =>
    machine.phase \in {"submittingOrder", "reconcilingOrder",
                       "retryingReconciliation", "failed"}

(* A terminal failure survives the persistence of the cycle and any later  *)
(* command, and ends in "failed" whatever shutdown was requested.          *)
TerminalFailureWins ==
  machine.terminalFailure =>
    machine.phase \in {"persisting", "retryingPersistence", "failed"}

(* A kill is not forgotten by the machine: while it is requested and not   *)
(* executed the machine is on a path to executing it, or has failed, or    *)
(* was already halted when the request came.                               *)
KillIsPending ==
  machine.shutdownMode = "kill-switch" /\ ~machine.killCompleted =>
    machine.phase \in {"cancelling", "persisting", "retryingPersistence",
                       "reconcilingOrder", "retryingReconciliation",
                       "failed", "halted"}

(* The machine enters "halted" only when its kill has been executed, never *)
(* on the request alone, whatever order the kill had to wait for           *)
(* (models/live-account-control.md, invariant 3).                          *)
HaltAfterKill ==
  [][machine'.phase = "halted" /\ machine.phase # "halted"
       => machine.killCompleted]_vars

=============================================================================
