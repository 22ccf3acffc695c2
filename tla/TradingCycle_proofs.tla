------------------------ MODULE TradingCycle_proofs -------------------------
(***************************************************************************)
(* Proofs about TradingCycle, for every value of the retry limits, of the  *)
(* candles and of an iteration budget that is not below FullCycle.         *)
(***************************************************************************)
EXTENDS TradingCycle, TLAPS

(***************************************************************************)
(* The inductive invariant of the machine.  A phase is compatible with     *)
(* what the machine remembers: an order that may be in flight, a terminal  *)
(* failure, a requested shutdown.                                          *)
(***************************************************************************)
InFlightPhases == {"submittingOrder", "reconcilingOrder",
                   "retryingReconciliation", "failed"}
TerminalPhases == {"persisting", "retryingPersistence", "failed"}

Fits(m, p) ==
  /\ p = "cancelling" => m.shutdownMode # "none"
  /\ p = "stopped" => m.shutdownMode # "kill-switch"
  /\ m.orderMayBeInFlight => p \in InFlightPhases
  /\ m.terminalFailure => p \in TerminalPhases

Sound(m) ==
  /\ m \in Machines
  /\ Fits(m, m.phase)
  /\ m.shutdownMode # "none" => m.phase \in SettlingPhases

(* Where every event but PERSIST_SUCCEEDED leads.                          *)
Lands(m) == Sound(m) /\ m.phase # "halted"

USE DEF InFlightPhases, TerminalPhases

-----------------------------------------------------------------------------
(* The helpers of the machine.                                             *)

(* Entering a compatible phase lands in one, whatever is pending.          *)
LEMMA EnterLands ==
  ASSUME NEW m \in Machines, NEW p \in Phases, Fits(m, p)
  PROVE  /\ Sound(Enter(m, p))
         /\ p # "halted" => Lands(Enter(m, p))
BY DEF Enter, Sound, Lands, Fits, Machines, Phases, CancellablePhases,
       SettlingPhases

(* Counting an attempt changes the count alone.                            *)
LEMMA CountAttemptType ==
  ASSUME NEW m \in Machines, NEW k \in AttemptKinds
  PROVE  /\ CountAttempt(m, k) \in Machines
         /\ CountAttempt(m, k).shutdownMode = m.shutdownMode
         /\ CountAttempt(m, k).orderMayBeInFlight = m.orderMayBeInFlight
         /\ CountAttempt(m, k).terminalFailure = m.terminalFailure
BY DEF CountAttempt, Machines

(* Resetting an attempt changes the count alone.                           *)
LEMMA ResetAttemptType ==
  ASSUME NEW m \in Machines, NEW k \in AttemptKinds
  PROVE  /\ ResetAttempt(m, k) \in Machines
         /\ ResetAttempt(m, k).shutdownMode = m.shutdownMode
         /\ ResetAttempt(m, k).orderMayBeInFlight = m.orderMayBeInFlight
         /\ ResetAttempt(m, k).terminalFailure = m.terminalFailure
BY DEF ResetAttempt, Machines

(* Settling the order changes its flag alone.                              *)
LEMMA LandedType ==
  ASSUME NEW m \in Machines
  PROVE  /\ Landed(m) \in Machines
         /\ Landed(m).shutdownMode = m.shutdownMode
         /\ Landed(m).orderMayBeInFlight = FALSE
         /\ Landed(m).terminalFailure = m.terminalFailure
BY DEF Landed, Machines

(* A failure lands when its retry phase and its giving up do.              *)
LEMMA RetryOrLands ==
  ASSUME NEW m \in Machines, NEW k \in AttemptKinds, NEW retryable \in BOOLEAN,
         NEW p \in Phases \ {"halted"}, Fits(m, p), NEW giveUp, Lands(giveUp)
  PROVE  Lands(RetryOr(m, k, retryable, p, giveUp))
<1>1. Lands(Enter(CountAttempt(m, k), p))
  BY CountAttemptType, EnterLands DEF Fits
<1> QED  BY <1>1 DEF RetryOr

(* Recording an outcome disturbs nothing.                                  *)
LEMMA EndWithLands ==
  ASSUME NEW m \in Machines, NEW outcome \in Outcomes,
         NEW p \in Phases \ {"halted"}, Fits(m, p)
  PROVE  Lands(EndWith(m, outcome, p))
<1> DEFINE e == [m EXCEPT !.outcome = outcome]
<1>1. e \in Machines /\ Fits(e, p)
  BY DEF Machines, Fits
<1> QED  BY <1>1, EnterLands DEF EndWith

(* Before a submission nothing is in flight, nothing has failed for good,  *)
(* and no shutdown is pending: any phase but two may follow.               *)
LEMMA CleanPhase ==
  ASSUME NEW m, Sound(m), m.phase \in CancellablePhases
  PROVE  /\ m \in Machines
         /\ m.shutdownMode = "none"
         /\ ~m.orderMayBeInFlight
         /\ ~m.terminalFailure
         /\ \A p \in Phases \ {"cancelling"}: Fits(m, p)
BY DEF Sound, Fits, Machines, Phases, CancellablePhases, SettlingPhases

(* The same after an order was sent, which may still be in flight.         *)
LEMMA OrderPhase ==
  ASSUME NEW m, Sound(m),
         m.phase \in {"submittingOrder", "reconcilingOrder",
                      "retryingReconciliation"}
  PROVE  /\ m \in Machines
         /\ ~m.terminalFailure
         /\ \A p \in InFlightPhases: Fits(m, p)
         /\ \A p \in Phases \ {"cancelling", "stopped"}: Fits(Landed(m), p)
         /\ m.phase = "submittingOrder" =>
              \A p \in Phases \ {"cancelling"}: Fits(Landed(m), p)
<1>1. m \in Machines
  BY DEF Sound
<1> QED
  BY <1>1, LandedType DEF Sound, Fits, Phases, CancellablePhases, SettlingPhases

-----------------------------------------------------------------------------
(* The events, by the phase that receives them.                            *)

USE DEF Outcomes, AttemptKinds

(* A cycle without an order in flight can fail.                            *)
LEMMA CycleFailedLands ==
  ASSUME NEW m, Sound(m), m.phase \in CancellablePhases
  PROVE  Lands(CycleFailed(m))
BY CleanPhase, EndWithLands DEF CycleFailed, Phases, SettlingPhases

(* The events of scheduling.                                               *)
LEMMA ScheduleLands ==
  ASSUME NEW m, Sound(m), m.phase = "scheduling", NEW retryable \in BOOLEAN
  PROVE  /\ Lands(ScheduleSucceeded(m))
         /\ Lands(ScheduleFailed(m, retryable))
<1>1. /\ m \in Machines
      /\ \A p \in Phases \ {"cancelling"}: Fits(m, p)
  BY CleanPhase DEF CancellablePhases
<1>2. Lands(ScheduleSucceeded(m))
  <2>1. Fits(ResetAttempt(m, "schedule"), "waiting")
    BY <1>1, ResetAttemptType DEF Fits, Phases, CancellablePhases
  <2> QED
    BY <1>1, <2>1, ResetAttemptType, EnterLands
    DEF ScheduleSucceeded, Phases, CancellablePhases
<1>3. Lands(EndWith(m, "FAILED", "failed"))
  BY <1>1, EndWithLands DEF Phases, SettlingPhases
<1>4. Lands(ScheduleFailed(m, retryable))
  BY <1>1, <1>3, RetryOrLands DEF ScheduleFailed, Phases, CancellablePhases
<1> QED  BY <1>2, <1>4

(* The grid alarm, which forgets the last cycle.                           *)
LEMMA AlarmFiredLands ==
  ASSUME NEW m, Sound(m), m.phase = "waiting", NEW cycle \in Nat
  PROVE  Lands(AlarmFired(m, cycle))
<1> DEFINE e == [m EXCEPT !.cycleId = cycle, !.outcome = "RUNNING",
                          !.orderMayBeInFlight = FALSE,
                          !.killCompleted = FALSE,
                          !.terminalFailure = FALSE,
                          !.attempts = emptyAttempts]
<1>1. m \in Machines /\ m.shutdownMode = "none"
  BY CleanPhase DEF CancellablePhases
<1>2. e \in Machines /\ Fits(e, "reconcilingAccount")
  BY <1>1 DEF Machines, Fits, emptyAttempts
<1>3. Lands(Enter(e, "reconcilingAccount"))
  BY <1>2, EnterLands DEF Phases, CancellablePhases
<1>4. Lands(m)
  BY DEF Lands
<1> QED  BY <1>3, <1>4 DEF AlarmFired

(* A retry timer.                                                          *)
LEMMA RetryTimerLands ==
  ASSUME NEW m, Sound(m), m.phase \in RetryPhases
  PROVE  Lands(RetryTimerElapsed(m))
<1>1. m \in Machines
  BY DEF Sound
<1>2. /\ RetryTarget(m.phase) \in Phases \ {"halted"}
      /\ Fits(m, RetryTarget(m.phase))
  BY DEF RetryTarget, RetryPhases, Sound, Fits, Phases, CancellablePhases,
         SettlingPhases
<1> QED  BY <1>1, <1>2, EnterLands DEF RetryTimerElapsed

(* The events of the account reconciliation.                               *)
LEMMA AccountLands ==
  ASSUME NEW m, Sound(m), m.phase = "reconcilingAccount",
         NEW retryable \in BOOLEAN
  PROVE  /\ Lands(AccountReconciled(m))
         /\ Lands(AccountReconciliationFailed(m, retryable))
<1>1. /\ m \in Machines
      /\ \A p \in Phases \ {"cancelling"}: Fits(m, p)
  BY CleanPhase DEF CancellablePhases
<1>2. Fits(ResetAttempt(m, "reconciliation"), "fetchingMarketData")
  BY <1>1, ResetAttemptType DEF Fits, Phases, CancellablePhases
<1>3. Lands(CycleFailed(m))
  BY CycleFailedLands DEF CancellablePhases
<1> QED
  BY <1>1, <1>2, <1>3, ResetAttemptType, EnterLands, RetryOrLands
  DEF AccountReconciled, AccountReconciliationFailed, Phases,
      CancellablePhases

(* The events of the market fetch.                                         *)
LEMMA MarketDataLands ==
  ASSUME NEW m, Sound(m), m.phase = "fetchingMarketData",
         NEW candle \in Nat, NEW fresh \in BOOLEAN, NEW retryable \in BOOLEAN
  PROVE  /\ Lands(MarketDataReady(m, candle, fresh))
         /\ Lands(MarketDataFailed(m, retryable))
<1> DEFINE reset == ResetAttempt(m, "marketData")
           count == CountAttempt(m, "marketData")
           decided == [reset EXCEPT !.lastDecisionCandle = candle]
<1>1. /\ m \in Machines
      /\ \A p \in Phases \ {"cancelling"}: Fits(m, p)
  BY CleanPhase DEF CancellablePhases
<1>2. reset \in Machines /\ Fits(reset, "persisting")
  BY <1>1, ResetAttemptType DEF Fits, Phases, SettlingPhases
<1>3. count \in Machines /\ Fits(count, "persisting")
      /\ Fits(count, "retryingMarketData")
  BY <1>1, CountAttemptType DEF Fits, Phases, SettlingPhases,
                                CancellablePhases
<1>4. decided \in Machines /\ Fits(decided, "computingIndicators")
  BY <1>1, ResetAttemptType DEF Fits, Phases, CancellablePhases, Machines
<1>5. Lands(CycleFailed(m))
  BY CycleFailedLands DEF CancellablePhases
<1>6. Lands(MarketDataReady(m, candle, fresh))
  <2>1. /\ Lands(EndWith(reset, "NO_ACTION", "persisting"))
        /\ Lands(EndWith(count, "NO_ACTION", "persisting"))
    BY <1>2, <1>3, EndWithLands DEF Phases, SettlingPhases
  <2>2. /\ Lands(Enter(decided, "computingIndicators"))
        /\ Lands(Enter(count, "retryingMarketData"))
    BY <1>3, <1>4, EnterLands DEF Phases, CancellablePhases
  <2> QED  BY <2>1, <2>2 DEF MarketDataReady
<1>7. Lands(MarketDataFailed(m, retryable))
  BY <1>1, <1>5, RetryOrLands DEF MarketDataFailed, Phases, CancellablePhases
<1> QED  BY <1>6, <1>7

(* The events of the decision phases.                                      *)
LEMMA DecisionLands ==
  ASSUME NEW m, Sound(m), m.phase \in CancellablePhases,
         NEW hasOrders \in BOOLEAN
  PROVE  /\ Lands(IndicatorsComputed(m))
         /\ Lands(StrategiesEvaluated(m))
         /\ Lands(AllocationCompleted(m, hasOrders))
         /\ Lands(RiskApproved(m))
         /\ Lands(RiskRejected(m))
         /\ Lands(OrderIntentPersisted(m))
<1>1. /\ m \in Machines
      /\ \A p \in Phases \ {"cancelling"}: Fits(m, p)
  BY CleanPhase
<1>2. \A p \in CancellablePhases: Lands(Enter(m, p))
  BY <1>1, EnterLands DEF Phases, CancellablePhases
<1>3. \A o \in Outcomes: Lands(EndWith(m, o, "persisting"))
  BY <1>1, EndWithLands DEF Phases, SettlingPhases
<1> QED
  BY <1>2, <1>3
  DEF IndicatorsComputed, StrategiesEvaluated, AllocationCompleted,
      RiskApproved, RiskRejected, OrderIntentPersisted, CancellablePhases

(* The events of the authorization; an order may be sent after it.         *)
LEMMA AuthorizationLands ==
  ASSUME NEW m, Sound(m), m.phase = "authorizing",
         NEW usable \in BOOLEAN, NEW retryable \in BOOLEAN
  PROVE  /\ Lands(AuthorizationReady(m, usable))
         /\ Lands(AuthorizationFailed(m, retryable))
<1> DEFINE sent == [m EXCEPT !.orderMayBeInFlight = TRUE]
<1>1. /\ m \in Machines
      /\ ~m.terminalFailure
      /\ \A p \in Phases \ {"cancelling"}: Fits(m, p)
  BY CleanPhase DEF CancellablePhases
<1>2. Lands(CycleFailed(m))
  BY CycleFailedLands DEF CancellablePhases
<1>3. \A b \in BOOLEAN:
        Lands(RetryOr(m, "authorization", b, "retryingAuthorization",
                      CycleFailed(m)))
  BY <1>1, <1>2, RetryOrLands DEF Phases, CancellablePhases
<1>4. sent \in Machines /\ Fits(sent, "submittingOrder")
  BY <1>1 DEF Machines, Fits
<1>5. Lands(Enter(sent, "submittingOrder"))
  BY <1>4, EnterLands DEF Phases
<1> QED  BY <1>3, <1>5 DEF AuthorizationReady, AuthorizationFailed

(* The events that resolve an order in flight.                             *)
LEMMA OrderLands ==
  ASSUME NEW m, Sound(m),
         m.phase \in {"submittingOrder", "reconcilingOrder"},
         NEW found \in BOOLEAN, NEW retryable \in BOOLEAN
  PROVE  /\ Lands(OrderConfirmed(m))
         /\ m.phase = "submittingOrder" => Lands(OrderRejected(m, retryable))
         /\ Lands(OrderOutcomeUnknown(m))
         /\ Lands(OrderNoLongerNeeded(m))
         /\ Lands(OrderProtectionFailed(m))
         /\ Lands(OrderReconciled(m, found))
         /\ Lands(ReconciliationFailed(m, retryable))
<1> DEFINE l == Landed(m)
           t == [l EXCEPT !.terminalFailure = TRUE]
<1>1. /\ m \in Machines
      /\ \A p \in InFlightPhases: Fits(m, p)
  BY OrderPhase
<1>2. /\ l \in Machines
      /\ \A p \in Phases \ {"cancelling", "stopped"}: Fits(l, p)
  BY <1>1, LandedType, OrderPhase
<1>3. \A o \in Outcomes: Lands(EndWith(l, o, "persisting"))
  BY <1>2, EndWithLands DEF Phases, SettlingPhases
<1>4. Lands(OrderRejected(m, retryable))
  BY <1>2, <1>3, RetryOrLands DEF OrderRejected, Phases, CancellablePhases
<1>5. Lands(OrderOutcomeUnknown(m))
  BY <1>1, EnterLands DEF OrderOutcomeUnknown, Phases, SettlingPhases
<1>6. t \in Machines /\ Fits(t, "persisting")
  BY <1>1, <1>2, LandedType DEF Machines, Fits
<1>7. Lands(OrderProtectionFailed(m))
  BY <1>6, EndWithLands DEF OrderProtectionFailed, Phases, SettlingPhases
<1>8. Lands(ReconciliationFailed(m, retryable))
  <2>1. Lands(EndWith(m, "FAILED", "failed"))
    BY <1>1, EndWithLands DEF Phases, SettlingPhases
  <2> QED
    BY <1>1, <2>1, RetryOrLands DEF ReconciliationFailed, Phases,
                                    SettlingPhases
<1> QED
  BY <1>3, <1>4, <1>5, <1>7, <1>8
  DEF OrderConfirmed, OrderNoLongerNeeded, OrderReconciled

(* The events of the cancellation.                                         *)
LEMMA CancelLands ==
  ASSUME NEW m, Sound(m), m.phase = "cancelling"
  PROVE  Lands(EffectCancelled(m)) /\ Lands(EffectCancelFailed(m))
<1> DEFINE l == Landed(m)
           c == [l EXCEPT !.killCompleted =
                            (m.shutdownMode = "kill-switch") \/ @]
           t == [l EXCEPT !.terminalFailure = TRUE]
<1>1. m \in Machines /\ l \in Machines /\ ~l.orderMayBeInFlight
  BY LandedType DEF Sound
<1>2. c \in Machines /\ c.orderMayBeInFlight = l.orderMayBeInFlight
  BY <1>1 DEF Machines
<1>3. t \in Machines /\ t.orderMayBeInFlight = l.orderMayBeInFlight
  BY <1>1 DEF Machines
<1>4. Fits(c, "persisting") /\ Fits(t, "persisting")
  BY <1>1, <1>2, <1>3 DEF Fits
<1> QED
  BY <1>2, <1>3, <1>4, EndWithLands
  DEF EffectCancelled, EffectCancelFailed, Phases, SettlingPhases

(* The one event that leads to "halted", and only with the kill executed.  *)
LEMMA PersistSound ==
  ASSUME NEW m, Sound(m), m.phase = "persisting", NEW retryable \in BOOLEAN
  PROVE  /\ Sound(PersistSucceeded(m))
         /\ PersistSucceeded(m).phase = "halted" => m.killCompleted
         /\ Lands(PersistFailed(m, retryable))
<1>1. m \in Machines /\ ~m.orderMayBeInFlight
  BY DEF Sound, Fits
<1>2. Sound(PersistSucceeded(m))
      /\ (PersistSucceeded(m).phase = "halted" => m.killCompleted)
  <2>1. CASE m.terminalFailure
    <3>1. Fits(m, "failed")
      BY <1>1 DEF Fits
    <3> QED
      BY <1>1, <2>1, <3>1, EnterLands DEF PersistSucceeded, Lands, Phases,
                                          SettlingPhases
  <2>2. CASE ~m.terminalFailure /\ m.shutdownMode = "stop"
    <3>1. Fits(m, "stopped")
      BY <1>1, <2>2 DEF Fits
    <3> QED
      BY <1>1, <2>2, <3>1, EnterLands DEF PersistSucceeded, Lands, Phases,
                                          SettlingPhases
  <2>3. CASE /\ ~m.terminalFailure
             /\ m.shutdownMode = "kill-switch" /\ ~m.killCompleted
    <3>1. Fits(m, "cancelling")
      BY <1>1, <2>3 DEF Fits
    <3> QED
      BY <1>1, <2>3, <3>1, EnterLands DEF PersistSucceeded, Lands, Phases,
                                          SettlingPhases
  <2>4. CASE /\ ~m.terminalFailure
             /\ m.shutdownMode = "kill-switch" /\ m.killCompleted
    <3>1. Fits(m, "halted")
      BY <1>1, <2>4 DEF Fits
    <3> QED
      BY <1>1, <2>4, <3>1, EnterLands DEF PersistSucceeded, Phases,
                                          SettlingPhases
  <2>5. CASE ~m.terminalFailure /\ m.shutdownMode = "none"
    <3>1. Fits(m, "scheduling")
      BY <1>1, <2>5 DEF Fits
    <3> QED
      BY <1>1, <2>5, <3>1, EnterLands DEF PersistSucceeded, Lands, Phases,
                                          CancellablePhases
  <2>6. m.shutdownMode \in {"none", "stop", "kill-switch"}
    BY <1>1 DEF Machines, ShutdownModes
  <2> QED  BY <2>1, <2>2, <2>3, <2>4, <2>5, <2>6
<1>3. Fits(m, "failed") /\ Fits(m, "retryingPersistence")
  BY <1>1 DEF Fits
<1>4. Lands(EndWith(m, "FAILED", "failed"))
  BY <1>1, <1>3, EndWithLands DEF Phases, SettlingPhases
<1>5. Lands(PersistFailed(m, retryable))
  BY <1>1, <1>3, <1>4, RetryOrLands DEF PersistFailed, Phases, SettlingPhases
<1> QED  BY <1>2, <1>5

-----------------------------------------------------------------------------
(* Operator commands.                                                      *)

(* A new machine, started or not.                                          *)
LEMMA NewMachineLands ==
  ASSUME NEW candle \in Nat
  PROVE  /\ Lands(NewMachine(candle))
         /\ Lands(StartRequested(NewMachine(candle)))
<1> DEFINE n == NewMachine(candle)
           s == [n EXCEPT !.shutdownMode = "none", !.killCompleted = FALSE,
                          !.outcome = "IDLE", !.terminalFailure = FALSE,
                          !.attempts["schedule"] = 0]
<1>1. /\ n \in Machines /\ n.phase = "stopped" /\ n.shutdownMode = "none"
      /\ ~n.orderMayBeInFlight /\ ~n.terminalFailure
  BY DEF NewMachine, Machines, Phases, SettlingPhases, ShutdownModes,
         emptyAttempts
<1>2. Lands(n)
  BY <1>1 DEF Lands, Sound, Fits
<1>3. s \in Machines /\ Fits(s, "scheduling")
  BY <1>1 DEF Machines, Fits, ShutdownModes
<1>4. Lands(StartRequested(n))
  BY <1>3, EnterLands DEF StartRequested, Phases, CancellablePhases
<1> QED  BY <1>2, <1>4

(* A stop in any phase.                                                    *)
LEMMA StopSound ==
  ASSUME NEW m, Sound(m)
  PROVE  /\ Sound(StopRequested(m))
         /\ StopRequested(m).phase = "halted" => m.phase = "halted"
<1> DEFINE e == [m EXCEPT !.shutdownMode = "stop"]
<1>1. e \in Machines /\ e.phase = m.phase /\ Fits(e, m.phase)
      /\ m.phase \in Phases
  BY DEF Sound, Fits, Machines, ShutdownModes
<1> QED  BY <1>1, EnterLands DEF StopRequested, Resettle, Lands

(* A kill in any phase.                                                    *)
LEMMA KillSound ==
  ASSUME NEW m, Sound(m)
  PROVE  /\ Sound(KillSwitchEngaged(m))
         /\ KillSwitchEngaged(m).phase = "halted" => m.phase = "halted"
<1> DEFINE e == RequestKill(m)
<1>1. e \in Machines /\ e.phase = m.phase /\ m.phase \in Phases
  BY DEF Sound, Machines, ShutdownModes, RequestKill
<1>2. CASE m.phase = "stopped"
  <2>1. Fits(e, "cancelling")
    BY <1>2 DEF Sound, Fits, Machines, RequestKill
  <2> QED
    BY <1>1, <1>2, <2>1, EnterLands DEF KillSwitchEngaged, Lands, Phases,
                                        SettlingPhases
<1>3. CASE m.phase # "stopped"
  <2>1. Fits(e, m.phase)
    BY <1>3 DEF Sound, Fits, Machines, RequestKill
  <2> QED
    BY <1>1, <1>3, <2>1, EnterLands DEF KillSwitchEngaged, Resettle, Lands
<1> QED  BY <1>2, <1>3

-----------------------------------------------------------------------------
(***************************************************************************)
(* Safety of the machine in every reachable state of TradingCycle.         *)
(***************************************************************************)
SoundInv == Sound(machine) /\ trigger \in BOOLEAN

(* The initial states.                                                     *)
LEMMA InitSound == Init => SoundInv
BY NewMachineLands DEF Init, SoundInv, Lands

(* One iteration of the loop: one step per phase.                          *)
LEMMA IterateSound ==
  ASSUME SoundInv, Iterate
  PROVE  /\ SoundInv'
         /\ machine'.phase = "halted" /\ machine.phase # "halted" =>
              machine.killCompleted
<1> USE DEF SoundInv, Send, Return, In, Lands
<1>1. CASE AtRest \/ Waiting
  BY <1>1 DEF AtRest, Waiting
<1>2. CASE FireAlarm
  <2>1. \A c \in Nat: machine.phase = "waiting" =>
          Lands(AlarmFired(machine, c))
    BY AlarmFiredLands
  <2> QED  BY <1>2, <2>1 DEF FireAlarm
<1>3. CASE EnsureSchedule
  BY <1>3, ScheduleLands DEF EnsureSchedule
<1>4. CASE RetryNow \/ RetryMarketData
  <2>1. machine.phase \in RetryPhases => Lands(RetryTimerElapsed(machine))
    BY RetryTimerLands
  <2> QED  BY <1>4, <2>1 DEF RetryNow, RetryMarketData, RetryPhases
<1>5. CASE ReconcileAccount
  BY <1>5, AccountLands DEF ReconcileAccount
<1>6. CASE FetchMarketData
  BY <1>6, MarketDataLands, CandlesAssumption DEF FetchMarketData
<1>7. CASE \/ ComputeIndicators \/ EvaluateStrategies \/ Allocate
           \/ CheckRisk \/ PersistOrderIntent
  <2>1. machine.phase \in CancellablePhases
    BY <1>7 DEF ComputeIndicators, EvaluateStrategies, Allocate, CheckRisk,
                PersistOrderIntent, CancellablePhases
  <2> QED
    BY <1>7, <2>1, DecisionLands, CycleFailedLands
    DEF ComputeIndicators, EvaluateStrategies, Allocate, CheckRisk,
        PersistOrderIntent
<1>8. CASE Authorize
  BY <1>8, AuthorizationLands DEF Authorize
<1>9. CASE SubmitOrder \/ ReconcileOrder
  BY <1>9, OrderLands DEF SubmitOrder, ReconcileOrder
<1>10. CASE CancelCurrentEffect
  BY <1>10, CancelLands DEF CancelCurrentEffect
<1>11. CASE PersistCycle
  BY <1>11, PersistSound DEF PersistCycle
<1> QED
  BY <1>1, <1>2, <1>3, <1>4, <1>5, <1>6, <1>7, <1>8, <1>9, <1>10, <1>11
  DEF Iterate

(* The shell between and around the iterations.                            *)
LEMMA ShellSound ==
  ASSUME SoundInv,
         \/ StartAgent \/ StopAgent \/ KillAgent
         \/ ResetAgent \/ Wake \/ Evict
  PROVE  /\ SoundInv'
         /\ machine'.phase = "halted" => machine.phase = "halted"
<1> USE DEF SoundInv
<1>1. CASE Evict
  BY <1>1 DEF Evict
<1>2. CASE StartAgent
  <2>1. machine.lastDecisionCandle \in Nat
    BY DEF Sound, Machines
  <2>2. \A c \in {0, machine.lastDecisionCandle}:
          Lands(StartRequested(NewMachine(c)))
    BY <2>1, NewMachineLands
  <2> QED  BY <1>2, <2>2 DEF StartAgent, Invoke, Lands
<1>3. CASE StopAgent
  BY <1>3, StopSound DEF StopAgent, Invoke
<1>4. CASE KillAgent
  BY <1>4, KillSound DEF KillAgent, Invoke
<1>5. CASE ResetAgent
  <2>1. machine.lastDecisionCandle \in Nat
    BY DEF Sound, Machines
  <2> QED  BY <1>5, <2>1, NewMachineLands DEF ResetAgent, Reset, Lands
<1>6. CASE Wake
  BY <1>6 DEF Wake, Invoke
<1> QED  BY <1>1, <1>2, <1>3, <1>4, <1>5, <1>6

(* Every reachable machine is sound: its phase fits its memory.            *)
THEOREM Soundness == Spec => []SoundInv
<1>1. SoundInv /\ [Next]_vars => SoundInv'
  <2> SUFFICES ASSUME SoundInv, [Next]_vars  PROVE SoundInv'
    OBVIOUS
  <2>1. CASE Next
    BY <2>1, IterateSound, ShellSound DEF Next
  <2>2. CASE UNCHANGED vars
    BY <2>2 DEF vars, SoundInv
  <2> QED  BY <2>1, <2>2
<1> QED  BY <1>1, InitSound, PTL DEF Spec

(* An order that may be in flight is only ever left reconciled, or in      *)
(* doubt in "failed", for every retry budget.                              *)
THEOREM InFlightSafety == Spec => []InFlightIsReconciled
<1>1. SoundInv => InFlightIsReconciled
  BY DEF SoundInv, Sound, Fits, InFlightIsReconciled
<1> QED  BY <1>1, Soundness, PTL

(* A terminal failure ends in "failed", whatever shutdown is requested.    *)
THEOREM TerminalFailureSafety == Spec => []TerminalFailureWins
<1>1. SoundInv => TerminalFailureWins
  BY DEF SoundInv, Sound, Fits, TerminalFailureWins
<1> QED  BY <1>1, Soundness, PTL

(* A requested kill that has not been executed leaves the machine on a     *)
(* path to it, or in a phase that only a reset leaves.                     *)
THEOREM KillSafety == Spec => []KillIsPending
<1>1. SoundInv => KillIsPending
  BY DEF SoundInv, Sound, Fits, KillIsPending, SettlingPhases
<1> QED  BY <1>1, Soundness, PTL

(* "halted" is entered only with the kill executed.                        *)
THEOREM HaltSafety == Spec => HaltAfterKill
<1>1. SoundInv /\ [Next]_vars =>
        (machine'.phase = "halted" /\ machine.phase # "halted"
           => machine.killCompleted)
  BY IterateSound, ShellSound DEF Next, vars
<1>2. SoundInv /\ [Next]_vars =>
        [machine'.phase = "halted" /\ machine.phase # "halted"
           => machine.killCompleted]_vars
  BY <1>1
<1> QED  BY <1>2, Soundness, PTL DEF Spec, HaltAfterKill

-----------------------------------------------------------------------------
(***************************************************************************)
(* An invocation never exhausts an iteration budget of FullCycle: the cost *)
(* of a phase bounds the iterations that are left.                         *)
(***************************************************************************)
HIDE DEF InFlightPhases, TerminalPhases, Outcomes, AttemptKinds

(* The retries of a kind still allowed.                                    *)
Left(m, k) ==
  IF m.attempts[k] < RetryLimits[k] THEN RetryLimits[k] - m.attempts[k] ELSE 0

(* Iterations after the cycle is persisted; a kill is executed and         *)
(* persisted before the machine rests.                                     *)
After(m) ==
  IF m.terminalFailure \/ m.shutdownMode = "stop" THEN 1
  ELSE IF m.shutdownMode = "kill-switch" THEN IF m.killCompleted THEN 1 ELSE 3
  ELSE 2 + 2 * Left(m, "schedule")

Persist(m) == 1 + 2 * Left(m, "persistence") + After(m)

Resolve(m, r) == 1 + 2 * r + Persist(m)

Submit(m, r) ==
  1 + 3 * Left(m, "execution") + 2 * Left(m, "authorization") + Resolve(m, r)

Fetch(m, r) == 7 + 2 * Left(m, "marketData") + Submit(m, r)

(* The most iterations that m, in phase p, can still cost.                 *)
Cost(m, p) ==
  LET r == Left(m, "reconciliation")
      R == RetryLimits["reconciliation"]
  IN  CASE p \in {"stopped", "failed", "halted", "waiting"} -> 1
        [] p = "scheduling"             -> 2 + 2 * Left(m, "schedule")
        [] p = "retryingSchedule"       -> 3 + 2 * Left(m, "schedule")
        [] p = "reconcilingAccount"     -> 1 + 2 * r + Fetch(m, R)
        [] p = "retryingAccountReconciliation" -> 2 + 2 * r + Fetch(m, R)
        [] p = "fetchingMarketData"     -> Fetch(m, r)
        [] p = "retryingMarketData"     -> 1 + Fetch(m, r)
        [] p = "computingIndicators"    -> 6 + Submit(m, r)
        [] p = "evaluatingStrategies"   -> 5 + Submit(m, r)
        [] p = "allocating"             -> 4 + Submit(m, r)
        [] p = "checkingRisk"           -> 3 + Submit(m, r)
        [] p = "persistingOrderIntent"  -> 2 + Submit(m, r)
        [] p = "authorizing"            -> 1 + Submit(m, r)
        [] p = "retryingAuthorization"  -> 2 + Submit(m, r)
        [] p = "retryingExecution"      -> 2 + Submit(m, r)
        [] p = "submittingOrder"        -> Submit(m, r)
        [] p = "reconcilingOrder"       -> Resolve(m, r)
        [] p = "retryingReconciliation" -> 1 + Resolve(m, r)
        [] p = "cancelling"             -> 3 + 2 * Left(m, "persistence")
        [] p = "persisting"             -> Persist(m)
        [] p = "retryingPersistence"    -> 1 + Persist(m)

(* What an invocation can still cost; its alarm adds a full cycle.         *)
Rank(m, fires) == IF fires THEN FullCycle ELSE Cost(m, m.phase)

BudgetInv ==
  /\ SoundInv
  /\ trigger => machine.phase = "waiting"
  /\ step \in 0..MaxSteps
  /\ result \in Results
  /\ result = "running" => step + Rank(machine, trigger) <= MaxSteps

-----------------------------------------------------------------------------
USE DEF AttemptKinds, Outcomes

(* The retries left of a kind are a number.                                *)
LEMMA LeftNat ==
  ASSUME NEW m \in Machines
  PROVE  \A k \in AttemptKinds: /\ Left(m, k) \in Nat
                                /\ Left(m, k) <= RetryLimits[k]
BY RetryLimitsAssumption DEF Left, Machines

(* So is every retry limit.                                                *)
LEMMA LimitsNat == \A k \in AttemptKinds: RetryLimits[k] \in Nat
BY RetryLimitsAssumption

(* Machines that agree on what the cost reads.                             *)
Alike(m, e) ==
  /\ e.attempts = m.attempts
  /\ e.terminalFailure = m.terminalFailure
  /\ e.shutdownMode = m.shutdownMode
  /\ e.killCompleted = m.killCompleted

(* The cost depends on the retries left and the shutdown memory alone.     *)
LEMMA AlikeCost ==
  ASSUME NEW m, NEW e, Alike(m, e)
  PROVE  \A p: Cost(e, p) = Cost(m, p)
<1>1. \A k: Left(e, k) = Left(m, k)
  BY DEF Left, Alike
<1>2. After(e) = After(m)
  BY <1>1 DEF After, Alike
<1> QED  BY <1>1, <1>2 DEF Cost, Fetch, Submit, Resolve, Persist

(* The cost is a positive number, and never above a full cycle.            *)
LEMMA AfterBounds ==
  ASSUME NEW m \in Machines
  PROVE  /\ After(m) \in Nat /\ After(m) >= 1
         /\ After(m) <= 3 + 2 * Left(m, "schedule")
         /\ m.shutdownMode = "none" =>
              After(m) <= 2 + 2 * Left(m, "schedule")
<1>1. Left(m, "schedule") \in Nat
  BY LeftNat
<1> QED  BY <1>1 DEF After

(* The cost of a typed machine is positive and at most FullCycle.          *)
LEMMA CostBounds ==
  ASSUME NEW m \in Machines, NEW p \in Phases,
         m.shutdownMode # "none" => p \in SettlingPhases
  PROVE  Cost(m, p) \in Nat /\ Cost(m, p) >= 1 /\ Cost(m, p) <= FullCycle
<1> DEFINE LS == Left(m, "schedule")       RS == RetryLimits["schedule"]
           LM == Left(m, "marketData")     RM == RetryLimits["marketData"]
           LA == Left(m, "authorization")  RA == RetryLimits["authorization"]
           LE == Left(m, "execution")      RE == RetryLimits["execution"]
           LR == Left(m, "reconciliation") RR == RetryLimits["reconciliation"]
           LP == Left(m, "persistence")    RP == RetryLimits["persistence"]
<1>1. /\ LS \in Nat /\ RS \in Nat /\ LS <= RS
      /\ LM \in Nat /\ RM \in Nat /\ LM <= RM
      /\ LA \in Nat /\ RA \in Nat /\ LA <= RA
      /\ LE \in Nat /\ RE \in Nat /\ LE <= RE
      /\ LR \in Nat /\ RR \in Nat /\ LR <= RR
      /\ LP \in Nat /\ RP \in Nat /\ LP <= RP
  BY LeftNat, LimitsNat
<1>2. /\ After(m) \in Nat /\ After(m) >= 1
      /\ After(m) <= 3 + 2 * LS
      /\ m.shutdownMode = "none" => After(m) <= 2 + 2 * LS
  BY AfterBounds
<1>3. FullCycle = 14 + 2 * RS + 2 * RM + 2 * RA + 3 * RE + 4 * RR + 2 * RP
  BY DEF FullCycle
<1> HIDE DEF LS, LM, LA, LE, LR, LP, RS, RM, RA, RE, RR, RP
<1>4. CASE p \in SettlingPhases
  <2>1. /\ Persist(m) = 1 + 2 * LP + After(m)
        /\ Resolve(m, LR) = 1 + 2 * LR + Persist(m)
    BY DEF Persist, Resolve, LP
  <2>2. Cost(m, p) \in {1, 3 + 2 * LP, Persist(m), 1 + Persist(m),
                        Resolve(m, LR), 1 + Resolve(m, LR)}
    BY <1>4 DEF Cost, SettlingPhases, LP, LR
  <2> QED  BY <1>1, <1>2, <1>3, <2>1, <2>2
<1>5. CASE p \notin SettlingPhases
  <2>1. \A r \in Nat: Submit(m, r) = 3 + 3 * LE + 2 * LA + 2 * r + 2 * LP + After(m)
    BY <1>1, <1>2 DEF Submit, Resolve, Persist, LE, LA, LP
  <2>2. \A r \in Nat: Fetch(m, r) = 7 + 2 * LM + Submit(m, r)
    BY DEF Fetch, LM
  <2>3. Cost(m, p) \in
          {1, 2 + 2 * LS, 3 + 2 * LS, 1 + 2 * LR + Fetch(m, RR),
           2 + 2 * LR + Fetch(m, RR), Fetch(m, LR), 1 + Fetch(m, LR),
           6 + Submit(m, LR), 5 + Submit(m, LR), 4 + Submit(m, LR),
           3 + Submit(m, LR), 2 + Submit(m, LR), 1 + Submit(m, LR),
           Submit(m, LR)}
    BY <1>5 DEF Cost, Phases, CancellablePhases, SettlingPhases, LS, LR, RR
  <2> QED  BY <1>1, <1>2, <1>3, <1>5, <2>1, <2>2, <2>3
<1> QED  BY <1>4, <1>5

-----------------------------------------------------------------------------
(* How the helpers of the machine change the cost.                         *)

(* A phase that a pending shutdown does not divert is entered at its cost. *)
LEMMA EnterCost ==
  ASSUME NEW m \in Machines, NEW p \in Phases,
         m.shutdownMode # "none" => p \in SettlingPhases
  PROVE  Enter(m, p).phase = p /\ Cost(Enter(m, p), p) = Cost(m, p)
<1>1. Enter(m, p) = [m EXCEPT !.phase = p]
  BY DEF Enter, Phases, CancellablePhases, SettlingPhases
<1>2. Alike(m, Enter(m, p)) /\ Enter(m, p).phase = p
  BY <1>1 DEF Alike, Machines
<1> QED  BY <1>2, AlikeCost

(* Recording an outcome costs nothing.                                     *)
LEMMA EndWithCost ==
  ASSUME NEW m \in Machines, NEW o \in Outcomes, NEW p \in SettlingPhases
  PROVE  EndWith(m, o, p).phase = p /\ Cost(EndWith(m, o, p), p) = Cost(m, p)
<1> DEFINE e == [m EXCEPT !.outcome = o]
<1>1. e \in Machines /\ Alike(m, e)
  BY DEF Machines, Alike
<1> QED  BY <1>1, EnterCost, AlikeCost DEF EndWith, Phases

(* Neither does settling the order in flight.                              *)
LEMMA LandedCost ==
  ASSUME NEW m \in Machines
  PROVE  /\ Landed(m) \in Machines
         /\ \A p: Cost(Landed(m), p) = Cost(m, p)
         /\ Alike(m, Landed(m))
<1>1. Landed(m) \in Machines /\ Alike(m, Landed(m))
  BY DEF Landed, Machines, Alike
<1> QED  BY <1>1, AlikeCost

(* Counting an attempt uses up one retry of its kind and no other.         *)
LEMMA CountLeft ==
  ASSUME NEW m \in Machines, NEW k \in AttemptKinds
  PROVE  LET c == CountAttempt(m, k)
         IN  /\ c \in Machines
             /\ \A j \in AttemptKinds \ {k}: Left(c, j) = Left(m, j)
             /\ Left(c, k) <= Left(m, k)
             /\ CanRetry(m, k) => Left(c, k) = Left(m, k) - 1
             /\ k # "schedule" => After(c) = After(m)
<1> DEFINE c == CountAttempt(m, k)
<1>1. /\ c \in Machines
      /\ c.attempts = [m.attempts EXCEPT ![k] = @ + 1]
      /\ c.terminalFailure = m.terminalFailure
      /\ c.shutdownMode = m.shutdownMode
      /\ c.killCompleted = m.killCompleted
  BY DEF CountAttempt, Machines
<1>2. m.attempts \in [AttemptKinds -> Nat]
  BY DEF Machines
<1>3. /\ c.attempts[k] = m.attempts[k] + 1
      /\ \A j \in AttemptKinds \ {k}: c.attempts[j] = m.attempts[j]
  BY <1>1, <1>2
<1>4. \A j \in AttemptKinds \ {k}: Left(c, j) = Left(m, j)
  BY <1>3 DEF Left
<1>5. Left(c, k) <= Left(m, k)
      /\ (CanRetry(m, k) => Left(c, k) = Left(m, k) - 1)
  BY <1>2, <1>3, LimitsNat DEF Left, CanRetry
<1>6. k # "schedule" => After(c) = After(m)
  BY <1>1, <1>4 DEF After
<1> HIDE DEF c
<1> QED  BY <1>1, <1>4, <1>5, <1>6 DEF c

(* Resetting a kind restores its whole budget and no other.                *)
LEMMA ResetLeft ==
  ASSUME NEW m \in Machines, NEW k \in AttemptKinds
  PROVE  LET c == ResetAttempt(m, k)
         IN  /\ c \in Machines
             /\ \A j \in AttemptKinds \ {k}: Left(c, j) = Left(m, j)
             /\ Left(c, k) = RetryLimits[k]
             /\ k # "schedule" => After(c) = After(m)
<1> DEFINE c == ResetAttempt(m, k)
<1>1. /\ c \in Machines
      /\ c.attempts = [m.attempts EXCEPT ![k] = 0]
      /\ c.terminalFailure = m.terminalFailure
      /\ c.shutdownMode = m.shutdownMode
      /\ c.killCompleted = m.killCompleted
  BY DEF ResetAttempt, Machines
<1>2. m.attempts \in [AttemptKinds -> Nat]
  BY DEF Machines
<1>3. /\ c.attempts[k] = 0
      /\ \A j \in AttemptKinds \ {k}: c.attempts[j] = m.attempts[j]
  BY <1>1, <1>2
<1>4. \A j \in AttemptKinds \ {k}: Left(c, j) = Left(m, j)
  BY <1>3 DEF Left
<1>5. Left(c, k) = RetryLimits[k]
  BY <1>3, LimitsNat DEF Left
<1>6. k # "schedule" => After(c) = After(m)
  BY <1>1, <1>4 DEF After
<1> HIDE DEF c
<1> QED  BY <1>1, <1>4, <1>5, <1>6 DEF c

(* A retry costs less than the attempt that failed.                        *)
RetryPairs ==
  {<<"schedule", "scheduling", "retryingSchedule">>,
   <<"reconciliation", "reconcilingAccount", "retryingAccountReconciliation">>,
   <<"marketData", "fetchingMarketData", "retryingMarketData">>,
   <<"authorization", "authorizing", "retryingAuthorization">>,
   <<"execution", "submittingOrder", "retryingExecution">>,
   <<"reconciliation", "reconcilingOrder", "retryingReconciliation">>,
   <<"persistence", "persisting", "retryingPersistence">>}

(* A counted retry into its phase costs less than the phase it retries.    *)
LEMMA RetryCost ==
  ASSUME NEW m \in Machines, NEW k, NEW p, NEW q, <<k, p, q>> \in RetryPairs,
         CanRetry(m, k)
  PROVE  Cost(CountAttempt(m, k), q) + 1 <= Cost(m, p)
<1>1. PICK c: c = CountAttempt(m, k)
  OBVIOUS
<1>2. k \in AttemptKinds
  BY DEF RetryPairs
<1>3. /\ c \in Machines
      /\ \A j \in AttemptKinds \ {k}: Left(c, j) = Left(m, j)
      /\ Left(c, k) = Left(m, k) - 1
      /\ k # "schedule" => After(c) = After(m)
  BY <1>1, <1>2, CountLeft
<1>4. \A j \in AttemptKinds: Left(m, j) \in Nat /\ RetryLimits[j] \in Nat
  BY LeftNat, LimitsNat
<1>5. After(m) \in Nat
  BY AfterBounds
<1> SUFFICES Cost(c, q) + 1 <= Cost(m, p)
  BY <1>1
<1>6. CASE k = "schedule" /\ p = "scheduling" /\ q = "retryingSchedule"
  BY <1>3, <1>4, <1>6 DEF Cost
<1>7. CASE /\ k = "reconciliation"
           /\ p = "reconcilingAccount" /\ q = "retryingAccountReconciliation"
  BY <1>3, <1>4, <1>5, <1>7 DEF Cost, Fetch, Submit, Resolve, Persist
<1>8. CASE /\ k = "marketData"
           /\ p = "fetchingMarketData" /\ q = "retryingMarketData"
  BY <1>3, <1>4, <1>5, <1>8 DEF Cost, Fetch, Submit, Resolve, Persist
<1>9. CASE /\ k = "authorization"
           /\ p = "authorizing" /\ q = "retryingAuthorization"
  BY <1>3, <1>4, <1>5, <1>9 DEF Cost, Submit, Resolve, Persist
<1>10. CASE /\ k = "execution"
            /\ p = "submittingOrder" /\ q = "retryingExecution"
  BY <1>3, <1>4, <1>5, <1>10 DEF Cost, Submit, Resolve, Persist
<1>11. CASE /\ k = "reconciliation"
            /\ p = "reconcilingOrder" /\ q = "retryingReconciliation"
  BY <1>3, <1>4, <1>5, <1>11 DEF Cost, Resolve, Persist
<1>12. CASE /\ k = "persistence"
            /\ p = "persisting" /\ q = "retryingPersistence"
  BY <1>3, <1>4, <1>5, <1>12 DEF Cost, Persist
<1> QED
  BY <1>6, <1>7, <1>8, <1>9, <1>10, <1>11, <1>12 DEF RetryPairs

-----------------------------------------------------------------------------
(* Every event leads to a machine that costs less.                         *)
Cheaper(m, e) == Cost(e, e.phase) + 1 <= Cost(m, m.phase)

(* A failure is cheaper when giving up is: the retry always is.            *)
LEMMA RetryOrCheaper ==
  ASSUME NEW m \in Machines, NEW k, NEW q, <<k, m.phase, q>> \in RetryPairs,
         m.shutdownMode # "none" => q \in SettlingPhases,
         NEW retryable \in BOOLEAN, NEW giveUp, Cheaper(m, giveUp)
  PROVE  Cheaper(m, RetryOr(m, k, retryable, q, giveUp))
<1>1. CASE retryable /\ CanRetry(m, k)
  <2>1. PICK c: c = CountAttempt(m, k)
    OBVIOUS
  <2>2. k \in AttemptKinds /\ q \in Phases
    BY DEF RetryPairs, Phases, CancellablePhases, SettlingPhases
  <2>3. c \in Machines /\ c.shutdownMode = m.shutdownMode
    BY <2>1, <2>2, CountAttemptType
  <2>4. Cost(c, q) + 1 <= Cost(m, m.phase)
    BY <1>1, <2>1, RetryCost
  <2>5. Enter(c, q).phase = q /\ Cost(Enter(c, q), q) = Cost(c, q)
    BY <2>2, <2>3, EnterCost
  <2> QED  BY <1>1, <2>1, <2>4, <2>5 DEF RetryOr, Cheaper
<1>2. CASE ~(retryable /\ CanRetry(m, k))
  BY <1>2 DEF RetryOr
<1> QED  BY <1>1, <1>2

(* The costs of the phases, from the last to the first.                    *)
LEMMA Downhill ==
  ASSUME NEW m \in Machines
  PROVE  /\ \A p \in {"stopped", "failed", "halted", "waiting"}:
              Cost(m, p) = 1
         /\ Cost(m, "scheduling") >= 2
         /\ Cost(m, "retryingSchedule") = Cost(m, "scheduling") + 1
         /\ Cost(m, "persisting") = Persist(m) /\ Persist(m) >= 2
         /\ Cost(m, "retryingPersistence") = Persist(m) + 1
         /\ Cost(m, "cancelling") = 3 + 2 * Left(m, "persistence")
         /\ Cost(m, "reconcilingOrder") >= Persist(m) + 1
         /\ Cost(m, "retryingReconciliation") = Cost(m, "reconcilingOrder") + 1
         /\ Cost(m, "submittingOrder") >= Cost(m, "reconcilingOrder") + 1
         /\ Cost(m, "authorizing") = Cost(m, "submittingOrder") + 1
         /\ Cost(m, "retryingAuthorization") = Cost(m, "authorizing") + 1
         /\ Cost(m, "retryingExecution") = Cost(m, "authorizing") + 1
         /\ Cost(m, "persistingOrderIntent") = Cost(m, "authorizing") + 1
         /\ Cost(m, "checkingRisk") = Cost(m, "persistingOrderIntent") + 1
         /\ Cost(m, "allocating") = Cost(m, "checkingRisk") + 1
         /\ Cost(m, "evaluatingStrategies") = Cost(m, "allocating") + 1
         /\ Cost(m, "computingIndicators") = Cost(m, "evaluatingStrategies") + 1
         /\ Cost(m, "fetchingMarketData") =
              Cost(m, "computingIndicators") + 1 + 2 * Left(m, "marketData")
         /\ Cost(m, "retryingMarketData") = Cost(m, "fetchingMarketData") + 1
         /\ Cost(m, "reconcilingAccount") >= Persist(m) + 2
         /\ Cost(m, "retryingAccountReconciliation") =
              Cost(m, "reconcilingAccount") + 1
<1>1. \A k \in AttemptKinds: Left(m, k) \in Nat /\ RetryLimits[k] \in Nat
  BY LeftNat, LimitsNat
<1>2. After(m) \in Nat /\ After(m) >= 1
  BY AfterBounds
<1>3. \A r \in Nat:
        /\ Submit(m, r) \in Nat
        /\ Submit(m, r) >= Resolve(m, r) + 1
        /\ Resolve(m, r) >= Persist(m) + 1 /\ Resolve(m, r) \in Nat
        /\ Persist(m) \in Nat
        /\ Fetch(m, r) = 7 + 2 * Left(m, "marketData") + Submit(m, r)
  BY <1>1, <1>2 DEF Submit, Resolve, Persist, Fetch
<1>4. Persist(m) \in Nat /\ Persist(m) >= 2
  BY <1>1, <1>2 DEF Persist
<1> DEFINE r == Left(m, "reconciliation")
           R == RetryLimits["reconciliation"]
<1>5. /\ \A p \in {"stopped", "failed", "halted", "waiting"}: Cost(m, p) = 1
      /\ Cost(m, "scheduling") = 2 + 2 * Left(m, "schedule")
      /\ Cost(m, "retryingSchedule") = 3 + 2 * Left(m, "schedule")
      /\ Cost(m, "persisting") = Persist(m)
      /\ Cost(m, "retryingPersistence") = 1 + Persist(m)
      /\ Cost(m, "cancelling") = 3 + 2 * Left(m, "persistence")
  BY DEF Cost
<1>6. /\ Cost(m, "reconcilingOrder") = Resolve(m, r)
      /\ Cost(m, "retryingReconciliation") = 1 + Resolve(m, r)
      /\ Cost(m, "submittingOrder") = Submit(m, r)
      /\ Cost(m, "authorizing") = 1 + Submit(m, r)
      /\ Cost(m, "retryingAuthorization") = 2 + Submit(m, r)
      /\ Cost(m, "retryingExecution") = 2 + Submit(m, r)
      /\ Cost(m, "persistingOrderIntent") = 2 + Submit(m, r)
  BY DEF Cost
<1>7. /\ Cost(m, "checkingRisk") = 3 + Submit(m, r)
      /\ Cost(m, "allocating") = 4 + Submit(m, r)
      /\ Cost(m, "evaluatingStrategies") = 5 + Submit(m, r)
      /\ Cost(m, "computingIndicators") = 6 + Submit(m, r)
  BY DEF Cost
<1>8. /\ Cost(m, "fetchingMarketData") = Fetch(m, r)
      /\ Cost(m, "retryingMarketData") = 1 + Fetch(m, r)
      /\ Cost(m, "reconcilingAccount") = 1 + 2 * r + Fetch(m, R)
      /\ Cost(m, "retryingAccountReconciliation") = 2 + 2 * r + Fetch(m, R)
  BY DEF Cost
<1>9. r \in Nat /\ R \in Nat
  BY <1>1
<1> HIDE DEF r, R
<1>10. /\ Submit(m, r) \in Nat /\ Submit(m, r) >= Resolve(m, r) + 1
       /\ Resolve(m, r) >= Persist(m) + 1 /\ Resolve(m, r) \in Nat
       /\ Fetch(m, r) = 7 + 2 * Left(m, "marketData") + Submit(m, r)
       /\ Submit(m, R) \in Nat /\ Submit(m, R) >= Persist(m) + 2
       /\ Fetch(m, R) = 7 + 2 * Left(m, "marketData") + Submit(m, R)
  BY <1>3, <1>4, <1>9
<1>11. Left(m, "marketData") \in Nat /\ Left(m, "schedule") \in Nat
  BY <1>1
<1> QED  BY <1>4, <1>5, <1>6, <1>7, <1>8, <1>9, <1>10, <1>11

(* Entering a phase that costs less.                                       *)
LEMMA EnterCheaper ==
  ASSUME NEW m, NEW e \in Machines, NEW p \in Phases,
         e.shutdownMode # "none" => p \in SettlingPhases,
         Cost(e, p) + 1 <= Cost(m, m.phase)
  PROVE  Cheaper(m, Enter(e, p))
BY EnterCost DEF Cheaper

(* The same for an event that also records an outcome.                     *)
LEMMA EndWithCheaper ==
  ASSUME NEW m, NEW e \in Machines, NEW o \in Outcomes,
         NEW p \in SettlingPhases, Cost(e, p) + 1 <= Cost(m, m.phase)
  PROVE  Cheaper(m, EndWith(e, o, p))
BY EndWithCost DEF Cheaper

(* Failing the cycle is cheaper from every phase that can fail it.         *)
LEMMA CycleFailedCheaper ==
  ASSUME NEW m, Sound(m),
         m.phase \in {"reconcilingAccount", "fetchingMarketData",
                      "computingIndicators", "evaluatingStrategies",
                      "allocating", "checkingRisk", "persistingOrderIntent",
                      "authorizing"}
  PROVE  Cheaper(m, CycleFailed(m))
<1>1. m \in Machines
  BY DEF Sound
<1>2. Cost(m, "persisting") + 1 <= Cost(m, m.phase)
  <2>1. Left(m, "marketData") \in Nat /\ Persist(m) \in Nat
        /\ \A p \in Phases: m.shutdownMode = "none" => Cost(m, p) \in Nat
    BY <1>1, LeftNat, AfterBounds, CostBounds DEF Persist
  <2>2. m.shutdownMode = "none"
    BY CleanPhase DEF CancellablePhases
  <2> QED
    BY <1>1, <2>1, <2>2, Downhill DEF Phases, CancellablePhases, SettlingPhases
<1> QED  BY <1>1, <1>2, EndWithCheaper DEF CycleFailed, SettlingPhases

(* The events of scheduling.                                               *)
LEMMA ScheduleCheaper ==
  ASSUME NEW m, Sound(m), m.phase = "scheduling", NEW retryable \in BOOLEAN
  PROVE  /\ Cheaper(m, ScheduleSucceeded(m))
         /\ Cheaper(m, ScheduleFailed(m, retryable))
<1>1. m \in Machines /\ m.shutdownMode = "none"
  BY CleanPhase DEF CancellablePhases
<1>2. /\ Cost(m, "failed") = 1 /\ Cost(m, "scheduling") >= 2
      /\ Cost(m, "scheduling") \in Nat
  BY <1>1, Downhill, CostBounds DEF Phases, CancellablePhases
<1>3. Cheaper(m, ScheduleSucceeded(m))
  <2>1. PICK e: e = ResetAttempt(m, "schedule")
    OBVIOUS
  <2>2. e \in Machines /\ e.shutdownMode = "none"
    BY <1>1, <2>1, ResetAttemptType
  <2>3. Cost(e, "waiting") = 1
    BY <2>2, Downhill
  <2> QED
    BY <1>2, <2>1, <2>2, <2>3, EnterCheaper
    DEF ScheduleSucceeded, Phases, CancellablePhases
<1>4. Cheaper(m, EndWith(m, "FAILED", "failed"))
  BY <1>1, <1>2, EndWithCheaper DEF SettlingPhases
<1>5. Cheaper(m, ScheduleFailed(m, retryable))
  BY <1>1, <1>4, RetryOrCheaper DEF ScheduleFailed, RetryPairs
<1> QED  BY <1>3, <1>5

(* A retry timer.                                                          *)
LEMMA RetryTimerCheaper ==
  ASSUME NEW m, Sound(m), m.phase \in RetryPhases
  PROVE  Cheaper(m, RetryTimerElapsed(m))
<1>1. m \in Machines
  BY DEF Sound
<1>2. /\ RetryTarget(m.phase) \in Phases
      /\ m.shutdownMode # "none" => RetryTarget(m.phase) \in SettlingPhases
      /\ m.phase \in Phases
      /\ m.shutdownMode # "none" => m.phase \in SettlingPhases
  BY DEF RetryTarget, RetryPhases, Sound, Phases, CancellablePhases,
         SettlingPhases
<1>3. /\ Cost(m, RetryTarget(m.phase)) \in Nat
      /\ Cost(m, m.phase) \in Nat
  BY <1>1, <1>2, CostBounds
<1>4. Cost(m, RetryTarget(m.phase)) + 1 <= Cost(m, m.phase)
  BY <1>1, <1>3, Downhill DEF RetryTarget, RetryPhases
<1> QED  BY <1>1, <1>2, <1>4, EnterCheaper DEF RetryTimerElapsed

(* The reconciliation budget is restored between the account and the       *)
(* order, which is why FullCycle counts it twice.                          *)
LEMMA AccountCheaper ==
  ASSUME NEW m, Sound(m), m.phase = "reconcilingAccount",
         NEW retryable \in BOOLEAN
  PROVE  /\ Cheaper(m, AccountReconciled(m))
         /\ Cheaper(m, AccountReconciliationFailed(m, retryable))
<1>1. m \in Machines /\ m.shutdownMode = "none"
  BY CleanPhase DEF CancellablePhases
<1>2. Cheaper(m, AccountReconciled(m))
  <2>1. PICK e: e = ResetAttempt(m, "reconciliation")
    OBVIOUS
  <2>2. /\ e \in Machines /\ e.shutdownMode = "none"
        /\ \A j \in AttemptKinds \ {"reconciliation"}: Left(e, j) = Left(m, j)
        /\ Left(e, "reconciliation") = RetryLimits["reconciliation"]
        /\ After(e) = After(m)
    BY <1>1, <2>1, ResetAttemptType, ResetLeft
  <2>3. \A r: Fetch(e, r) = Fetch(m, r)
    BY <2>2 DEF Fetch, Submit, Resolve, Persist
  <2>4. Cost(e, "fetchingMarketData") = Fetch(m, RetryLimits["reconciliation"])
    BY <2>2, <2>3 DEF Cost
  <2>5. Cost(m, m.phase) = 1 + 2 * Left(m, "reconciliation")
                             + Fetch(m, RetryLimits["reconciliation"])
    BY DEF Cost
  <2>6. Fetch(m, RetryLimits["reconciliation"]) \in Nat
        /\ Left(m, "reconciliation") \in Nat
    BY <1>1, LeftNat, LimitsNat, AfterBounds DEF Fetch, Submit, Resolve, Persist
  <2>7. Cost(e, "fetchingMarketData") + 1 <= Cost(m, m.phase)
    BY <2>4, <2>5, <2>6
  <2> QED
    BY <2>1, <2>2, <2>7, EnterCheaper
    DEF AccountReconciled, Phases, CancellablePhases
<1>3. Cheaper(m, CycleFailed(m))
  BY CycleFailedCheaper
<1>4. Cheaper(m, AccountReconciliationFailed(m, retryable))
  BY <1>1, <1>3, RetryOrCheaper DEF AccountReconciliationFailed, RetryPairs
<1> QED  BY <1>2, <1>4

(* The events of the market fetch.                                         *)
LEMMA MarketDataCheaper ==
  ASSUME NEW m, Sound(m), m.phase = "fetchingMarketData",
         NEW candle \in Nat, NEW fresh \in BOOLEAN, NEW retryable \in BOOLEAN
  PROVE  /\ Cheaper(m, MarketDataReady(m, candle, fresh))
         /\ Cheaper(m, MarketDataFailed(m, retryable))
<1>1. m \in Machines /\ m.shutdownMode = "none"
  BY CleanPhase DEF CancellablePhases
<1>2. PICK e: e = ResetAttempt(m, "marketData")
  OBVIOUS
<1>3. PICK c: c = CountAttempt(m, "marketData")
  OBVIOUS
<1>4. /\ e \in Machines /\ e.shutdownMode = "none"
      /\ \A j \in AttemptKinds \ {"marketData"}: Left(e, j) = Left(m, j)
      /\ After(e) = After(m)
  BY <1>1, <1>2, ResetAttemptType, ResetLeft
<1>5. /\ c \in Machines /\ c.shutdownMode = "none"
      /\ \A j \in AttemptKinds \ {"marketData"}: Left(c, j) = Left(m, j)
      /\ After(c) = After(m)
  BY <1>1, <1>3, CountAttemptType, CountLeft
<1>6. /\ Persist(e) = Persist(m) /\ Persist(c) = Persist(m)
      /\ \A r: Submit(e, r) = Submit(m, r)
  BY <1>4, <1>5 DEF Persist, Resolve, Submit
<1>7. \A k \in AttemptKinds: Left(m, k) \in Nat
  BY <1>1, LeftNat
<1>8. After(m) \in Nat
  BY <1>1, AfterBounds
<1>9. /\ Cost(e, "persisting") + 1 <= Cost(m, m.phase)
      /\ Cost(c, "persisting") + 1 <= Cost(m, m.phase)
      /\ Cost(e, "computingIndicators") + 1 <= Cost(m, m.phase)
  <2>1. /\ Cost(e, "persisting") = Persist(m)
        /\ Cost(c, "persisting") = Persist(m)
        /\ Cost(e, "computingIndicators")
             = 6 + Submit(m, Left(m, "reconciliation"))
    BY <1>4, <1>6 DEF Cost
  <2>2. Cost(m, m.phase) = 7 + 2 * Left(m, "marketData")
                             + Submit(m, Left(m, "reconciliation"))
    BY DEF Cost, Fetch
  <2>3. /\ Persist(m) \in Nat
        /\ Submit(m, Left(m, "reconciliation")) \in Nat
        /\ Submit(m, Left(m, "reconciliation")) >= Persist(m)
    BY <1>7, <1>8 DEF Submit, Resolve, Persist
  <2> QED  BY <1>7, <2>1, <2>2, <2>3
<1>10. /\ Cheaper(m, EndWith(e, "NO_ACTION", "persisting"))
       /\ Cheaper(m, EndWith(c, "NO_ACTION", "persisting"))
  BY <1>4, <1>5, <1>9, EndWithCheaper DEF SettlingPhases
<1>11. Cheaper(m, Enter([e EXCEPT !.lastDecisionCandle = candle],
                        "computingIndicators"))
  <2>1. PICK d: d = [e EXCEPT !.lastDecisionCandle = candle]
    OBVIOUS
  <2>2. d \in Machines /\ Alike(e, d) /\ d.shutdownMode = "none"
    BY <1>4, <2>1 DEF Machines, Alike
  <2>3. Cost(d, "computingIndicators") + 1 <= Cost(m, m.phase)
    BY <1>9, <2>2, AlikeCost
  <2> QED
    BY <2>1, <2>2, <2>3, EnterCheaper DEF Phases, CancellablePhases
<1>12. CanRetry(m, "marketData") =>
         Cheaper(m, Enter(c, "retryingMarketData"))
  <2>1. CanRetry(m, "marketData") =>
          Cost(c, "retryingMarketData") + 1 <= Cost(m, m.phase)
    BY <1>1, <1>3, RetryCost DEF RetryPairs
  <2> QED  BY <1>5, <2>1, EnterCheaper DEF Phases, CancellablePhases
<1>13. Cheaper(m, MarketDataReady(m, candle, fresh))
  BY <1>2, <1>3, <1>10, <1>11, <1>12 DEF MarketDataReady
<1>14. Cheaper(m, MarketDataFailed(m, retryable))
  BY <1>1, CycleFailedCheaper, RetryOrCheaper DEF MarketDataFailed, RetryPairs
<1> QED  BY <1>13, <1>14

(* The decision phases cost one iteration each, or end the cycle.          *)
LEMMA DecisionCheaper ==
  ASSUME NEW m, Sound(m), NEW hasOrders \in BOOLEAN
  PROVE  /\ m.phase = "computingIndicators" => Cheaper(m, IndicatorsComputed(m))
         /\ m.phase = "evaluatingStrategies" =>
              Cheaper(m, StrategiesEvaluated(m))
         /\ m.phase = "allocating" =>
              Cheaper(m, AllocationCompleted(m, hasOrders))
         /\ m.phase = "checkingRisk" => /\ Cheaper(m, RiskApproved(m))
                                        /\ Cheaper(m, RiskRejected(m))
         /\ m.phase = "persistingOrderIntent" =>
              Cheaper(m, OrderIntentPersisted(m))
<1>1. m \in Machines
  BY DEF Sound
<1>2. m.phase \in CancellablePhases => m.shutdownMode = "none"
  BY CleanPhase
<1>3. m.shutdownMode = "none" => \A p \in Phases: Cost(m, p) \in Nat
  BY <1>1, CostBounds
<1>4. \A p \in Phases: m.shutdownMode = "none"
        /\ Cost(m, p) + 1 <= Cost(m, m.phase) => Cheaper(m, Enter(m, p))
  BY <1>1, EnterCheaper
<1>5. \A o \in Outcomes: Cost(m, "persisting") + 1 <= Cost(m, m.phase)
        => Cheaper(m, EndWith(m, o, "persisting"))
  BY <1>1, EndWithCheaper DEF SettlingPhases
<1>6. CASE m.phase = "computingIndicators"
  BY <1>1, <1>2, <1>3, <1>4, <1>6, Downhill
  DEF IndicatorsComputed, Phases, CancellablePhases
<1>7. CASE m.phase = "evaluatingStrategies"
  BY <1>1, <1>2, <1>3, <1>4, <1>7, Downhill
  DEF StrategiesEvaluated, Phases, CancellablePhases
<1>8. CASE m.phase = "allocating"
  <2>1. Cost(m, "checkingRisk") + 1 <= Cost(m, m.phase)
        /\ Cost(m, "persisting") + 1 <= Cost(m, m.phase)
    BY <1>1, <1>2, <1>3, <1>8, Downhill
    DEF Phases, CancellablePhases, SettlingPhases
  <2> QED
    BY <1>2, <1>4, <1>5, <1>8, <2>1
    DEF AllocationCompleted, Phases, CancellablePhases
<1>9. CASE m.phase = "checkingRisk"
  <2>1. Cost(m, "persistingOrderIntent") + 1 <= Cost(m, m.phase)
        /\ Cost(m, "persisting") + 1 <= Cost(m, m.phase)
    BY <1>1, <1>2, <1>3, <1>9, Downhill
    DEF Phases, CancellablePhases, SettlingPhases
  <2> QED
    BY <1>2, <1>4, <1>5, <1>9, <2>1
    DEF RiskApproved, RiskRejected, Phases, CancellablePhases
<1>10. CASE m.phase = "persistingOrderIntent"
  BY <1>1, <1>2, <1>3, <1>4, <1>10, Downhill
  DEF OrderIntentPersisted, Phases, CancellablePhases
<1> QED  BY <1>6, <1>7, <1>8, <1>9, <1>10

(* The events of the authorization.                                        *)
LEMMA AuthorizationCheaper ==
  ASSUME NEW m, Sound(m), m.phase = "authorizing",
         NEW usable \in BOOLEAN, NEW retryable \in BOOLEAN
  PROVE  /\ Cheaper(m, AuthorizationReady(m, usable))
         /\ Cheaper(m, AuthorizationFailed(m, retryable))
<1>1. m \in Machines /\ m.shutdownMode = "none"
  BY CleanPhase DEF CancellablePhases
<1>2. \A b \in BOOLEAN:
        Cheaper(m, RetryOr(m, "authorization", b, "retryingAuthorization",
                           CycleFailed(m)))
  BY <1>1, CycleFailedCheaper, RetryOrCheaper DEF RetryPairs
<1>3. PICK e: e = [m EXCEPT !.orderMayBeInFlight = TRUE]
  OBVIOUS
<1>4. e \in Machines /\ Alike(m, e) /\ e.shutdownMode = "none"
  BY <1>1, <1>3 DEF Machines, Alike
<1>5. Cost(e, "submittingOrder") + 1 <= Cost(m, m.phase)
  BY <1>1, <1>4, AlikeCost, Downhill, CostBounds
  DEF Phases, CancellablePhases
<1>6. Cheaper(m, Enter(e, "submittingOrder"))
  BY <1>4, <1>5, EnterCheaper DEF Phases
<1> QED  BY <1>2, <1>3, <1>6 DEF AuthorizationReady, AuthorizationFailed

(* The events of the submission and of the reconciliation.                 *)
LEMMA OrderCheaper ==
  ASSUME NEW m, Sound(m),
         m.phase \in {"submittingOrder", "reconcilingOrder"},
         NEW found \in BOOLEAN, NEW retryable \in BOOLEAN
  PROVE  /\ Cheaper(m, OrderConfirmed(m))
         /\ m.phase = "submittingOrder" =>
              /\ Cheaper(m, OrderRejected(m, retryable))
              /\ Cheaper(m, OrderOutcomeUnknown(m))
         /\ Cheaper(m, OrderNoLongerNeeded(m))
         /\ Cheaper(m, OrderProtectionFailed(m))
         /\ Cheaper(m, OrderReconciled(m, found))
         /\ m.phase = "reconcilingOrder" =>
              Cheaper(m, ReconciliationFailed(m, retryable))
<1>1. /\ m \in Machines /\ m.phase \in Phases
      /\ m.shutdownMode # "none" => m.phase \in SettlingPhases
      /\ m.phase = "submittingOrder" => m.shutdownMode = "none"
  BY DEF Sound, Phases, CancellablePhases, SettlingPhases
<1>2. PICK l: l = Landed(m)
  OBVIOUS
<1>3. l \in Machines /\ Alike(m, l) /\ \A p: Cost(l, p) = Cost(m, p)
      /\ l.shutdownMode = m.shutdownMode
  BY <1>1, <1>2, LandedCost, LandedType
<1>4. /\ Cost(m, m.phase) \in Nat /\ Persist(m) \in Nat /\ Persist(m) >= 2
      /\ Cost(m, "persisting") = Persist(m)
      /\ Cost(m, "failed") = 1
      /\ Cost(m, "reconcilingOrder") \in Nat
      /\ Cost(m, "reconcilingOrder") >= Persist(m) + 1
      /\ Cost(m, "submittingOrder") >= Cost(m, "reconcilingOrder") + 1
  <2>1. Cost(m, m.phase) \in Nat /\ Cost(m, "reconcilingOrder") \in Nat
        /\ Cost(m, "persisting") \in Nat
    BY <1>1, CostBounds DEF Phases, SettlingPhases
  <2> QED  BY <1>1, <2>1, Downhill
<1>5. /\ Cost(m, "persisting") + 1 <= Cost(m, m.phase)
      /\ Cost(m, "failed") + 1 <= Cost(m, m.phase)
  BY <1>4
<1>6. \A o \in Outcomes: Cheaper(m, EndWith(l, o, "persisting"))
  BY <1>3, <1>5, EndWithCheaper DEF SettlingPhases
<1>7. m.phase = "submittingOrder" => Cheaper(m, OrderRejected(m, retryable))
  <2> SUFFICES ASSUME m.phase = "submittingOrder"
               PROVE  Cheaper(m, OrderRejected(m, retryable))
    OBVIOUS
  <2>1. l.phase = m.phase
    BY <1>1, <1>2 DEF Landed, Machines
  <2>2. Cheaper(l, EndWith(l, "ORDER_REJECTED", "persisting"))
    BY <1>3, <1>6, <2>1 DEF Cheaper
  <2>3. Cheaper(l, RetryOr(l, "execution", retryable, "retryingExecution",
                           EndWith(l, "ORDER_REJECTED", "persisting")))
    BY <1>1, <1>3, <2>1, <2>2, RetryOrCheaper DEF RetryPairs
  <2> QED  BY <1>2, <1>3, <2>1, <2>3 DEF OrderRejected, Cheaper
<1>8. m.phase = "submittingOrder" => Cheaper(m, OrderOutcomeUnknown(m))
  BY <1>1, <1>4, EnterCheaper DEF OrderOutcomeUnknown, Phases, SettlingPhases
<1>9. Cheaper(m, OrderProtectionFailed(m))
  <2>1. PICK t: t = [l EXCEPT !.terminalFailure = TRUE]
    OBVIOUS
  <2>2. t \in Machines /\ t.attempts = m.attempts /\ t.terminalFailure
    BY <1>3, <2>1 DEF Machines, Alike
  <2>3. After(t) = 1 /\ Left(t, "persistence") = Left(m, "persistence")
    BY <2>2 DEF After, Left
  <2>4. Cost(t, "persisting") = 2 + 2 * Left(m, "persistence")
    BY <1>1, <2>3, LeftNat DEF Cost, Persist
  <2>5. 2 + 2 * Left(m, "persistence") <= Persist(m)
    BY <1>1, LeftNat, AfterBounds DEF Persist
  <2>6. Cost(t, "persisting") + 1 <= Cost(m, m.phase)
    BY <1>1, <1>4, <2>4, <2>5, LeftNat
  <2> QED
    BY <1>2, <2>1, <2>2, <2>6, EndWithCheaper
    DEF OrderProtectionFailed, SettlingPhases
<1>10. m.phase = "reconcilingOrder" =>
         Cheaper(m, ReconciliationFailed(m, retryable))
  <2>1. Cheaper(m, EndWith(m, "FAILED", "failed"))
    BY <1>1, <1>5, EndWithCheaper DEF SettlingPhases
  <2> QED
    BY <1>1, <2>1, RetryOrCheaper
    DEF ReconciliationFailed, RetryPairs, SettlingPhases
<1> QED
  BY <1>2, <1>6, <1>7, <1>8, <1>9, <1>10
  DEF OrderConfirmed, OrderNoLongerNeeded, OrderReconciled

(* The events of the cancellation.                                         *)
LEMMA CancelCheaper ==
  ASSUME NEW m, Sound(m), m.phase = "cancelling"
  PROVE  Cheaper(m, EffectCancelled(m)) /\ Cheaper(m, EffectCancelFailed(m))
<1>1. m \in Machines /\ m.shutdownMode \in {"stop", "kill-switch"}
  BY DEF Sound, Fits, Machines, ShutdownModes
<1>2. Left(m, "persistence") \in Nat
  BY <1>1, LeftNat
<1>3. Cost(m, m.phase) = 3 + 2 * Left(m, "persistence")
  BY <1>1, Downhill
<1>4. PICK l: l = Landed(m)
  OBVIOUS
<1>5. l \in Machines /\ Alike(m, l)
  BY <1>1, <1>4, LandedCost
<1>6. PICK c: c = [l EXCEPT !.killCompleted =
                              (m.shutdownMode = "kill-switch") \/ @]
  OBVIOUS
<1>7. PICK t: t = [l EXCEPT !.terminalFailure = TRUE]
  OBVIOUS
<1>8. /\ c \in Machines /\ c.attempts = m.attempts
      /\ c.shutdownMode = m.shutdownMode
      /\ c.killCompleted = ((m.shutdownMode = "kill-switch") \/ l.killCompleted)
  BY <1>5, <1>6 DEF Machines, Alike
<1>9. t \in Machines /\ t.attempts = m.attempts /\ t.terminalFailure
  BY <1>5, <1>7 DEF Machines, Alike
<1>10. /\ After(c) = 1 /\ Left(c, "persistence") = Left(m, "persistence")
       /\ After(t) = 1 /\ Left(t, "persistence") = Left(m, "persistence")
  BY <1>1, <1>8, <1>9 DEF After, Left
<1>11. /\ Cost(c, "persisting") + 1 <= Cost(m, m.phase)
       /\ Cost(t, "persisting") + 1 <= Cost(m, m.phase)
  BY <1>2, <1>3, <1>10 DEF Cost, Persist
<1> QED
  BY <1>4, <1>6, <1>7, <1>8, <1>9, <1>11, EndWithCheaper
  DEF EffectCancelled, EffectCancelFailed, SettlingPhases

(* The events of the persistence, which may lead to a pending kill.        *)
LEMMA PersistCheaper ==
  ASSUME NEW m, Sound(m), m.phase = "persisting", NEW retryable \in BOOLEAN
  PROVE  /\ Cheaper(m, PersistSucceeded(m))
         /\ Cheaper(m, PersistFailed(m, retryable))
<1>1. m \in Machines /\ m.shutdownMode \in {"none", "stop", "kill-switch"}
  BY DEF Sound, Machines, ShutdownModes
<1>2. Left(m, "persistence") \in Nat /\ Left(m, "schedule") \in Nat
  BY <1>1, LeftNat
<1>3. After(m) \in Nat /\ After(m) >= 1
  BY <1>1, AfterBounds
<1>4. Cost(m, m.phase) = 1 + 2 * Left(m, "persistence") + After(m)
  BY DEF Cost, Persist
<1>5. /\ \A p \in {"failed", "stopped", "halted"}: Cost(m, p) = 1
      /\ Cost(m, "cancelling") = 3 + 2 * Left(m, "persistence")
      /\ Cost(m, "scheduling") = 2 + 2 * Left(m, "schedule")
  BY DEF Cost
<1>6. \A p \in {"failed", "stopped", "halted"}: Cheaper(m, Enter(m, p))
  BY <1>1, <1>2, <1>3, <1>4, <1>5, EnterCheaper DEF Phases, SettlingPhases
<1>7. /\ ~m.terminalFailure
      /\ m.shutdownMode = "kill-switch" /\ ~m.killCompleted
      => Cheaper(m, Enter(m, "cancelling"))
  <2> SUFFICES ASSUME ~m.terminalFailure, m.shutdownMode = "kill-switch",
                      ~m.killCompleted
               PROVE  Cheaper(m, Enter(m, "cancelling"))
    OBVIOUS
  <2>1. After(m) = 3
    BY DEF After
  <2> QED
    BY <1>1, <1>2, <1>4, <1>5, <2>1, EnterCheaper DEF Phases, SettlingPhases
<1>8. ~m.terminalFailure /\ m.shutdownMode = "none"
      => Cheaper(m, Enter(m, "scheduling"))
  <2> SUFFICES ASSUME ~m.terminalFailure, m.shutdownMode = "none"
               PROVE  Cheaper(m, Enter(m, "scheduling"))
    OBVIOUS
  <2>1. After(m) = 2 + 2 * Left(m, "schedule")
    BY DEF After
  <2> QED
    BY <1>1, <1>2, <1>4, <1>5, <2>1, EnterCheaper
    DEF Phases, CancellablePhases
<1>9. Cheaper(m, PersistSucceeded(m))
  BY <1>1, <1>6, <1>7, <1>8 DEF PersistSucceeded
<1>10. Cheaper(m, EndWith(m, "FAILED", "failed"))
  BY <1>1, <1>2, <1>3, <1>4, <1>5, EndWithCheaper DEF SettlingPhases
<1>11. Cheaper(m, PersistFailed(m, retryable))
  BY <1>1, <1>10, RetryOrCheaper DEF PersistFailed, RetryPairs, SettlingPhases
<1> QED  BY <1>9, <1>11

(* A fired alarm begins a cycle with every budget restored.                *)
LEMMA AlarmCheaper ==
  ASSUME NEW m, Sound(m), m.phase = "waiting", NEW cycle \in Nat,
         cycle # m.cycleId
  PROVE  LET e == AlarmFired(m, cycle)
         IN  Cost(e, e.phase) + 1 <= FullCycle
<1>1. m \in Machines /\ m.shutdownMode = "none"
  BY CleanPhase DEF CancellablePhases
<1>2. PICK e: e = [m EXCEPT !.cycleId = cycle, !.outcome = "RUNNING",
                            !.orderMayBeInFlight = FALSE,
                            !.killCompleted = FALSE,
                            !.terminalFailure = FALSE,
                            !.attempts = emptyAttempts]
  OBVIOUS
<1>3. e \in Machines /\ e.shutdownMode = "none"
  BY <1>1, <1>2 DEF Machines, emptyAttempts
<1>4. Cost(e, "retryingAccountReconciliation") <= FullCycle
  BY <1>3, CostBounds DEF Phases, CancellablePhases
<1>5. /\ Cost(e, "reconcilingAccount") \in Nat
      /\ Cost(e, "retryingAccountReconciliation")
           = Cost(e, "reconcilingAccount") + 1
  BY <1>3, CostBounds, Downhill DEF Phases, CancellablePhases
<1>6. LET f == Enter(e, "reconcilingAccount")
      IN  Cost(f, f.phase) = Cost(e, "reconcilingAccount")
  BY <1>3, EnterCost DEF Phases, CancellablePhases
<1> QED  BY <1>2, <1>4, <1>5, <1>6 DEF AlarmFired

-----------------------------------------------------------------------------
(* The iterations of the loop.                                             *)

(* Every iteration of the loop keeps the invariant.                        *)
LEMMA IterateBudget ==
  ASSUME BudgetInv, Iterate
  PROVE  /\ step' = step + 1 /\ step + 1 <= MaxSteps
         /\ \/ result' = "returned" /\ machine' = machine /\ trigger' = trigger
            \/ /\ result' = "running" /\ ~trigger'
               /\ step + 1 + Cost(machine', machine'.phase) <= MaxSteps
<1> DEFINE m == machine
<1>1. /\ Sound(m) /\ step \in 0..MaxSteps /\ MaxSteps \in Nat
      /\ trigger \in BOOLEAN /\ (trigger => m.phase = "waiting")
      /\ (result = "running" => step + Rank(m, trigger) <= MaxSteps)
  BY BudgetAssumption DEF BudgetInv, SoundInv
<1>2. /\ result = "running" /\ step < MaxSteps
      /\ step' = step + 1 /\ step + 1 <= MaxSteps
  BY <1>1 DEF Iterate, AtRest, Waiting, FireAlarm, EnsureSchedule, RetryNow,
     RetryMarketData, ReconcileAccount, FetchMarketData, ComputeIndicators,
     EvaluateStrategies, Allocate, CheckRisk, PersistOrderIntent, Authorize,
     SubmitOrder, ReconcileOrder, CancelCurrentEffect, PersistCycle, In,
     Send, Return
<1>3. SoundInv'
  BY IterateSound DEF BudgetInv
<1>4. Cost(machine', machine'.phase) \in Nat
  BY <1>3, CostBounds DEF SoundInv, Sound, Machines
<1>5. CASE FireAlarm
  <2>1. Rank(m, trigger) = FullCycle /\ m.phase = "waiting"
    BY <1>5 DEF FireAlarm, Rank, In
  <2>2. Cost(machine', machine'.phase) + 1 <= FullCycle
    BY <1>1, <1>5, <2>1, AlarmCheaper DEF FireAlarm
  <2>3. FullCycle \in Nat
    BY LimitsNat DEF FullCycle
  <2>4. step + FullCycle <= MaxSteps
    BY <1>1, <1>2, <2>1
  <2>5. step + 1 + Cost(machine', machine'.phase) <= MaxSteps
    BY <1>1, <1>4, <2>2, <2>3, <2>4
  <2>6. result' = "running" /\ ~trigger'
    BY <1>2, <1>5 DEF FireAlarm
  <2> QED  BY <1>2, <2>5, <2>6
<1>6. ASSUME NEW e, Send(e), Cheaper(m, e), m.phase # "waiting"
      PROVE  /\ result' = "running" /\ ~trigger'
             /\ step + 1 + Cost(machine', machine'.phase) <= MaxSteps
  <2>1. ~trigger /\ Rank(m, trigger) = Cost(m, m.phase)
    BY <1>1, <1>6 DEF Rank
  <2>2. Cost(m, m.phase) \in Nat
    BY <1>1, CostBounds DEF Sound, Machines
  <2> QED
    BY <1>1, <1>2, <1>4, <1>6, <2>1, <2>2 DEF Send, Cheaper
<1>7. Return => result' = "returned" /\ machine' = machine /\ trigger' = trigger
  BY DEF Return
<1> HIDE DEF m
<1>8. CASE AtRest \/ Waiting
  BY <1>2, <1>7, <1>8 DEF AtRest, Waiting
<1>9. CASE EnsureSchedule
  BY <1>1, <1>2, <1>6, <1>9, ScheduleCheaper DEF EnsureSchedule, In, m
<1>10. CASE RetryNow \/ RetryMarketData
  <2>1. m.phase \in RetryPhases
    BY <1>10 DEF RetryNow, RetryMarketData, RetryPhases, In, m
  <2>2. Cheaper(m, RetryTimerElapsed(m)) /\ m.phase # "waiting"
    BY <1>1, <2>1, RetryTimerCheaper DEF RetryPhases
  <2>3. Send(RetryTimerElapsed(m)) \/ Return
    BY <1>10 DEF RetryNow, RetryMarketData, m
  <2> QED  BY <1>2, <1>6, <1>7, <2>2, <2>3
<1>11. CASE ReconcileAccount
  BY <1>1, <1>2, <1>6, <1>11, AccountCheaper DEF ReconcileAccount, In, m
<1>12. CASE FetchMarketData
  BY <1>1, <1>2, <1>6, <1>12, MarketDataCheaper, CandlesAssumption
  DEF FetchMarketData, In, m
<1>13. CASE \/ ComputeIndicators \/ EvaluateStrategies \/ Allocate
            \/ CheckRisk \/ PersistOrderIntent
  <2>1. m.phase \in {"computingIndicators", "evaluatingStrategies",
                     "allocating", "checkingRisk", "persistingOrderIntent"}
    BY <1>13 DEF ComputeIndicators, EvaluateStrategies, Allocate, CheckRisk,
                 PersistOrderIntent, In, m
  <2>2. Cheaper(m, CycleFailed(m))
    BY <1>1, <2>1, CycleFailedCheaper
  <2>3. \E e: Send(e) /\ Cheaper(m, e)
    BY <1>1, <1>13, <2>2, DecisionCheaper
    DEF ComputeIndicators, EvaluateStrategies, Allocate, CheckRisk,
        PersistOrderIntent, In, m
  <2> QED  BY <1>2, <1>6, <2>1, <2>3
<1>14. CASE Authorize
  BY <1>1, <1>2, <1>6, <1>14, AuthorizationCheaper DEF Authorize, In, m
<1>15. CASE SubmitOrder \/ ReconcileOrder
  <2>1. \E e: Send(e) /\ Cheaper(m, e)
    BY <1>1, <1>15, OrderCheaper DEF SubmitOrder, ReconcileOrder, In, m
  <2>2. m.phase # "waiting"
    BY <1>15 DEF SubmitOrder, ReconcileOrder, In, m
  <2> QED  BY <1>2, <1>6, <2>1, <2>2
<1>16. CASE CancelCurrentEffect
  BY <1>1, <1>2, <1>6, <1>16, CancelCheaper DEF CancelCurrentEffect, In, m
<1>17. CASE PersistCycle
  BY <1>1, <1>2, <1>6, <1>17, PersistCheaper DEF PersistCycle, In, m
<1> QED
  BY <1>2, <1>5, <1>8, <1>9, <1>10, <1>11, <1>12, <1>13, <1>14, <1>15, <1>16,
     <1>17 DEF Iterate

(* Every invocation starts within the budget.                              *)
LEMMA InvokeBudget ==
  ASSUME SoundInv', NEW alarm \in BOOLEAN, NEW m, Invoke(m, alarm)
  PROVE  BudgetInv'
<1>1. /\ Sound(machine') /\ step' = 0 /\ result' = "running"
      /\ (trigger' => machine'.phase = "waiting")
  BY DEF Invoke, SoundInv
<1>2. /\ Cost(machine', machine'.phase) \in Nat
      /\ Cost(machine', machine'.phase) <= FullCycle
  BY <1>1, CostBounds DEF Sound, Machines
<1>3. FullCycle \in Nat /\ MaxSteps \in Nat /\ FullCycle <= MaxSteps
  BY LimitsNat, BudgetAssumption DEF FullCycle
<1>4. step' + Rank(machine', trigger') <= MaxSteps
  BY <1>1, <1>2, <1>3 DEF Rank
<1> QED  BY <1>1, <1>3, <1>4 DEF BudgetInv, Results

(* The invariant is inductive.                                             *)
LEMMA BudgetStep == BudgetInv /\ [Next]_vars => BudgetInv'
<1> SUFFICES ASSUME BudgetInv, [Next]_vars  PROVE BudgetInv'
  OBVIOUS
<1>1. CASE Iterate
  <2>1. SoundInv' /\ MaxSteps \in Nat
    BY <1>1, IterateSound, BudgetAssumption DEF BudgetInv
  <2> QED
    BY <1>1, <2>1, IterateBudget DEF BudgetInv, Results, Rank
<1>2. CASE StartAgent \/ StopAgent \/ KillAgent \/ Wake
  <2>1. SoundInv'
    BY <1>2, ShellSound DEF BudgetInv
  <2> QED
    BY <1>2, <2>1, InvokeBudget DEF StartAgent, StopAgent, KillAgent, Wake
<1>3. CASE ResetAgent
  <2>1. SoundInv' /\ ~trigger
    BY <1>3, ShellSound DEF BudgetInv, SoundInv, ResetAgent
  <2> QED  BY <1>3, <2>1 DEF BudgetInv, ResetAgent
<1>4. CASE Evict
  <2>1. SoundInv'
    BY <1>4, ShellSound DEF BudgetInv
  <2> QED  BY <1>4, <2>1 DEF BudgetInv, Evict, Results
<1>5. CASE UNCHANGED vars
  BY <1>5 DEF vars, BudgetInv, SoundInv
<1> QED  BY <1>1, <1>2, <1>3, <1>4, <1>5 DEF Next

(* The retry limits of the code cost 59 iterations: MAX_INTERPRETER_STEPS, *)
(* which is 64, satisfies BudgetAssumption.                                *)
THEOREM DefaultBudget ==
  ASSUME RetryLimits = DefaultRetryLimits
  PROVE  FullCycle = 59 /\ FullCycle <= 64
BY DEF FullCycle, DefaultRetryLimits

(* The steps spent and the cost of what is left never exceed MaxSteps.     *)
THEOREM BudgetInvariance == Spec => []BudgetInv
<1>1. Init => BudgetInv
  <2>1. Init => SoundInv
    BY InitSound
  <2> QED
    BY <2>1, BudgetAssumption DEF Init, BudgetInv, Results
<1> QED  BY <1>1, BudgetStep, PTL DEF Spec

(* Every reachable state of the machine, the loop and the shell is typed.  *)
THEOREM TypeCorrectness == Spec => []TypeOK
<1>1. BudgetInv => TypeOK
  BY DEF BudgetInv, SoundInv, Sound, TypeOK, Results
<1> QED  BY <1>1, BudgetInvariance, PTL

(* With a budget of FullCycle no invocation ever throws, from whatever     *)
(* phase and with whatever failures.                                       *)
THEOREM NeverExhausted == Spec => []NeverThrows
<1>1. BudgetInv => NeverThrows
  <2> SUFFICES ASSUME BudgetInv, result = "running"  PROVE step < MaxSteps
    BY DEF NeverThrows
  <2>1. Sound(machine) /\ Cost(machine, machine.phase) \in Nat
        /\ Cost(machine, machine.phase) >= 1
    BY CostBounds DEF BudgetInv, SoundInv, Sound, Machines
  <2>2. FullCycle \in Nat /\ FullCycle >= 1 /\ MaxSteps \in Nat
    BY LimitsNat, BudgetAssumption DEF FullCycle
  <2>3. Rank(machine, trigger) >= 1 /\ Rank(machine, trigger) \in Nat
    BY <2>1, <2>2 DEF Rank
  <2> QED  BY <2>2, <2>3 DEF BudgetInv
<1> QED  BY <1>1, BudgetInvariance, PTL

=============================================================================
