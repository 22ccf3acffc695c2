------------------------ MODULE TradingAgent_proofs ------------------------
(***************************************************************************)
(* What holds of one agent for every retry budget and every setup: any     *)
(* number of runs, cycles, candles, commands, failures and evictions.      *)
(***************************************************************************)
EXTENDS TradingAgent, FiniteSetTheorems, TLAPS

(* The phases of a cycle: before the account is known to be in order,      *)
(* while it may still decide not to trade, and when an order was sent.     *)
Preparing == {"reconcilingAccount", "retryingAccountReconciliation"}

Deciding ==
  {"fetchingMarketData", "retryingMarketData", "computingIndicators",
   "evaluatingStrategies", "allocating", "checkingRisk",
   "persistingOrderIntent", "authorizing", "retryingAuthorization",
   "retryingExecution"}

Resolving == {"reconcilingOrder", "retryingReconciliation"}

CyclePhases == Preparing \cup Deciding \cup {"submittingOrder"} \cup Resolving

(* Where a machine that executed its kill may be.                          *)
KilledPhases ==
  {"persisting", "retryingPersistence", "halted", "failed", "stopped"}

MachineInForm(m) ==
  /\ m.shutdownMode # "none" => m.phase \in SettlingPhases
  /\ m.killCompleted => m.phase \in KilledPhases /\ m.shutdownMode # "none"
  /\ m.phase \in CyclePhases => m.cycleId # 0
  /\ m.cycleId <= used

(* The calls that give up the thread.                                      *)
NetworkCalls == Calls \ {"none", "return"}

(* A run awaits only what its phase asks for.                              *)
CallFits(v) ==
  /\ v.call = "return" => v.m.phase = "retryingMarketData"
  /\ v.call = "account" => v.m.phase = "reconcilingAccount" /\ Mode = "live"
  /\ v.call = "market" => v.m.phase = "fetchingMarketData"
  /\ v.call = "submit" =>
       v.m.phase = "submittingOrder" /\ Mode = "live" /\ v.authorized
  /\ v.call \in {"replay", "lookup", "unwind"} =>
       v.m.phase = "reconcilingOrder" /\ Mode = "live"
  /\ v.call = "kill" =>
       /\ v.m.phase = "cancelling" /\ Mode = "live"
       /\ v.m.shutdownMode = "kill-switch"

RunInForm(v) ==
  /\ MachineInForm(v.m)
  /\ CallFits(v)
  /\ v.trigger => v.m.phase = "waiting" /\ v.cycle > v.m.cycleId
  /\ ~v.trigger => v.cycle = v.m.cycleId
  /\ v.cycle <= used

(* One run holds the thread; the others await the network.                 *)
ThreadInForm ==
  \A r \in Runs:
    /\ ~run[r].active => run[r] = IdleRun
    /\ run[r].active /\ current # r => run[r].call \in NetworkCalls
    /\ current = r => run[r].active /\ run[r].call \in {"none", "return"}
    /\ RunInForm(run[r])

NoRow == [stored |-> FALSE, art |-> NoArtifacts, outcome |-> "IDLE"]

(* Nothing is known of a cycle that was not drawn yet.                     *)
CyclesAreFresh ==
  \A c \in Cycles:
    /\ c <= used => triggered[c] # 0
    /\ c > used =>
         /\ rows[c] = NoRow
         /\ orders[c].status = "none"
         /\ exchange[c] = "none" /\ executions[c] = 0
    /\ ~rows[c].stored => rows[c].art = NoArtifacts

(* An object that is not in memory has no runs, one that was never         *)
(* configured has no history.                                              *)
ShellInForm ==
  /\ ~up => Active = {} /\ crashes > 0
  /\ ~configured =>
       /\ Active = {} /\ machine = NewMachine(0) /\ ~schedule /\ ~retryAlarm
       /\ \A k \in 1..MaxCandle: decisions[k] = 0
  /\ session <= used
  /\ IsFiniteSet(Active)

IInv ==
  /\ TypeOK /\ ThreadInForm /\ MachineInForm(machine) /\ CyclesAreFresh
  /\ ShellInForm

-----------------------------------------------------------------------------
(* The operators of the machine.                                           *)

(* n is m but for its phase, its attempts and the order in flight, and is  *)
(* not confirmed if m was not.                                             *)
Like(m, n) ==
  /\ n \in Machines
  /\ n.cycleId = m.cycleId /\ n.shutdownMode = m.shutdownMode
  /\ n.killCompleted = m.killCompleted
  /\ n.lastDecisionCandle = m.lastDecisionCandle
  /\ n.outcome = "ORDER_CONFIRMED" => m.outcome = "ORDER_CONFIRMED"

(* An event brings m to n, in one of the phases P.                         *)
Goes(m, n, P) ==
  /\ Like(m, n)
  /\ n.phase \in P
  /\ n.shutdownMode # "none" => n.phase \in SettlingPhases

(* Where entering p may lead.                                              *)
Targets(p) ==
  {p} \cup (IF p \in CancellablePhases THEN {"cancelling"} ELSE {})
      \cup (IF p = "submittingOrder" THEN {"reconcilingOrder"} ELSE {})

LEMMA LikeChanges ==
  ASSUME NEW m \in Machines, NEW n, Like(m, n)
  PROVE  /\ \A k \in AttemptKinds:
              Like(m, CountAttempt(n, k)) /\ Like(m, ResetAttempt(n, k))
         /\ Like(m, Landed(n))
         /\ \A o \in Outcomes \ {"ORDER_CONFIRMED"}:
              Like(m, [n EXCEPT !.outcome = o])
<1>1. n \in Machines
  BY DEF Like
<1>2. \A a \in [AttemptKinds -> Nat]: Like(m, [n EXCEPT !.attempts = a])
  BY <1>1 DEF Like, Machines
<1>3. ASSUME NEW k \in AttemptKinds
      PROVE  Like(m, CountAttempt(n, k)) /\ Like(m, ResetAttempt(n, k))
  <2> DEFINE a == [n.attempts EXCEPT ![k] = n.attempts[k] + 1]
             z == [n.attempts EXCEPT ![k] = 0]
  <2>1. n.attempts \in [AttemptKinds -> Nat] /\ n.attempts[k] \in Nat
    BY <1>1 DEF Machines
  <2>2. a \in [AttemptKinds -> Nat] /\ z \in [AttemptKinds -> Nat]
    BY <2>1
  <2>3. /\ CountAttempt(n, k) = [n EXCEPT !.attempts = a]
        /\ ResetAttempt(n, k) = [n EXCEPT !.attempts = z]
    BY <1>1 DEF CountAttempt, ResetAttempt, Machines
  <2> QED BY <2>2, <2>3, <1>2
<1>4. Like(m, Landed(n))
  BY <1>1 DEF Like, Landed, Machines
<1>5. \A o \in Outcomes \ {"ORDER_CONFIRMED"}: Like(m, [n EXCEPT !.outcome = o])
  BY <1>1 DEF Like, Machines
<1> QED BY <1>3, <1>4, <1>5

LEMMA LikeSame == \A m \in Machines: Like(m, m)
BY DEF Like

LEMMA LikeEnter ==
  ASSUME NEW m \in Machines, NEW n, Like(m, n), NEW p \in Phases
  PROVE  Goes(m, Enter(n, p), Targets(p))
<1>1. n \in Machines
  BY DEF Like
<1> DEFINE q == IF n.shutdownMode = "none" THEN p
                ELSE IF p \in CancellablePhases THEN "cancelling"
                ELSE IF p = "submittingOrder" THEN "reconcilingOrder" ELSE p
<1>2. Enter(n, p) = [n EXCEPT !.phase = q]
  BY DEF Enter
<1>3. q \in Phases /\ q \in Targets(p) /\ (n.shutdownMode # "none" => q \in SettlingPhases)
  BY DEF Phases, SettlingPhases, CancellablePhases, Targets
<1> HIDE DEF q
<1>4. [n EXCEPT !.phase = q] \in Machines
  BY <1>1, <1>3 DEF Machines
<1> QED  BY <1>1, <1>2, <1>3, <1>4 DEF Goes, Like, Machines

LEMMA LikeEnd ==
  ASSUME NEW m \in Machines, NEW n, Like(m, n), NEW p \in Phases,
         NEW o \in Outcomes \ {"ORDER_CONFIRMED"}
  PROVE  Goes(m, EndWith(n, o, p), Targets(p))
<1>1. Like(m, [n EXCEPT !.outcome = o])
  BY LikeChanges
<1> QED  BY <1>1, LikeEnter DEF EndWith

LEMMA LikeRetry ==
  ASSUME NEW m \in Machines, NEW n, Like(m, n), NEW k \in AttemptKinds,
         NEW b, NEW p \in Phases, NEW giveUp, NEW P,
         Targets(p) \subseteq P, Goes(m, giveUp, P)
  PROVE  Goes(m, RetryOr(n, k, b, p, giveUp), P)
<1>1. Like(m, CountAttempt(n, k))
  BY LikeChanges
<1>2. Goes(m, Enter(CountAttempt(n, k), p), Targets(p))
  BY <1>1, LikeEnter
<1>3. Goes(m, Enter(CountAttempt(n, k), p), P)
  BY <1>2 DEF Goes
<1> QED  BY <1>3 DEF RetryOr

LEMMA GoesMore ==
  ASSUME NEW m, NEW n, NEW P, NEW Q, Goes(m, n, P), P \subseteq Q
  PROVE  Goes(m, n, Q)
BY DEF Goes

(* Where each event leads, of those that leave the shutdown, the decision  *)
(* and the cycle as they are.                                              *)
LEMMA ScheduleGoes ==
  ASSUME NEW m \in Machines
  PROVE  /\ Goes(m, ScheduleSucceeded(m), {"waiting", "cancelling"})
         /\ \A b \in BOOLEAN:
              Goes(m, ScheduleFailed(m, b),
                   {"retryingSchedule", "cancelling", "failed"})
<1>1. Like(m, ResetAttempt(m, "schedule")) /\ Like(m, m)
  BY LikeChanges, LikeSame DEF AttemptKinds
<1>2. Goes(m, ScheduleSucceeded(m), Targets("waiting"))
  BY <1>1, LikeEnter DEF ScheduleSucceeded, Phases, CancellablePhases
<1>3. Goes(m, EndWith(m, "FAILED", "failed"), Targets("failed"))
  BY <1>1, LikeEnd DEF Phases, SettlingPhases, Outcomes
<1>4. /\ Targets("waiting") = {"waiting", "cancelling"}
      /\ Targets("failed") \subseteq {"retryingSchedule", "cancelling", "failed"}
      /\ Targets("retryingSchedule") \subseteq
           {"retryingSchedule", "cancelling", "failed"}
  BY DEF Targets, CancellablePhases
<1>5. Goes(m, EndWith(m, "FAILED", "failed"),
           {"retryingSchedule", "cancelling", "failed"})
  BY <1>3, <1>4, GoesMore
<1>6. "schedule" \in AttemptKinds /\ "retryingSchedule" \in Phases
  BY DEF AttemptKinds, Phases, CancellablePhases
<1>7. \A b \in BOOLEAN:
        Goes(m, ScheduleFailed(m, b), {"retryingSchedule", "cancelling", "failed"})
  BY <1>1, <1>4, <1>5, <1>6, LikeRetry DEF ScheduleFailed
<1> QED  BY <1>2, <1>4, <1>7

LEMMA CycleFailedGoes ==
  ASSUME NEW m \in Machines, NEW P, "persisting" \in P
  PROVE  Goes(m, CycleFailed(m), P)
<1>1. Goes(m, EndWith(m, "FAILED", "persisting"), Targets("persisting"))
  BY LikeEnd, LikeSame DEF Phases, SettlingPhases, Outcomes
<1>2. Targets("persisting") = {"persisting"}
  BY DEF Targets, CancellablePhases
<1> QED  BY <1>1, <1>2, GoesMore DEF CycleFailed

LEMMA AccountGoes ==
  ASSUME NEW m \in Machines
  PROVE  /\ Goes(m, AccountReconciled(m), {"fetchingMarketData", "cancelling"})
         /\ \A b \in BOOLEAN:
              Goes(m, AccountReconciliationFailed(m, b),
                   {"retryingAccountReconciliation", "cancelling", "persisting"})
<1>1. Like(m, ResetAttempt(m, "reconciliation")) /\ Like(m, m)
  BY LikeChanges, LikeSame DEF AttemptKinds
<1>2. Goes(m, AccountReconciled(m), Targets("fetchingMarketData"))
  BY <1>1, LikeEnter DEF AccountReconciled, Phases, CancellablePhases
<1>3. /\ Targets("fetchingMarketData") = {"fetchingMarketData", "cancelling"}
      /\ Targets("retryingAccountReconciliation") \subseteq
           {"retryingAccountReconciliation", "cancelling", "persisting"}
      /\ "reconciliation" \in AttemptKinds
      /\ "retryingAccountReconciliation" \in Phases
  BY DEF Targets, CancellablePhases, AttemptKinds, Phases
<1>4. Goes(m, CycleFailed(m),
           {"retryingAccountReconciliation", "cancelling", "persisting"})
  BY CycleFailedGoes
<1>5. \A b \in BOOLEAN:
        Goes(m, AccountReconciliationFailed(m, b),
             {"retryingAccountReconciliation", "cancelling", "persisting"})
  BY <1>1, <1>3, <1>4, LikeRetry DEF AccountReconciliationFailed
<1> QED  BY <1>2, <1>3, <1>5

LEMMA MarketFailedGoes ==
  ASSUME NEW m \in Machines, NEW b \in BOOLEAN
  PROVE  Goes(m, MarketDataFailed(m, b),
              {"retryingMarketData", "cancelling", "persisting"})
<1>1. /\ Targets("retryingMarketData") \subseteq
           {"retryingMarketData", "cancelling", "persisting"}
      /\ "marketData" \in AttemptKinds /\ "retryingMarketData" \in Phases
  BY DEF Targets, CancellablePhases, AttemptKinds, Phases
<1>2. Goes(m, CycleFailed(m), {"retryingMarketData", "cancelling", "persisting"})
  BY CycleFailedGoes
<1> QED  BY <1>1, <1>2, LikeSame, LikeRetry DEF MarketDataFailed

LEMMA DecisionGoes ==
  ASSUME NEW m \in Machines
  PROVE  /\ Goes(m, IndicatorsComputed(m), {"evaluatingStrategies", "cancelling"})
         /\ Goes(m, StrategiesEvaluated(m), {"allocating", "cancelling"})
         /\ Goes(m, AllocationCompleted(m, TRUE), {"checkingRisk", "cancelling"})
         /\ Goes(m, AllocationCompleted(m, FALSE), {"persisting"})
         /\ Goes(m, RiskApproved(m), {"persistingOrderIntent", "cancelling"})
         /\ Goes(m, RiskRejected(m), {"persisting"})
         /\ Goes(m, OrderIntentPersisted(m), {"authorizing", "cancelling"})
<1>1. /\ \A p \in {"evaluatingStrategies", "allocating", "checkingRisk",
                   "persistingOrderIntent", "authorizing"}:
           p \in Phases /\ Targets(p) = {p, "cancelling"}
      /\ "persisting" \in Phases /\ Targets("persisting") = {"persisting"}
      /\ {"NO_ACTION", "RISK_REJECTED"} \subseteq Outcomes \ {"ORDER_CONFIRMED"}
  BY DEF Targets, CancellablePhases, Phases, SettlingPhases, Outcomes
<1>2. /\ Goes(m, Enter(m, "evaluatingStrategies"), {"evaluatingStrategies", "cancelling"})
      /\ Goes(m, Enter(m, "allocating"), {"allocating", "cancelling"})
      /\ Goes(m, Enter(m, "checkingRisk"), {"checkingRisk", "cancelling"})
      /\ Goes(m, Enter(m, "persistingOrderIntent"),
              {"persistingOrderIntent", "cancelling"})
      /\ Goes(m, Enter(m, "authorizing"), {"authorizing", "cancelling"})
  <2> HIDE DEF Goes
  <2> QED BY <1>1, LikeEnter, LikeSame
<1>3. /\ Goes(m, EndWith(m, "NO_ACTION", "persisting"), {"persisting"})
      /\ Goes(m, EndWith(m, "RISK_REJECTED", "persisting"), {"persisting"})
  BY <1>1, LikeEnd, LikeSame
<1> QED  BY <1>2, <1>3 DEF IndicatorsComputed, StrategiesEvaluated,
            AllocationCompleted, RiskApproved, RiskRejected, OrderIntentPersisted

LEMMA AuthorizationGoes ==
  ASSUME NEW m \in Machines
  PROVE  /\ Goes(m, AuthorizationReady(m, TRUE),
                 {"submittingOrder", "reconcilingOrder"})
         /\ m.shutdownMode = "none" =>
              AuthorizationReady(m, TRUE).phase = "submittingOrder"
         /\ \A b \in BOOLEAN:
              Goes(m, AuthorizationFailed(m, b),
                   {"retryingAuthorization", "cancelling", "persisting"})
<1>1. /\ Targets("submittingOrder") = {"submittingOrder", "reconcilingOrder"}
      /\ Targets("retryingAuthorization") \subseteq
           {"retryingAuthorization", "cancelling", "persisting"}
      /\ "authorization" \in AttemptKinds
      /\ {"retryingAuthorization", "submittingOrder"} \subseteq Phases
  BY DEF Targets, CancellablePhases, AttemptKinds, Phases
<1> DEFINE n == [m EXCEPT !.orderMayBeInFlight = TRUE]
<1>2. Like(m, n) /\ n.shutdownMode = m.shutdownMode
  BY DEF Like, Machines
<1>3. Goes(m, Enter(n, "submittingOrder"), {"submittingOrder", "reconcilingOrder"})
  BY <1>1, <1>2, LikeEnter
<1>4. m.shutdownMode = "none" => Enter(n, "submittingOrder").phase = "submittingOrder"
  BY DEF Enter, Machines
<1>5. Goes(m, CycleFailed(m), {"retryingAuthorization", "cancelling", "persisting"})
  BY CycleFailedGoes
<1>6. \A b \in BOOLEAN:
        Goes(m, AuthorizationFailed(m, b),
             {"retryingAuthorization", "cancelling", "persisting"})
  BY <1>1, <1>5, LikeSame, LikeRetry DEF AuthorizationFailed
<1> QED  BY <1>3, <1>4, <1>6 DEF AuthorizationReady

(* Where a result of the submission or of the reconciliation leads.        *)
LEMMA OrderGoes ==
  ASSUME NEW m \in Machines
  PROVE  /\ Goes(m, OrderOutcomeUnknown(m), {"reconcilingOrder"})
         /\ Goes(m, OrderProtectionFailed(m), {"persisting"})
         /\ Goes(m, OrderReconciled(m, FALSE), {"persisting"})
         /\ \A b \in BOOLEAN:
              /\ Goes(m, OrderRejected(m, b),
                      {"retryingExecution", "cancelling", "persisting"})
              /\ Goes(m, ReconciliationFailed(m, b),
                      {"retryingReconciliation", "failed"})
<1>1. /\ Targets("reconcilingOrder") = {"reconcilingOrder"}
      /\ Targets("persisting") = {"persisting"}
      /\ Targets("failed") = {"failed"}
      /\ Targets("retryingReconciliation") = {"retryingReconciliation"}
      /\ Targets("retryingExecution") = {"retryingExecution", "cancelling"}
      /\ {"execution", "reconciliation"} \subseteq AttemptKinds
      /\ {"reconcilingOrder", "persisting", "failed", "retryingReconciliation",
          "retryingExecution"} \subseteq Phases
      /\ {"FAILED", "ORDER_REJECTED"} \subseteq Outcomes \ {"ORDER_CONFIRMED"}
  BY DEF Targets, CancellablePhases, SettlingPhases, AttemptKinds, Phases, Outcomes
<1>2. Goes(m, OrderOutcomeUnknown(m), {"reconcilingOrder"})
  BY <1>1, LikeEnter, LikeSame DEF OrderOutcomeUnknown
<1>3. Like(m, Landed(m)) /\ Like(m, [Landed(m) EXCEPT !.terminalFailure = TRUE])
  BY DEF Like, Landed, Machines
<1>4. Goes(m, OrderProtectionFailed(m), {"persisting"})
  BY <1>1, <1>3, LikeEnd DEF OrderProtectionFailed
<1>5. Goes(m, EndWith(Landed(m), "ORDER_REJECTED", "persisting"), {"persisting"})
  BY <1>1, <1>3, LikeEnd
<1>6. Goes(m, OrderReconciled(m, FALSE), {"persisting"})
  BY <1>5 DEF OrderReconciled
<1>7. ASSUME NEW b \in BOOLEAN
      PROVE  Goes(m, OrderRejected(m, b),
                  {"retryingExecution", "cancelling", "persisting"})
  <2>1. Goes(m, EndWith(Landed(m), "ORDER_REJECTED", "persisting"),
             {"retryingExecution", "cancelling", "persisting"})
    BY <1>5, GoesMore
  <2>2. Targets("retryingExecution") \subseteq
          {"retryingExecution", "cancelling", "persisting"}
    BY <1>1
  <2> QED BY <1>1, <1>3, <2>1, <2>2, LikeRetry DEF OrderRejected
<1>8. ASSUME NEW b \in BOOLEAN
      PROVE  Goes(m, ReconciliationFailed(m, b),
                  {"retryingReconciliation", "failed"})
  <2>1. Goes(m, EndWith(m, "FAILED", "failed"), {"failed"})
    BY <1>1, LikeSame, LikeEnd
  <2>2. Goes(m, EndWith(m, "FAILED", "failed"),
             {"retryingReconciliation", "failed"})
    BY <2>1, GoesMore
  <2>3. Targets("retryingReconciliation") \subseteq
          {"retryingReconciliation", "failed"}
    BY <1>1
  <2> QED BY <1>1, <2>2, <2>3, LikeSame, LikeRetry DEF ReconciliationFailed
<1> QED  BY <1>2, <1>4, <1>6, <1>7, <1>8

(* A confirmed order ends the cycle, and only that confirms its outcome.   *)
Ends(m, n) ==
  /\ n \in Machines /\ n.phase = "persisting"
  /\ n.cycleId = m.cycleId /\ n.shutdownMode = m.shutdownMode
  /\ n.lastDecisionCandle = m.lastDecisionCandle

LEMMA ConfirmedEnds ==
  ASSUME NEW m \in Machines
  PROVE  /\ Ends(m, OrderConfirmed(m)) /\ Ends(m, OrderReconciled(m, TRUE))
         /\ OrderConfirmed(m).killCompleted = m.killCompleted
         /\ OrderReconciled(m, TRUE).killCompleted = m.killCompleted
<1>1. OrderConfirmed(m) = [m EXCEPT !.orderMayBeInFlight = FALSE,
                                    !.outcome = "ORDER_CONFIRMED",
                                    !.phase = "persisting"]
  BY DEF OrderConfirmed, EndWith, Landed, Enter, CancellablePhases, Machines
<1>2. OrderReconciled(m, TRUE) = OrderConfirmed(m)
  BY DEF OrderReconciled, OrderConfirmed
<1>3. "ORDER_CONFIRMED" \in Outcomes /\ "persisting" \in Phases
  BY DEF Outcomes, Phases, SettlingPhases
<1>4. Ends(m, OrderConfirmed(m)) /\ OrderConfirmed(m).killCompleted = m.killCompleted
  BY <1>1, <1>3 DEF Ends, Machines
<1> QED  BY <1>2, <1>4

(* The end of a cancellation records an executed kill.                     *)
LEMMA CancelledEnds ==
  ASSUME NEW m \in Machines
  PROVE  /\ Ends(m, EffectCancelled(m))
         /\ EffectCancelled(m).killCompleted =
              ((m.shutdownMode = "kill-switch") \/ m.killCompleted)
         /\ EffectCancelled(m).outcome = "CANCELLED"
         /\ Goes(m, EffectCancelFailed(m), {"persisting"})
<1> DEFINE k == (m.shutdownMode = "kill-switch") \/ m.killCompleted
<1>1. EffectCancelled(m) = [m EXCEPT !.orderMayBeInFlight = FALSE,
                                     !.killCompleted = k,
                                     !.outcome = "CANCELLED",
                                     !.phase = "persisting"]
  BY DEF EffectCancelled, EndWith, Landed, Enter, CancellablePhases, Machines
<1>2. /\ {"CANCELLED", "FAILED"} \subseteq Outcomes \ {"ORDER_CONFIRMED"}
      /\ "persisting" \in Phases /\ Targets("persisting") = {"persisting"}
  BY DEF Outcomes, Phases, SettlingPhases, Targets, CancellablePhases
<1>3. k \in BOOLEAN
  BY DEF Machines
<1> HIDE DEF k
<1>4. Ends(m, EffectCancelled(m)) /\ EffectCancelled(m).killCompleted = k
      /\ EffectCancelled(m).outcome = "CANCELLED"
  BY <1>1, <1>2, <1>3 DEF Ends, Machines
<1>5. Like(m, [Landed(m) EXCEPT !.terminalFailure = TRUE])
  BY DEF Like, Landed, Machines
<1>6. Goes(m, EffectCancelFailed(m), {"persisting"})
  BY <1>2, <1>5, LikeEnd DEF EffectCancelFailed
<1> QED  BY <1>4, <1>6 DEF k

(* The end of a cycle, by the first guard that holds.                      *)
LEMMA PersistGoes ==
  ASSUME NEW m \in Machines
  PROVE  /\ Goes(m, PersistSucceeded(m),
                 {"failed", "stopped", "cancelling", "halted", "scheduling"})
         /\ PersistSucceeded(m).phase = "halted" => m.killCompleted
         /\ PersistSucceeded(m).phase = "cancelling" => ~m.killCompleted
         /\ PersistSucceeded(m).phase = "scheduling" => m.shutdownMode = "none"
         /\ \A b \in BOOLEAN:
              Goes(m, PersistFailed(m, b), {"retryingPersistence", "failed"})
<1>1. m.phase \in Phases /\ m.shutdownMode \in {"none", "stop", "kill-switch"}
  BY DEF Machines, ShutdownModes
<1>2. \A p \in {"failed", "stopped", "cancelling", "halted", "scheduling"}:
        p \in Phases /\ Goes(m, Enter(m, p), Targets(p))
  BY LikeEnter, LikeSame DEF Phases, SettlingPhases, CancellablePhases
<1>3. /\ \A p \in {"failed", "stopped", "cancelling", "halted"}: Targets(p) = {p}
      /\ Targets("scheduling") = {"scheduling", "cancelling"}
      /\ Targets("retryingPersistence") = {"retryingPersistence"}
  BY DEF Targets, CancellablePhases
<1>4. \A p \in {"failed", "stopped", "cancelling", "halted"}:
        Goes(m, Enter(m, p), {p}) /\ Enter(m, p).phase = p
  BY <1>2, <1>3 DEF Goes
<1>5. m.shutdownMode = "none" => Enter(m, "scheduling").phase = "scheduling"
  BY DEF Enter, Machines
<1>6. \A p \in {"failed", "stopped", "cancelling", "halted", "scheduling"}:
        Goes(m, Enter(m, p),
             {"failed", "stopped", "cancelling", "halted", "scheduling"})
  BY <1>2, <1>3, GoesMore
<1>7. Goes(m, PersistSucceeded(m),
           {"failed", "stopped", "cancelling", "halted", "scheduling"})
  BY <1>6 DEF PersistSucceeded
<1>8. /\ PersistSucceeded(m).phase = "halted" => m.killCompleted
      /\ PersistSucceeded(m).phase = "cancelling" => ~m.killCompleted
      /\ PersistSucceeded(m).phase = "scheduling" => m.shutdownMode = "none"
  BY <1>1, <1>4, <1>5 DEF PersistSucceeded
<1>9. ASSUME NEW b \in BOOLEAN
      PROVE  Goes(m, PersistFailed(m, b), {"retryingPersistence", "failed"})
  <2>1. "FAILED" \in Outcomes \ {"ORDER_CONFIRMED"} /\ "persistence" \in AttemptKinds
        /\ "failed" \in Phases /\ "retryingPersistence" \in Phases
    BY DEF Outcomes, AttemptKinds, Phases, SettlingPhases
  <2>2. Goes(m, EndWith(m, "FAILED", "failed"), {"failed"})
    BY <1>3, <2>1, LikeSame, LikeEnd
  <2>3. Goes(m, EndWith(m, "FAILED", "failed"), {"retryingPersistence", "failed"})
    BY <2>2, GoesMore
  <2>4. Targets("retryingPersistence") \subseteq {"retryingPersistence", "failed"}
    BY <1>3
  <2> QED BY <2>1, <2>3, <2>4, LikeSame, LikeRetry DEF PersistFailed
<1> QED  BY <1>7, <1>8, <1>9

(* A retry enters the phase it retries.                                    *)
LEMMA RetryGoes ==
  ASSUME NEW m \in Machines, m.phase \in RetryPhases
  PROVE  /\ Goes(m, RetryTimerElapsed(m), Targets(RetryTarget(m.phase)))
         /\ Targets(RetryTarget(m.phase)) \subseteq
              CASE m.phase = "retryingSchedule" -> {"scheduling", "cancelling"}
                [] m.phase = "retryingAccountReconciliation" ->
                     {"reconcilingAccount", "cancelling"}
                [] m.phase = "retryingMarketData" ->
                     {"fetchingMarketData", "cancelling"}
                [] m.phase \in {"retryingAuthorization", "retryingExecution"} ->
                     {"authorizing", "cancelling"}
                [] m.phase = "retryingReconciliation" -> {"reconcilingOrder"}
                [] m.phase = "retryingPersistence" -> {"persisting"}
<1>1. RetryTarget(m.phase) \in Phases
  BY DEF RetryTarget, RetryPhases, Phases, CancellablePhases, SettlingPhases
<1>2. Goes(m, RetryTimerElapsed(m), Targets(RetryTarget(m.phase)))
  BY <1>1, LikeEnter, LikeSame DEF RetryTimerElapsed
<1>3. /\ Targets("scheduling") = {"scheduling", "cancelling"}
      /\ Targets("reconcilingAccount") = {"reconcilingAccount", "cancelling"}
      /\ Targets("fetchingMarketData") = {"fetchingMarketData", "cancelling"}
      /\ Targets("authorizing") = {"authorizing", "cancelling"}
      /\ Targets("reconcilingOrder") = {"reconcilingOrder"}
      /\ Targets("persisting") = {"persisting"}
  BY DEF Targets, CancellablePhases
<1> QED  BY <1>2, <1>3 DEF RetryTarget, RetryPhases

(* A new cycle.                                                            *)
LEMMA AlarmGoes ==
  ASSUME NEW m \in Machines, NEW c \in Nat, c # m.cycleId
  PROVE  LET n == AlarmFired(m, c)
         IN  /\ n \in Machines /\ n.cycleId = c
             /\ n.phase \in {"reconcilingAccount", "cancelling"}
             /\ n.shutdownMode = m.shutdownMode
             /\ n.shutdownMode # "none" => n.phase = "cancelling"
             /\ ~n.killCompleted /\ n.outcome = "RUNNING"
             /\ n.lastDecisionCandle = m.lastDecisionCandle
<1> DEFINE p == IF m.shutdownMode = "none" THEN "reconcilingAccount"
                ELSE "cancelling"
<1>1. AlarmFired(m, c) =
        [m EXCEPT !.cycleId = c, !.outcome = "RUNNING",
                  !.orderMayBeInFlight = FALSE, !.killCompleted = FALSE,
                  !.terminalFailure = FALSE, !.attempts = emptyAttempts,
                  !.phase = p]
  BY DEF AlarmFired, Enter, CancellablePhases, Machines
<1>2. /\ p \in Phases /\ p \in {"reconcilingAccount", "cancelling"}
      /\ m.shutdownMode # "none" => p = "cancelling"
      /\ "RUNNING" \in Outcomes /\ emptyAttempts \in [AttemptKinds -> Nat]
  BY DEF Phases, CancellablePhases, SettlingPhases, Outcomes, emptyAttempts
<1> HIDE DEF p
<1> QED  BY <1>1, <1>2 DEF Machines

(* The decision: only a fresh candle after the last one is decided upon.   *)
LEMMA MarketReadyGoes ==
  ASSUME NEW m \in Machines, NEW k \in Nat, k # 0, NEW fresh \in BOOLEAN
  PROVE  LET n == MarketDataReady(m, k, fresh)
         IN  /\ n \in Machines /\ n.cycleId = m.cycleId
             /\ n.shutdownMode = m.shutdownMode
             /\ n.shutdownMode # "none" => n.phase \in SettlingPhases
             /\ n.killCompleted = m.killCompleted
             /\ n.outcome = "ORDER_CONFIRMED" => m.outcome = "ORDER_CONFIRMED"
             /\ n.phase \in {"computingIndicators", "cancelling",
                             "retryingMarketData", "persisting"}
             /\ IF n.phase = "computingIndicators"
                THEN /\ n.lastDecisionCandle = k
                     /\ m.lastDecisionCandle = 0 \/ m.lastDecisionCandle < k
                ELSE n.lastDecisionCandle \in {m.lastDecisionCandle, k}
             /\ n.lastDecisionCandle >= m.lastDecisionCandle
<1> DEFINE z == ResetAttempt(m, "marketData")
           d == [z EXCEPT !.lastDecisionCandle = k]
<1>1. /\ Like(m, z) /\ Like(m, CountAttempt(m, "marketData"))
      /\ \A p \in {"persisting", "computingIndicators", "retryingMarketData"}:
           p \in Phases
      /\ Targets("persisting") = {"persisting"}
      /\ Targets("computingIndicators") = {"computingIndicators", "cancelling"}
      /\ Targets("retryingMarketData") = {"retryingMarketData", "cancelling"}
      /\ "NO_ACTION" \in Outcomes \ {"ORDER_CONFIRMED"}
  BY LikeChanges, LikeSame DEF AttemptKinds, Phases, CancellablePhases,
     SettlingPhases, Targets, Outcomes
<1>2. /\ Goes(m, EndWith(z, "NO_ACTION", "persisting"), {"persisting"})
      /\ Goes(m, EndWith(CountAttempt(m, "marketData"), "NO_ACTION", "persisting"),
              {"persisting"})
      /\ Goes(m, Enter(CountAttempt(m, "marketData"), "retryingMarketData"),
              {"retryingMarketData", "cancelling"})
  BY <1>1, LikeEnd, LikeEnter
<1>3. /\ d \in Machines /\ d.lastDecisionCandle = k
      /\ d.cycleId = m.cycleId /\ d.shutdownMode = m.shutdownMode
      /\ d.killCompleted = m.killCompleted
      /\ d.outcome = "ORDER_CONFIRMED" => m.outcome = "ORDER_CONFIRMED"
  BY <1>1 DEF Like, Machines
<1> HIDE DEF d
<1>4. Goes(d, Enter(d, "computingIndicators"), {"computingIndicators", "cancelling"})
  BY <1>1, <1>3, LikeEnter, LikeSame
<1>5. m.lastDecisionCandle \in Nat
  BY DEF Machines
<1>6. CASE IsDuplicate(m, k)
  BY <1>2, <1>5, <1>6 DEF MarketDataReady, Goes, Like
<1>7. CASE ~IsDuplicate(m, k) /\ fresh
  <2>1. MarketDataReady(m, k, fresh) = Enter(d, "computingIndicators")
    BY <1>7 DEF MarketDataReady, d
  <2>2. m.lastDecisionCandle = 0 \/ m.lastDecisionCandle < k
    BY <1>5, <1>7 DEF IsDuplicate
  <2> QED BY <1>3, <1>4, <1>5, <2>1, <2>2 DEF Goes, Like
<1>8. CASE ~IsDuplicate(m, k) /\ ~fresh
  BY <1>2, <1>5, <1>8 DEF MarketDataReady, Goes, Like
<1> QED  BY <1>6, <1>7, <1>8

(* Operator commands.                                                      *)
LEMMA NewMachineType ==
  ASSUME NEW k \in Nat
  PROVE  NewMachine(k) \in Machines
BY DEF NewMachine, Machines, Phases, SettlingPhases, ShutdownModes, Outcomes,
   emptyAttempts

LEMMA StartGoes ==
  ASSUME NEW k \in Nat
  PROVE  LET n == StartRequested(NewMachine(k))
         IN  /\ n \in Machines /\ n.phase = "scheduling" /\ n.cycleId = 0
             /\ n.shutdownMode = "none" /\ ~n.killCompleted
             /\ n.outcome = "IDLE" /\ n.lastDecisionCandle = k
<1> DEFINE n == NewMachine(k)
           a == [n.attempts EXCEPT !["schedule"] = 0]
<1>1. /\ n \in Machines /\ n.shutdownMode = "none" /\ n.killCompleted = FALSE
      /\ n.outcome = "IDLE" /\ n.terminalFailure = FALSE /\ n.cycleId = 0
      /\ n.lastDecisionCandle = k
  BY NewMachineType DEF NewMachine
<1> HIDE DEF n
<1>2. a \in [AttemptKinds -> Nat]
  BY <1>1 DEF Machines
<1>3. [n EXCEPT !.shutdownMode = "none", !.killCompleted = FALSE,
                !.outcome = "IDLE", !.terminalFailure = FALSE,
                !.attempts["schedule"] = 0]
        = [n EXCEPT !.attempts = a]
  BY <1>1 DEF Machines
<1> HIDE DEF a
<1>4. StartRequested(n) = Enter([n EXCEPT !.attempts = a], "scheduling")
  BY <1>3 DEF StartRequested
<1>5. StartRequested(n) = [n EXCEPT !.attempts = a, !.phase = "scheduling"]
  BY <1>1, <1>4 DEF Enter, Machines
<1>6. "scheduling" \in Phases
  BY DEF Phases, CancellablePhases
<1>7. LET x == StartRequested(n)
      IN  /\ x \in Machines /\ x.phase = "scheduling" /\ x.cycleId = 0
          /\ x.shutdownMode = "none" /\ ~x.killCompleted
          /\ x.outcome = "IDLE" /\ x.lastDecisionCandle = k
  BY <1>1, <1>2, <1>5, <1>6 DEF Machines
<1> QED  BY <1>7 DEF n

LEMMA ControlGoes ==
  ASSUME NEW m \in Machines
  PROVE  \A n \in {StopRequested(m), KillSwitchEngaged(m)}:
           /\ n \in Machines /\ n.shutdownMode # "none"
           /\ n.cycleId = m.cycleId /\ n.outcome = m.outcome
           /\ n.lastDecisionCandle = m.lastDecisionCandle
           /\ n.killCompleted => m.killCompleted
           /\ n.phase \in SettlingPhases
           /\ \/ n.phase = m.phase
              \/ n.phase = "cancelling" /\ m.phase \in CancellablePhases \cup {"stopped"}
                 /\ (m.phase = "stopped" => ~n.killCompleted)
              \/ n.phase = "reconcilingOrder" /\ m.phase = "submittingOrder"
<1> DEFINE p == IF m.phase \in CancellablePhases THEN "cancelling"
                ELSE IF m.phase = "submittingOrder" THEN "reconcilingOrder"
                ELSE m.phase
           q == IF m.phase = "stopped" THEN "cancelling" ELSE p
<1>1. /\ StopRequested(m) = [m EXCEPT !.shutdownMode = "stop", !.phase = p]
      /\ KillSwitchEngaged(m) = [m EXCEPT !.shutdownMode = "kill-switch",
                                          !.killCompleted = FALSE, !.phase = q]
  BY DEF StopRequested, KillSwitchEngaged, RequestKill, Resettle, Enter, Machines,
     CancellablePhases
<1>2. m.phase \in Phases
  BY DEF Machines
<1>3. /\ p \in SettlingPhases /\ q \in SettlingPhases
      /\ p \in Phases /\ q \in Phases
      /\ {"stop", "kill-switch"} \subseteq ShutdownModes
  BY <1>2 DEF Phases, SettlingPhases, CancellablePhases, ShutdownModes
<1>4. /\ \/ p = m.phase
         \/ p = "cancelling" /\ m.phase \in CancellablePhases
         \/ p = "reconcilingOrder" /\ m.phase = "submittingOrder"
      /\ q = p \/ (q = "cancelling" /\ m.phase = "stopped")
      /\ "stopped" \notin CancellablePhases
      /\ m.phase = "stopped" => q = "cancelling" /\ p = "stopped"
  BY DEF CancellablePhases
<1> HIDE DEF p, q
<1>5. LET n == StopRequested(m)
      IN  /\ n \in Machines /\ n.shutdownMode # "none" /\ n.phase = p
          /\ n.cycleId = m.cycleId /\ n.outcome = m.outcome
          /\ n.lastDecisionCandle = m.lastDecisionCandle
          /\ n.killCompleted = m.killCompleted
  BY <1>1, <1>3 DEF Machines
<1>6. LET n == KillSwitchEngaged(m)
      IN  /\ n \in Machines /\ n.shutdownMode # "none" /\ n.phase = q
          /\ n.cycleId = m.cycleId /\ n.outcome = m.outcome
          /\ n.lastDecisionCandle = m.lastDecisionCandle
          /\ n.killCompleted = FALSE
  BY <1>1, <1>3 DEF Machines
<1> QED  BY <1>3, <1>4, <1>5, <1>6

LEMMA ResetGoes ==
  ASSUME NEW m \in Machines
  PROVE  \/ Reset(m) = m /\ m.phase \notin {"failed", "halted"}
         \/ Reset(m) = NewMachine(m.lastDecisionCandle)
            /\ Reset(m) \in Machines /\ m.phase \in {"failed", "halted"}
<1>1. m.lastDecisionCandle \in Nat
  BY DEF Machines
<1> QED  BY <1>1, NewMachineType DEF Reset

-----------------------------------------------------------------------------
(* Steps of a run.                                                         *)

(* The variables that a run writes beside its own record, and their types. *)
StorageInForm ==
  /\ portfolio \subseteq Cycles /\ schedule \in BOOLEAN
  /\ retryAlarm \in BOOLEAN /\ retryDue \in BOOLEAN
  /\ rows \in [Cycles -> CycleRows] /\ orders \in [Cycles -> OrderRows]
  /\ exchange \in [Cycles -> ExchangeStates] /\ bracket \in [Cycles -> BOOLEAN]
  /\ faults \in 0..MaxFaults
  /\ decisions \in [1..MaxCandle -> Nat] /\ executions \in [Cycles -> Nat]
  /\ blindRisk \in BOOLEAN

(* The bounds of the setup are numbers.                                    *)
LEMMA Bounds ==
  ASSUME setup \in Setups
  PROVE  /\ MaxRuns \in Nat \ {0} /\ MaxCycles \in Nat \ {0}
         /\ MaxCandle \in Nat \ {0} /\ MaxFaults \in Nat
         /\ MaxCommands \in Nat /\ MaxCrashes \in Nat
         /\ Mode \in {"paper", "live"} /\ Cycles = 1..MaxCycles
BY SetupsAssumption, CommandsAssumption
   DEF MaxRuns, MaxCycles, MaxCandle, MaxFaults, MaxCommands, MaxCrashes, Mode, Cycles

LEMMA Parts ==
  ASSUME IInv
  PROVE  /\ setup \in Setups /\ machine \in Machines /\ run \in [Runs -> RunRecords]
         /\ current \in Runs \cup {None} /\ used \in 0..MaxCycles
         /\ candle \in 1..MaxCandle /\ triggered \in [Cycles -> 0..MaxCandle]
         /\ session \in 0..MaxCycles /\ configured \in BOOLEAN /\ up \in BOOLEAN
         /\ commands \in 0..MaxCommands /\ crashes \in 0..MaxCrashes
         /\ StorageInForm /\ ThreadInForm /\ MachineInForm(machine)
         /\ CyclesAreFresh /\ ShellInForm
BY DEF IInv, TypeOK, RunsTypeOK, StorageInForm

(* The run r goes on.                                                      *)
Turned(r) ==
  /\ run' \in [Runs -> RunRecords] /\ \A s \in Runs \ {r}: run'[s] = run[s]
  /\ run'[r].active /\ RunInForm(run'[r]) /\ run'[r].cycle = run[r].cycle
  /\ \/ current' = r /\ run'[r].call \in {"none", "return"}
     \/ current' = None /\ run'[r].call \in NetworkCalls
  /\ \/ machine' = run'[r].m
     \/ machine' = machine /\ run'[r].m = run[r].m

(* What no step of a run changes.                                          *)
Frame == UNCHANGED <<used, candle, triggered, session, shell>>

(* A run that may take a step.                                             *)
OnTurn(r) == run[r].active /\ current \in {r, None}

LEMMA TurnKeeps ==
  ASSUME IInv, NEW r \in Runs, OnTurn(r), Turned(r), Frame,
         StorageInForm', CyclesAreFresh'
  PROVE  IInv'
<1> USE Parts, RunsAssumption
<1>1. /\ setup' = setup /\ used' = used /\ candle' = candle
      /\ triggered' = triggered /\ session' = session
      /\ configured' = configured /\ up' = up /\ commands' = commands
      /\ crashes' = crashes
  BY DEF Frame, shell
<1>2. /\ Cycles' = Cycles /\ MaxCycles' = MaxCycles /\ MaxCandle' = MaxCandle
      /\ MaxCommands' = MaxCommands /\ MaxCrashes' = MaxCrashes
      /\ RunRecords' = RunRecords /\ Mode' = Mode
  BY <1>1 DEF Cycles, MaxCycles, MaxCandle, MaxCommands, MaxCrashes, RunRecords, Mode
<1>3. /\ run' \in [Runs -> RunRecords]
      /\ \A s \in Runs \ {r}: run'[s] = run[s]
      /\ current' \in Runs \cup {None}
  BY DEF Turned
<1>5. machine' \in Machines /\ MachineInForm(machine)'
  <2>1. run'[r].m \in Machines /\ MachineInForm(run'[r].m)
    BY DEF Turned, RunInForm, RunRecords
  <2> QED BY <1>1, <2>1 DEF Turned, MachineInForm
<1>6. ThreadInForm'
  <2>1. \A s \in Runs: RunInForm(run'[s])
    BY <1>3 DEF Turned, ThreadInForm
  <2>2. \A s \in Runs: (RunInForm(run[s]))'
    BY <2>1, <1>1, <1>2 DEF RunInForm, MachineInForm, CallFits
  <2>3. ASSUME NEW s \in Runs
        PROVE  /\ ~run'[s].active => run'[s] = IdleRun
               /\ run'[s].active /\ current' # s => run'[s].call \in NetworkCalls
               /\ current' = s => run'[s].active /\ run'[s].call \in {"none", "return"}
    BY <1>3 DEF Turned, ThreadInForm, OnTurn
  <2> QED BY <2>2, <2>3 DEF ThreadInForm
<1>7. Active' = Active /\ r \in Active
  BY <1>3 DEF Active, OnTurn, Turned
<1>8. ShellInForm'
  <2>1. configured /\ up
    BY <1>7 DEF ShellInForm
  <2> QED BY <1>1, <1>7, <2>1 DEF ShellInForm
<1>9. RunsTypeOK'
  BY <1>1, <1>2, <1>3, <1>5 DEF RunsTypeOK, StorageInForm
<1>10. TypeOK'
  BY <1>1, <1>2, <1>9 DEF TypeOK
<1> QED  BY <1>5, <1>6, <1>8, <1>10 DEF IInv

(* What holds of a run that computes or is answered in phase p.            *)
LEMMA RunFacts ==
  ASSUME IInv, NEW r \in Runs
  PROVE  /\ run[r] \in RunRecords /\ run[r].m \in Machines
         /\ run[r].art \in ArtifactSets /\ run[r].port \subseteq Cycles
         /\ run[r].cycle \in 0..MaxCycles /\ run[r].m.phase \in Phases
         /\ run[r].m.cycleId \in Nat /\ run[r].m.lastDecisionCandle \in Nat
         /\ MachineInForm(run[r].m) /\ CallFits(run[r])
         /\ run[r].m.phase # "waiting" =>
              run[r].trigger = FALSE /\ run[r].cycle = run[r].m.cycleId
         /\ run[r].m.phase \in CyclePhases =>
              /\ run[r].cycle \in Cycles /\ run[r].cycle <= used
              /\ run[r].cycle # 0 /\ run[r].m.killCompleted = FALSE
<1>1. /\ run[r] \in RunRecords /\ RunInForm(run[r])
      /\ used \in 0..MaxCycles /\ MaxCycles \in Nat /\ Cycles = 1..MaxCycles
  BY Parts, Bounds DEF ThreadInForm
<1>2. run[r].m \in Machines
  BY <1>1 DEF RunRecords
<1>3. /\ run[r].art \in ArtifactSets /\ run[r].port \subseteq Cycles
      /\ run[r].cycle \in 0..MaxCycles /\ run[r].trigger \in BOOLEAN
  BY <1>1 DEF RunRecords
<1>4. run[r].m.phase \in Phases /\ run[r].m.killCompleted \in BOOLEAN
      /\ run[r].m.cycleId \in Nat /\ run[r].m.lastDecisionCandle \in Nat
  BY <1>2 DEF Machines
<1>5. MachineInForm(run[r].m) /\ CallFits(run[r])
  BY <1>1 DEF RunInForm
<1>6. run[r].m.phase # "waiting" =>
        run[r].trigger = FALSE /\ run[r].cycle = run[r].m.cycleId
  BY <1>1, <1>3 DEF RunInForm
<1>7. ASSUME run[r].m.phase \in CyclePhases
      PROVE  /\ run[r].cycle \in Cycles /\ run[r].cycle <= used
             /\ run[r].cycle # 0 /\ run[r].m.killCompleted = FALSE
  <2>1. run[r].m.phase # "waiting" /\ run[r].m.phase \notin KilledPhases
    BY <1>7 DEF CyclePhases, Preparing, Deciding, Resolving, KilledPhases
  <2> QED BY <1>1, <1>3, <1>4, <1>5, <1>6, <1>7, <2>1 DEF MachineInForm, RunInForm
<1> QED  BY <1>1, <1>2, <1>3, <1>4, <1>5, <1>6, <1>7

LEMMA AtTurn ==
  ASSUME IInv, NEW r \in Runs, NEW p, At(r, p)
  PROVE  OnTurn(r) /\ run[r].m.phase = p /\ run[r].call = "none" /\ current = r
BY Parts DEF At, OnTurn, ThreadInForm

LEMMA AnsweredTurn ==
  ASSUME IInv, NEW r \in Runs, NEW c \in NetworkCalls, Answered(r, c)
  PROVE  OnTurn(r) /\ run[r].call = c /\ current = None
BY Parts DEF Answered, OnTurn, ThreadInForm, IdleRun, NetworkCalls

(* The machine n may follow that of the run r.                             *)
Follows(r, n) ==
  /\ n \in Machines /\ MachineInForm(n) /\ n.cycleId = run[r].m.cycleId

LEMMA GoesFollows ==
  ASSUME IInv, NEW r \in Runs, NEW n, NEW P, Goes(run[r].m, n, P),
         \/ run[r].m.phase \in CyclePhases
         \/ /\ P \cap CyclePhases = {}
            /\ run[r].m.killCompleted => P \subseteq KilledPhases
  PROVE  Follows(r, n)
<1>1. /\ n \in Machines /\ n.cycleId = run[r].m.cycleId /\ n.phase \in P
      /\ n.killCompleted = run[r].m.killCompleted
      /\ n.shutdownMode = run[r].m.shutdownMode
      /\ n.shutdownMode # "none" => n.phase \in SettlingPhases
  BY DEF Goes, Like
<1>2. /\ MachineInForm(run[r].m)
      /\ run[r].m.phase \in CyclePhases => run[r].m.killCompleted = FALSE
  BY RunFacts
<1>3. MachineInForm(n)
  BY <1>1, <1>2 DEF MachineInForm
<1> QED  BY <1>1, <1>3 DEF Follows

LEMMA EndsFollows ==
  ASSUME IInv, NEW r \in Runs, NEW n, Ends(run[r].m, n),
         n.killCompleted => n.shutdownMode # "none"
  PROVE  Follows(r, n)
<1>1. MachineInForm(run[r].m)
  BY RunFacts
<1>2. "persisting" \in SettlingPhases \cap KilledPhases /\ "persisting" \notin CyclePhases
  BY DEF SettlingPhases, KilledPhases, CyclePhases, Preparing, Deciding, Resolving
<1> QED  BY <1>1, <1>2 DEF Follows, Ends, MachineInForm

(* The run goes on with machine n, or awaits the network.                  *)
LEMMA SentTurns ==
  ASSUME IInv, NEW r \in Runs, OnTurn(r), run[r].m.phase # "waiting",
         NEW n, Follows(r, n), NEW w \in RunRecords,
         w.active, w.m = n, w.call = "none", w.trigger = run[r].trigger,
         w.cycle = run[r].cycle, run' = [run EXCEPT ![r] = w],
         machine' = n, current' = r
  PROVE  Turned(r) /\ run'[r] = w
<1>1. run \in [Runs -> RunRecords]
  BY Parts
<1>2. run' \in [Runs -> RunRecords] /\ run'[r] = w
      /\ \A s \in Runs \ {r}: run'[s] = run[s]
  BY <1>1
<1>3. RunInForm(w)
  <2>1. CallFits(w)
    BY DEF CallFits
  <2>2. w.trigger = FALSE /\ w.cycle = w.m.cycleId /\ w.cycle <= used
    BY RunFacts, Parts DEF Follows, ThreadInForm, RunInForm
  <2> QED BY <2>1, <2>2 DEF RunInForm, Follows
<1> QED  BY <1>2, <1>3 DEF Turned

LEMMA SendTurns ==
  ASSUME IInv, NEW r \in Runs, OnTurn(r), run[r].m.phase # "waiting",
         NEW n, Follows(r, n), Send(r, n)
  PROVE  /\ Turned(r) /\ machine' = n
         /\ run'[r] = [run[r] EXCEPT !.m = n, !.call = "none"]
<1> DEFINE w == [run[r] EXCEPT !.m = n, !.call = "none"]
<1>1. run \in [Runs -> RunRecords] /\ run[r] \in RunRecords /\ n \in Machines
  BY Parts DEF Follows
<1>2. run' = [run EXCEPT ![r] = w]
  BY <1>1 DEF Send
<1>3. w \in RunRecords /\ w.active = run[r].active /\ w.m = n /\ w.call = "none"
      /\ w.trigger = run[r].trigger /\ w.cycle = run[r].cycle
  BY <1>1 DEF RunRecords, Calls
<1> HIDE DEF w
<1>4. Turned(r) /\ run'[r] = w
  BY <1>2, <1>3, SentTurns DEF Send, OnTurn
<1> QED  BY <1>4 DEF w, Send

LEMMA SendWithTurns ==
  ASSUME IInv, NEW r \in Runs, OnTurn(r), run[r].m.phase # "waiting",
         NEW n, Follows(r, n), NEW art \in ArtifactSets, SendWith(r, n, art)
  PROVE  /\ Turned(r) /\ machine' = n
         /\ run'[r] = [run[r] EXCEPT !.m = n, !.call = "none", !.art = art]
<1> DEFINE w == [run[r] EXCEPT !.m = n, !.call = "none", !.art = art]
<1>1. run \in [Runs -> RunRecords] /\ run[r] \in RunRecords /\ n \in Machines
  BY Parts DEF Follows
<1>2. run' = [run EXCEPT ![r] = w]
  BY <1>1 DEF SendWith
<1>3. w \in RunRecords /\ w.active = run[r].active /\ w.m = n /\ w.call = "none"
      /\ w.trigger = run[r].trigger /\ w.cycle = run[r].cycle
  BY <1>1 DEF RunRecords, Calls
<1> HIDE DEF w
<1>4. Turned(r) /\ run'[r] = w
  BY <1>2, <1>3, SentTurns DEF SendWith, OnTurn
<1> QED  BY <1>4 DEF w, SendWith

LEMMA RefuseTurns ==
  ASSUME IInv, NEW r \in Runs, OnTurn(r), run[r].m.phase # "waiting",
         NEW n, Follows(r, n), Refuse(r, n)
  PROVE  /\ Turned(r) /\ machine' = n
         /\ run'[r] = [run[r] EXCEPT !.m = n, !.call = "none", !.authorized = FALSE]
<1> DEFINE w == [run[r] EXCEPT !.m = n, !.call = "none", !.authorized = FALSE]
<1>1. run \in [Runs -> RunRecords] /\ run[r] \in RunRecords /\ n \in Machines
  BY Parts DEF Follows
<1>2. run' = [run EXCEPT ![r] = w]
  BY <1>1 DEF Refuse
<1>3. w \in RunRecords /\ w.active = run[r].active /\ w.m = n /\ w.call = "none"
      /\ w.trigger = run[r].trigger /\ w.cycle = run[r].cycle
  BY <1>1 DEF RunRecords, Calls
<1> HIDE DEF w
<1>4. Turned(r) /\ run'[r] = w
  BY <1>2, <1>3, SentTurns DEF Refuse, OnTurn
<1> QED  BY <1>4 DEF w, Refuse

LEMMA AwaitTurns ==
  ASSUME IInv, NEW r \in Runs, OnTurn(r), run[r].m.phase # "waiting",
         NEW c \in NetworkCalls, Await(r, c), machine' = machine,
         CallFits([run[r] EXCEPT !.call = c])
  PROVE  Turned(r) /\ run'[r] = [run[r] EXCEPT !.call = c]
<1> DEFINE w == [run[r] EXCEPT !.call = c]
<1>1. run \in [Runs -> RunRecords] /\ run[r] \in RunRecords
  BY Parts
<1>2. run' = [run EXCEPT ![r] = w] /\ current' = None
  BY <1>1 DEF Await
<1>3. w \in RunRecords /\ w.active = run[r].active /\ w.m = run[r].m /\ w.call = c
      /\ w.trigger = run[r].trigger /\ w.cycle = run[r].cycle
  BY <1>1 DEF RunRecords, NetworkCalls
<1>4. CallFits(w)
  OBVIOUS
<1> HIDE DEF w
<1>5. run' \in [Runs -> RunRecords] /\ run'[r] = w
      /\ \A s \in Runs \ {r}: run'[s] = run[s]
  BY <1>1, <1>2, <1>3
<1>6. RunInForm(run[r])
  BY Parts DEF ThreadInForm
<1>7. RunInForm(w)
  BY <1>3, <1>4, <1>6 DEF RunInForm
<1>8. Turned(r) /\ run'[r] = w
  BY <1>2, <1>3, <1>5, <1>7 DEF Turned, OnTurn
<1> QED  BY <1>8 DEF w

(* Artifacts and rows.                                                     *)
LEMMA WithType ==
  ASSUME IInv, NEW r \in Runs, NEW a \in Artifacts
  PROVE  /\ With(r, a) \in ArtifactSets /\ With(r, a).loaded
         /\ With(r, a).has = run[r].art.has \cup {a}
         /\ With(r, a).retry = run[r].art.retry
<1>1. run[r].art \in ArtifactSets
  BY RunFacts
<1> QED  BY <1>1 DEF With, ArtifactSets

LEMMA SavedType ==
  ASSUME IInv, NEW r \in Runs, NEW art \in ArtifactSets, NEW o \in Outcomes
  PROVE  /\ Saved(r, art, o) \in [Cycles -> CycleRows]
         /\ \A c \in Cycles \ {run[r].cycle}: Saved(r, art, o)[c] = rows[c]
         /\ run[r].cycle \in Cycles =>
              Saved(r, art, o)[run[r].cycle] =
                [stored |-> TRUE, art |-> art, outcome |-> o]
<1> DEFINE w == [stored |-> TRUE, art |-> art, outcome |-> o]
<1>1. rows \in [Cycles -> CycleRows]
  BY Parts DEF StorageInForm
<1>2. w \in CycleRows
  BY DEF CycleRows
<1> HIDE DEF w
<1>3. Saved(r, art, o) = [rows EXCEPT ![run[r].cycle] = w]
  BY DEF Saved, w
<1>4. /\ Saved(r, art, o) \in [Cycles -> CycleRows]
      /\ \A c \in Cycles \ {run[r].cycle}: Saved(r, art, o)[c] = rows[c]
      /\ run[r].cycle \in Cycles => Saved(r, art, o)[run[r].cycle] = w
  BY <1>1, <1>2, <1>3
<1> QED  BY <1>4 DEF w

(* What a step of the run r writes: the row and the order of its own       *)
(* cycle, and the exchange only about cycles that were drawn.              *)
Writes(r) ==
  /\ portfolio' \in {portfolio, {}}
  /\ schedule' \in BOOLEAN /\ retryAlarm' \in BOOLEAN /\ retryDue' \in BOOLEAN
  /\ \/ rows' = rows
     \/ \E art \in ArtifactSets, o \in Outcomes: rows' = Saved(r, art, o)
  /\ \/ orders' = orders
     \/ \E o \in OrderRows: orders' = [orders EXCEPT ![run[r].cycle] = o]
  /\ exchange' \in [Cycles -> ExchangeStates]
  /\ \A c \in Cycles: c > used => exchange'[c] = exchange[c]
  /\ bracket' = bracket
  /\ faults' \in 0..MaxFaults
  /\ decisions' \in [1..MaxCandle -> Nat]
  /\ \/ executions' = executions
     \/ executions' = [executions EXCEPT ![run[r].cycle] = @ + 1]
  /\ blindRisk' \in BOOLEAN

LEMMA WritesKeep ==
  ASSUME IInv, NEW r \in Runs, Frame, Writes(r)
  PROVE  StorageInForm' /\ CyclesAreFresh'
<1>1. /\ setup' = setup /\ used' = used /\ triggered' = triggered
      /\ Cycles' = Cycles /\ MaxCandle' = MaxCandle /\ MaxFaults' = MaxFaults
      /\ OrderRows' = OrderRows
  BY DEF Frame, shell, Cycles, MaxCycles, MaxCandle, MaxFaults, OrderRows
<1>2. StorageInForm /\ CyclesAreFresh /\ run[r].cycle <= used
      /\ used \in Nat /\ Cycles \subseteq Nat
  BY Parts, RunFacts, Bounds DEF ThreadInForm, RunInForm
<1>3. /\ rows' \in [Cycles -> CycleRows]
      /\ \A c \in Cycles: rows'[c] = rows[c] \/ (c = run[r].cycle /\ rows'[c].stored = TRUE)
  <2>1. CASE rows' = rows
    BY <1>2, <2>1 DEF StorageInForm
  <2>2. ASSUME NEW art \in ArtifactSets, NEW o \in Outcomes,
               rows' = Saved(r, art, o)
        PROVE  /\ rows' \in [Cycles -> CycleRows]
               /\ \A c \in Cycles:
                    rows'[c] = rows[c] \/ (c = run[r].cycle /\ rows'[c].stored = TRUE)
    <3>0. /\ Saved(r, art, o) \in [Cycles -> CycleRows]
          /\ \A c \in Cycles \ {run[r].cycle}: Saved(r, art, o)[c] = rows[c]
          /\ run[r].cycle \in Cycles =>
               Saved(r, art, o)[run[r].cycle] =
                 [stored |-> TRUE, art |-> art, outcome |-> o]
      BY SavedType
    <3>1. rows' \in [Cycles -> CycleRows]
      BY <2>2, <3>0
    <3>2. \A c \in Cycles \ {run[r].cycle}: rows'[c] = rows[c]
      BY <2>2, <3>0
    <3>3. run[r].cycle \in Cycles =>
            rows'[run[r].cycle] = [stored |-> TRUE, art |-> art, outcome |-> o]
      BY <2>2, <3>0
    <3>4. run[r].cycle \in Cycles => rows'[run[r].cycle].stored = TRUE
      BY <3>3
    <3> QED BY <3>1, <3>2, <3>4
  <2> QED BY <2>1, <2>2 DEF Writes
<1>4. /\ orders' \in [Cycles -> OrderRows]
      /\ \A c \in Cycles: orders'[c] = orders[c] \/ c = run[r].cycle
  BY <1>2 DEF Writes, StorageInForm
<1>5. /\ executions' \in [Cycles -> Nat]
      /\ \A c \in Cycles: executions'[c] = executions[c] \/ c = run[r].cycle
  BY <1>2 DEF Writes, StorageInForm
<1>6. StorageInForm'
  <2>1. portfolio' \subseteq Cycles
    BY <1>2 DEF Writes, StorageInForm
  <2>2. bracket' \in [Cycles -> BOOLEAN]
    BY <1>2 DEF Writes, StorageInForm
  <2> QED BY <1>1, <1>3, <1>4, <1>5, <2>1, <2>2 DEF Writes, StorageInForm
<1>7. CyclesAreFresh'
  <2> SUFFICES ASSUME NEW c \in Cycles
               PROVE  /\ c <= used => triggered[c] # 0
                      /\ c > used =>
                           /\ rows'[c] = NoRow /\ orders'[c].status = "none"
                           /\ exchange'[c] = "none" /\ executions'[c] = 0
                      /\ ~rows'[c].stored => rows'[c].art = NoArtifacts
    BY <1>1 DEF CyclesAreFresh, NoRow, NoArtifacts
  <2>1. c > used => c # run[r].cycle
    BY <1>2
  <2>2. /\ c <= used => triggered[c] # 0
        /\ c > used => /\ rows[c] = NoRow /\ orders[c].status = "none"
                       /\ exchange[c] = "none" /\ executions[c] = 0
        /\ ~rows[c].stored => rows[c].art = NoArtifacts
    BY <1>2 DEF CyclesAreFresh
  <2> QED BY <1>3, <1>4, <1>5, <2>1, <2>2 DEF Writes
<1> QED  BY <1>6, <1>7

(* A candle is decided upon only after the last one.                       *)
Decides(r) ==
  /\ run'[r].m.lastDecisionCandle >= run[r].m.lastDecisionCandle
  /\ \/ decisions' = decisions
     \/ \E k \in 1..MaxCandle:
          /\ run[r].m.lastDecisionCandle < k
          /\ run'[r].m.lastDecisionCandle = k
          /\ decisions' = [decisions EXCEPT ![k] = @ + 1]

(* The phases in which the grid alarm may be missing.                      *)
Unarmed == {"scheduling", "retryingSchedule", "cancelling", "persisting",
            "retryingPersistence", "stopped", "failed", "halted"}

Arms(r) ==
  run'[r].m.phase \notin Unarmed =>
    \/ schedule' = TRUE
    \/ schedule' = schedule /\ run[r].m.phase \notin Unarmed

(* A kill is completed only by a flat account, which nothing fills again.  *)
Kills(r) ==
  Mode = "live" /\ (run'[r].m.killCompleted \/ run'[r].m.phase = "halted") =>
    \/ Flattened
    \/ run[r].m.killCompleted /\ exchange' = exchange

(* What one step of the run r does.                                        *)
Turn(r) ==
  /\ OnTurn(r) /\ Turned(r) /\ Frame /\ StorageInForm' /\ CyclesAreFresh'
  /\ Decides(r) /\ Arms(r) /\ Kills(r)

(* The steps of a cycle before its end.                                    *)
Proceeds(r, n) ==
  /\ Follows(r, n)
  /\ n.shutdownMode = run[r].m.shutdownMode
  /\ n.lastDecisionCandle = run[r].m.lastDecisionCandle
  /\ n.killCompleted = FALSE /\ n.phase # "halted"

LEMMA GoesProceeds ==
  ASSUME IInv, NEW r \in Runs, run[r].m.phase \in CyclePhases,
         NEW n, NEW P, Goes(run[r].m, n, P), "halted" \notin P
  PROVE  Proceeds(r, n)
BY GoesFollows, RunFacts DEF Proceeds, Goes, Like

LEMMA EndsProceeds ==
  ASSUME IInv, NEW r \in Runs, run[r].m.phase \in CyclePhases,
         NEW n, Ends(run[r].m, n), n.killCompleted = run[r].m.killCompleted
  PROVE  Proceeds(r, n)
<1>1. run[r].m.killCompleted = FALSE
  BY RunFacts
<1> QED  BY <1>1, EndsFollows DEF Proceeds, Ends

LEMMA AllProceed ==
  ASSUME IInv, NEW r \in Runs, run[r].m.phase \in CyclePhases
  PROVE  LET m == run[r].m
         IN  /\ Proceeds(r, AccountReconciled(m))
             /\ Proceeds(r, IndicatorsComputed(m))
             /\ Proceeds(r, StrategiesEvaluated(m))
             /\ \A b \in BOOLEAN: Proceeds(r, AllocationCompleted(m, b))
             /\ Proceeds(r, RiskApproved(m)) /\ Proceeds(r, RiskRejected(m))
             /\ Proceeds(r, OrderIntentPersisted(m))
             /\ Proceeds(r, AuthorizationReady(m, TRUE))
             /\ Proceeds(r, OrderOutcomeUnknown(m))
             /\ Proceeds(r, OrderProtectionFailed(m))
             /\ Proceeds(r, OrderConfirmed(m))
             /\ \A b \in BOOLEAN:
                  /\ Proceeds(r, AccountReconciliationFailed(m, b))
                  /\ Proceeds(r, MarketDataFailed(m, b))
                  /\ Proceeds(r, AuthorizationFailed(m, b))
                  /\ Proceeds(r, OrderRejected(m, b))
                  /\ Proceeds(r, OrderReconciled(m, b))
                  /\ Proceeds(r, ReconciliationFailed(m, b))
             /\ Proceeds(r, CycleFailed(m))
             /\ m.phase \in RetryPhases => Proceeds(r, RetryTimerElapsed(m))
<1> DEFINE m == run[r].m
<1>1. m \in Machines
  BY RunFacts
<1>2. ASSUME NEW n, NEW P, Goes(m, n, P), "halted" \notin P
      PROVE  Proceeds(r, n)
  BY <1>2, GoesProceeds
<1> HIDE DEF m
<1>3. /\ Proceeds(r, AccountReconciled(m))
      /\ \A b \in BOOLEAN: Proceeds(r, AccountReconciliationFailed(m, b))
  BY <1>1, <1>2, AccountGoes
<1>4. Proceeds(r, CycleFailed(m)) /\ \A b \in BOOLEAN: Proceeds(r, MarketDataFailed(m, b))
  <2>1. Goes(m, CycleFailed(m), {"persisting"})
    BY <1>1, CycleFailedGoes
  <2> QED BY <1>1, <1>2, <2>1, MarketFailedGoes
<1>5. /\ Proceeds(r, IndicatorsComputed(m)) /\ Proceeds(r, StrategiesEvaluated(m))
      /\ Proceeds(r, RiskApproved(m)) /\ Proceeds(r, RiskRejected(m))
      /\ Proceeds(r, OrderIntentPersisted(m))
      /\ Proceeds(r, AllocationCompleted(m, TRUE))
      /\ Proceeds(r, AllocationCompleted(m, FALSE))
  BY <1>1, <1>2, DecisionGoes
<1>6. /\ Proceeds(r, AuthorizationReady(m, TRUE))
      /\ \A b \in BOOLEAN: Proceeds(r, AuthorizationFailed(m, b))
  BY <1>1, <1>2, AuthorizationGoes
<1>7. /\ Proceeds(r, OrderOutcomeUnknown(m)) /\ Proceeds(r, OrderProtectionFailed(m))
      /\ Proceeds(r, OrderReconciled(m, FALSE))
      /\ \A b \in BOOLEAN: /\ Proceeds(r, OrderRejected(m, b))
                           /\ Proceeds(r, ReconciliationFailed(m, b))
  BY <1>1, <1>2, OrderGoes
<1>8. Proceeds(r, OrderConfirmed(m)) /\ Proceeds(r, OrderReconciled(m, TRUE))
  BY <1>1, ConfirmedEnds, EndsProceeds DEF m
<1>9. m.phase \in RetryPhases => Proceeds(r, RetryTimerElapsed(m))
  <2>1. "halted" \notin Targets(RetryTarget(m.phase)) \/ m.phase \notin RetryPhases
    BY DEF RetryPhases, RetryTarget, Targets, CancellablePhases
  <2> QED BY <1>1, <1>2, <2>1, RetryGoes
<1> QED  BY <1>3, <1>4, <1>5, <1>6, <1>7, <1>8, <1>9 DEF m

(* A run in a cycle that proceeds, or awaits.                              *)
LEMMA CycleTurn ==
  ASSUME IInv, NEW r \in Runs, OnTurn(r), run[r].m.phase \in CyclePhases,
         Turned(r), Frame, Writes(r), schedule' = schedule, decisions' = decisions,
         Proceeds(r, run'[r].m) \/ run'[r].m = run[r].m
  PROVE  Turn(r)
<1>1. /\ run[r].m.killCompleted = FALSE /\ run[r].m.lastDecisionCandle \in Nat
      /\ run[r].m.phase # "halted" /\ run[r].m.phase \notin Unarmed
  BY RunFacts DEF CyclePhases, Preparing, Deciding, Resolving, Unarmed
<1>2. Decides(r) /\ Arms(r) /\ Kills(r)
  BY <1>1 DEF Decides, Arms, Kills, Proceeds
<1> QED  BY <1>2, WritesKeep DEF Turn

(* A step of a run in a cycle that leaves the schedule and the decisions.  *)
InCycle(r) ==
  /\ OnTurn(r) /\ run[r].m.phase \in CyclePhases /\ Frame /\ Writes(r)
  /\ schedule' = schedule /\ decisions' = decisions

LEMMA CycleSends ==
  ASSUME IInv, NEW r \in Runs, InCycle(r), NEW n, Proceeds(r, n)
  PROVE  /\ Send(r, n) => Turn(r)
         /\ \A art \in ArtifactSets: SendWith(r, n, art) => Turn(r)
         /\ Refuse(r, n) => Turn(r)
<1>1. run[r].m.phase # "waiting" /\ run[r] \in RunRecords /\ Follows(r, n)
  BY RunFacts DEF InCycle, CyclePhases, Preparing, Deciding, Resolving, Proceeds
<1>2. ASSUME Send(r, n) PROVE Turn(r)
  <2>1. Turned(r) /\ run'[r] = [run[r] EXCEPT !.m = n, !.call = "none"]
    BY <1>1, <1>2, SendTurns DEF InCycle
  <2>2. run'[r].m = n
    BY <1>1, <2>1 DEF RunRecords
  <2> QED BY <2>1, <2>2, CycleTurn DEF InCycle
<1>3. ASSUME NEW art \in ArtifactSets, SendWith(r, n, art) PROVE Turn(r)
  <2>1. /\ Turned(r)
        /\ run'[r] = [run[r] EXCEPT !.m = n, !.call = "none", !.art = art]
    BY <1>1, <1>3, SendWithTurns DEF InCycle
  <2>2. run'[r].m = n
    BY <1>1, <2>1 DEF RunRecords
  <2> QED BY <2>1, <2>2, CycleTurn DEF InCycle
<1>4. ASSUME Refuse(r, n) PROVE Turn(r)
  <2>1. /\ Turned(r)
        /\ run'[r] = [run[r] EXCEPT !.m = n, !.call = "none", !.authorized = FALSE]
    BY <1>1, <1>4, RefuseTurns DEF InCycle
  <2>2. run'[r].m = n
    BY <1>1, <2>1 DEF RunRecords
  <2> QED BY <2>1, <2>2, CycleTurn DEF InCycle
<1> QED  BY <1>2, <1>3, <1>4

LEMMA CycleAwaits ==
  ASSUME IInv, NEW r \in Runs, InCycle(r), NEW c \in NetworkCalls, Await(r, c),
         machine' = machine, CallFits([run[r] EXCEPT !.call = c])
  PROVE  Turn(r)
<1>1. run[r].m.phase # "waiting" /\ run[r] \in RunRecords
  BY RunFacts DEF InCycle, CyclePhases, Preparing, Deciding, Resolving
<1>2. Turned(r) /\ run'[r] = [run[r] EXCEPT !.call = c]
  BY <1>1, AwaitTurns DEF InCycle
<1>3. run'[r].m = run[r].m
  BY <1>1, <1>2 DEF RunRecords
<1> QED  BY <1>2, <1>3, CycleTurn DEF InCycle

LEMMA CycleConfirms ==
  ASSUME IInv, NEW r \in Runs, InCycle(r), NEW booked \in SUBSET Cycles,
         NEW n, Proceeds(r, n), NEW f, Proceeds(r, f),
         Confirm(r, booked, n, f)
  PROVE  /\ Turn(r) /\ machine' \in {n, f}
         /\ run'[r] = [run[r] EXCEPT !.m = machine', !.call = "none",
                         !.authorized = FALSE, !.art = With(r, "execution"),
                         !.port = booked]
<1> DEFINE x == machine'
           w == [run[r] EXCEPT !.m = x, !.call = "none", !.authorized = FALSE,
                               !.art = With(r, "execution"), !.port = booked]
<1>1. run[r].m.phase # "waiting" /\ run[r] \in RunRecords
      /\ run \in [Runs -> RunRecords]
  BY Parts, RunFacts DEF InCycle, CyclePhases, Preparing, Deciding, Resolving
<1>2. x \in {n, f} /\ machine' = x /\ current' = r /\ run' = Taken(r, booked, x)
  BY DEF Confirm
<1> HIDE DEF x
<1>3. Proceeds(r, x) /\ Follows(r, x) /\ x \in Machines
  BY <1>2 DEF Proceeds, Follows
<1>4. run' = [run EXCEPT ![r] = w]
  BY <1>1, <1>2 DEF Taken
<1>5. With(r, "execution") \in ArtifactSets
  BY WithType DEF Artifacts
<1>6. /\ w \in RunRecords /\ w.active = run[r].active /\ w.m = x /\ w.call = "none"
      /\ w.trigger = run[r].trigger /\ w.cycle = run[r].cycle
  BY <1>1, <1>3, <1>5 DEF RunRecords, Calls
<1> HIDE DEF w
<1>7. Turned(r) /\ run'[r] = w
  BY <1>1, <1>2, <1>3, <1>4, <1>6, SentTurns DEF InCycle, OnTurn
<1>8. Turn(r)
  BY <1>3, <1>6, <1>7, CycleTurn DEF InCycle
<1> QED  BY <1>2, <1>7, <1>8 DEF w, x

(* What a step leaves alone needs no type of its own.                      *)
LEMMA Untouched ==
  ASSUME IInv
  PROVE  /\ portfolio \in {portfolio, {}} /\ schedule \in BOOLEAN
         /\ retryAlarm \in BOOLEAN /\ retryDue \in BOOLEAN
         /\ exchange \in [Cycles -> ExchangeStates]
         /\ faults \in 0..MaxFaults /\ decisions \in [1..MaxCandle -> Nat]
         /\ blindRisk \in BOOLEAN /\ orders \in [Cycles -> OrderRows]
         /\ rows \in [Cycles -> CycleRows] /\ machine.outcome \in Outcomes
         /\ (Fault => faults' \in 0..MaxFaults)
<1>1. faults \in 0..MaxFaults /\ MaxFaults \in Nat
  BY Parts, Bounds DEF StorageInForm
<1>2. Fault => faults' \in 0..MaxFaults
  BY <1>1 DEF Fault
<1> QED  BY <1>1, <1>2, Parts DEF StorageInForm, Machines

LEMMA PlanMarketRetryTurns ==
  ASSUME IInv, NEW r \in Runs, PlanMarketRetry(r), UNCHANGED shell
  PROVE  Turn(r)
<1> DEFINE attempt == run[r].m.attempts["marketData"]
           planned == [run[r].art EXCEPT !.loaded = TRUE, !.retry = attempt]
<1>1. OnTurn(r) /\ run[r].m.phase = "retryingMarketData" /\ run[r].call = "none"
      /\ current = r
  BY AtTurn DEF PlanMarketRetry
<1>2. /\ run[r].m.phase \in CyclePhases /\ run[r].m.phase \in RetryPhases
      /\ run[r] \in RunRecords /\ run[r].m \in Machines /\ run[r].m.phase # "waiting"
      /\ run[r].art \in ArtifactSets /\ run \in [Runs -> RunRecords]
  BY <1>1, RunFacts, Parts DEF CyclePhases, Deciding, RetryPhases
<1>3. attempt \in Nat
  BY <1>2 DEF Machines, AttemptKinds
<1> HIDE DEF attempt
<1>4. planned \in ArtifactSets
  BY <1>2, <1>3 DEF ArtifactSets
<1>5. Writes(r) /\ Frame /\ schedule' = schedule /\ decisions' = decisions
  <2>1. rows' = rows \/ rows' = Saved(r, planned, machine.outcome)
    BY DEF PlanMarketRetry, planned, attempt
  <2>2. machine.outcome \in Outcomes
    BY Untouched
  <2>3. /\ portfolio' = portfolio /\ schedule' = schedule /\ orders' = orders
        /\ exchange' = exchange /\ bracket' = bracket /\ decisions' = decisions
        /\ executions' = executions /\ blindRisk' = blindRisk
        /\ used' = used /\ candle' = candle /\ triggered' = triggered
        /\ session' = session
        /\ retryAlarm' \in {retryAlarm, TRUE} /\ retryDue' \in {retryDue, FALSE}
        /\ faults' = faults \/ Fault
    BY DEF PlanMarketRetry, venue, history
  <2> HIDE DEF planned
  <2>4. Writes(r)
    BY <1>4, <2>1, <2>2, <2>3, Untouched DEF Writes
  <2> QED BY <2>3, <2>4 DEF Frame
<1>6. InCycle(r)
  BY <1>1, <1>2, <1>5 DEF InCycle
<1>7. CASE Send(r, RetryTimerElapsed(run[r].m))
  <2>1. Proceeds(r, RetryTimerElapsed(run[r].m))
    BY <1>2, AllProceed
  <2> QED BY <1>6, <1>7, <2>1, CycleSends
<1>8. ASSUME NEW art \in ArtifactSets, machine' = machine, current' = current,
             run' = [run EXCEPT ![r].art = art, ![r].call = "return"]
      PROVE  Turn(r)
  <2> DEFINE w == [run[r] EXCEPT !.art = art, !.call = "return"]
  <2>1. run' = [run EXCEPT ![r] = w]
    BY <1>2, <1>8
  <2>2. w \in RunRecords /\ w.active = run[r].active /\ w.m = run[r].m
        /\ w.call = "return" /\ w.trigger = run[r].trigger /\ w.cycle = run[r].cycle
    BY <1>2 DEF RunRecords, Calls
  <2> HIDE DEF w
  <2>3. /\ run' \in [Runs -> RunRecords] /\ run'[r] = w
        /\ \A s \in Runs \ {r}: run'[s] = run[s]
    BY <1>2, <2>1, <2>2
  <2>4. RunInForm(w)
    <3>1. RunInForm(run[r])
      BY Parts DEF ThreadInForm
    <3>2. CallFits(w)
      BY <1>1, <2>2 DEF CallFits
    <3> QED BY <2>2, <3>1, <3>2 DEF RunInForm
  <2>5. Turned(r)
    BY <1>1, <1>8, <2>2, <2>3, <2>4 DEF Turned, OnTurn
  <2> QED BY <1>6, <2>2, <2>3, <2>5, CycleTurn DEF InCycle
<1>9. CASE /\ run' = [run EXCEPT ![r].call = "return"]
           /\ UNCHANGED <<machine, current>>
  <2>1. run' = [run EXCEPT ![r].art = run[r].art, ![r].call = "return"]
    BY <1>2, <1>9 DEF RunRecords
  <2> QED BY <1>2, <1>8, <1>9, <2>1
<1> QED  BY <1>4, <1>7, <1>8, <1>9 DEF PlanMarketRetry, attempt

(* The phases in which a cycle is under way.                               *)
LEMMA InCyclePhases ==
  /\ \A p \in {"reconcilingAccount", "fetchingMarketData", "retryingMarketData",
               "computingIndicators", "evaluatingStrategies", "allocating",
               "checkingRisk", "persistingOrderIntent", "authorizing",
               "submittingOrder", "reconcilingOrder"}: p \in CyclePhases
  /\ \A p \in CyclePhases: p # "waiting"
BY DEF CyclePhases, Preparing, Deciding, Resolving

LEMMA ResumeMarketRetryTurns ==
  ASSUME IInv, NEW r \in Runs, ResumeMarketRetry(r), UNCHANGED shell
  PROVE  Turn(r)
<1>1. OnTurn(r) /\ run[r].m.phase = "retryingMarketData" /\ run[r].call = "none"
      /\ current = r
  BY AtTurn DEF ResumeMarketRetry
<1>2. /\ run[r].m.phase \in CyclePhases /\ run[r].m.phase \in RetryPhases
      /\ run[r] \in RunRecords /\ run \in [Runs -> RunRecords]
  BY <1>1, RunFacts, Parts, InCyclePhases DEF RetryPhases
<1>3. InCycle(r)
  BY <1>1, <1>2, Untouched DEF ResumeMarketRetry, InCycle, Writes, Frame, market,
     venue, history
<1>4. CASE Send(r, RetryTimerElapsed(run[r].m))
  BY <1>2, <1>3, <1>4, AllProceed, CycleSends
<1>5. CASE /\ run' = [run EXCEPT ![r].call = "return"]
           /\ UNCHANGED <<machine, current>>
  <2> DEFINE w == [run[r] EXCEPT !.call = "return"]
  <2>1. run' = [run EXCEPT ![r] = w]
    BY <1>2, <1>5
  <2>2. w \in RunRecords /\ w.active = run[r].active /\ w.m = run[r].m
        /\ w.call = "return" /\ w.trigger = run[r].trigger /\ w.cycle = run[r].cycle
    BY <1>2 DEF RunRecords, Calls
  <2> HIDE DEF w
  <2>3. /\ run' \in [Runs -> RunRecords] /\ run'[r] = w
        /\ \A s \in Runs \ {r}: run'[s] = run[s]
    BY <1>2, <2>1, <2>2
  <2>4. RunInForm(w)
    <3>1. RunInForm(run[r])
      BY Parts DEF ThreadInForm
    <3>2. CallFits(w)
      BY <1>1, <2>2 DEF CallFits
    <3> QED BY <2>2, <3>1, <3>2 DEF RunInForm
  <2>5. Turned(r)
    BY <1>1, <1>5, <2>2, <2>3, <2>4 DEF Turned, OnTurn
  <2> QED BY <1>3, <2>2, <2>3, <2>5, CycleTurn DEF InCycle
<1> QED  BY <1>4, <1>5 DEF ResumeMarketRetry

LEMMA ReconcileAccountTurns ==
  ASSUME IInv, NEW r \in Runs, ReconcileAccount(r), UNCHANGED shell
  PROVE  Turn(r)
<1>1. OnTurn(r) /\ run[r].m.phase = "reconcilingAccount" /\ current = r
  BY AtTurn DEF ReconcileAccount
<1>2. run[r].m.phase \in CyclePhases /\ run[r] \in RunRecords
  BY <1>1, RunFacts, InCyclePhases
<1>3. InCycle(r)
  BY <1>1, <1>2, Untouched DEF ReconcileAccount, InCycle, Writes, Frame, market,
     venue, history
<1>4. CASE Send(r, AccountReconciled(run[r].m))
  BY <1>2, <1>3, <1>4, AllProceed, CycleSends
<1>5. CASE Mode = "live" /\ Await(r, "account") /\ UNCHANGED machine
  <2>1. CallFits([run[r] EXCEPT !.call = "account"])
    BY <1>1, <1>2, <1>5 DEF CallFits, RunRecords
  <2> QED BY <1>3, <1>5, <2>1, CycleAwaits DEF NetworkCalls, Calls
<1> QED  BY <1>4, <1>5 DEF ReconcileAccount

LEMMA FetchMarketDataTurns ==
  ASSUME IInv, NEW r \in Runs, FetchMarketData(r), UNCHANGED shell
  PROVE  Turn(r)
<1>1. OnTurn(r) /\ run[r].m.phase = "fetchingMarketData" /\ current = r
  BY AtTurn DEF FetchMarketData
<1>2. run[r].m.phase \in CyclePhases /\ run[r] \in RunRecords
  BY <1>1, RunFacts, InCyclePhases
<1>3. InCycle(r)
  BY <1>1, <1>2, Untouched DEF FetchMarketData, InCycle, Writes, Frame, market,
     venue, history
<1>4. CallFits([run[r] EXCEPT !.call = "market"])
  BY <1>1, <1>2 DEF CallFits, RunRecords
<1> QED  BY <1>3, <1>4, CycleAwaits DEF FetchMarketData, NetworkCalls, Calls

LEMMA AccountAnswerTurns ==
  ASSUME IInv, NEW r \in Runs, AccountAnswer(r), UNCHANGED shell
  PROVE  Turn(r)
<1>1. OnTurn(r) /\ run[r].call = "account" /\ current = None
  BY AnsweredTurn DEF AccountAnswer, NetworkCalls, Calls
<1>2. /\ run[r].m.phase = "reconcilingAccount" /\ run[r].m.phase \in CyclePhases
      /\ run[r] \in RunRecords /\ run \in [Runs -> RunRecords]
      /\ run[r].m.phase # "waiting"
  BY <1>1, RunFacts, Parts, InCyclePhases DEF CallFits
<1>3. InCycle(r)
  BY <1>1, <1>2, Untouched DEF AccountAnswer, InCycle, Writes, Frame, market,
     venue, history
<1>4. CASE \E b \in BOOLEAN: Send(r, AccountReconciliationFailed(run[r].m, b))
  BY <1>2, <1>3, <1>4, AllProceed, CycleSends
<1>5. CASE /\ machine' = AccountReconciled(run[r].m)
           /\ run' = [run EXCEPT ![r].m = machine', ![r].call = "none",
                                 ![r].port = Held, ![r].exposureKnown = TRUE]
           /\ current' = r
  <2> DEFINE n == AccountReconciled(run[r].m)
             w == [run[r] EXCEPT !.m = n, !.call = "none", !.port = Held,
                                 !.exposureKnown = TRUE]
  <2>1. Proceeds(r, n)
    BY <1>2, AllProceed
  <2> HIDE DEF n
  <2>2. n \in Machines /\ Held \subseteq Cycles
    BY <2>1 DEF Proceeds, Follows, Held
  <2>3. run' = [run EXCEPT ![r] = w]
    BY <1>2, <1>5 DEF n
  <2>4. /\ w \in RunRecords /\ w.active = run[r].active /\ w.m = n /\ w.call = "none"
        /\ w.trigger = run[r].trigger /\ w.cycle = run[r].cycle
    BY <1>2, <2>2 DEF RunRecords, Calls
  <2> HIDE DEF w
  <2>5. Turned(r) /\ run'[r] = w
    BY <1>1, <1>2, <1>5, <2>1, <2>3, <2>4, SentTurns DEF n, OnTurn, Proceeds
  <2> QED BY <1>3, <2>1, <2>4, <2>5, CycleTurn DEF InCycle
<1> QED  BY <1>4, <1>5 DEF AccountAnswer

(* A checkpoint in a cycle.                                                *)
LEMMA CheckpointWrites ==
  ASSUME IInv, NEW r \in Runs, NEW art \in ArtifactSets, NEW n, NEW f,
         Checkpoint(r, art, n, f)
  PROVE  /\ \/ rows' = rows
            \/ \E a \in ArtifactSets, o \in Outcomes: rows' = Saved(r, a, o)
         /\ faults' \in 0..MaxFaults
         /\ \/ SendWith(r, n, art) /\ rows' = Saved(r, art, machine.outcome)
            \/ SendWith(r, f, art) /\ rows' = rows
BY Untouched DEF Checkpoint

LEMMA ComputeTurns ==
  ASSUME IInv, NEW r \in Runs, NEW p \in CyclePhases, NEW needs,
         NEW a \in Artifacts, NEW n, Compute(r, p, needs, a, n), UNCHANGED shell,
         run[r].m.phase = p => Proceeds(r, n)
  PROVE  Turn(r)
<1>1. OnTurn(r) /\ run[r].m.phase = p /\ current = r
  BY AtTurn DEF Compute
<1>2. /\ run[r].m.phase \in CyclePhases /\ Proceeds(r, n)
      /\ Proceeds(r, CycleFailed(run[r].m)) /\ With(r, a) \in ArtifactSets
  BY <1>1, AllProceed, WithType
<1>3. /\ \/ rows' = rows
         \/ \E x \in ArtifactSets, o \in Outcomes: rows' = Saved(r, x, o)
      /\ faults' \in 0..MaxFaults
      /\ \/ SendWith(r, n, With(r, a))
         \/ SendWith(r, CycleFailed(run[r].m), With(r, a))
         \/ Send(r, CycleFailed(run[r].m))
  <2>1. CASE Checkpoint(r, With(r, a), n, CycleFailed(run[r].m))
    BY <1>2, <2>1, CheckpointWrites
  <2>2. CASE Send(r, CycleFailed(run[r].m)) /\ rows' = rows
             /\ (Fault \/ UNCHANGED faults)
    BY <2>2, Untouched
  <2> QED BY <2>1, <2>2 DEF Compute
<1>4. InCycle(r)
  BY <1>1, <1>2, <1>3, Untouched DEF Compute, InCycle, Writes, Frame, market,
     venue, history
<1> QED  BY <1>2, <1>3, <1>4, CycleSends

LEMMA DecisionTurns ==
  ASSUME IInv, NEW r \in Runs, UNCHANGED shell,
         ComputeIndicators(r) \/ EvaluateStrategies(r) \/ Allocate(r)
  PROVE  Turn(r)
<1>1. {"indicators", "signals", "order"} \subseteq Artifacts
  BY DEF Artifacts
<1>2. \A p \in {"computingIndicators", "evaluatingStrategies", "allocating"}:
        p \in CyclePhases
  BY InCyclePhases
<1>3. run[r].m.phase \in CyclePhases =>
        /\ Proceeds(r, IndicatorsComputed(run[r].m))
        /\ Proceeds(r, StrategiesEvaluated(run[r].m))
        /\ Proceeds(r, AllocationCompleted(run[r].m, TRUE))
        /\ Proceeds(r, AllocationCompleted(run[r].m, FALSE))
  BY AllProceed
<1>4. CASE ComputeIndicators(r)
  BY <1>1, <1>2, <1>3, <1>4, ComputeTurns DEF ComputeIndicators
<1>5. CASE EvaluateStrategies(r)
  BY <1>1, <1>2, <1>3, <1>5, ComputeTurns DEF EvaluateStrategies
<1>6. CASE Allocate(r)
  BY <1>1, <1>2, <1>3, <1>6, ComputeTurns DEF Allocate
<1> QED  BY <1>4, <1>5, <1>6

LEMMA CheckRiskTurns ==
  ASSUME IInv, NEW r \in Runs, CheckRisk(r), UNCHANGED shell
  PROVE  Turn(r)
<1>1. OnTurn(r) /\ run[r].m.phase = "checkingRisk" /\ current = r
  BY AtTurn DEF CheckRisk
<1>2. /\ run[r].m.phase \in CyclePhases /\ With(r, "risk") \in ArtifactSets
      /\ run[r].art \in ArtifactSets
  BY <1>1, InCyclePhases, WithType, RunFacts DEF Artifacts
<1>3. /\ Proceeds(r, CycleFailed(run[r].m)) /\ Proceeds(r, RiskApproved(run[r].m))
      /\ Proceeds(r, RiskRejected(run[r].m))
  BY <1>2, AllProceed
<1>4. /\ \/ rows' = rows
         \/ \E x \in ArtifactSets, o \in Outcomes: rows' = Saved(r, x, o)
      /\ faults' \in 0..MaxFaults /\ blindRisk' \in BOOLEAN
      /\ \/ SendWith(r, RiskApproved(run[r].m), With(r, "risk"))
         \/ SendWith(r, CycleFailed(run[r].m), With(r, "risk"))
         \/ SendWith(r, RiskRejected(run[r].m), run[r].art)
         \/ SendWith(r, CycleFailed(run[r].m), run[r].art)
         \/ Send(r, CycleFailed(run[r].m))
  <2>1. CASE /\ Checkpoint(r, With(r, "risk"), RiskApproved(run[r].m),
                           CycleFailed(run[r].m))
             /\ blindRisk' = \/ blindRisk
                             \/ /\ Mode = "live"
                                /\ ~run[r].exposureKnown
                                /\ machine' = RiskApproved(run[r].m)
    <3>1. blindRisk' \in BOOLEAN
      BY <2>1, Untouched
    <3> QED BY <1>2, <2>1, <3>1, CheckpointWrites
  <2>2. CASE /\ Checkpoint(r, run[r].art, RiskRejected(run[r].m),
                           CycleFailed(run[r].m))
             /\ UNCHANGED blindRisk
    BY <1>2, <2>2, CheckpointWrites, Untouched
  <2>3. CASE Send(r, CycleFailed(run[r].m)) /\ UNCHANGED <<rows, blindRisk>>
             /\ (Fault \/ UNCHANGED faults)
    BY <2>3, Untouched
  <2> QED BY <2>1, <2>2, <2>3 DEF CheckRisk
<1>5. InCycle(r)
  BY <1>1, <1>2, <1>4, Untouched DEF CheckRisk, InCycle, Writes, Frame, market,
     venue, history
<1> QED  BY <1>2, <1>3, <1>4, <1>5, CycleSends

(* The order of a cycle, and the account.                                  *)
LEMMA IntendedWrites ==
  ASSUME IInv, NEW c \in Cycles
  PROVE  \/ Intended(c) = orders
         \/ \E o \in OrderRows: Intended(c) = [orders EXCEPT ![c] = o]
<1>1. orders \in [Cycles -> OrderRows] /\ orders[c] \in OrderRows
  BY Untouched
<1> DEFINE o == [orders[c] EXCEPT !.status = "INTENT_PERSISTED"]
<1>2. o \in OrderRows
  BY <1>1 DEF OrderRows, OrderStatuses
<1>3. [orders EXCEPT ![c].status = "INTENT_PERSISTED"] = [orders EXCEPT ![c] = o]
  BY <1>1
<1> QED  BY <1>2, <1>3 DEF Intended

LEMMA RecordWrites ==
  ASSUME IInv, NEW c \in Cycles, NEW s \in OrderStatuses, NEW id \in BOOLEAN,
         Record(c, s, id)
  PROVE  /\ orders' = [orders EXCEPT ![c] =
                         [orders[c] EXCEPT !.status = s, !.idKnown = id \/ @]]
         /\ [orders[c] EXCEPT !.status = s, !.idKnown = id \/ @] \in OrderRows
<1>1. orders \in [Cycles -> OrderRows] /\ orders[c] \in OrderRows
  BY Untouched
<1> DEFINE k == id \/ orders[c].idKnown
           o == [orders[c] EXCEPT !.status = s, !.idKnown = k]
<1>2. k \in BOOLEAN
  BY <1>1 DEF OrderRows
<1>3. orders' = [orders EXCEPT ![c].status = s, ![c].idKnown = k]
  BY <1>1 DEF Record, OrderRows
<1> HIDE DEF k
<1>4. o \in OrderRows
  BY <1>1, <1>2 DEF OrderRows
<1>5. orders' = [orders EXCEPT ![c] = o]
  BY <1>1, <1>3
<1> QED  BY <1>4, <1>5 DEF k

LEMMA AccountWrites ==
  ASSUME IInv
  PROVE  /\ \A c \in Cycles: c <= used /\ Accepted(c) =>
              /\ exchange' \in [Cycles -> ExchangeStates]
              /\ \A d \in Cycles: d > used => exchange'[d] = exchange[d]
         /\ Flattened \/ PartlyFlattened =>
              /\ exchange' \in [Cycles -> ExchangeStates]
              /\ \A d \in Cycles: d > used => exchange'[d] = exchange[d]
<1>1. exchange \in [Cycles -> ExchangeStates] /\ used \in Nat /\ Cycles \subseteq Nat
      /\ \A d \in Cycles: d > used => exchange[d] = "none"
  BY Untouched, Parts, Bounds DEF CyclesAreFresh
<1>2. ASSUME NEW c \in Cycles, c <= used, Accepted(c)
      PROVE  /\ exchange' \in [Cycles -> ExchangeStates]
             /\ \A d \in Cycles: d > used => exchange'[d] = exchange[d]
  <2>1. \A d \in Cycles: d > used => d # c
    BY <1>1, <1>2
  <2>2. "open" \in ExchangeStates
    BY DEF ExchangeStates
  <2> QED BY <1>1, <1>2, <2>1, <2>2 DEF Accepted
<1>3. ASSUME NEW S \in SUBSET (OpenOrders \cup Held), exchange' = Closed(S)
      PROVE  /\ exchange' \in [Cycles -> ExchangeStates]
             /\ \A d \in Cycles: d > used => exchange'[d] = exchange[d]
  BY <1>1, <1>3 DEF Closed, OpenOrders, Held, ExchangeStates
<1> QED  BY <1>2, <1>3 DEF Flattened, PartlyFlattened

LEMMA MarketAnswerTurns ==
  ASSUME IInv, NEW r \in Runs, MarketAnswer(r), UNCHANGED shell
  PROVE  Turn(r)
<1> DEFINE m == run[r].m
           at == triggered[run[r].cycle]
<1>1. OnTurn(r) /\ run[r].call = "market" /\ current = None
  BY AnsweredTurn DEF MarketAnswer, NetworkCalls, Calls
<1>2. /\ m.phase = "fetchingMarketData" /\ m.phase \in CyclePhases
      /\ run[r] \in RunRecords /\ m \in Machines /\ m.phase # "waiting"
      /\ With(r, "market") \in ArtifactSets /\ m.killCompleted = FALSE
      /\ run[r].cycle \in Cycles
  BY <1>1, RunFacts, InCyclePhases, WithType DEF CallFits, Artifacts
<1>3. \A b \in BOOLEAN: Proceeds(r, MarketDataFailed(m, b))
  BY <1>2, AllProceed
<1>4. /\ schedule' = schedule /\ Frame /\ portfolio' = portfolio
      /\ retryAlarm' = retryAlarm /\ orders' = orders /\ retryDue' = retryDue
      /\ exchange' = exchange /\ bracket' = bracket
      /\ executions' = executions /\ blindRisk' = blindRisk
  BY DEF MarketAnswer, Frame, market, venue
<1>5. CASE /\ Fault
           /\ \E b \in BOOLEAN: Send(r, MarketDataFailed(m, b))
           /\ UNCHANGED <<rows, decisions>>
  <2>1. InCycle(r)
    BY <1>1, <1>2, <1>4, <1>5, Untouched DEF InCycle, Writes
  <2> QED BY <1>3, <1>5, <2>1, CycleSends
<1>6. ASSUME NEW k \in {at - 1, at} \ {0}, NEW fresh \in BOOLEAN,
             Checkpoint(r, With(r, "market"), MarketDataReady(m, k, fresh),
                        MarketDataFailed(m, TRUE)),
             decisions' = IF machine'.phase = "computingIndicators"
                          THEN [decisions EXCEPT ![k] = @ + 1] ELSE decisions
      PROVE  Turn(r)
  <2> DEFINE n == MarketDataReady(m, k, fresh)
             f == MarketDataFailed(m, TRUE)
  <2>1. /\ \/ rows' = rows
           \/ \E a \in ArtifactSets, o \in Outcomes: rows' = Saved(r, a, o)
        /\ faults' \in 0..MaxFaults
        /\ \/ SendWith(r, n, With(r, "market")) \/ SendWith(r, f, With(r, "market"))
    BY <1>2, <1>6, CheckpointWrites
  <2>2. k \in 1..MaxCandle /\ k \in Nat /\ k # 0
    <3>1. at \in 0..MaxCandle /\ at # 0
      BY <1>2, Parts, RunFacts DEF CyclesAreFresh
    <3>2. MaxCandle \in Nat
      BY Parts, Bounds
    <3> QED BY <3>1, <3>2
  <2>3. /\ n \in Machines /\ n.cycleId = m.cycleId
        /\ n.shutdownMode = m.shutdownMode
        /\ n.shutdownMode # "none" => n.phase \in SettlingPhases
        /\ n.killCompleted = m.killCompleted
        /\ n.phase \in {"computingIndicators", "cancelling", "retryingMarketData",
                        "persisting"}
        /\ n.phase = "computingIndicators" =>
             /\ n.lastDecisionCandle = k
             /\ m.lastDecisionCandle = 0 \/ m.lastDecisionCandle < k
        /\ n.lastDecisionCandle >= m.lastDecisionCandle
    BY <1>2, <2>2, MarketReadyGoes
  <2>4. Follows(r, n)
    <3>1. MachineInForm(m)
      BY RunFacts
    <3> QED BY <1>2, <2>3, <3>1 DEF Follows, MachineInForm
  <2>5. Proceeds(r, f)
    BY <1>3
  <2>6. /\ f.phase # "computingIndicators" /\ f.lastDecisionCandle = m.lastDecisionCandle
        /\ f.killCompleted = FALSE /\ f.phase # "halted"
    BY <1>2, <2>5, MarketFailedGoes DEF Proceeds, Goes
  <2>7. Follows(r, f)
    BY <2>5 DEF Proceeds
  <2>8. m.lastDecisionCandle \in Nat
    BY <1>2 DEF Machines
  <2> HIDE DEF n, f, m
  <2>9. PICK x \in {n, f}: SendWith(r, x, With(r, "market"))
    BY <2>1
  <2>10. /\ Turned(r) /\ machine' = x
         /\ run'[r] = [run[r] EXCEPT !.m = x, !.call = "none", !.art = With(r, "market")]
    <3>1. Follows(r, x) /\ run[r].m.phase # "waiting"
      BY <1>2, <2>4, <2>7 DEF m
    <3>2. OnTurn(r) /\ With(r, "market") \in ArtifactSets
      BY <1>1, <1>2
    <3> QED BY <2>9, <3>1, <3>2, SendWithTurns
  <2>11. run'[r].m = x
    BY <1>2, <2>10 DEF RunRecords
  <2>12. Decides(r)
    <3>1. CASE x.phase = "computingIndicators"
      <4>1. x = n
        BY <2>6, <3>1
      <4>2. decisions' = [decisions EXCEPT ![k] = @ + 1]
        BY <1>6, <2>10, <3>1
      <4>3. m.lastDecisionCandle < k /\ n.lastDecisionCandle = k
        BY <2>2, <2>3, <2>8, <3>1, <4>1
      <4> QED BY <2>2, <2>3, <2>11, <4>1, <4>2, <4>3 DEF Decides, m
    <3>2. CASE x.phase # "computingIndicators"
      <4>1. decisions' = decisions
        BY <1>6, <2>10, <3>2
      <4>2. x.lastDecisionCandle >= m.lastDecisionCandle
        BY <2>3, <2>6, <2>8
      <4> QED BY <2>11, <4>1, <4>2 DEF Decides, m
    <3> QED BY <3>1, <3>2
  <2>13. Arms(r) /\ Kills(r)
    <3>1. m.phase \notin Unarmed
      BY <1>2 DEF Unarmed
    <3>2. x.killCompleted = FALSE /\ x.phase # "halted"
      BY <1>2, <2>3, <2>6
    <3> QED BY <1>4, <2>11, <3>1, <3>2 DEF Arms, Kills, m
  <2>14. Writes(r)
    <3>1. decisions \in [1..MaxCandle -> Nat] /\ decisions[k] + 1 \in Nat
      BY <2>2, Untouched
    <3>2. [decisions EXCEPT ![k] = @ + 1] \in [1..MaxCandle -> Nat]
      BY <3>1
    <3>3. decisions' \in [1..MaxCandle -> Nat]
      BY <1>6, <3>1, <3>2
    <3> QED BY <1>4, <2>1, <3>3, Untouched DEF Writes
  <2> QED BY <1>1, <1>4, <2>10, <2>12, <2>13, <2>14, WritesKeep DEF Turn
<1> QED  BY <1>5, <1>6 DEF MarketAnswer

LEMMA PersistOrderIntentTurns ==
  ASSUME IInv, NEW r \in Runs, PersistOrderIntent(r), UNCHANGED shell
  PROVE  Turn(r)
<1>1. OnTurn(r) /\ run[r].m.phase = "persistingOrderIntent" /\ current = r
  BY AtTurn DEF PersistOrderIntent
<1>2. run[r].m.phase \in CyclePhases /\ run[r].cycle \in Cycles
  BY <1>1, InCyclePhases, RunFacts
<1>3. /\ orders' = Intended(run[r].cycle) \/ orders' = orders
      /\ faults' = faults \/ Fault
      /\ \/ Send(r, OrderIntentPersisted(run[r].m))
         \/ Send(r, CycleFailed(run[r].m))
  BY DEF PersistOrderIntent
<1>4. orders' = orders \/ \E o \in OrderRows: orders' = [orders EXCEPT ![run[r].cycle] = o]
  BY <1>2, <1>3, IntendedWrites
<1>5. InCycle(r)
  BY <1>1, <1>2, <1>3, <1>4, Untouched DEF PersistOrderIntent, InCycle, Writes,
     Frame, market, venue, history
<1> QED  BY <1>2, <1>3, <1>5, AllProceed, CycleSends

LEMMA AuthorizeTurns ==
  ASSUME IInv, NEW r \in Runs, Authorize(r), UNCHANGED shell
  PROVE  Turn(r)
<1>1. OnTurn(r) /\ run[r].m.phase = "authorizing" /\ current = r
      /\ run[r].call = "none"
  BY AtTurn DEF Authorize
<1>2. /\ run[r].m.phase \in CyclePhases /\ run[r] \in RunRecords
      /\ run \in [Runs -> RunRecords] /\ run[r].m.phase # "waiting"
  BY <1>1, InCyclePhases, RunFacts, Parts
<1>3. InCycle(r)
  BY <1>1, <1>2, Untouched DEF Authorize, InCycle, Writes, Frame, market, venue,
     history
<1>4. CASE Send(r, AuthorizationFailed(run[r].m, FALSE))
  BY <1>2, <1>3, <1>4, AllProceed, CycleSends
<1>5. CASE /\ machine' = AuthorizationReady(run[r].m, TRUE)
           /\ run' = [run EXCEPT ![r].m = AuthorizationReady(run[r].m, TRUE),
                                 ![r].authorized = TRUE]
           /\ UNCHANGED current
  <2> DEFINE n == AuthorizationReady(run[r].m, TRUE)
             w == [run[r] EXCEPT !.m = n, !.authorized = TRUE]
  <2>1. Proceeds(r, n)
    BY <1>2, AllProceed
  <2> HIDE DEF n
  <2>2. n \in Machines
    BY <2>1 DEF Proceeds, Follows
  <2>3. run' = [run EXCEPT ![r] = w]
    BY <1>2, <1>5 DEF n
  <2>4. /\ w \in RunRecords /\ w.active = run[r].active /\ w.m = n /\ w.call = "none"
        /\ w.trigger = run[r].trigger /\ w.cycle = run[r].cycle
    BY <1>1, <1>2, <2>2 DEF RunRecords
  <2> HIDE DEF w
  <2>5. Turned(r) /\ run'[r] = w
    BY <1>1, <1>2, <1>5, <2>1, <2>3, <2>4, SentTurns DEF n, OnTurn, Proceeds
  <2> QED BY <1>3, <2>1, <2>4, <2>5, CycleTurn DEF InCycle
<1> QED  BY <1>4, <1>5 DEF Authorize

LEMMA SubmitUnpreparedTurns ==
  ASSUME IInv, NEW r \in Runs, SubmitUnprepared(r), UNCHANGED shell
  PROVE  Turn(r)
<1>1. OnTurn(r) /\ run[r].m.phase = "submittingOrder" /\ current = r
  BY AtTurn DEF SubmitUnprepared
<1>2. run[r].m.phase \in CyclePhases
  BY <1>1, InCyclePhases
<1>3. InCycle(r)
  BY <1>1, <1>2, Untouched DEF SubmitUnprepared, InCycle, Writes, Frame, market,
     venue, history
<1> QED  BY <1>2, <1>3, AllProceed, CycleSends DEF SubmitUnprepared

LEMMA ReconcileNothingTurns ==
  ASSUME IInv, NEW r \in Runs, ReconcileNothing(r), UNCHANGED shell
  PROVE  Turn(r)
<1>1. OnTurn(r) /\ run[r].m.phase = "reconcilingOrder" /\ current = r
  BY AtTurn DEF ReconcileNothing
<1>2. run[r].m.phase \in CyclePhases
  BY <1>1, InCyclePhases
<1>3. InCycle(r)
  BY <1>1, <1>2, Untouched DEF ReconcileNothing, InCycle, Writes, Frame, market,
     venue, history
<1> QED  BY <1>2, <1>3, AllProceed, CycleSends DEF ReconcileNothing

LEMMA SubmitLiveOrderTurns ==
  ASSUME IInv, NEW r \in Runs, SubmitLiveOrder(r), UNCHANGED shell
  PROVE  Turn(r)
<1>1. OnTurn(r) /\ run[r].m.phase = "submittingOrder" /\ current = r
  BY AtTurn DEF SubmitLiveOrder
<1>2. run[r].m.phase \in CyclePhases /\ run[r] \in RunRecords
  BY <1>1, InCyclePhases, RunFacts
<1>3. InCycle(r)
  BY <1>1, <1>2, Untouched DEF SubmitLiveOrder, InCycle, Writes, Frame, market,
     venue, history
<1>4. CallFits([run[r] EXCEPT !.call = "submit"])
  BY <1>1, <1>2 DEF CallFits, RunRecords, SubmitLiveOrder, ReadyToSubmit
<1> QED  BY <1>3, <1>4, CycleAwaits DEF SubmitLiveOrder, NetworkCalls, Calls

LEMMA ReconcileLiveOrderTurns ==
  ASSUME IInv, NEW r \in Runs, ReconcileLiveOrder(r), UNCHANGED shell
  PROVE  Turn(r)
<1> DEFINE c == IF orders[run[r].cycle].idKnown THEN "lookup" ELSE "replay"
<1>1. OnTurn(r) /\ run[r].m.phase = "reconcilingOrder" /\ current = r
  BY AtTurn DEF ReconcileLiveOrder
<1>2. run[r].m.phase \in CyclePhases /\ run[r] \in RunRecords
  BY <1>1, InCyclePhases, RunFacts
<1>3. InCycle(r)
  BY <1>1, <1>2, Untouched DEF ReconcileLiveOrder, InCycle, Writes, Frame, market,
     venue, history
<1>4. c \in {"lookup", "replay"} /\ Await(r, c) /\ machine' = machine
      /\ Mode = "live"
  BY DEF ReconcileLiveOrder
<1> HIDE DEF c
<1>5. CallFits([run[r] EXCEPT !.call = c])
  BY <1>1, <1>2, <1>4 DEF CallFits, RunRecords
<1>6. c \in NetworkCalls
  BY <1>4 DEF NetworkCalls, Calls
<1> QED  BY <1>3, <1>4, <1>5, <1>6, CycleAwaits

(* Paper orders.                                                           *)
LEMMA ConfirmWrites ==
  ASSUME IInv, NEW r \in Runs, NEW booked, NEW n, NEW f, Confirm(r, booked, n, f)
  PROVE  /\ \/ rows' = rows
            \/ \E a \in ArtifactSets, o \in Outcomes: rows' = Saved(r, a, o)
         /\ faults' \in 0..MaxFaults
<1>1. With(r, "execution") \in ArtifactSets
  BY WithType DEF Artifacts
<1> QED  BY <1>1, Untouched DEF Confirm

LEMMA SubmitPaperOrderTurns ==
  ASSUME IInv, NEW r \in Runs, SubmitPaperOrder(r), UNCHANGED shell
  PROVE  Turn(r)
<1> DEFINE c == run[r].cycle
           m == run[r].m
           booked == run[r].port \cup {c}
           row == [status |-> "CONFIRMED", idKnown |-> TRUE, booked |-> booked]
<1>1. OnTurn(r) /\ m.phase = "submittingOrder" /\ current = r
  BY AtTurn DEF SubmitPaperOrder
<1>2. m.phase \in CyclePhases /\ c \in Cycles /\ run[r].port \subseteq Cycles
  BY <1>1, InCyclePhases, RunFacts
<1>3. booked \subseteq Cycles /\ orders[c].booked \subseteq Cycles /\ row \in OrderRows
  BY <1>2, Untouched DEF OrderRows, OrderStatuses
<1>4. /\ Proceeds(r, OrderConfirmed(m)) /\ Proceeds(r, OrderOutcomeUnknown(m))
      /\ Proceeds(r, OrderRejected(m, FALSE))
  BY <1>2, AllProceed
<1>5. /\ portfolio' = portfolio /\ schedule' = schedule /\ retryAlarm' = retryAlarm
      /\ retryDue' = retryDue /\ exchange' = exchange /\ bracket' = bracket
      /\ decisions' = decisions /\ blindRisk' = blindRisk /\ Frame
  BY DEF SubmitPaperOrder, Frame, market, venue
<1>6. /\ \/ orders' = orders
         \/ \E o \in OrderRows: orders' = [orders EXCEPT ![c] = o]
      /\ \/ executions' = executions
         \/ executions' = [executions EXCEPT ![c] = @ + 1]
  BY <1>3 DEF SubmitPaperOrder
<1>7. \/ \E b \in SUBSET Cycles: Confirm(r, b, OrderConfirmed(m), OrderOutcomeUnknown(m))
      \/ Refuse(r, OrderRejected(m, FALSE)) /\ UNCHANGED <<rows, faults>>
      \/ Refuse(r, OrderOutcomeUnknown(m)) /\ Fault /\ UNCHANGED rows
  BY <1>3 DEF SubmitPaperOrder
<1>8. /\ \/ rows' = rows
         \/ \E a \in ArtifactSets, o \in Outcomes: rows' = Saved(r, a, o)
      /\ faults' \in 0..MaxFaults
  BY <1>7, ConfirmWrites, Untouched
<1>9. InCycle(r)
  BY <1>1, <1>2, <1>5, <1>6, <1>8, Untouched DEF InCycle, Writes
<1> QED  BY <1>4, <1>7, <1>9, CycleSends, CycleConfirms

LEMMA ReconcilePaperOrderTurns ==
  ASSUME IInv, NEW r \in Runs, ReconcilePaperOrder(r), UNCHANGED shell
  PROVE  Turn(r)
<1> DEFINE c == run[r].cycle
           m == run[r].m
<1>1. OnTurn(r) /\ m.phase = "reconcilingOrder" /\ current = r
  BY AtTurn DEF ReconcilePaperOrder
<1>2. m.phase \in CyclePhases /\ c \in Cycles
  BY <1>1, InCyclePhases, RunFacts
<1>3. orders[c].booked \subseteq Cycles
  BY <1>2, Untouched DEF OrderRows
<1>4. /\ Proceeds(r, OrderReconciled(m, TRUE)) /\ Proceeds(r, OrderReconciled(m, FALSE))
      /\ Proceeds(r, ReconciliationFailed(m, TRUE))
  BY <1>2, AllProceed
<1>5. \/ \E b \in SUBSET Cycles:
           Confirm(r, b, OrderReconciled(m, TRUE), ReconciliationFailed(m, TRUE))
      \/ Refuse(r, OrderReconciled(m, FALSE)) /\ UNCHANGED <<rows, faults>>
      \/ Refuse(r, ReconciliationFailed(m, TRUE)) /\ Fault /\ UNCHANGED rows
  BY <1>3 DEF ReconcilePaperOrder
<1>6. /\ \/ rows' = rows
         \/ \E a \in ArtifactSets, o \in Outcomes: rows' = Saved(r, a, o)
      /\ faults' \in 0..MaxFaults
  BY <1>5, ConfirmWrites, Untouched
<1>7. InCycle(r)
  BY <1>1, <1>2, <1>6, Untouched DEF InCycle, Writes, Frame, ReconcilePaperOrder,
     market, venue, history
<1> QED  BY <1>4, <1>5, <1>7, CycleSends, CycleConfirms

(* Live orders.                                                            *)
LEMMA AnswerWrites ==
  ASSUME IInv, NEW c \in Cycles,
         \E s \in OrderStatuses, id \in BOOLEAN: Record(c, s, id)
  PROVE  \E o \in OrderRows: orders' = [orders EXCEPT ![c] = o]
<1>1. PICK s \in OrderStatuses, id \in BOOLEAN: Record(c, s, id)
  OBVIOUS
<1> DEFINE o == [orders[c] EXCEPT !.status = s, !.idKnown = id \/ @]
<1>2. orders' = [orders EXCEPT ![c] = o] /\ o \in OrderRows
  BY <1>1, RecordWrites
<1> HIDE DEF o
<1> QED  BY <1>2

LEMMA SubmitAnswerTurns ==
  ASSUME IInv, NEW r \in Runs, SubmitAnswer(r), UNCHANGED shell
  PROVE  Turn(r)
<1> DEFINE c == run[r].cycle
           m == run[r].m
<1>1. OnTurn(r) /\ run[r].call = "submit" /\ current = None
  BY AnsweredTurn DEF SubmitAnswer, NetworkCalls, Calls
<1>2. m.phase \in CyclePhases /\ c \in Cycles /\ c <= used
  BY <1>1, RunFacts, InCyclePhases DEF CallFits
<1>3. /\ Proceeds(r, OrderOutcomeUnknown(m))
      /\ \A b \in BOOLEAN: Proceeds(r, OrderRejected(m, b))
  BY <1>2, AllProceed
<1>4. orders' = orders \/ \E o \in OrderRows: orders' = [orders EXCEPT ![c] = o]
  <2>1. \/ orders' = orders
        \/ \E s \in OrderStatuses, id \in BOOLEAN: Record(c, s, id)
    BY DEF SubmitAnswer, OrderStatuses
  <2> QED BY <1>2, <2>1, AnswerWrites
<1>5. /\ exchange' \in [Cycles -> ExchangeStates]
      /\ \A d \in Cycles: d > used => exchange'[d] = exchange[d]
  <2>1. Accepted(c) \/ exchange' = exchange
    BY DEF SubmitAnswer
  <2> QED BY <1>2, <2>1, AccountWrites, Untouched
<1>6. /\ faults' = faults \/ Fault
      /\ \/ Refuse(r, OrderOutcomeUnknown(m))
         \/ \E b \in BOOLEAN: Refuse(r, OrderRejected(m, b))
  BY DEF SubmitAnswer
<1>7. InCycle(r)
  BY <1>1, <1>2, <1>4, <1>5, <1>6, Untouched DEF InCycle, Writes, Frame,
     SubmitAnswer, market, history
<1> QED  BY <1>3, <1>6, <1>7, CycleSends

LEMMA ReplayAnswerTurns ==
  ASSUME IInv, NEW r \in Runs, ReplayAnswer(r), UNCHANGED shell
  PROVE  Turn(r)
<1> DEFINE c == run[r].cycle
           m == run[r].m
<1>1. OnTurn(r) /\ run[r].call = "replay" /\ current = None
  BY AnsweredTurn DEF ReplayAnswer, NetworkCalls, Calls
<1>2. /\ m.phase \in CyclePhases /\ c \in Cycles /\ c <= used
      /\ m.phase = "reconcilingOrder" /\ Mode = "live" /\ run[r] \in RunRecords
  BY <1>1, RunFacts, InCyclePhases DEF CallFits
<1>3. /\ Proceeds(r, OrderReconciled(m, FALSE))
      /\ \A b \in BOOLEAN: Proceeds(r, ReconciliationFailed(m, b))
  BY <1>2, AllProceed
<1>4. orders' = orders \/ \E o \in OrderRows: orders' = [orders EXCEPT ![c] = o]
  <2>1. \/ orders' = orders
        \/ \E s \in OrderStatuses, id \in BOOLEAN: Record(c, s, id)
    BY DEF ReplayAnswer, OrderStatuses
  <2> QED BY <1>2, <2>1, AnswerWrites
<1>5. /\ exchange' \in [Cycles -> ExchangeStates]
      /\ \A d \in Cycles: d > used => exchange'[d] = exchange[d]
  <2>1. Accepted(c) \/ exchange' = exchange
    BY DEF ReplayAnswer
  <2> QED BY <1>2, <2>1, AccountWrites, Untouched
<1>6. /\ faults' = faults \/ Fault
      /\ \/ Await(r, "lookup") /\ machine' = machine
         \/ Refuse(r, OrderReconciled(m, FALSE))
         \/ \E b \in BOOLEAN: Refuse(r, ReconciliationFailed(m, b))
  BY DEF ReplayAnswer
<1>7. InCycle(r)
  BY <1>1, <1>2, <1>4, <1>5, <1>6, Untouched DEF InCycle, Writes, Frame,
     ReplayAnswer, market, history
<1>8. CASE Await(r, "lookup") /\ machine' = machine
  <2>1. CallFits([run[r] EXCEPT !.call = "lookup"])
    BY <1>1, <1>2 DEF CallFits, RunRecords
  <2> QED BY <1>7, <1>8, <2>1, CycleAwaits DEF NetworkCalls, Calls
<1> QED  BY <1>3, <1>6, <1>7, <1>8, CycleSends

LEMMA LookupAnswerTurns ==
  ASSUME IInv, NEW r \in Runs, LookupAnswer(r), UNCHANGED shell
  PROVE  Turn(r)
<1> DEFINE c == run[r].cycle
           m == run[r].m
           booked == run[r].port \cup {c}
<1>1. OnTurn(r) /\ run[r].call = "lookup" /\ current = None
  BY AnsweredTurn DEF LookupAnswer, NetworkCalls, Calls
<1>2. /\ m.phase \in CyclePhases /\ c \in Cycles
      /\ m.phase = "reconcilingOrder" /\ Mode = "live" /\ run[r] \in RunRecords
      /\ booked \in SUBSET Cycles
  BY <1>1, RunFacts, InCyclePhases DEF CallFits
<1>3. /\ Proceeds(r, OrderReconciled(m, FALSE)) /\ Proceeds(r, OrderReconciled(m, TRUE))
      /\ \A b \in BOOLEAN: Proceeds(r, ReconciliationFailed(m, b))
  BY <1>2, AllProceed
<1>4. orders' = orders \/ \E o \in OrderRows: orders' = [orders EXCEPT ![c] = o]
  <2>1. \/ orders' = orders
        \/ \E s \in OrderStatuses, id \in BOOLEAN: Record(c, s, id)
    BY DEF LookupAnswer, OrderStatuses
  <2> QED BY <1>2, <2>1, AnswerWrites
<1>5. \/ Confirm(r, booked, OrderReconciled(m, TRUE), ReconciliationFailed(m, TRUE))
      \/ /\ rows' = rows /\ (faults' = faults \/ Fault)
         /\ \/ Await(r, "unwind") /\ machine' = machine
            \/ Refuse(r, OrderReconciled(m, FALSE))
            \/ \E b \in BOOLEAN: Refuse(r, ReconciliationFailed(m, b))
  BY DEF LookupAnswer
<1>6. /\ \/ rows' = rows
         \/ \E a \in ArtifactSets, o \in Outcomes: rows' = Saved(r, a, o)
      /\ faults' \in 0..MaxFaults
  BY <1>5, ConfirmWrites, Untouched
<1>7. InCycle(r)
  BY <1>1, <1>2, <1>4, <1>6, Untouched DEF InCycle, Writes, Frame,
     LookupAnswer, market, venue, history
<1>8. CASE Await(r, "unwind") /\ machine' = machine
  <2>1. CallFits([run[r] EXCEPT !.call = "unwind"])
    BY <1>1, <1>2 DEF CallFits, RunRecords
  <2> QED BY <1>7, <1>8, <2>1, CycleAwaits DEF NetworkCalls, Calls
<1>9. CASE Confirm(r, booked, OrderReconciled(m, TRUE), ReconciliationFailed(m, TRUE))
  BY <1>2, <1>3, <1>7, <1>9, CycleConfirms
<1> QED  BY <1>3, <1>5, <1>7, <1>8, <1>9, CycleSends

LEMMA UnwindAnswerTurns ==
  ASSUME IInv, NEW r \in Runs, UnwindAnswer(r), UNCHANGED shell
  PROVE  Turn(r)
<1> DEFINE c == run[r].cycle
           m == run[r].m
           n == OrderProtectionFailed(m)
           a == With(r, "execution")
<1>1. OnTurn(r) /\ run[r].call = "unwind" /\ current = None
  BY AnsweredTurn DEF UnwindAnswer, NetworkCalls, Calls
<1>2. /\ m.phase \in CyclePhases /\ c \in Cycles /\ m.phase # "waiting"
      /\ run[r] \in RunRecords /\ run \in [Runs -> RunRecords]
      /\ a \in ArtifactSets
  BY <1>1, RunFacts, InCyclePhases, Parts, WithType DEF CallFits, Artifacts
<1>3. /\ Proceeds(r, n)
      /\ \A b \in BOOLEAN: Proceeds(r, ReconciliationFailed(m, b))
  BY <1>2, AllProceed
<1>4. orders' = orders \/ \E o \in OrderRows: orders' = [orders EXCEPT ![c] = o]
  <2>1. \/ orders' = orders
        \/ \E s \in OrderStatuses, id \in BOOLEAN: Record(c, s, id)
    BY DEF UnwindAnswer, OrderStatuses
  <2> QED BY <1>2, <2>1, AnswerWrites
<1>5. /\ exchange' \in [Cycles -> ExchangeStates]
      /\ \A d \in Cycles: d > used => exchange'[d] = exchange[d]
  <2>1. Flattened \/ PartlyFlattened
    BY DEF UnwindAnswer
  <2> QED BY <2>1, AccountWrites
<1>6. /\ faults' = faults \/ Fault
      /\ \/ /\ machine' = n /\ current' = r
            /\ run' = [run EXCEPT ![r].m = n, ![r].call = "none", ![r].art = a,
                                  ![r].port = {}, ![r].exposureKnown = TRUE]
         \/ \E b \in BOOLEAN: Refuse(r, ReconciliationFailed(m, b))
  BY DEF UnwindAnswer
<1>7. InCycle(r)
  BY <1>1, <1>2, <1>4, <1>5, <1>6, Untouched DEF InCycle, Writes, Frame,
     UnwindAnswer, market, history
<1> HIDE DEF n, a
<1>8. CASE /\ machine' = n /\ current' = r
           /\ run' = [run EXCEPT ![r].m = n, ![r].call = "none", ![r].art = a,
                                 ![r].port = {}, ![r].exposureKnown = TRUE]
  <2> DEFINE w == [run[r] EXCEPT !.m = n, !.call = "none", !.art = a,
                                 !.port = {}, !.exposureKnown = TRUE]
  <2>1. n \in Machines /\ Follows(r, n)
    BY <1>3 DEF Proceeds, Follows
  <2>2. run' = [run EXCEPT ![r] = w]
    BY <1>2, <1>8
  <2>3. /\ w \in RunRecords /\ w.active = run[r].active /\ w.m = n /\ w.call = "none"
        /\ w.trigger = run[r].trigger /\ w.cycle = run[r].cycle
    BY <1>2, <2>1 DEF RunRecords, Calls
  <2> HIDE DEF w
  <2>4. Turned(r) /\ run'[r] = w
    BY <1>1, <1>2, <1>8, <2>1, <2>2, <2>3, SentTurns DEF OnTurn
  <2> QED BY <1>3, <1>7, <2>3, <2>4, CycleTurn DEF InCycle
<1> QED  BY <1>3, <1>6, <1>7, <1>8, CycleSends

(* The steps before and after the cycle.                                   *)
LEMMA FireAlarmTurns ==
  ASSUME IInv, NEW r \in Runs, FireAlarm(r), UNCHANGED shell
  PROVE  Turn(r)
<1> DEFINE n == AlarmFired(run[r].m, run[r].cycle)
           w == [run[r] EXCEPT !.m = n, !.art = NewArtifacts, !.trigger = FALSE]
<1>1. OnTurn(r) /\ run[r].m.phase = "waiting" /\ current = r
      /\ run[r].call = "none" /\ run[r].trigger
  BY AtTurn DEF FireAlarm
<1>2. /\ run[r] \in RunRecords /\ run \in [Runs -> RunRecords]
      /\ run[r].m \in Machines /\ run[r].m.cycleId \in Nat
      /\ run[r].m.lastDecisionCandle \in Nat
      /\ run[r].cycle \in 0..MaxCycles /\ MaxCycles \in Nat
  BY RunFacts, Parts, Bounds
<1>3. run[r].cycle > run[r].m.cycleId /\ run[r].cycle <= used
  BY <1>1, Parts DEF ThreadInForm, RunInForm
<1>4. run[r].cycle \in Nat /\ run[r].cycle # 0 /\ run[r].cycle # run[r].m.cycleId
  BY <1>2, <1>3
<1>5. /\ n \in Machines /\ n.cycleId = run[r].cycle
      /\ n.phase \in {"reconcilingAccount", "cancelling"}
      /\ n.shutdownMode # "none" => n.phase = "cancelling"
      /\ ~n.killCompleted
      /\ n.lastDecisionCandle = run[r].m.lastDecisionCandle
  BY <1>2, <1>4, AlarmGoes
<1> HIDE DEF n
<1>6. MachineInForm(n)
  BY <1>3, <1>4, <1>5 DEF MachineInForm, SettlingPhases
<1>7. NewArtifacts \in ArtifactSets
  BY DEF NewArtifacts, NoArtifacts, ArtifactSets
<1>8. run' = [run EXCEPT ![r] = w]
  BY <1>2 DEF FireAlarm, n
<1>9. /\ w \in RunRecords /\ w.active = run[r].active /\ w.m = n /\ w.call = "none"
      /\ w.trigger = FALSE /\ w.cycle = run[r].cycle
  BY <1>1, <1>2, <1>5, <1>7 DEF RunRecords
<1> HIDE DEF w
<1>10. run' \in [Runs -> RunRecords] /\ run'[r] = w
       /\ \A s \in Runs \ {r}: run'[s] = run[s]
  BY <1>2, <1>8, <1>9
<1>11. CallFits(w)
  BY <1>9 DEF CallFits
<1>12. RunInForm(w)
  BY <1>3, <1>5, <1>6, <1>9, <1>11 DEF RunInForm
<1>13. Turned(r)
  BY <1>1, <1>9, <1>10, <1>12 DEF Turned, FireAlarm, OnTurn, n
<1>14. Decides(r) /\ Arms(r) /\ Kills(r)
  <2>1. run'[r].m = n /\ decisions' = decisions /\ schedule' = schedule
    BY <1>9, <1>10 DEF FireAlarm, history
  <2>2. n.phase # "halted" /\ run[r].m.phase \notin Unarmed
    BY <1>1, <1>5 DEF Unarmed
  <2> QED BY <1>2, <1>5, <2>1, <2>2 DEF Decides, Arms, Kills
<1>15. Writes(r) /\ Frame
  BY Untouched DEF Writes, FireAlarm, market, venue, history, Frame
<1> QED  BY <1>1, <1>13, <1>14, <1>15, WritesKeep DEF Turn

(* A run that goes on outside a cycle.                                     *)
LEMMA OtherTurn ==
  ASSUME IInv, NEW r \in Runs, OnTurn(r), run[r].m.phase # "waiting",
         NEW n, Follows(r, n), Send(r, n), Frame, Writes(r), decisions' = decisions,
         n.lastDecisionCandle = run[r].m.lastDecisionCandle,
         n.phase \notin Unarmed => schedule' = TRUE,
         Mode = "live" /\ (n.killCompleted \/ n.phase = "halted") =>
           \/ Flattened
           \/ run[r].m.killCompleted /\ exchange' = exchange
  PROVE  Turn(r)
<1>1. Turned(r) /\ run'[r] = [run[r] EXCEPT !.m = n, !.call = "none"]
  BY SendTurns
<1>2. run[r] \in RunRecords /\ run[r].m.lastDecisionCandle \in Nat
  BY RunFacts
<1>3. run'[r].m = n
  BY <1>1, <1>2 DEF RunRecords
<1>4. Decides(r) /\ Arms(r) /\ Kills(r)
  BY <1>2, <1>3 DEF Decides, Arms, Kills
<1> QED  BY <1>1, <1>4, WritesKeep DEF Turn

LEMMA OutOfCycle ==
  ASSUME IInv, NEW r \in Runs
  PROVE  /\ run[r].m.phase \in {"scheduling", "retryingSchedule", "cancelling"} =>
              run[r].m.killCompleted = FALSE
         /\ run[r].m.killCompleted => run[r].m.shutdownMode # "none"
BY RunFacts DEF MachineInForm, KilledPhases, Machines

LEMMA EnsureScheduleTurns ==
  ASSUME IInv, NEW r \in Runs, EnsureSchedule(r), UNCHANGED shell
  PROVE  Turn(r)
<1> DEFINE m == run[r].m
           n == ScheduleSucceeded(m)
           f == ScheduleFailed(m, TRUE)
<1>1. OnTurn(r) /\ m.phase = "scheduling" /\ current = r
  BY AtTurn DEF EnsureSchedule
<1>2. m \in Machines /\ m.killCompleted = FALSE
  BY <1>1, RunFacts, OutOfCycle
<1>3. /\ Goes(m, n, {"waiting", "cancelling"})
      /\ Goes(m, f, {"retryingSchedule", "cancelling", "failed"})
  BY <1>2, ScheduleGoes
<1> HIDE DEF n, f
<1>4. Follows(r, n) /\ Follows(r, f)
  <2>1. /\ {"waiting", "cancelling"} \cap CyclePhases = {}
        /\ {"retryingSchedule", "cancelling", "failed"} \cap CyclePhases = {}
    BY DEF CyclePhases, Preparing, Deciding, Resolving
  <2> QED BY <1>2, <1>3, <2>1, GoesFollows
<1>5. /\ n.lastDecisionCandle = m.lastDecisionCandle /\ ~n.killCompleted
      /\ n.phase # "halted"
      /\ f.lastDecisionCandle = m.lastDecisionCandle /\ ~f.killCompleted
      /\ f.phase # "halted" /\ f.phase \in Unarmed
  BY <1>2, <1>3 DEF Goes, Like, Unarmed
<1>6. Writes(r) /\ Frame /\ decisions' = decisions
  BY Untouched DEF EnsureSchedule, Writes, Frame, market, venue, history
<1>7. CASE schedule' = TRUE /\ Send(r, n)
  BY <1>1, <1>4, <1>5, <1>6, <1>7, OtherTurn
<1>8. CASE Send(r, f)
  BY <1>1, <1>4, <1>5, <1>6, <1>8, OtherTurn
<1> QED  BY <1>7, <1>8 DEF EnsureSchedule, n, f

LEMMA RetryNowTurns ==
  ASSUME IInv, NEW r \in Runs, RetryNow(r), UNCHANGED shell
  PROVE  Turn(r)
<1> DEFINE m == run[r].m
           n == RetryTimerElapsed(m)
<1>1. OnTurn(r) /\ m.phase \in RetryPhases /\ current = r
  BY AtTurn DEF RetryNow
<1>2. m \in Machines /\ m.phase # "waiting"
  BY <1>1, RunFacts DEF RetryPhases
<1>3. Writes(r) /\ Frame /\ decisions' = decisions /\ schedule' = schedule
      /\ exchange' = exchange
  BY Untouched DEF RetryNow, Writes, Frame, market, venue, history
<1>4. CASE m.phase \in CyclePhases
  <2>1. InCycle(r)
    BY <1>1, <1>3, <1>4 DEF InCycle
  <2> QED BY <1>1, <1>4, <2>1, AllProceed, CycleSends DEF RetryNow
<1>5. ASSUME NEW P, Goes(m, n, P), P \cap CyclePhases = {}, P \subseteq Unarmed,
             "halted" \notin P, m.killCompleted => P \subseteq KilledPhases
      PROVE  Turn(r)
  <2>1. Follows(r, n)
    BY <1>5, GoesFollows
  <2>2. /\ n.lastDecisionCandle = m.lastDecisionCandle
        /\ n.killCompleted = m.killCompleted
        /\ n.phase \in Unarmed /\ n.phase # "halted"
    BY <1>5 DEF Goes, Like
  <2>3. Send(r, n)
    BY DEF RetryNow
  <2> HIDE DEF n
  <2> QED BY <1>1, <1>2, <1>3, <2>1, <2>2, <2>3, OtherTurn
<1>6. Goes(m, n, Targets(RetryTarget(m.phase)))
  BY <1>1, <1>2, RetryGoes
<1>7. CASE m.phase = "retryingSchedule"
  <2>1. Targets(RetryTarget(m.phase)) = {"scheduling", "cancelling"}
    BY <1>7 DEF RetryTarget, Targets, CancellablePhases
  <2>2. m.killCompleted = FALSE
    BY <1>7, OutOfCycle
  <2> QED BY <1>5, <1>6, <2>1, <2>2 DEF Unarmed, CyclePhases, Preparing, Deciding,
             Resolving
<1>8. CASE m.phase = "retryingPersistence"
  <2>1. Targets(RetryTarget(m.phase)) = {"persisting"}
    BY <1>8 DEF RetryTarget, Targets, CancellablePhases
  <2> QED BY <1>5, <1>6, <2>1 DEF Unarmed, KilledPhases, CyclePhases, Preparing,
             Deciding, Resolving
<1>9. m.phase \in CyclePhases \cup {"retryingSchedule", "retryingPersistence"}
  BY <1>1 DEF RetryPhases, CyclePhases, Preparing, Deciding, Resolving
<1> QED  BY <1>4, <1>7, <1>8, <1>9

LEMMA CancelCurrentEffectTurns ==
  ASSUME IInv, NEW r \in Runs, CancelCurrentEffect(r), UNCHANGED shell
  PROVE  Turn(r)
<1> DEFINE m == run[r].m
           n == EffectCancelled(m)
           f == EffectCancelFailed(m)
<1>1. OnTurn(r) /\ m.phase = "cancelling" /\ current = r
  BY AtTurn DEF CancelCurrentEffect
<1>2. /\ m \in Machines /\ m.killCompleted = FALSE /\ run[r] \in RunRecords
      /\ m.phase # "waiting" /\ m.lastDecisionCandle \in Nat
  BY <1>1, RunFacts, OutOfCycle
<1>3. /\ Ends(m, n) /\ n.killCompleted = ((m.shutdownMode = "kill-switch") \/ m.killCompleted)
      /\ Goes(m, f, {"persisting"})
  BY <1>2, CancelledEnds
<1> HIDE DEF n, f
<1>4. Follows(r, n)
  BY <1>2, <1>3, EndsFollows DEF Ends
<1>5. Follows(r, f)
  <2>1. {"persisting"} \cap CyclePhases = {}
    BY DEF CyclePhases, Preparing, Deciding, Resolving
  <2> QED BY <1>2, <1>3, <2>1, GoesFollows
<1>6. /\ n.lastDecisionCandle = m.lastDecisionCandle /\ n.phase = "persisting"
      /\ n.killCompleted => m.shutdownMode = "kill-switch"
      /\ f.lastDecisionCandle = m.lastDecisionCandle /\ f.phase = "persisting"
      /\ ~f.killCompleted /\ "persisting" \in Unarmed
  BY <1>2, <1>3 DEF Ends, Goes, Like, Unarmed
<1>7. Writes(r) /\ Frame /\ decisions' = decisions
  BY Untouched DEF CancelCurrentEffect, Writes, Frame, market, venue, history
<1>8. CASE Send(r, n) /\ ~(Mode = "live" /\ m.shutdownMode = "kill-switch")
  BY <1>1, <1>2, <1>4, <1>6, <1>7, <1>8, OtherTurn
<1>9. CASE Send(r, f)
  BY <1>1, <1>2, <1>5, <1>6, <1>7, <1>9, OtherTurn
<1>10. CASE /\ Mode = "live" /\ m.shutdownMode = "kill-switch"
            /\ Await(r, "kill") /\ UNCHANGED machine
  <2>1. CallFits([run[r] EXCEPT !.call = "kill"])
    BY <1>1, <1>2, <1>10 DEF CallFits, RunRecords
  <2>2. Turned(r) /\ run'[r] = [run[r] EXCEPT !.call = "kill"]
    BY <1>1, <1>2, <1>10, <2>1, AwaitTurns DEF NetworkCalls, Calls
  <2>3. run'[r].m = m
    BY <1>2, <2>2 DEF RunRecords
  <2>4. Decides(r) /\ Arms(r) /\ Kills(r)
    BY <1>1, <1>2, <1>7, <2>3 DEF Decides, Arms, Kills, Unarmed
  <2> QED BY <1>1, <1>7, <2>2, <2>4, WritesKeep DEF Turn
<1> QED  BY <1>8, <1>9, <1>10 DEF CancelCurrentEffect, n, f

LEMMA KillAnswerTurns ==
  ASSUME IInv, NEW r \in Runs, KillAnswer(r), UNCHANGED shell
  PROVE  Turn(r)
<1> DEFINE m == run[r].m
           n == EffectCancelled(m)
           f == EffectCancelFailed(m)
<1>1. OnTurn(r) /\ run[r].call = "kill" /\ current = None
  BY AnsweredTurn DEF KillAnswer, NetworkCalls, Calls
<1>2. /\ m \in Machines /\ m.phase = "cancelling" /\ m.phase # "waiting"
      /\ m.shutdownMode = "kill-switch" /\ m.killCompleted = FALSE
  BY <1>1, RunFacts, OutOfCycle DEF CallFits
<1>3. Ends(m, n) /\ Goes(m, f, {"persisting"})
  BY <1>2, CancelledEnds
<1> HIDE DEF n, f
<1>4. Follows(r, n)
  BY <1>2, <1>3, EndsFollows DEF Ends
<1>5. Follows(r, f)
  <2>1. {"persisting"} \cap CyclePhases = {}
    BY DEF CyclePhases, Preparing, Deciding, Resolving
  <2> QED BY <1>2, <1>3, <2>1, GoesFollows
<1>6. /\ n.lastDecisionCandle = m.lastDecisionCandle /\ n.phase = "persisting"
      /\ f.lastDecisionCandle = m.lastDecisionCandle /\ f.phase = "persisting"
      /\ ~f.killCompleted /\ "persisting" \in Unarmed
  BY <1>2, <1>3 DEF Ends, Goes, Like, Unarmed
<1>7. /\ exchange' \in [Cycles -> ExchangeStates]
      /\ \A d \in Cycles: d > used => exchange'[d] = exchange[d]
  BY AccountWrites DEF KillAnswer
<1>8. Writes(r) /\ Frame /\ decisions' = decisions
  BY <1>7, Untouched DEF KillAnswer, Writes, Frame, market, history
<1>9. CASE Send(r, n) /\ Flattened
  BY <1>1, <1>2, <1>4, <1>6, <1>8, <1>9, OtherTurn
<1>10. CASE Send(r, f)
  BY <1>1, <1>2, <1>5, <1>6, <1>8, <1>10, OtherTurn
<1> QED  BY <1>9, <1>10 DEF KillAnswer, n, f

LEMMA PersistCycleTurns ==
  ASSUME IInv, NEW r \in Runs, PersistCycle(r), UNCHANGED shell
  PROVE  Turn(r)
<1> DEFINE m == run[r].m
           n == PersistSucceeded(m)
           f == PersistFailed(m, TRUE)
           N == {"failed", "stopped", "cancelling", "halted", "scheduling"}
           F == {"retryingPersistence", "failed"}
<1>1. OnTurn(r) /\ m.phase = "persisting" /\ current = r
  BY AtTurn DEF PersistCycle
<1>2. /\ m \in Machines /\ m.phase # "waiting" /\ run[r].art \in ArtifactSets
      /\ m.outcome \in Outcomes
      /\ m.killCompleted => m.shutdownMode # "none"
  BY <1>1, RunFacts, OutOfCycle DEF Machines
<1>3. /\ Goes(m, n, N) /\ Goes(m, f, F)
      /\ n.phase = "halted" => m.killCompleted
      /\ n.phase = "cancelling" => ~m.killCompleted
      /\ n.phase = "scheduling" => m.shutdownMode = "none"
  BY <1>2, PersistGoes
<1> HIDE DEF n, f
<1>4. N \cap CyclePhases = {} /\ F \cap CyclePhases = {}
      /\ F \subseteq KilledPhases /\ N \cup F \subseteq Unarmed
  BY DEF CyclePhases, Preparing, Deciding, Resolving, KilledPhases, Unarmed
<1>5. Follows(r, f)
  BY <1>3, <1>4, GoesFollows
<1>6. Follows(r, n)
  <2>1. CASE ~m.killCompleted
    BY <1>3, <1>4, <2>1, GoesFollows
  <2>2. CASE m.killCompleted
    <3>1. Goes(m, n, {"failed", "stopped", "halted"})
      BY <1>2, <1>3, <2>2 DEF Goes
    <3>2. /\ {"failed", "stopped", "halted"} \cap CyclePhases = {}
          /\ {"failed", "stopped", "halted"} \subseteq KilledPhases
      BY DEF CyclePhases, Preparing, Deciding, Resolving, KilledPhases
    <3> QED BY <3>1, <3>2, GoesFollows
  <2> QED BY <2>1, <2>2
<1>7. /\ n.lastDecisionCandle = m.lastDecisionCandle /\ n.phase \in Unarmed
      /\ n.killCompleted = m.killCompleted /\ f.killCompleted = m.killCompleted
      /\ f.lastDecisionCandle = m.lastDecisionCandle /\ f.phase \in Unarmed
      /\ f.phase # "halted"
  BY <1>3, <1>4 DEF Goes, Like
<1>8. Writes(r) /\ Frame /\ decisions' = decisions /\ exchange' = exchange
  <2>1. \/ rows' = rows
        \/ \E a \in ArtifactSets, o \in Outcomes: rows' = Saved(r, a, o)
    BY <1>2 DEF PersistCycle
  <2> QED BY <2>1, Untouched DEF PersistCycle, Writes, Frame, market, venue, history
<1>9. CASE Send(r, n)
  BY <1>1, <1>2, <1>3, <1>6, <1>7, <1>8, <1>9, OtherTurn
<1>10. CASE Send(r, f)
  BY <1>1, <1>2, <1>5, <1>7, <1>8, <1>10, OtherTurn
<1> QED  BY <1>9, <1>10 DEF PersistCycle, n, f

(* Every step of a run.                                                    *)
LEMMA StepTurns ==
  ASSUME IInv, NEW r \in Runs, RunStep(r) \/ Answer(r), UNCHANGED shell
  PROVE  Turn(r)
<1>1. CASE RunStep(r)
  BY <1>1, FireAlarmTurns, EnsureScheduleTurns, RetryNowTurns, PlanMarketRetryTurns,
     ResumeMarketRetryTurns, ReconcileAccountTurns, FetchMarketDataTurns,
     DecisionTurns, CheckRiskTurns, PersistOrderIntentTurns, AuthorizeTurns,
     SubmitUnpreparedTurns, SubmitPaperOrderTurns, SubmitLiveOrderTurns,
     ReconcileNothingTurns, ReconcilePaperOrderTurns, ReconcileLiveOrderTurns,
     CancelCurrentEffectTurns, PersistCycleTurns DEF RunStep
<1>2. CASE Answer(r)
  BY <1>2, AccountAnswerTurns, MarketAnswerTurns, SubmitAnswerTurns,
     ReplayAnswerTurns, LookupAnswerTurns, UnwindAnswerTurns, KillAnswerTurns
     DEF Answer
<1> QED  BY <1>1, <1>2

-----------------------------------------------------------------------------
(* The beginning and the end of a run.                                     *)

LEMMA IdleForm ==
  ASSUME used \in Nat, MaxCycles \in Nat
  PROVE  IdleRun \in RunRecords /\ RunInForm(IdleRun)
<1>1. NewMachine(0) \in Machines
  BY NewMachineType
<1>2. NoArtifacts \in ArtifactSets
  BY DEF NoArtifacts, ArtifactSets
<1>3. IdleRun \in RunRecords
  BY <1>1, <1>2 DEF IdleRun, RunRecords, Calls
<1>4. /\ NewMachine(0).phase = "stopped" /\ NewMachine(0).cycleId = 0
      /\ NewMachine(0).shutdownMode = "none" /\ NewMachine(0).killCompleted = FALSE
  BY DEF NewMachine
<1>5. MachineInForm(NewMachine(0))
  BY <1>4 DEF MachineInForm, CyclePhases, Preparing, Deciding, Resolving
<1>6. RunInForm(IdleRun)
  BY <1>4, <1>5 DEF RunInForm, CallFits, IdleRun
<1> QED  BY <1>3, <1>6

LEMMA LoadType ==
  ASSUME IInv, NEW c \in 0..MaxCycles
  PROVE  LoadArtifacts(c) \in ArtifactSets
<1>1. rows \in [Cycles -> CycleRows] /\ Cycles = 1..MaxCycles /\ MaxCycles \in Nat
  BY Untouched, Parts, Bounds
<1>2. NoArtifacts \in ArtifactSets
  BY DEF NoArtifacts, ArtifactSets
<1> QED  BY <1>1, <1>2 DEF LoadArtifacts, CycleRows

(* The run r has begun.                                                   *)
Begun(r) ==
  /\ run' \in [Runs -> RunRecords] /\ current' = r
  /\ used' \in used..MaxCycles
  /\ triggered' \in [Cycles -> 0..MaxCandle]
  /\ ThreadInForm' /\ CyclesAreFresh'
  /\ Active' = Active \cup {r}

(* It works on m and port, with the artifacts of the cycle resume, for a   *)
(* new cycle if an alarm finds m waiting.                                  *)
Began(r, m, port, alarm, resume) ==
  LET fires == alarm /\ m.phase = "waiting"
  IN  /\ Begun(r)
      /\ \A s \in Runs \ {r}: run'[s] = run[s]
      /\ run'[r].active /\ run'[r].m = m /\ run'[r].port = port
      /\ run'[r].call = "none" /\ run'[r].authorized = FALSE
      /\ run'[r].art = IF m.phase = "waiting" THEN NoArtifacts
                       ELSE LoadArtifacts(resume)
      /\ run'[r].trigger = fires
      /\ run'[r].cycle = IF fires THEN used + 1 ELSE m.cycleId
      /\ Cardinality(Active \cup {r}) <= MaxRuns

LEMMA BeginRuns ==
  ASSUME IInv, NEW r \in Runs, current \in {None, r}, NEW m \in Machines,
         MachineInForm(m), NEW port \in SUBSET Cycles, NEW alarm \in BOOLEAN,
         NEW resume \in 0..MaxCycles, NEW byAlarm \in BOOLEAN,
         setup' = setup, candle' = candle, rows' = rows, orders' = orders,
         exchange' = exchange, executions' = executions,
         Begin(r, m, port, alarm, resume, byAlarm)
  PROVE  Began(r, m, port, alarm, resume)
<1> DEFINE fires == alarm /\ m.phase = "waiting"
           c == IF fires THEN used + 1 ELSE m.cycleId
           art == IF m.phase = "waiting" THEN NoArtifacts ELSE LoadArtifacts(resume)
           w == [IdleRun EXCEPT
                   !.active = TRUE, !.m = m, !.port = port, !.trigger = fires,
                   !.pending = alarm /\ ~fires, !.byAlarm = byAlarm, !.cycle = c,
                   !.art = art]
<1>1. /\ used \in 0..MaxCycles /\ MaxCycles \in Nat /\ Cycles = 1..MaxCycles
      /\ candle \in 1..MaxCandle /\ MaxCandle \in Nat /\ run \in [Runs -> RunRecords]
      /\ triggered \in [Cycles -> 0..MaxCandle] /\ m.cycleId \in Nat
      /\ m.cycleId <= used /\ ThreadInForm /\ CyclesAreFresh
  BY Parts, Bounds DEF Machines, MachineInForm
<1>2. art \in ArtifactSets
  BY LoadType DEF NoArtifacts, ArtifactSets
<1>3. fires \in BOOLEAN /\ (alarm /\ ~fires) \in BOOLEAN
  OBVIOUS
<1>4. /\ run' = [run EXCEPT ![r] = w] /\ current' = r
      /\ fires => used < MaxCycles
      /\ used' = IF fires THEN used + 1 ELSE used
      /\ triggered' = IF fires THEN [triggered EXCEPT ![c] = candle] ELSE triggered
      /\ Cardinality(Active \cup {r}) <= MaxRuns
  BY DEF Begin
<1>5. fires => m.phase = "waiting"
  OBVIOUS
<1>6. c \in 0..MaxCycles /\ (fires => c = used + 1) /\ (~fires => c = m.cycleId)
  BY <1>1, <1>4
<1> HIDE DEF fires, art, c
<1>7. IdleRun \in RunRecords /\ RunInForm(IdleRun)
  BY <1>1, IdleForm
<1>8. /\ w \in RunRecords /\ w.active = TRUE /\ w.m = m /\ w.port = port
      /\ w.call = "none" /\ w.authorized = FALSE /\ w.art = art
      /\ w.trigger = fires /\ w.cycle = c
  BY <1>2, <1>3, <1>6, <1>7 DEF RunRecords, Calls, IdleRun
<1> HIDE DEF w
<1>9. /\ run' \in [Runs -> RunRecords] /\ run'[r] = w
      /\ \A s \in Runs \ {r}: run'[s] = run[s]
  BY <1>1, <1>4, <1>8
<1>10. used' \in used..MaxCycles /\ used' \in Nat /\ used' >= used /\ used \in Nat
  BY <1>1, <1>4
<1>11. triggered' \in [Cycles -> 0..MaxCandle]
  <2>1. candle \in 0..MaxCandle
    BY <1>1
  <2>2. [triggered EXCEPT ![c] = candle] \in [Cycles -> 0..MaxCandle]
    BY <1>1, <2>1
  <2> QED BY <1>1, <1>4, <2>2
<1>12. Mode' = Mode /\ MaxCycles' = MaxCycles /\ Cycles' = Cycles
  BY DEF Mode, MaxCycles, Cycles
<1>13. ThreadInForm'
  <2>1. \A v \in RunRecords: RunInForm(v) => /\ MachineInForm(v.m)'
                                             /\ v.cycle <= used'
    <3> SUFFICES ASSUME NEW v \in RunRecords, RunInForm(v)
                 PROVE  /\ v.m.cycleId <= used' /\ v.cycle <= used'
                        /\ MachineInForm(v.m)
      BY DEF MachineInForm
    <3>1. v.m.cycleId \in Nat /\ v.cycle \in Nat
      BY <1>1 DEF RunRecords, Machines
    <3> QED BY <1>10, <3>1 DEF RunInForm, MachineInForm
  <2>2. \A s \in Runs \ {r}: (RunInForm(run[s]))'
    <3> SUFFICES ASSUME NEW s \in Runs, s # r PROVE (RunInForm(run[s]))'
      OBVIOUS
    <3>1. run'[s] = run[s] /\ run[s] \in RunRecords /\ RunInForm(run[s])
      BY <1>1, <1>9 DEF ThreadInForm
    <3>2. MachineInForm(run[s].m)' /\ run[s].cycle <= used'
      BY <2>1, <3>1
    <3>3. (MachineInForm(run[s].m))'
      BY <3>1, <3>2 DEF MachineInForm
    <3> QED BY <1>12, <3>1, <3>2, <3>3 DEF RunInForm, CallFits
  <2>3. MachineInForm(m)'
    BY <1>1, <1>10 DEF MachineInForm
  <2>4. (RunInForm(run[r]))'
    <3>1. (MachineInForm(run[r].m))'
      BY <1>8, <1>9, <2>3 DEF MachineInForm
    <3>2. CallFits(w)
      BY <1>8 DEF CallFits
    <3>3. (CallFits(run[r]))'
      BY <1>9, <1>12, <3>2 DEF CallFits
    <3>4. /\ fires => m.phase = "waiting" /\ c > m.cycleId
          /\ c <= used'
      BY <1>1, <1>4, <1>5, <1>6, <1>10
    <3> QED BY <1>6, <1>8, <1>9, <3>1, <3>3, <3>4 DEF RunInForm
  <2>5. ASSUME NEW s \in Runs
        PROVE  /\ ~run'[s].active => run'[s] = IdleRun
               /\ run'[s].active /\ current' # s => run'[s].call \in NetworkCalls
               /\ current' = s => run'[s].active /\ run'[s].call \in {"none", "return"}
    <3>1. CASE s = r
      BY <1>4, <1>8, <1>9, <3>1
    <3>2. CASE s # r
      <4>1. current # s
        BY <3>2, RunsAssumption
      <4> QED BY <1>1, <1>4, <1>9, <3>2, <4>1 DEF ThreadInForm
    <3> QED BY <3>1, <3>2
  <2> QED BY <2>2, <2>4, <2>5 DEF ThreadInForm
<1>14. CyclesAreFresh'
  <2> SUFFICES ASSUME NEW d \in Cycles
               PROVE  /\ d <= used' => triggered'[d] # 0
                      /\ d > used' =>
                           /\ rows[d] = NoRow /\ orders[d].status = "none"
                           /\ exchange[d] = "none" /\ executions[d] = 0
                      /\ ~rows[d].stored => rows[d].art = NoArtifacts
    BY <1>12 DEF CyclesAreFresh, NoRow, NoArtifacts
  <2>1. /\ d <= used => triggered[d] # 0
        /\ d > used => /\ rows[d] = NoRow /\ orders[d].status = "none"
                       /\ exchange[d] = "none" /\ executions[d] = 0
        /\ ~rows[d].stored => rows[d].art = NoArtifacts
    BY Parts DEF CyclesAreFresh
  <2>4. d \in Nat
    BY <1>1
  <2>2. d <= used' => triggered'[d] # 0
    BY <1>1, <1>4, <1>6, <2>1, <2>4
  <2>3. d > used' => d > used
    BY <1>10, <2>4
  <2> QED BY <2>1, <2>2, <2>3
<1>15. Active' = Active \cup {r}
  BY <1>8, <1>9 DEF Active
<1>16. Begun(r)
  BY <1>4, <1>9, <1>10, <1>11, <1>13, <1>14, <1>15 DEF Begun
<1> QED  BY <1>4, <1>6, <1>8, <1>9, <1>16 DEF art, fires, Began

(* What a command or an alarm that begins a run may write.                 *)
LEMMA BeginKeeps ==
  ASSUME IInv, NEW r \in Runs, NEW m \in Machines, MachineInForm(m), Begun(r),
         setup' = setup, candle' = candle, rows' = rows, orders' = orders,
         exchange' = exchange, executions' = executions, bracket' = bracket,
         faults' = faults, blindRisk' = blindRisk, retryDue' = retryDue,
         up, up' = up, configured', crashes' = crashes,
         commands' \in 0..MaxCommands,
         machine' \in {machine, m}, portfolio' \in SUBSET Cycles,
         schedule' \in BOOLEAN, retryAlarm' \in BOOLEAN,
         configured' \in BOOLEAN,
         session' \in {session, used},
         decisions' \in [1..MaxCandle -> Nat]
  PROVE  IInv'
<1>1. /\ run' \in [Runs -> RunRecords] /\ current' = r
      /\ used' \in used..MaxCycles
      /\ triggered' \in [Cycles -> 0..MaxCandle]
      /\ ThreadInForm' /\ CyclesAreFresh'
      /\ Active' = Active \cup {r}
  BY DEF Begun
<1>2. /\ used \in 0..MaxCycles /\ MaxCycles \in Nat /\ session \in 0..MaxCycles
      /\ machine \in Machines /\ MachineInForm(machine) /\ StorageInForm
      /\ crashes \in 0..MaxCrashes /\ candle \in 1..MaxCandle /\ setup \in Setups
      /\ ShellInForm /\ up \in BOOLEAN
  BY Parts, Bounds
<1>3. /\ Cycles' = Cycles /\ MaxCycles' = MaxCycles /\ MaxCandle' = MaxCandle
      /\ MaxCommands' = MaxCommands /\ MaxCrashes' = MaxCrashes
      /\ MaxFaults' = MaxFaults
  BY DEF Cycles, MaxCycles, MaxCandle, MaxCommands, MaxCrashes, MaxFaults
<1>4. RunRecords' = RunRecords /\ OrderRows' = OrderRows
  BY <1>3 DEF RunRecords, OrderRows
<1>5. used' \in 0..MaxCycles /\ session' \in 0..MaxCycles /\ session' <= used'
  BY <1>1, <1>2 DEF ShellInForm
<1>6. machine' \in Machines /\ MachineInForm(machine)'
  <2>1. \A x \in {machine, m}: x \in Machines /\ MachineInForm(x) /\ x.cycleId \in Nat
    BY <1>2 DEF Machines
  <2>2. \A x \in {machine, m}: x.cycleId <= used'
    BY <1>1, <1>2, <2>1 DEF MachineInForm
  <2> QED BY <2>1, <2>2 DEF MachineInForm
<1>7. RunsTypeOK'
  BY <1>1, <1>2, <1>3, <1>4, <1>5, <1>6 DEF RunsTypeOK, StorageInForm
<1>8. TypeOK'
  BY <1>2, <1>3, <1>7 DEF TypeOK
<1>9. ShellInForm'
  <2>1. IsFiniteSet(Active')
    BY <1>1, <1>2, FS_AddElement DEF ShellInForm
  <2> QED BY <1>5, <2>1 DEF ShellInForm
<1> QED  BY <1>1, <1>6, <1>8, <1>9 DEF IInv

(* The machine a command or an alarm works on.                             *)
LEMMA MachineFacts ==
  ASSUME IInv
  PROVE  /\ machine \in Machines /\ MachineInForm(machine)
         /\ machine.cycleId \in 0..MaxCycles
         /\ machine.lastDecisionCandle \in Nat
         /\ portfolio \in SUBSET Cycles
<1>1. /\ machine \in Machines /\ MachineInForm(machine) /\ used \in 0..MaxCycles
      /\ MaxCycles \in Nat /\ StorageInForm
  BY Parts, Bounds
<1>2. machine.cycleId \in Nat /\ machine.cycleId <= used
  BY <1>1 DEF Machines, MachineInForm
<1> QED  BY <1>1, <1>2 DEF Machines, StorageInForm

LEMMA CommandFacts ==
  ASSUME IInv, NEW name, Command(name)
  PROVE  up /\ current = None /\ commands' \in 0..MaxCommands
<1>1. commands \in 0..MaxCommands /\ MaxCommands \in Nat
  BY Parts, Bounds
<1> QED  BY <1>1 DEF Command, Idle

(* A run that is there was asked for.                                      *)
LEMMA ThereIs ==
  ASSUME IInv, NEW r \in Runs, run[r].active
  PROVE  up /\ configured
BY Parts DEF ShellInForm, Active

LEMMA StartForm ==
  ASSUME IInv, NEW k \in Nat
  PROVE  /\ StartRequested(NewMachine(k)) \in Machines
         /\ MachineInForm(StartRequested(NewMachine(k)))
<1> DEFINE n == StartRequested(NewMachine(k))
<1>1. /\ n \in Machines /\ n.phase = "scheduling" /\ n.cycleId = 0
      /\ n.shutdownMode = "none" /\ ~n.killCompleted
  BY StartGoes
<1> HIDE DEF n
<1>2. used \in 0..MaxCycles /\ MaxCycles \in Nat
  BY Parts, Bounds
<1>3. MachineInForm(n)
  BY <1>1, <1>2 DEF MachineInForm, CyclePhases, Preparing, Deciding, Resolving
<1> QED  BY <1>1, <1>3 DEF n

LEMMA StartAgentKeeps ==
  ASSUME IInv, NEW r \in Runs, StartAgent(r)
  PROVE  IInv' /\ Began(r, machine', portfolio', FALSE, 0)
<1> DEFINE keeps == Mode = "live" /\ configured
           k == IF keeps THEN machine.lastDecisionCandle ELSE 0
           m == StartRequested(NewMachine(k))
           port == IF keeps THEN portfolio ELSE {}
<1>1. k \in Nat /\ port \in SUBSET Cycles
  BY MachineFacts
<1> HIDE DEF keeps, k
<1>2. m \in Machines /\ MachineInForm(m)
  BY <1>1, StartForm
<1>3. /\ Command("start") /\ machine' = m /\ portfolio' = port /\ configured' = TRUE
      /\ Begin(r, m, port, FALSE, 0, FALSE)
      /\ schedule' = schedule /\ retryAlarm' = retryAlarm /\ rows' = rows
      /\ orders' = orders /\ candle' = candle /\ retryDue' = retryDue
      /\ exchange' = exchange /\ bracket' = bracket /\ faults' = faults
      /\ executions' = executions /\ blindRisk' = blindRisk /\ up' = up
      /\ crashes' = crashes /\ setup' = setup
  BY DEF StartAgent, venue, m, port, k, keeps
<1>4. \/ session' = session /\ decisions' = decisions
      \/ session' = used /\ decisions' = [x \in 1..MaxCandle |-> 0]
  BY DEF StartAgent
<1>5. session' \in {session, used} /\ decisions' \in [1..MaxCandle -> Nat]
  BY <1>4, Untouched
<1> HIDE DEF m, port
<1>6. up /\ current = None /\ commands' \in 0..MaxCommands
  BY <1>3, CommandFacts
<1>7. 0 \in 0..MaxCycles
  BY Parts, Bounds
<1>8. Began(r, m, port, FALSE, 0)
  BY <1>1, <1>2, <1>3, <1>6, <1>7, BeginRuns
<1>9. Begun(r)
  BY <1>8 DEF Began
<1>10. IInv'
  BY <1>1, <1>2, <1>3, <1>5, <1>6, <1>9, Untouched, BeginKeeps
<1> QED  BY <1>3, <1>8, <1>10

LEMMA ControlKeeps ==
  ASSUME IInv, NEW r \in Runs, NEW name, NEW m \in Machines, MachineInForm(m),
         Control(r, name, m)
  PROVE  IInv' /\ \E c \in 0..MaxCycles: Began(r, m, portfolio, FALSE, c)
<1> DEFINE resume == IF machine.phase \in {"waiting", "scheduling", "stopped"}
                     THEN 0 ELSE machine.cycleId
<1>1. /\ machine' = m /\ portfolio' = portfolio /\ configured' = configured
      /\ Command(name) /\ configured
      /\ Begin(r, m, portfolio, FALSE, resume, FALSE)
      /\ schedule' = schedule /\ retryAlarm' = retryAlarm /\ rows' = rows
      /\ orders' = orders /\ candle' = candle /\ retryDue' = retryDue
      /\ exchange' = exchange /\ bracket' = bracket /\ faults' = faults
      /\ executions' = executions /\ blindRisk' = blindRisk /\ up' = up
      /\ crashes' = crashes /\ setup' = setup
      /\ session' = session /\ decisions' = decisions
  BY DEF Control, venue, history
<1>2. resume \in 0..MaxCycles /\ portfolio \in SUBSET Cycles
  BY MachineFacts, Parts, Bounds
<1> HIDE DEF resume
<1>3. up /\ current = None /\ commands' \in 0..MaxCommands
  BY <1>1, CommandFacts
<1>4. Began(r, m, portfolio, FALSE, resume)
  BY <1>1, <1>2, <1>3, BeginRuns
<1>6. Begun(r)
  BY <1>4 DEF Began
<1>5. decisions' \in [1..MaxCandle -> Nat] /\ configured' \in BOOLEAN
  BY <1>1, Untouched, Parts
<1>7. IInv'
  BY <1>1, <1>2, <1>3, <1>5, <1>6, Untouched, BeginKeeps
<1> QED  BY <1>2, <1>4, <1>7

LEMMA ControlForm ==
  ASSUME IInv
  PROVE  \A n \in {StopRequested(machine), KillSwitchEngaged(machine)}:
           n \in Machines /\ MachineInForm(n)
<1> SUFFICES ASSUME NEW n \in {StopRequested(machine), KillSwitchEngaged(machine)}
             PROVE  n \in Machines /\ MachineInForm(n)
  OBVIOUS
<1>1. machine \in Machines /\ MachineInForm(machine)
  BY MachineFacts
<1>2. /\ n \in Machines /\ n.shutdownMode # "none" /\ n.cycleId = machine.cycleId
      /\ n.killCompleted => machine.killCompleted
      /\ n.phase \in SettlingPhases
      /\ \/ n.phase = machine.phase
         \/ /\ n.phase = "cancelling"
            /\ machine.phase \in CancellablePhases \cup {"stopped"}
            /\ (machine.phase = "stopped" => ~n.killCompleted)
         \/ n.phase = "reconcilingOrder" /\ machine.phase = "submittingOrder"
  BY <1>1, ControlGoes
<1>3. n.killCompleted => n.phase \in KilledPhases
  BY <1>1, <1>2 DEF MachineInForm, KilledPhases, CancellablePhases
<1>4. n.phase \in CyclePhases => n.cycleId # 0
  BY <1>1, <1>2 DEF MachineInForm, CyclePhases, Preparing, Deciding, Resolving
<1> QED  BY <1>1, <1>2, <1>3, <1>4 DEF MachineInForm

LEMMA ResetAgentKeeps ==
  ASSUME IInv, ResetAgent
  PROVE  IInv'
<1>1. /\ machine' = Reset(machine) /\ Command("reset") /\ configured
      /\ UNCHANGED <<portfolio, schedule, retryAlarm, rows, orders, run, current,
                     used, candle, triggered, retryDue, exchange, bracket, faults,
                     session, decisions, executions, blindRisk, configured, up,
                     crashes, setup>>
  BY DEF ResetAgent, market, venue, history
<1>2. commands' \in 0..MaxCommands /\ up
  BY <1>1, CommandFacts
<1>3. machine \in Machines /\ MachineInForm(machine) /\ used \in Nat
  BY MachineFacts, Parts, Bounds
<1>4. Reset(machine) \in Machines /\ MachineInForm(Reset(machine))
  <2>1. CASE Reset(machine) = machine
    BY <1>3, <2>1
  <2>2. CASE /\ Reset(machine) = NewMachine(machine.lastDecisionCandle)
             /\ Reset(machine) \in Machines
    BY <1>3, <2>2 DEF NewMachine, MachineInForm, CyclePhases, Preparing, Deciding,
       Resolving
  <2> QED BY <1>3, <2>1, <2>2, ResetGoes
<1>5. /\ MaxCommands' = MaxCommands /\ Cycles' = Cycles /\ MaxCycles' = MaxCycles
      /\ MaxCandle' = MaxCandle /\ MaxCrashes' = MaxCrashes /\ MaxFaults' = MaxFaults
      /\ Mode' = Mode
  BY <1>1 DEF MaxCommands, Cycles, MaxCycles, MaxCandle, MaxCrashes, MaxFaults, Mode
<1>6. RunRecords' = RunRecords /\ OrderRows' = OrderRows
  BY <1>5 DEF RunRecords, OrderRows
<1>7. RunsTypeOK' /\ TypeOK'
  <2>1. RunsTypeOK /\ TypeOK
    BY DEF IInv, TypeOK
  <2>2. RunsTypeOK'
    BY <1>1, <1>4, <1>5, <1>6, <2>1 DEF RunsTypeOK
  <2> QED BY <1>1, <1>2, <1>5, <2>1, <2>2 DEF TypeOK
<1>8. MachineInForm(machine)'
  BY <1>1, <1>4 DEF MachineInForm
<1>9. ThreadInForm'
  BY <1>1, <1>5, Parts DEF ThreadInForm, RunInForm, MachineInForm, CallFits
<1>10. CyclesAreFresh'
  BY <1>1, <1>5, Parts DEF CyclesAreFresh
<1>11. ShellInForm'
  BY <1>1, <1>2, <1>5, Parts DEF ShellInForm, Active
<1> QED  BY <1>7, <1>8, <1>9, <1>10, <1>11 DEF IInv

LEMMA RunNowKeeps ==
  ASSUME IInv, NEW r \in Runs, RunNow(r)
  PROVE  IInv' /\ Began(r, machine, portfolio, TRUE, machine.cycleId)
<1>1. /\ Command("runNow") /\ configured
      /\ Begin(r, machine, portfolio, TRUE, machine.cycleId, FALSE)
      /\ UNCHANGED <<machine, portfolio, schedule, retryAlarm, rows, orders,
                     candle, retryDue, exchange, bracket, faults,
                     session, decisions, executions, blindRisk, configured, up,
                     crashes, setup>>
  BY DEF RunNow, durable, venue, history
<1>2. up /\ current = None /\ commands' \in 0..MaxCommands
  BY <1>1, CommandFacts
<1>3. Began(r, machine, portfolio, TRUE, machine.cycleId)
  BY <1>1, <1>2, MachineFacts, BeginRuns
<1>4. configured' \in BOOLEAN
  BY <1>1, Parts
<1>5. Begun(r)
  BY <1>3 DEF Began
<1>6. IInv'
  BY <1>1, <1>2, <1>4, <1>5, MachineFacts, Untouched, BeginKeeps
<1> QED  BY <1>3, <1>6

LEMMA ScheduledTickKeeps ==
  ASSUME IInv, NEW r \in Runs, ScheduledTick(r)
  PROVE  IInv' /\ Began(r, machine, portfolio, TRUE, machine.cycleId)
<1>1. /\ up /\ current = None /\ schedule
      /\ Begin(r, machine, portfolio, TRUE, machine.cycleId, TRUE)
      /\ UNCHANGED <<machine, portfolio, schedule, retryAlarm, rows, orders,
                     candle, retryDue, exchange, bracket, faults,
                     session, decisions, executions, blindRisk, configured, up,
                     commands, crashes, setup>>
  BY DEF ScheduledTick, Idle, durable, venue, history, shell
<1>2. configured /\ configured' \in BOOLEAN /\ commands' \in 0..MaxCommands
  BY <1>1, Parts, Bounds DEF ShellInForm
<1>3. Began(r, machine, portfolio, TRUE, machine.cycleId)
  BY <1>1, MachineFacts, BeginRuns
<1>5. Begun(r)
  BY <1>3 DEF Began
<1>6. IInv'
  BY <1>1, <1>2, <1>5, MachineFacts, Untouched, BeginKeeps
<1> QED  BY <1>3, <1>6

LEMMA RestKeeps ==
  ASSUME IInv, UNCHANGED <<setup, machine, used, triggered, session, configured,
                           commands, rows, orders, executions, decisions,
                           portfolio, faults, blindRisk>>,
         bracket' \in [Cycles -> BOOLEAN],
         run' \in [Runs -> RunRecords],
         \A s \in Runs: run'[s] = run[s] \/ run'[s] = IdleRun,
         current' \in {current, None},
         \A s \in Runs: run'[s].active /\ current' # s =>
                          run'[s].call \in NetworkCalls,
         current' # None => run'[current'].active,
         exchange' \in [Cycles -> ExchangeStates],
         \A c \in Cycles: c > used => exchange'[c] = exchange[c],
         candle' \in 1..MaxCandle, schedule' \in BOOLEAN, retryAlarm' \in BOOLEAN,
         retryDue' \in BOOLEAN, crashes' \in 0..MaxCrashes, up' \in BOOLEAN,
         ~configured => schedule' = schedule /\ retryAlarm' = retryAlarm,
         ~up' => Active' = {} /\ crashes' > 0
  PROVE  IInv'
<1>1. /\ MaxCommands' = MaxCommands /\ Cycles' = Cycles /\ MaxCycles' = MaxCycles
      /\ MaxCandle' = MaxCandle /\ MaxCrashes' = MaxCrashes /\ MaxFaults' = MaxFaults
      /\ Mode' = Mode
  BY DEF MaxCommands, Cycles, MaxCycles, MaxCandle, MaxCrashes, MaxFaults, Mode
<1>2. RunRecords' = RunRecords /\ OrderRows' = OrderRows
  BY <1>1 DEF RunRecords, OrderRows
<1>3. RunsTypeOK /\ TypeOK /\ used \in Nat /\ MaxCycles \in Nat
  BY Parts, Bounds DEF IInv, TypeOK
<1>4. RunsTypeOK'
  BY <1>1, <1>2, <1>3 DEF RunsTypeOK
<1>5. TypeOK'
  BY <1>1, <1>3, <1>4 DEF TypeOK
<1>6. MachineInForm(machine)'
  BY Parts DEF MachineInForm
<1>7. ThreadInForm'
  <2>1. \A s \in Runs: RunInForm(run'[s])
    BY <1>3, IdleForm, Parts DEF ThreadInForm
  <2>2. \A s \in Runs: (RunInForm(run[s]))'
    BY <1>1, <2>1 DEF RunInForm, MachineInForm, CallFits
  <2>3. \A s \in Runs: ~run'[s].active => run'[s] = IdleRun
    BY Parts DEF ThreadInForm, IdleRun
  <2>4. ASSUME NEW s \in Runs, current' = s
        PROVE  run'[s].active /\ run'[s].call \in {"none", "return"}
    <3>1. current = s /\ run'[s].active
      BY <2>4, RunsAssumption
    <3>2. run[s].call \in {"none", "return"}
      BY <3>1, Parts DEF ThreadInForm
    <3> QED BY <3>1, <3>2 DEF IdleRun
  <2> QED BY <2>2, <2>3, <2>4 DEF ThreadInForm
<1>8. CyclesAreFresh'
  BY <1>1, Parts DEF CyclesAreFresh
<1>9. ShellInForm'
  <2>1. Active' \subseteq Active /\ IsFiniteSet(Active)
    BY Parts DEF ShellInForm, Active, IdleRun
  <2>2. IsFiniteSet(Active')
    BY <2>1, FS_Subset
  <2> QED BY <1>1, <2>1, <2>2, Parts DEF ShellInForm
<1> QED  BY <1>5, <1>6, <1>7, <1>8, <1>9 DEF IInv

LEMMA StandFacts ==
  ASSUME IInv
  PROVE  /\ candle \in 1..MaxCandle /\ crashes \in 0..MaxCrashes /\ up \in BOOLEAN
         /\ MaxCrashes \in Nat /\ MaxCandle \in Nat
         /\ run \in [Runs -> RunRecords]
         /\ (~up => Active = {} /\ crashes > 0)
         /\ (~configured => ~schedule /\ ~retryAlarm /\ Active = {})
         /\ \A s \in Runs: run[s].active /\ current # s => run[s].call \in NetworkCalls
         /\ current \in Runs \cup {None}
         /\ (current # None => run[current].active /\ current \in Active)
<1>1. current # None => run[current].active /\ current \in Active
  BY Parts DEF ThreadInForm, Active
<1> QED  BY <1>1, Parts, Bounds DEF ShellInForm, ThreadInForm

LEMMA RetryTickKeeps ==
  ASSUME IInv, NEW r \in Runs, RetryTick(r)
  PROVE  /\ IInv'
         /\ \/ Began(r, machine, portfolio, FALSE, machine.cycleId)
            \/ UNCHANGED <<run, current, used, triggered>>
<1>1. /\ up /\ current = None /\ retryAlarm /\ retryAlarm' = FALSE
      /\ UNCHANGED <<machine, portfolio, schedule, rows, orders, candle, retryDue,
                     exchange, bracket, faults, session, decisions, executions,
                     blindRisk, configured, up, commands, crashes, setup>>
  BY DEF RetryTick, Idle, venue, history, shell
<1>2. configured /\ configured' \in BOOLEAN /\ commands' \in 0..MaxCommands
  BY <1>1, Parts, Bounds DEF ShellInForm
<1>3. CASE Begin(r, machine, portfolio, FALSE, machine.cycleId, TRUE)
  <2>1. Began(r, machine, portfolio, FALSE, machine.cycleId)
    BY <1>1, <1>3, MachineFacts, BeginRuns
  <2>2. Begun(r)
    BY <2>1 DEF Began
  <2>3. IInv'
    BY <1>1, <1>2, <2>2, MachineFacts, Untouched, BeginKeeps
  <2> QED BY <2>1, <2>3
<1>4. CASE UNCHANGED <<run, current, used, triggered>>
  <2>1. IInv'
    BY <1>1, <1>2, <1>4, StandFacts, Untouched, Parts, RestKeeps DEF StorageInForm
  <2> QED BY <1>4, <2>1
<1> QED  BY <1>3, <1>4 DEF RetryTick

LEMMA PublishKeeps ==
  ASSUME IInv, NEW r \in Runs, Publish(r)
  PROVE  /\ IInv'
         /\ run[r].active /\ run[r].m \in Machines
         /\ \/ Began(r, run[r].m, run[r].port, TRUE, run[r].m.cycleId)
            \/ run' = [run EXCEPT ![r] = IdleRun] /\ current' = None
<1> DEFINE m == run[r].m
<1>1. /\ current = r /\ machine' = m /\ portfolio' = run[r].port
      /\ schedule' = (schedule /\ IsEnabled(m))
      /\ UNCHANGED <<retryAlarm, rows, orders, candle, retryDue,
                     exchange, bracket, faults, session, decisions, executions,
                     blindRisk, configured, up, commands, crashes, setup>>
  BY DEF Publish, Finished, venue, history, shell
<1>2. /\ run[r].active /\ m \in Machines /\ MachineInForm(m)
      /\ run[r].port \in SUBSET Cycles /\ run[r].byAlarm \in BOOLEAN
      /\ run[r] \in RunRecords
  <2>1. run[r].active /\ run[r] \in RunRecords /\ MachineInForm(m)
    BY <1>1, RunFacts, Parts DEF ThreadInForm
  <2> QED BY <2>1 DEF RunRecords
<1>3. up /\ configured /\ configured' \in BOOLEAN /\ commands' \in 0..MaxCommands
      /\ up \in BOOLEAN
  BY <1>1, <1>2, ThereIs, Parts, Bounds
<1>4. schedule' \in BOOLEAN
  BY <1>1, Untouched
<1>5. CASE Begin(r, m, run[r].port, TRUE, m.cycleId, run[r].byAlarm)
  <2>1. m.cycleId \in 0..MaxCycles
    <3>1. m.cycleId \in Nat /\ m.cycleId <= used /\ used \in 0..MaxCycles
          /\ MaxCycles \in Nat
      BY <1>2, Parts, Bounds DEF MachineInForm, Machines
    <3> QED BY <3>1
  <2> DEFINE port == run[r].port
             byAlarm == run[r].byAlarm
  <2>3. /\ m \in Machines /\ MachineInForm(m) /\ port \in SUBSET Cycles
        /\ byAlarm \in BOOLEAN /\ Begin(r, m, port, TRUE, m.cycleId, byAlarm)
    BY <1>2, <1>5
  <2> HIDE DEF m, port, byAlarm
  <2>4. /\ current \in {None, r} /\ setup' = setup /\ candle' = candle
        /\ rows' = rows /\ orders' = orders /\ exchange' = exchange
        /\ executions' = executions
    BY <1>1
  <2>2. Began(r, m, port, TRUE, m.cycleId)
    BY <2>1, <2>3, <2>4, BeginRuns
  <2>5. Begun(r)
    BY <2>2 DEF Began
  <2>6. IInv'
    BY <1>1, <1>2, <1>3, <1>4, <2>5, Untouched, BeginKeeps
  <2> QED BY <1>2, <2>2, <2>6 DEF m, port
<1>6. CASE /\ run' = [run EXCEPT ![r] = IdleRun]
           /\ current' = None
           /\ UNCHANGED <<used, triggered>>
  <2>1. /\ MaxCommands' = MaxCommands /\ Cycles' = Cycles /\ MaxCycles' = MaxCycles
        /\ MaxCandle' = MaxCandle /\ MaxCrashes' = MaxCrashes /\ MaxFaults' = MaxFaults
        /\ Mode' = Mode
    BY <1>1 DEF MaxCommands, Cycles, MaxCycles, MaxCandle, MaxCrashes, MaxFaults, Mode
  <2>2. RunRecords' = RunRecords /\ OrderRows' = OrderRows
    BY <2>1 DEF RunRecords, OrderRows
  <2>3. RunsTypeOK /\ TypeOK /\ used \in Nat /\ MaxCycles \in Nat
        /\ run \in [Runs -> RunRecords]
    BY Parts, Bounds DEF IInv, TypeOK
  <2>4. IdleRun \in RunRecords /\ RunInForm(IdleRun) /\ ~IdleRun.active
    BY <2>3, IdleForm DEF IdleRun
  <2>5. /\ run' \in [Runs -> RunRecords] /\ run'[r] = IdleRun
        /\ \A s \in Runs \ {r}: run'[s] = run[s]
    BY <1>6, <2>3, <2>4
  <2>6. RunsTypeOK'
    BY <1>1, <1>2, <1>4, <1>6, <2>1, <2>2, <2>3, <2>5 DEF RunsTypeOK
  <2>7. TypeOK'
    BY <1>1, <2>1, <2>3, <2>6 DEF TypeOK
  <2>8. MachineInForm(machine)'
    BY <1>1, <1>2, <1>6 DEF MachineInForm
  <2>9. ThreadInForm'
    <3>1. \A s \in Runs: RunInForm(run'[s])
      BY <2>4, <2>5, Parts DEF ThreadInForm
    <3>2. \A s \in Runs: (RunInForm(run[s]))'
      BY <1>6, <2>1, <3>1 DEF RunInForm, MachineInForm, CallFits
    <3>3. \A s \in Runs: /\ ~run'[s].active => run'[s] = IdleRun
                         /\ run'[s].active => run'[s].call \in NetworkCalls
                         /\ current' # s
      BY <1>1, <1>6, <2>4, <2>5, Parts, RunsAssumption DEF ThreadInForm
    <3> QED BY <3>2, <3>3 DEF ThreadInForm
  <2>10. CyclesAreFresh'
    BY <1>1, <1>6, <2>1, Parts DEF CyclesAreFresh
  <2>11. ShellInForm'
    <3>1. Active' \subseteq Active /\ IsFiniteSet(Active)
      BY <2>4, <2>5, Parts DEF ShellInForm, Active
    <3>2. IsFiniteSet(Active')
      BY <3>1, FS_Subset
    <3> QED BY <1>1, <1>3, <1>6, <2>1, <3>2, Parts DEF ShellInForm
  <2> QED BY <1>2, <1>6, <2>7, <2>8, <2>9, <2>10, <2>11 DEF IInv
<1> QED  BY <1>5, <1>6 DEF Publish

LEMMA EnvironmentKeeps ==
  ASSUME IInv, CloseCandle \/ RetryDeadline \/ (\E c \in Cycles: Settle(c)) \/ OnStart
  PROVE  IInv'
<1>1. CASE CloseCandle
  <2>1. candle' \in 1..MaxCandle
    BY <1>1, StandFacts DEF CloseCandle
  <2> QED BY <1>1, <2>1, StandFacts, Untouched, Parts, RestKeeps
          DEF StorageInForm, CloseCandle, durable, venue, history, shell, Active
<1>2. CASE RetryDeadline
  BY <1>2, StandFacts, Untouched, Parts, RestKeeps
     DEF StorageInForm, RetryDeadline, durable, venue, history, shell, Active
<1>3. ASSUME NEW c \in Cycles, Settle(c) PROVE IInv'
  <2>1. UNCHANGED <<setup, machine, used, triggered, session, configured,
                    commands, rows, orders, executions, decisions,
                    portfolio, faults, blindRisk, run, current, candle,
                    schedule, retryAlarm, retryDue, crashes, up>>
    BY <1>3 DEF Settle, durable, market, history, shell
  <2>2. /\ exchange \in [Cycles -> ExchangeStates] /\ bracket \in [Cycles -> BOOLEAN]
        /\ \A d \in Cycles: d > used => exchange[d] = "none"
        /\ {"filled", "void"} \subseteq ExchangeStates
    BY Untouched, Parts DEF StorageInForm, CyclesAreFresh, ExchangeStates
  <2>3. bracket' \in [Cycles -> BOOLEAN]
    BY <1>3, <2>2 DEF Settle
  <2>4. exchange' \in [Cycles -> ExchangeStates]
    BY <1>3, <2>2 DEF Settle
  <2>5. \A d \in Cycles: d > used => exchange'[d] = exchange[d]
    BY <1>3, <2>2 DEF Settle
  <2> QED BY <2>1, <2>3, <2>4, <2>5, StandFacts, Untouched, Parts, RestKeeps DEF Active
<1>4. CASE OnStart
  <2>1. schedule' \in BOOLEAN /\ (~configured => schedule' = schedule) /\ up' = TRUE
    BY <1>4, StandFacts, Untouched DEF OnStart
  <2> QED BY <1>4, <2>1, StandFacts, Untouched, Parts, RestKeeps
          DEF StorageInForm, OnStart, market, venue, history
<1> QED  BY <1>1, <1>2, <1>3, <1>4

(* An eviction.                                                            *)
LEMMA CrashWrites ==
  ASSUME IInv, Crash
  PROVE  /\ exchange' \in [Cycles -> ExchangeStates]
         /\ \A d \in Cycles: d > used => exchange'[d] = exchange[d]
<1>1. /\ exchange \in [Cycles -> ExchangeStates] /\ used \in Nat
      /\ Cycles \subseteq Nat /\ "open" \in ExchangeStates
      /\ \A s \in Runs: run[s].cycle <= used
  BY Untouched, Parts, Bounds DEF ExchangeStates, ThreadInForm, RunInForm
<1>2. CASE PartlyFlattened
  BY <1>2, AccountWrites
<1>3. ASSUME NEW S \in SUBSET {c \in {run[r].cycle: r \in {s \in Runs:
                                 run[s].call \in {"submit", "replay"}}}:
                               exchange[c] = "none"},
             exchange' = [c \in Cycles |-> IF c \in S THEN "open" ELSE exchange[c]]
      PROVE  /\ exchange' \in [Cycles -> ExchangeStates]
             /\ \A d \in Cycles: d > used => exchange'[d] = exchange[d]
  <2>1. \A c \in S: c <= used
    BY <1>1
  <2> QED BY <1>1, <1>3, <2>1
<1> QED  BY <1>2, <1>3 DEF Crash

LEMMA CrashKeeps ==
  ASSUME IInv, Crash
  PROVE  IInv'
<1>1. /\ up /\ crashes < MaxCrashes /\ crashes' = crashes + 1 /\ up' = FALSE
      /\ run' = [r \in Runs |-> IdleRun] /\ current' = None
      /\ UNCHANGED <<machine, portfolio, schedule, retryAlarm, rows, orders,
                     used, candle, triggered, retryDue, bracket, faults, session,
                     decisions, executions, blindRisk, configured, commands, setup>>
  BY DEF Crash, durable, market, history
<1>2. IdleRun \in RunRecords /\ IdleRun.active = FALSE
  BY IdleForm, Parts, Bounds DEF IdleRun
<1>3. /\ run' \in [Runs -> RunRecords] /\ Active' = {}
      /\ \A s \in Runs: run'[s] = IdleRun
  BY <1>1, <1>2 DEF Active
<1>4. crashes' \in 0..MaxCrashes /\ crashes' > 0
  BY <1>1, StandFacts
<1>5. \A s \in Runs: run'[s].active = FALSE
  BY <1>2, <1>3
<1> QED  BY <1>1, <1>3, <1>4, <1>5, CrashWrites, StandFacts, Untouched, Parts, RestKeeps
         DEF StorageInForm

-----------------------------------------------------------------------------
LEMMA InitHolds == Init => IInv
<1> SUFFICES ASSUME Init PROVE IInv
  OBVIOUS
<1>1. /\ setup \in Setups /\ machine = NewMachine(0) /\ portfolio = {}
      /\ schedule = FALSE /\ retryAlarm = FALSE
      /\ rows = [c \in Cycles |-> NoRow]
      /\ orders = [c \in Cycles |-> [status |-> "none", idKnown |-> FALSE,
                                     booked |-> {}]]
      /\ run = [r \in Runs |-> IdleRun] /\ current = None /\ used = 0 /\ candle = 1
      /\ triggered = [c \in Cycles |-> 0] /\ retryDue = FALSE
      /\ exchange = [c \in Cycles |-> "none"]
      /\ bracket = [c \in Cycles |-> FALSE] /\ faults = 0 /\ session = 0
      /\ decisions = [k \in 1..MaxCandle |-> 0]
      /\ executions = [c \in Cycles |-> 0] /\ blindRisk = FALSE
      /\ configured = FALSE /\ up = TRUE /\ commands = 0 /\ crashes = 0
  BY DEF Init, RunsInit, NoRow
<1>2. /\ MaxCycles \in Nat \ {0} /\ MaxCandle \in Nat \ {0} /\ MaxFaults \in Nat
      /\ MaxCommands \in Nat /\ MaxCrashes \in Nat /\ Cycles = 1..MaxCycles
  BY <1>1, Bounds
<1>3. IdleRun \in RunRecords /\ RunInForm(IdleRun) /\ ~IdleRun.active
      /\ NewMachine(0) \in Machines
  BY <1>1, <1>2, IdleForm, NewMachineType DEF IdleRun
<1>4. NoRow \in CycleRows /\ NoRow.stored = FALSE /\ NoRow.art = NoArtifacts
  BY DEF NoRow, CycleRows, NoArtifacts, ArtifactSets, Outcomes
<1>5. [status |-> "none", idKnown |-> FALSE, booked |-> {}] \in OrderRows
  BY DEF OrderRows, OrderStatuses
<1>6. RunsTypeOK
  <2>1. /\ rows \in [Cycles -> CycleRows] /\ orders \in [Cycles -> OrderRows]
        /\ run \in [Runs -> RunRecords] /\ exchange \in [Cycles -> ExchangeStates]
    BY <1>1, <1>3, <1>4, <1>5 DEF ExchangeStates
  <2>2. /\ triggered \in [Cycles -> 0..MaxCandle] /\ bracket \in [Cycles -> BOOLEAN]
        /\ decisions \in [1..MaxCandle -> Nat] /\ executions \in [Cycles -> Nat]
    BY <1>1, <1>2
  <2>3. /\ used \in 0..MaxCycles /\ candle \in 1..MaxCandle
        /\ faults \in 0..MaxFaults /\ session \in 0..MaxCycles
    BY <1>1, <1>2
  <2>4. /\ setup \in Setups /\ machine \in Machines /\ portfolio \subseteq Cycles
        /\ schedule \in BOOLEAN /\ retryAlarm \in BOOLEAN
        /\ current \in Runs \cup {None} /\ retryDue \in BOOLEAN
        /\ blindRisk \in BOOLEAN
    BY <1>1, <1>3
  <2> QED BY <2>1, <2>2, <2>3, <2>4 DEF RunsTypeOK
<1>7. TypeOK
  <2>1. commands \in 0..MaxCommands /\ crashes \in 0..MaxCrashes
    BY <1>1, <1>2
  <2>2. configured \in BOOLEAN /\ up \in BOOLEAN
    BY <1>1
  <2> QED BY <1>6, <2>1, <2>2 DEF TypeOK
<1>8. ThreadInForm
  BY <1>1, <1>3, RunsAssumption DEF ThreadInForm
<1>9. MachineInForm(machine)
  BY <1>1, <1>3 DEF RunInForm, IdleRun
<1>10. CyclesAreFresh
  BY <1>1, <1>2, <1>4 DEF CyclesAreFresh
<1>11. ShellInForm
  <2>1. Active = {}
    BY <1>1, <1>3 DEF Active
  <2> QED BY <1>1, <1>2, <2>1, FS_EmptySet DEF ShellInForm
<1> QED  BY <1>7, <1>8, <1>9, <1>10, <1>11 DEF IInv

LEMMA StutterKeeps ==
  ASSUME IInv, UNCHANGED vars
  PROVE  IInv'
BY StandFacts, Untouched, Parts, RestKeeps
   DEF StorageInForm, vars, runVars, durable, market, venue, history, shell, Active

LEMMA TurnIsSound ==
  ASSUME IInv, NEW r \in Runs, Turn(r)
  PROVE  IInv'
BY TurnKeeps DEF Turn

LEMMA NextKeeps == IInv /\ [Next]_vars => IInv'
<1> SUFFICES ASSUME IInv, [Next]_vars PROVE IInv'
  OBVIOUS
<1>1. CASE Step
  BY <1>1, StepTurns, TurnIsSound DEF Step
<1>2. ASSUME NEW r \in Runs,
             \/ StartAgent(r) \/ StopAgent(r) \/ KillAgent(r) \/ RunNow(r)
             \/ ScheduledTick(r) \/ RetryTick(r) \/ Publish(r)
      PROVE  IInv'
  <2>1. CASE StopAgent(r)
    BY <2>1, ControlForm, ControlKeeps DEF StopAgent
  <2>2. CASE KillAgent(r)
    BY <2>2, ControlForm, ControlKeeps DEF KillAgent
  <2> QED BY <1>2, <2>1, <2>2, StartAgentKeeps, RunNowKeeps, ScheduledTickKeeps,
             RetryTickKeeps, PublishKeeps
<1>3. CASE CloseCandle \/ RetryDeadline \/ (\E c \in Cycles: Settle(c)) \/ OnStart
  BY <1>3, EnvironmentKeeps
<1> QED  BY <1>1, <1>2, <1>3, ResetAgentKeeps, CrashKeeps, StutterKeeps DEF Next

(* The state is always in form: one run holds the thread, a run awaits     *)
(* only what its phase asks for, nothing is known of a cycle before it is  *)
(* drawn, and a machine with a pending shutdown is in a phase that ends it.*)
THEOREM Soundness == Spec => []IInv
BY InitHolds, NextKeeps, PTL DEF Spec

THEOREM TypeCorrectness == Spec => []TypeOK
<1>1. IInv => TypeOK
  BY DEF IInv
<1> QED  BY <1>1, Soundness, PTL

-----------------------------------------------------------------------------
(* An agent whose invocations do not overlap.                              *)

(* The only run works on the machine of the state.                         *)
Alone ==
  /\ \A r, s \in Active: r = s
  /\ \A r \in Active: run[r].m = machine

(* A decided candle is remembered.                                         *)
Decided ==
  \A k \in 1..MaxCandle:
    decisions[k] # 0 => decisions[k] = 1 /\ machine.lastDecisionCandle >= k

(* A run that goes on to the next cycle has the grid alarm.                *)
AlarmIsDue ==
  /\ Active = {} /\ up /\ IsEnabled(machine) => schedule
  /\ Active = {} /\ crashes = 0 /\ schedule => IsEnabled(machine)
  /\ Active # {} /\ machine.phase \notin Unarmed => schedule

(* A completed kill left an empty account, and no run that could fill it.  *)
KillIsFlat ==
  Mode = "live" /\ (machine.killCompleted \/ machine.phase = "halted") =>
    OpenOrders \cup Held = {}

SerialForm == Alone /\ Decided /\ AlarmIsDue /\ KillIsFlat

LEMMA SoleRun ==
  ASSUME IInv, OneByOne, NEW r \in Runs, Cardinality(Active \cup {r}) <= MaxRuns
  PROVE  Active \subseteq {r}
<1> SUFFICES ASSUME NEW s \in Active, s # r PROVE FALSE
  OBVIOUS
<1> DEFINE A == Active \cup {r}
           P == {s} \cup {r}
<1>1. IsFiniteSet(Active)
  BY Parts DEF ShellInForm
<1>2. IsFiniteSet(A) /\ P \in SUBSET A
  BY <1>1, FS_AddElement
<1>3. IsFiniteSet(P) /\ Cardinality(P) <= Cardinality(A)
  BY <1>2, FS_Subset
<1>4. IsFiniteSet({s}) /\ Cardinality({s}) = 1
  BY FS_Singleton
<1>5. Cardinality(P) = 2
  BY <1>4, FS_AddElement
<1>6. Cardinality(A) \in Nat /\ MaxRuns = 1 /\ Cardinality(A) <= MaxRuns
  BY <1>2, FS_CardinalityType DEF OneByOne
<1> QED  BY <1>3, <1>5, <1>6

LEMMA FlatIsEmpty ==
  ASSUME IInv, Flattened, Cycles' = Cycles
  PROVE  (OpenOrders \cup Held = {})'
<1>1. exchange \in [Cycles -> ExchangeStates]
  BY Untouched
<1> QED  BY <1>1 DEF Flattened, Closed, OpenOrders, Held

LEMMA SerialTurn ==
  ASSUME IInv, SerialForm, NEW r \in Runs, Turn(r)
  PROVE  SerialForm'
<1>1. /\ run[r].active /\ Turned(r) /\ Frame /\ Decides(r) /\ Arms(r) /\ Kills(r)
      /\ Alone /\ Decided /\ AlarmIsDue /\ KillIsFlat
  BY DEF Turn, OnTurn, SerialForm
<1>2. /\ MaxCandle' = MaxCandle /\ Mode' = Mode /\ Cycles' = Cycles /\ up' = up
      /\ crashes' = crashes
  BY <1>1 DEF Frame, shell, MaxCandle, Mode, Cycles, MaxCycles
<1>3. r \in Active /\ Active' = Active /\ run[r].m = machine /\ Active = {r}
  BY <1>1 DEF Active, Turned, Alone
<1>4. machine' = run'[r].m
  BY <1>1, <1>3 DEF Turned
<1>5. Alone'
  BY <1>3, <1>4 DEF Alone
<1>6. Decided'
  <2>1. /\ decisions \in [1..MaxCandle -> Nat] /\ machine.lastDecisionCandle \in Nat
        /\ machine'.lastDecisionCandle \in Nat
    <3>1. run'[r].m \in Machines
      BY <1>1 DEF Turned, RunRecords
    <3> QED BY <1>4, <3>1, Untouched, MachineFacts DEF Machines
  <2>2. machine'.lastDecisionCandle >= machine.lastDecisionCandle
    BY <1>1, <1>3, <1>4 DEF Decides
  <2>3. CASE decisions' = decisions
    BY <1>1, <1>2, <2>1, <2>2, <2>3 DEF Decided
  <2>4. ASSUME NEW k \in 1..MaxCandle,
               machine.lastDecisionCandle < k, machine'.lastDecisionCandle = k,
               decisions' = [decisions EXCEPT ![k] = @ + 1]
        PROVE  Decided'
    <3>1. decisions[k] = 0
      BY <1>1, <2>1, <2>4 DEF Decided
    <3> SUFFICES ASSUME NEW j \in 1..MaxCandle, decisions'[j] # 0
                 PROVE  decisions'[j] = 1 /\ machine'.lastDecisionCandle >= j
      BY <1>2 DEF Decided
    <3>2. CASE j = k
      BY <2>1, <2>4, <3>1, <3>2
    <3>3. CASE j # k
      BY <1>1, <2>1, <2>2, <2>4, <3>3 DEF Decided
    <3> QED BY <3>2, <3>3
  <2> QED BY <1>1, <1>3, <1>4, <2>3, <2>4 DEF Decides
<1>7. AlarmIsDue'
  BY <1>1, <1>3, <1>4 DEF AlarmIsDue, Arms
<1>8. KillIsFlat'
  <2> SUFFICES ASSUME Mode = "live",
                      run'[r].m.killCompleted \/ run'[r].m.phase = "halted"
               PROVE  (OpenOrders \cup Held = {})'
    BY <1>2, <1>4 DEF KillIsFlat
  <2>1. CASE Flattened
    BY <1>2, <2>1, FlatIsEmpty
  <2>2. CASE run[r].m.killCompleted /\ exchange' = exchange
    BY <1>1, <1>2, <1>3, <2>2 DEF KillIsFlat, OpenOrders, Held
  <2> QED BY <1>1, <2>1, <2>2 DEF Kills
<1> QED  BY <1>5, <1>6, <1>7, <1>8 DEF SerialForm

(* The agent is alone when a run begins, and its thread was free.          *)
LEMMA BeganAlone ==
  ASSUME IInv, OneByOne, Alone, NEW r \in Runs, NEW m \in Machines,
         NEW port, NEW alarm, NEW resume, Began(r, m, port, alarm, resume),
         machine' = m
  PROVE  Alone' /\ Active' = {r} /\ (r \notin Active => Active = {})
<1>1. Active \subseteq {r} /\ Active' = Active \cup {r} /\ run'[r].m = m
  BY SoleRun DEF Began, Begun
<1> QED  BY <1>1 DEF Alone

LEMMA StartAgentSerial ==
  ASSUME IInv, OneByOne, SerialForm, NEW r \in Runs, StartAgent(r)
  PROVE  SerialForm'
<1> DEFINE keeps == Mode = "live" /\ configured
           k == IF keeps THEN machine.lastDecisionCandle ELSE 0
           m == StartRequested(NewMachine(k))
<1>1. k \in Nat
  BY MachineFacts
<1>2. /\ m \in Machines /\ m.phase = "scheduling" /\ m.killCompleted = FALSE
      /\ m.lastDecisionCandle = k
  <2> HIDE DEF k
  <2>1. /\ m \in Machines /\ m.phase = "scheduling" /\ ~m.killCompleted
        /\ m.lastDecisionCandle = k
    BY <1>1, StartGoes
  <2> QED BY <2>1 DEF Machines
<1>3. machine' = m /\ setup' = setup /\ Began(r, machine', portfolio', FALSE, 0)
      /\ IF Mode = "live" THEN decisions' = decisions
         ELSE decisions' = [x \in 1..MaxCandle |-> 0]
  BY StartAgentKeeps DEF StartAgent
<1> HIDE DEF m
<1>4. Alone' /\ Active' = {r}
  BY <1>2, <1>3, BeganAlone DEF SerialForm
<1>5. MaxCandle' = MaxCandle
  BY <1>3 DEF MaxCandle
<1>6. Decided'
  <2>1. CASE Mode # "live"
    BY <1>3, <1>5, <2>1 DEF Decided
  <2>2. CASE Mode = "live" /\ configured
    BY <1>2, <1>3, <1>5, <2>2 DEF Decided, SerialForm
  <2>3. CASE Mode = "live" /\ ~configured
    BY <1>3, <1>5, <2>3, Parts DEF Decided, ShellInForm
  <2> QED BY <2>1, <2>2, <2>3, Parts
<1>7. AlarmIsDue'
  BY <1>2, <1>3, <1>4 DEF AlarmIsDue, Unarmed
<1>8. KillIsFlat'
  BY <1>2, <1>3 DEF KillIsFlat
<1> QED  BY <1>4, <1>6, <1>7, <1>8 DEF SerialForm

LEMMA ControlSerial ==
  ASSUME IInv, OneByOne, SerialForm, NEW r \in Runs, NEW name,
         NEW m \in {StopRequested(machine), KillSwitchEngaged(machine)},
         Control(r, name, m)
  PROVE  SerialForm'
<1>1. m \in Machines /\ MachineInForm(m)
  BY ControlForm
<1>2. /\ machine' = m /\ r \notin Active /\ schedule' = schedule /\ setup' = setup
      /\ exchange' = exchange /\ decisions' = decisions /\ up
  BY DEF Control, venue, history, Command, Idle
<1>3. PICK c \in 0..MaxCycles: Began(r, m, portfolio, FALSE, c)
  BY <1>1, ControlKeeps
<1>4. Alone' /\ Active' = {r} /\ Active = {}
  BY <1>1, <1>2, <1>3, BeganAlone DEF SerialForm
<1>5. /\ m.lastDecisionCandle = machine.lastDecisionCandle
      /\ m.killCompleted => machine.killCompleted
      /\ m.phase \in SettlingPhases
      /\ \/ m.phase = machine.phase \/ m.phase = "cancelling"
         \/ m.phase = "reconcilingOrder" /\ machine.phase = "submittingOrder"
  BY MachineFacts, ControlGoes
<1>6. MaxCandle' = MaxCandle /\ Mode' = Mode /\ Cycles' = Cycles
  BY <1>2 DEF MaxCandle, Mode, Cycles, MaxCycles
<1>7. Decided'
  BY <1>2, <1>5, <1>6 DEF Decided, SerialForm
<1>8. AlarmIsDue'
  <2>1. m.phase \notin Unarmed => IsEnabled(machine)
    BY <1>5 DEF Unarmed, IsEnabled
  <2> QED BY <1>2, <1>4, <2>1 DEF AlarmIsDue, SerialForm
<1>9. KillIsFlat'
  BY <1>2, <1>5, <1>6 DEF KillIsFlat, SerialForm, OpenOrders, Held
<1> QED  BY <1>4, <1>7, <1>8, <1>9 DEF SerialForm

(* What an alarm that resumes the machine leaves alone.                    *)
LEMMA ResumeSerial ==
  ASSUME IInv, OneByOne, SerialForm, NEW r \in Runs, NEW alarm,
         Began(r, machine, portfolio, alarm, machine.cycleId),
         r \notin Active, up,
         UNCHANGED <<setup, machine, schedule, decisions, exchange>>
  PROVE  SerialForm'
<1>1. Alone' /\ Active' = {r} /\ Active = {}
  BY MachineFacts, BeganAlone DEF SerialForm
<1>2. MaxCandle' = MaxCandle /\ Mode' = Mode /\ Cycles' = Cycles
  BY DEF MaxCandle, Mode, Cycles, MaxCycles
<1>3. Decided' /\ KillIsFlat'
  BY <1>2 DEF Decided, KillIsFlat, SerialForm, OpenOrders, Held
<1>4. AlarmIsDue'
  BY <1>1 DEF AlarmIsDue, SerialForm, Unarmed, IsEnabled
<1> QED  BY <1>1, <1>3, <1>4 DEF SerialForm

LEMMA SameSerial ==
  ASSUME SerialForm,
         UNCHANGED <<setup, machine, schedule, decisions, exchange, run, up, crashes>>
  PROVE  SerialForm'
<1>1. MaxCandle' = MaxCandle /\ Mode' = Mode /\ Cycles' = Cycles /\ Active' = Active
  BY DEF MaxCandle, Mode, Cycles, MaxCycles, Active
<1>2. Alone' /\ AlarmIsDue'
  BY <1>1 DEF SerialForm, Alone, AlarmIsDue
<1>3. Decided' /\ KillIsFlat'
  BY <1>1 DEF SerialForm, Decided, KillIsFlat, OpenOrders, Held
<1> QED  BY <1>2, <1>3 DEF SerialForm

LEMMA AlarmsSerial ==
  ASSUME IInv, OneByOne, SerialForm, NEW r \in Runs,
         RunNow(r) \/ ScheduledTick(r) \/ RetryTick(r)
  PROVE  SerialForm'
<1>1. CASE RunNow(r)
  <2>1. /\ UNCHANGED <<setup, machine, schedule, decisions, exchange>>
        /\ r \notin Active /\ up
    BY <1>1 DEF RunNow, durable, venue, history, Command, Idle
  <2> QED BY <1>1, <2>1, RunNowKeeps, ResumeSerial
<1>2. CASE ScheduledTick(r)
  <2>1. /\ UNCHANGED <<setup, machine, schedule, decisions, exchange>>
        /\ r \notin Active /\ up
    BY <1>2 DEF ScheduledTick, durable, venue, history, shell, Idle
  <2> QED BY <1>2, <2>1, ScheduledTickKeeps, ResumeSerial
<1>3. CASE RetryTick(r)
  <2>1. /\ UNCHANGED <<setup, machine, schedule, decisions, exchange, up, crashes>>
        /\ up
    BY <1>3 DEF RetryTick, venue, history, shell, Idle
  <2>2. CASE Began(r, machine, portfolio, FALSE, machine.cycleId) /\ r \notin Active
    BY <2>1, <2>2, ResumeSerial
  <2>3. CASE UNCHANGED <<run, current, used, triggered>>
    BY <2>1, <2>3, SameSerial
  <2>4. r \notin Active \/ UNCHANGED <<run, current, used, triggered>>
    BY <1>3 DEF RetryTick
  <2> QED BY <1>3, <2>2, <2>3, <2>4, RetryTickKeeps
<1> QED  BY <1>1, <1>2, <1>3

LEMMA PublishSerial ==
  ASSUME IInv, OneByOne, SerialForm, NEW r \in Runs, Publish(r)
  PROVE  SerialForm'
<1>1. /\ Finished(r) /\ machine' = run[r].m
      /\ schedule' = (schedule /\ IsEnabled(run[r].m))
      /\ UNCHANGED <<setup, decisions, exchange, up, crashes>>
  BY DEF Publish, venue, history, shell
<1>2. run[r].active /\ run[r].m \in Machines
  BY PublishKeeps
<1>3. r \in Active /\ run[r].m = machine /\ Active = {r} /\ machine' = machine
  BY <1>1, <1>2 DEF Active, Alone, SerialForm
<1>4. MaxCandle' = MaxCandle /\ Mode' = Mode /\ Cycles' = Cycles
  BY <1>1 DEF MaxCandle, Mode, Cycles, MaxCycles
<1>5. Decided' /\ KillIsFlat'
  BY <1>1, <1>3, <1>4 DEF Decided, KillIsFlat, SerialForm, OpenOrders, Held
<1>6. \/ ~IsEnabled(machine)
      \/ machine.phase \in {"waiting", "retryingMarketData"}
  <2>1. run[r].call = "return" => run[r].m.phase = "retryingMarketData"
    BY RunFacts DEF CallFits
  <2> QED BY <1>1, <1>3, <2>1 DEF Finished
<1>7. IsEnabled(machine) => schedule
  BY <1>3, <1>6 DEF SerialForm, AlarmIsDue, Unarmed
<1>8. schedule' = (schedule /\ IsEnabled(machine'))
  BY <1>1, <1>3
<1>9. AlarmIsDue'
  <2>1. machine'.phase \notin Unarmed => IsEnabled(machine)
    BY <1>3 DEF Unarmed, IsEnabled
  <2> QED BY <1>3, <1>7, <1>8, <2>1 DEF AlarmIsDue
<1>10. CASE Began(r, run[r].m, run[r].port, TRUE, run[r].m.cycleId)
  <2>1. Alone'
    BY <1>1, <1>2, <1>10, BeganAlone DEF SerialForm
  <2> QED BY <1>5, <1>9, <2>1 DEF SerialForm
<1>11. CASE run' = [run EXCEPT ![r] = IdleRun]
  <2>1. run \in [Runs -> RunRecords] /\ ~IdleRun.active
    BY Parts DEF IdleRun
  <2>2. Active' = {}
    BY <1>3, <1>11, <2>1 DEF Active
  <2>3. Alone'
    BY <2>2 DEF Alone
  <2> QED BY <1>5, <1>9, <2>3 DEF SerialForm
<1> QED  BY <1>10, <1>11, PublishKeeps

(* A reset changes nothing while a run awaits the network.                 *)
LEMMA ResetSerial ==
  ASSUME IInv, OneByOne, SerialForm, ResetAgent
  PROVE  SerialForm'
<1>1. /\ machine' = Reset(machine) /\ up /\ current = None
      /\ UNCHANGED <<setup, schedule, decisions, exchange, run, up, crashes>>
  BY DEF ResetAgent, Command, Idle, venue, history
<1>2. machine \in Machines /\ machine.lastDecisionCandle \in Nat
  BY MachineFacts
<1>3. CASE Reset(machine) = machine
  BY <1>1, <1>3, SameSerial
<1>4. CASE /\ Reset(machine) = NewMachine(machine.lastDecisionCandle)
           /\ machine.phase \in {"failed", "halted"}
  <2>1. Active = {}
    <3> SUFFICES ASSUME NEW r \in Runs, run[r].active PROVE FALSE
      BY DEF Active
    <3>1. run[r].m = machine
      BY DEF Active, Alone, SerialForm
    <3>2. run[r].call \in NetworkCalls
      BY <1>1, StandFacts, RunsAssumption
    <3>3. CallFits(run[r])
      BY RunFacts
    <3> QED BY <1>4, <3>1, <3>2, <3>3 DEF CallFits, NetworkCalls, Calls
  <2>2. /\ machine'.phase = "stopped" /\ machine'.killCompleted = FALSE
        /\ machine'.lastDecisionCandle = machine.lastDecisionCandle
    BY <1>1, <1>4 DEF NewMachine
  <2>3. MaxCandle' = MaxCandle /\ Active' = {}
    BY <1>1, <2>1 DEF MaxCandle, Active
  <2>4. Alone' /\ Decided'
    BY <1>1, <2>2, <2>3 DEF SerialForm, Alone, Decided
  <2>5. AlarmIsDue' /\ KillIsFlat'
    BY <1>1, <1>4, <2>1, <2>2, <2>3 DEF SerialForm, AlarmIsDue, KillIsFlat, IsEnabled
  <2> QED BY <2>4, <2>5 DEF SerialForm
<1> QED  BY <1>2, <1>3, <1>4, ResetGoes

(* A flat account stays flat: nothing open can settle, nothing is sent.    *)
LEMMA EnvironmentSerial ==
  ASSUME IInv, OneByOne, SerialForm,
         CloseCandle \/ RetryDeadline \/ (\E c \in Cycles: Settle(c)) \/ OnStart
  PROVE  SerialForm'
<1>1. CASE CloseCandle \/ RetryDeadline
  BY <1>1, SameSerial DEF CloseCandle, RetryDeadline, durable, venue, history, shell
<1>2. ASSUME NEW c \in Cycles, Settle(c) PROVE SerialForm'
  <2>1. UNCHANGED <<setup, machine, schedule, decisions, run, up, crashes>>
        /\ exchange[c] = "open"
    BY <1>2 DEF Settle, durable, market, history, shell
  <2>2. MaxCandle' = MaxCandle /\ Mode' = Mode /\ Active' = Active
    BY <2>1 DEF MaxCandle, Mode, Active
  <2>3. Alone' /\ AlarmIsDue' /\ Decided'
    BY <2>1, <2>2 DEF SerialForm, Alone, AlarmIsDue, Decided
  <2>4. c \in OpenOrders
    BY <2>1 DEF OpenOrders
  <2>5. KillIsFlat'
    BY <2>1, <2>2, <2>4 DEF SerialForm, KillIsFlat
  <2> QED BY <2>3, <2>5 DEF SerialForm
<1>3. CASE OnStart
  <2>1. /\ UNCHANGED <<setup, machine, decisions, exchange, run, crashes>>
        /\ up' = TRUE /\ ~up
        /\ schedule' = (schedule \/ (configured /\ IsEnabled(machine)))
    BY <1>3 DEF OnStart, market, venue, history
  <2>2. MaxCandle' = MaxCandle /\ Mode' = Mode /\ Cycles' = Cycles /\ Active' = Active
    BY <2>1 DEF MaxCandle, Mode, Cycles, MaxCycles, Active
  <2>3. Active = {} /\ crashes > 0 /\ crashes \in Nat
        /\ (~configured => ~IsEnabled(machine))
    BY <2>1, Parts, StandFacts DEF ShellInForm, NewMachine, IsEnabled
  <2>4. Alone' /\ Decided' /\ KillIsFlat'
    BY <2>1, <2>2 DEF SerialForm, Alone, Decided, KillIsFlat, OpenOrders, Held
  <2>5. AlarmIsDue'
    <3>1. IsEnabled(machine) => schedule'
      <4> SUFFICES ASSUME IsEnabled(machine) PROVE schedule'
        OBVIOUS
      <4>1. configured
        BY <2>3
      <4>2. schedule' = TRUE
        BY <2>1, <4>1
      <4> QED BY <4>2
    <3>2. crashes # 0
      BY <2>3
    <3>3. IsEnabled(machine') => IsEnabled(machine)
      BY <2>1
    <3> QED BY <2>1, <2>2, <2>3, <3>1, <3>2, <3>3 DEF AlarmIsDue
  <2> QED BY <2>4, <2>5 DEF SerialForm
<1> QED  BY <1>1, <1>2, <1>3

LEMMA CrashSerial ==
  ASSUME IInv, OneByOne, SerialForm, Crash
  PROVE  SerialForm'
<1>1. /\ up' = FALSE /\ crashes' = crashes + 1 /\ run' = [r \in Runs |-> IdleRun]
      /\ UNCHANGED <<setup, machine, schedule, decisions>>
  BY DEF Crash, durable, market, history
<1>2. MaxCandle' = MaxCandle /\ Mode' = Mode /\ Cycles' = Cycles /\ Active' = {}
  BY <1>1 DEF MaxCandle, Mode, Cycles, MaxCycles, Active, IdleRun
<1>3. Alone' /\ Decided'
  BY <1>1, <1>2 DEF SerialForm, Alone, Decided
<1>4. AlarmIsDue'
  <2>1. crashes \in Nat
    BY StandFacts
  <2> QED BY <1>1, <1>2, <2>1 DEF AlarmIsDue
<1>5. KillIsFlat'
  <2> SUFFICES ASSUME Mode = "live",
                      machine.killCompleted \/ machine.phase = "halted",
                      OpenOrders \cup Held = {}
               PROVE  (OpenOrders \cup Held = {})'
    BY <1>1, <1>2 DEF SerialForm, KillIsFlat
  <2>1. exchange \in [Cycles -> ExchangeStates]
    BY Untouched
  <2>2. CASE PartlyFlattened
    <3>1. exchange' = exchange
      BY <2>1, <2>2 DEF PartlyFlattened, Closed
    <3> QED BY <1>2, <3>1 DEF OpenOrders, Held
  <2>3. \A s \in Runs: run[s].call \notin {"submit", "replay"}
    <3> SUFFICES ASSUME NEW s \in Runs, run[s].call \in {"submit", "replay"}
                 PROVE  FALSE
      OBVIOUS
    <3>1. run[s].active
      BY Parts DEF ThreadInForm, IdleRun
    <3>2. run[s].m = machine
      BY <3>1 DEF Active, Alone, SerialForm
    <3>3. CallFits(run[s])
      BY RunFacts
    <3>4. machine.phase \in {"submittingOrder", "reconcilingOrder"}
      BY <3>2, <3>3 DEF CallFits
    <3>5. MachineInForm(machine)
      BY Parts
    <3> QED BY <3>4, <3>5 DEF MachineInForm, KilledPhases
  <2>4. ASSUME NEW S \in SUBSET {c \in {run[r].cycle: r \in {s \in Runs:
                                  run[s].call \in {"submit", "replay"}}}:
                                exchange[c] = "none"},
               exchange' = [c \in Cycles |-> IF c \in S THEN "open" ELSE exchange[c]]
        PROVE  (OpenOrders \cup Held = {})'
    <3>1. S = {}
      BY <2>3
    <3>2. exchange' = exchange
      BY <2>1, <2>4, <3>1
    <3> QED BY <1>2, <3>2 DEF OpenOrders, Held
  <2> QED BY <2>2, <2>4 DEF Crash
<1> QED  BY <1>3, <1>4, <1>5 DEF SerialForm

LEMMA InitSerial == Init => SerialForm
<1> SUFFICES ASSUME Init PROVE SerialForm
  OBVIOUS
<1>1. /\ machine = NewMachine(0) /\ schedule = FALSE /\ run = [r \in Runs |-> IdleRun]
      /\ exchange = [c \in Cycles |-> "none"]
      /\ decisions = [k \in 1..MaxCandle |-> 0]
  BY DEF Init, RunsInit
<1>2. Active = {} /\ ~IsEnabled(machine) /\ OpenOrders \cup Held = {}
  BY <1>1 DEF Active, IdleRun, NewMachine, IsEnabled, OpenOrders, Held
<1> QED  BY <1>1, <1>2 DEF SerialForm, Alone, Decided, AlarmIsDue, KillIsFlat

LEMMA SetupIsFixed == Next => setup' = setup
<1> SUFFICES ASSUME Next PROVE setup' = setup
  OBVIOUS
<1>1. CASE Step
  BY <1>1 DEF Step, shell
<1>2. ASSUME NEW r \in Runs,
             \/ StartAgent(r) \/ StopAgent(r) \/ KillAgent(r) \/ RunNow(r)
             \/ ScheduledTick(r) \/ RetryTick(r) \/ Publish(r)
      PROVE  setup' = setup
  BY <1>2 DEF StartAgent, StopAgent, KillAgent, Control, RunNow, ScheduledTick,
     RetryTick, Publish, shell
<1>3. CASE CloseCandle \/ RetryDeadline \/ (\E c \in Cycles: Settle(c)) \/ OnStart
  BY <1>3 DEF CloseCandle, RetryDeadline, Settle, OnStart, shell
<1> QED  BY <1>1, <1>2, <1>3 DEF Next, ResetAgent, Crash

LEMMA NextSerial == IInv /\ (OneByOne => SerialForm) /\ [Next]_vars
                    => (OneByOne => SerialForm)'
<1> SUFFICES ASSUME IInv, OneByOne => SerialForm, [Next]_vars, OneByOne'
             PROVE  SerialForm'
  OBVIOUS
<1>1. CASE UNCHANGED vars
  <2>1. OneByOne
    BY <1>1 DEF vars, shell, OneByOne, MaxRuns
  <2> QED BY <1>1, <2>1, SameSerial
          DEF vars, shell, runVars, durable, venue, history
<1>2. CASE Next
  <2>0. setup' = setup
    BY <1>2, SetupIsFixed
  <2>1. OneByOne /\ SerialForm
    BY <2>0 DEF OneByOne, MaxRuns
  <2>2. CASE Step
    BY <2>1, <2>2, StepTurns, SerialTurn DEF Step
  <2>3. ASSUME NEW r \in Runs,
               \/ StartAgent(r) \/ StopAgent(r) \/ KillAgent(r) \/ RunNow(r)
               \/ ScheduledTick(r) \/ RetryTick(r) \/ Publish(r)
        PROVE  SerialForm'
    <3>1. CASE StopAgent(r)
      BY <2>1, <3>1, ControlSerial DEF StopAgent
    <3>2. CASE KillAgent(r)
      BY <2>1, <3>2, ControlSerial DEF KillAgent
    <3> QED BY <2>1, <2>3, <3>1, <3>2, StartAgentSerial, AlarmsSerial, PublishSerial
  <2> QED BY <1>2, <2>1, <2>2, <2>3, ResetSerial, EnvironmentSerial, CrashSerial DEF Next
<1> QED  BY <1>1, <1>2

(* An agent whose invocations do not overlap stays in serial form.         *)
THEOREM SerialSoundness == Spec => [](OneByOne => SerialForm)
BY InitSerial, NextSerial, Soundness, PTL DEF Spec

(* No candle decides twice, for any number of retries, evictions, restarts *)
(* and commands: a cycle decides only past the last candle that the        *)
(* persisted machine remembers, and what it remembers is never lost.       *)
THEOREM DecidesOnce == Spec => []OneDecisionPerCandle
<1>1. (OneByOne => SerialForm) => OneDecisionPerCandle
  <2> SUFFICES ASSUME OneByOne, Decided, NEW k \in 1..MaxCandle
               PROVE  decisions[k] <= 1
    BY DEF OneDecisionPerCandle, SerialForm
  <2>1. decisions[k] = 0 \/ decisions[k] = 1
    BY DEF Decided
  <2> QED BY <2>1
<1> QED  BY <1>1, SerialSoundness, PTL

(* At rest an enabled agent is armed, and a disabled one is not.           *)
THEOREM AlarmsAgree == Spec => []ArmedWhenEnabled
<1>1. (OneByOne => SerialForm) => ArmedWhenEnabled
  BY DEF ArmedWhenEnabled, AtRest, SerialForm, AlarmIsDue
<1> QED  BY <1>1, SerialSoundness, PTL

(* A halted agent has an empty account, for ever.                          *)
THEOREM HaltIsFlat == Spec => []HaltedIsFlat
<1>1. (OneByOne => SerialForm) => HaltedIsFlat
  BY DEF HaltedIsFlat, SerialForm, KillIsFlat
<1> QED  BY <1>1, SerialSoundness, PTL

-----------------------------------------------------------------------------
(* What a step of a run does to its artifacts and to the order.            *)

(* The phases between the intent of the order and its resolution.          *)
Sending ==
  {"authorizing", "retryingAuthorization", "retryingExecution",
   "submittingOrder"} \cup Resolving

(* The artifacts that a phase finds in the row of its cycle.               *)
Kept(p) ==
  IF p = "computingIndicators" THEN {"market"}
  ELSE IF p = "evaluatingStrategies" THEN {"market", "indicators"}
  ELSE IF p = "allocating" THEN {"market", "signals"}
  ELSE IF p = "checkingRisk" THEN {"market", "order"}
  ELSE IF p \in Sending \cup {"persistingOrderIntent"}
  THEN {"market", "order", "risk"}
  ELSE {}

(* The alarm begins the cycle of the run.                                  *)
Fires(r) ==
  /\ run[r].m.phase = "waiting" /\ run[r].trigger
  /\ run'[r].m.phase \in {"reconcilingAccount", "cancelling"}
  /\ run'[r].m.outcome = "RUNNING" /\ run'[r].m.cycleId = run[r].cycle
  /\ run'[r].trigger = FALSE /\ run'[r].art = NewArtifacts
  /\ run'[r].authorized = run[r].authorized /\ run'[r].port = run[r].port
  /\ run'[r].call = "none"
  /\ UNCHANGED <<portfolio, rows, orders, exchange, bracket, executions>>

(* The artifacts only grow, the row is a copy of them, and a phase is      *)
(* entered with what it needs.                                             *)
Copies(r) ==
  LET v == run[r]
      w == run'[r]
  IN  /\ v.m.phase # "waiting" /\ w.trigger = FALSE
      /\ v.art.has \subseteq w.art.has
      /\ w.art.loaded => v.art.loaded \/ v.m.phase \in CyclePhases
      /\ w.m.phase \in CyclePhases => v.m.phase \in CyclePhases
      /\ \/ /\ rows' = rows
            /\ w.m.phase \in CyclePhases => Kept(w.m.phase) \subseteq Kept(v.m.phase)
         \/ /\ v.art.loaded \/ v.m.phase \in CyclePhases
            /\ \E o \in {machine.outcome, v.m.outcome}: rows' = Saved(r, w.art, o)
            /\ w.m.phase \in CyclePhases =>
                 Kept(w.m.phase) \subseteq Kept(v.m.phase) \cup w.art.has

(* Where a step that leaves the order alone may lead.                      *)
Flows(p, q) ==
  /\ q \in CyclePhases => p \in CyclePhases
  /\ q \in Preparing => p \in Preparing
  /\ q \in Sending => p \in Sending
  /\ q = "submittingOrder" => p = q
  /\ q \in Resolving => p \in Resolving \cup {"submittingOrder"}

(* The run does not confirm its cycle by this step.                        *)
Unconfirmed(r) ==
  run'[r].m.outcome = "ORDER_CONFIRMED" => run[r].m.outcome = "ORDER_CONFIRMED"

(* Neither the order nor the exchange changes.                             *)
Quiet(r) ==
  LET v == run[r]
      w == run'[r]
      p == v.m.phase
      q == w.m.phase
  IN  /\ UNCHANGED <<orders, exchange, bracket, executions>>
      /\ w.authorized = v.authorized
      /\ Mode = "paper" => w.port = v.port /\ portfolio' = portfolio
      /\ Unconfirmed(r)
      /\ w.call = "replay" => ~orders[v.cycle].idKnown
      /\ w.call = "unwind" => exchange[v.cycle] \in {"filled", "closed"}
      /\ Flows(p, q)
      /\ q \in Deciding => \/ p \in Deciding
                           \/ p \in Preparing /\ (Mode = "paper" \/ AccountIsOwned)
      /\ p = "submittingOrder" => q = p \/ ~ReadyToSubmit(r)

(* The intent of the order is written.                                     *)
Intends(r) ==
  /\ run[r].m.phase = "persistingOrderIntent"
  /\ run'[r].m.phase \in {"authorizing", "cancelling"}
  /\ orders' = Intended(run[r].cycle)
  /\ UNCHANGED <<portfolio, exchange, bracket, executions>>
  /\ run'[r].authorized = run[r].authorized /\ run'[r].port = run[r].port
  /\ run'[r].call = "none" /\ Unconfirmed(r)

(* The run gets the credential of its order.                               *)
Authorizes(r) ==
  /\ run[r].m.phase = "authorizing" /\ run'[r].m.phase = "submittingOrder"
  /\ UNCHANGED <<portfolio, orders, exchange, bracket, executions>>
  /\ run'[r].authorized /\ run'[r].port = run[r].port
  /\ run'[r].call = "none" /\ Unconfirmed(r)

(* The order of cycle c, as executed on paper.                             *)
PaperRow(r) ==
  [status |-> "CONFIRMED", idKnown |-> TRUE,
   booked |-> run[r].port \cup {run[r].cycle}]

(* A paper order is answered from its row, executed, or neither.           *)
SubmitsPaper(r) ==
  LET v == run[r]
      w == run'[r]
      c == v.cycle
  IN  /\ Mode = "paper" /\ v.m.phase = "submittingOrder" /\ v.authorized
      /\ w.m.phase \in {"persisting", "reconcilingOrder"}
      /\ w.authorized = FALSE /\ w.call = "none"
      /\ UNCHANGED <<portfolio, exchange, bracket>>
      /\ \/ Executed(r) /\ w.port = orders[c].booked /\ UNCHANGED <<orders, executions>>
         \/ w.port = v.port /\ UNCHANGED <<orders, executions>>
         \/ /\ ~Executed(r) \/ MaxFaults > 0
            /\ w.port = v.port \cup {c}
            /\ orders' = [orders EXCEPT ![c] = PaperRow(r)]
            /\ executions' = [executions EXCEPT ![c] = @ + 1]

(* The row of the order of cycle c takes a status of S, or nothing.        *)
Records(c, S) ==
  \/ orders' = orders
  \/ \E st \in S, id \in BOOLEAN: Record(c, st, id)

(* The exchange answers a submission.                                      *)
SubmitsLive(r) ==
  LET v == run[r]
      w == run'[r]
  IN  /\ Mode = "live" /\ v.m.phase = "submittingOrder" /\ v.authorized
      /\ w.authorized = FALSE /\ w.call = "none" /\ Unconfirmed(r)
      /\ UNCHANGED <<bracket, executions>>
      /\ Records(v.cycle, {"ACKNOWLEDGED", "REJECTED", "OUTCOME_UNKNOWN"})
      /\ \/ /\ w.m.phase = "reconcilingOrder"
            /\ Accepted(v.cycle) \/ exchange' = exchange
         \/ /\ w.m.phase \in {"retryingExecution", "cancelling", "persisting"}
            /\ exchange' = exchange

(* A paper order is resolved from its row.                                 *)
ReconcilesPaper(r) ==
  LET v == run[r]
      w == run'[r]
  IN  /\ Mode = "paper" /\ v.m.phase = "reconcilingOrder"
      /\ w.m.phase \in Resolving \cup {"persisting", "failed"}
      /\ w.authorized = FALSE /\ w.call = "none"
      /\ UNCHANGED <<portfolio, orders, exchange, bracket, executions>>
      /\ \/ Executed(r) /\ w.port = orders[v.cycle].booked
         \/ w.port = v.port

(* Any part of the account is closed.                                      *)
Emptied == \E S \in SUBSET (OpenOrders \cup Held): exchange' = Closed(S)

(* The exchange answers a replay, a lookup or an unwinding.                *)
ReconcilesLive(r) ==
  LET v == run[r]
      w == run'[r]
      c == v.cycle
  IN  /\ Mode = "live" /\ v.m.phase = "reconcilingOrder"
      /\ w.m.phase \in Resolving \cup {"persisting", "failed"}
      /\ w.authorized => v.authorized
      /\ w.call \in {"none", "lookup"}
      /\ UNCHANGED <<bracket, executions>>
      /\ Unconfirmed(r) \/ (Protected(c) /\ exchange' = exchange)
      /\ \/ Records(c, {"ACKNOWLEDGED", "REJECTED"})
         \/ Record(c, "CONFIRMED", TRUE) /\ Protected(c) /\ exchange' = exchange
         \/ Record(c, "PROTECTION_FAILED", TRUE) /\ v.call = "unwind" /\ Emptied
      /\ exchange' = exchange \/ Accepted(c) \/ Emptied

(* A kill closes some or all of the account.                               *)
Empties(r) ==
  /\ Mode = "live" /\ run[r].m.phase = "cancelling"
  /\ run'[r].m.phase \notin CyclePhases
  /\ run'[r].authorized = run[r].authorized /\ run'[r].call = "none"
  /\ Unconfirmed(r)
  /\ UNCHANGED <<orders, bracket, executions>>
  /\ Emptied

Trades(r) ==
  \/ Quiet(r) \/ Intends(r) \/ Authorizes(r) \/ SubmitsPaper(r)
  \/ SubmitsLive(r) \/ ReconcilesPaper(r) \/ ReconcilesLive(r) \/ Empties(r)

(* The record of a run after a step.                                       *)
Becomes(r, n, call, art, authorized, port) ==
  /\ run'[r].m = n /\ run'[r].call = call /\ run'[r].art = art
  /\ run'[r].authorized = authorized /\ run'[r].port = port
  /\ run'[r].trigger = run[r].trigger

LEMMA SentBecomes ==
  ASSUME IInv, NEW r \in Runs
  PROVE  LET v == run[r]
         IN  /\ \A n: Send(r, n) =>
                  machine' = n /\ Becomes(r, n, "none", v.art, v.authorized, v.port)
             /\ \A n, art: SendWith(r, n, art) =>
                  machine' = n /\ Becomes(r, n, "none", art, v.authorized, v.port)
             /\ \A n: Refuse(r, n) =>
                  machine' = n /\ Becomes(r, n, "none", v.art, FALSE, v.port)
             /\ \A c: Await(r, c) =>
                  Becomes(r, v.m, c, v.art, v.authorized, v.port)
             /\ \A booked, n, f: Confirm(r, booked, n, f) =>
                  /\ machine' \in {n, f}
                  /\ Becomes(r, machine', "none", With(r, "execution"), FALSE, booked)
<1>1. run[r] \in RunRecords /\ run \in [Runs -> RunRecords]
  BY RunFacts, Parts
<1> DEFINE v == run[r]
<1>2. \A n: Send(r, n) =>
        machine' = n /\ Becomes(r, n, "none", v.art, v.authorized, v.port)
  BY <1>1 DEF Send, Becomes, RunRecords
<1>3. \A n, art: SendWith(r, n, art) =>
        machine' = n /\ Becomes(r, n, "none", art, v.authorized, v.port)
  BY <1>1 DEF SendWith, Becomes, RunRecords
<1>4. \A n: Refuse(r, n) =>
        machine' = n /\ Becomes(r, n, "none", v.art, FALSE, v.port)
  BY <1>1 DEF Refuse, Becomes, RunRecords
<1>5. \A c: Await(r, c) => Becomes(r, v.m, c, v.art, v.authorized, v.port)
  BY <1>1 DEF Await, Becomes, RunRecords
<1>6. \A booked, n, f: Confirm(r, booked, n, f) =>
        /\ machine' \in {n, f}
        /\ Becomes(r, machine', "none", With(r, "execution"), FALSE, booked)
  <2> SUFFICES ASSUME NEW booked, NEW n, NEW f, Confirm(r, booked, n, f)
               PROVE  /\ machine' \in {n, f}
                      /\ Becomes(r, machine', "none", With(r, "execution"), FALSE,
                                 booked)
    OBVIOUS
  <2> DEFINE x == machine'
             art == With(r, "execution")
  <2>1. x \in {n, f} /\ run' = Taken(r, booked, x)
    BY DEF Confirm
  <2> HIDE DEF x, art
  <2>2. run' = [run EXCEPT ![r].m = x, ![r].call = "none", ![r].authorized = FALSE,
                           ![r].art = art, ![r].port = booked]
    BY <2>1 DEF Taken, art
  <2>3. Becomes(r, x, "none", art, FALSE, booked)
    BY <1>1, <2>2 DEF Becomes, RunRecords
  <2> QED BY <2>1, <2>3 DEF x, art
<1> QED  BY <1>2, <1>3, <1>4, <1>5, <1>6

(* A step that leaves the order alone, from one phase to one of P.         *)
LeavesOrder(r) ==
  /\ UNCHANGED <<orders, exchange, bracket, executions>>
  /\ Mode = "paper" => portfolio' = portfolio

MayLead(p, P) ==
  \A q \in P:
    /\ Flows(p, q)
    /\ q \in Deciding => p \in Deciding \/ (p \in Preparing /\ Mode = "paper")

(* The machine n is in one of the phases P, and no more confirmed than m.  *)
Leads(m, n, P) ==
  n.phase \in P /\ (n.outcome = "ORDER_CONFIRMED" => m.outcome = "ORDER_CONFIRMED")

LEMMA GoesLeads ==
  ASSUME NEW m, NEW n, NEW P, Goes(m, n, P)
  PROVE  Leads(m, n, P)
BY DEF Goes, Like, Leads

LEMMA QuietBecomes ==
  ASSUME IInv, NEW r \in Runs, LeavesOrder(r), run[r].m.phase # "waiting",
         run[r].m.phase # "submittingOrder",
         NEW n, NEW P, Leads(run[r].m, n, P), MayLead(run[r].m.phase, P),
         NEW art, Becomes(r, n, "none", art, run[r].authorized, run[r].port)
  PROVE  /\ Quiet(r) /\ run'[r].m = n /\ n.phase \in P /\ Flows(run[r].m.phase, n.phase)
         /\ run'[r].art = art /\ run'[r].trigger = FALSE
<1>1. run[r].trigger = FALSE
  BY RunFacts
<1> DEFINE p == run[r].m.phase
           q == n.phase
<1>2. /\ q \in P /\ Flows(p, q)
      /\ q \in Deciding => p \in Deciding \/ (p \in Preparing /\ Mode = "paper")
      /\ n.outcome = "ORDER_CONFIRMED" => run[r].m.outcome = "ORDER_CONFIRMED"
  BY DEF Leads, MayLead
<1>3. Quiet(r)
  <2>1. /\ run'[r].m = n /\ run'[r].call = "none"
        /\ run'[r].authorized = run[r].authorized /\ run'[r].port = run[r].port
        /\ Unconfirmed(r)
    BY <1>2 DEF Becomes, Unconfirmed
  <2> QED BY <1>2, <2>1 DEF Quiet, LeavesOrder
<1>4. run'[r].m = n /\ run'[r].art = art /\ run'[r].trigger = FALSE
  BY <1>1 DEF Becomes
<1> QED  BY <1>2, <1>3, <1>4

(* It sends an event.                                                      *)
LEMMA QuietSend ==
  ASSUME IInv, NEW r \in Runs, LeavesOrder(r), run[r].m.phase # "waiting",
         run[r].m.phase # "submittingOrder", rows' = rows,
         NEW n, NEW P, Goes(run[r].m, n, P), MayLead(run[r].m.phase, P),
         \A q \in P \cap CyclePhases: Kept(q) \subseteq Kept(run[r].m.phase),
         Send(r, n)
  PROVE  Copies(r) /\ Quiet(r)
<1>1. Becomes(r, n, "none", run[r].art, run[r].authorized, run[r].port)
  BY SentBecomes
<1>2. /\ Quiet(r) /\ run'[r].m = n /\ n.phase \in P
      /\ Flows(run[r].m.phase, n.phase)
      /\ run'[r].art = run[r].art /\ run'[r].trigger = FALSE
  <2>1. Leads(run[r].m, n, P)
    BY GoesLeads
  <2> QED BY <1>1, <2>1, QuietBecomes
<1> QED  BY <1>2 DEF Copies, Flows

(* It checkpoints what it computed.                                        *)
LEMMA QuietCheckpoint ==
  ASSUME IInv, NEW r \in Runs, LeavesOrder(r), run[r].m.phase \in CyclePhases,
         run[r].m.phase # "submittingOrder",
         NEW n, NEW P, Leads(run[r].m, n, P), MayLead(run[r].m.phase, P),
         NEW f, NEW F, Leads(run[r].m, f, F), MayLead(run[r].m.phase, F),
         \A q \in F \cap CyclePhases: Kept(q) = {},
         NEW art, run[r].art.has \subseteq art.has,
         \A q \in P \cap CyclePhases: Kept(q) \subseteq Kept(run[r].m.phase) \cup art.has,
         Checkpoint(r, art, n, f)
  PROVE  Copies(r) /\ Quiet(r)
<1>0. run[r].m.phase # "waiting"
  BY DEF CyclePhases, Preparing, Deciding, Resolving
<1>1. CASE rows' = Saved(r, art, machine.outcome) /\ SendWith(r, n, art)
  <2>1. Becomes(r, n, "none", art, run[r].authorized, run[r].port)
    BY <1>1, SentBecomes
  <2>2. /\ Quiet(r) /\ run'[r].m = n /\ n.phase \in P
        /\ run'[r].art = art /\ run'[r].trigger = FALSE
    BY <1>0, <2>1, QuietBecomes
  <2> QED BY <1>0, <1>1, <2>2 DEF Copies
<1>2. CASE rows' = rows /\ SendWith(r, f, art)
  <2>1. Becomes(r, f, "none", art, run[r].authorized, run[r].port)
    BY <1>2, SentBecomes
  <2>2. /\ Quiet(r) /\ run'[r].m = f /\ f.phase \in F
        /\ run'[r].art = art /\ run'[r].trigger = FALSE
    BY <1>0, <2>1, QuietBecomes
  <2> QED BY <1>0, <1>2, <2>2 DEF Copies
<1> QED  BY <1>1, <1>2 DEF Checkpoint

(* It awaits the network.                                                  *)
LEMMA QuietAwait ==
  ASSUME IInv, NEW r \in Runs, LeavesOrder(r), rows' = rows,
         run[r].m.phase # "waiting", NEW c, Await(r, c),
         c = "replay" => ~orders[run[r].cycle].idKnown,
         c = "unwind" => exchange[run[r].cycle] \in {"filled", "closed"}
  PROVE  Copies(r) /\ Quiet(r)
<1>1. Becomes(r, run[r].m, c, run[r].art, run[r].authorized, run[r].port)
  BY SentBecomes
<1>2. run[r].trigger = FALSE
  BY RunFacts
<1>3. Flows(run[r].m.phase, run[r].m.phase)
  BY DEF Flows
<1>4. /\ run'[r].m = run[r].m /\ run'[r].call = c /\ run'[r].art = run[r].art
      /\ run'[r].authorized = run[r].authorized /\ run'[r].port = run[r].port
      /\ run'[r].trigger = FALSE
  BY <1>1, <1>2 DEF Becomes
<1>5. Copies(r)
  BY <1>4 DEF Copies
<1>6. Quiet(r)
  BY <1>3, <1>4 DEF Quiet, LeavesOrder, Unconfirmed
<1> QED  BY <1>5, <1>6

LEMMA FireAlarmFires ==
  ASSUME IInv, NEW r \in Runs, FireAlarm(r)
  PROVE  Fires(r)
<1> DEFINE n == AlarmFired(run[r].m, run[r].cycle)
<1>1. /\ run[r].m.phase = "waiting" /\ run[r].trigger /\ run[r].call = "none"
      /\ run[r] \in RunRecords /\ run \in [Runs -> RunRecords]
      /\ run[r].m \in Machines /\ run[r].m.cycleId \in Nat
      /\ run[r].cycle \in 0..MaxCycles /\ MaxCycles \in Nat
  BY RunFacts, Parts, Bounds DEF FireAlarm, At
<1>2. run[r].cycle > run[r].m.cycleId
  BY <1>1, Parts DEF ThreadInForm, RunInForm
<1>3. run[r].cycle \in Nat /\ run[r].cycle # run[r].m.cycleId
  BY <1>1, <1>2
<1>4. /\ n.phase \in {"reconcilingAccount", "cancelling"} /\ n.outcome = "RUNNING"
      /\ n.cycleId = run[r].cycle
  BY <1>1, <1>3, AlarmGoes
<1> HIDE DEF n
<1>5. run' = [run EXCEPT ![r].m = n, ![r].art = NewArtifacts, ![r].trigger = FALSE]
  BY DEF FireAlarm, n
<1>6. /\ run'[r].m = n /\ run'[r].trigger = FALSE /\ run'[r].art = NewArtifacts
      /\ run'[r].authorized = run[r].authorized /\ run'[r].port = run[r].port
      /\ run'[r].call = run[r].call
  BY <1>1, <1>5 DEF RunRecords
<1> QED  BY <1>1, <1>4, <1>6 DEF Fires, FireAlarm, venue, history

(* What steps that leave the order alone have in common.                   *)
LEMMA LeavesBy ==
  ASSUME UNCHANGED <<portfolio, orders, venue>>, executions' = executions
  PROVE  \A r \in Runs: LeavesOrder(r)
BY DEF LeavesOrder, venue

LEMMA EnsureScheduleTrades ==
  ASSUME IInv, NEW r \in Runs, EnsureSchedule(r)
  PROVE  Copies(r) /\ Quiet(r)
<1>1. /\ run[r].m.phase = "scheduling" /\ run[r].m \in Machines
      /\ rows' = rows /\ LeavesOrder(r)
  BY RunFacts, LeavesBy DEF EnsureSchedule, At, history
<1>2. \A P \in {{"waiting", "cancelling"}, {"retryingSchedule", "cancelling", "failed"}}:
        P \cap CyclePhases = {} /\ MayLead("scheduling", P)
  BY DEF MayLead, Flows, CyclePhases, Preparing, Deciding, Resolving, Sending
<1>3. CASE Send(r, ScheduleSucceeded(run[r].m))
  BY <1>1, <1>2, <1>3, ScheduleGoes, QuietSend
<1>4. CASE Send(r, ScheduleFailed(run[r].m, TRUE))
  BY <1>1, <1>2, <1>4, ScheduleGoes, QuietSend
<1> QED  BY <1>3, <1>4 DEF EnsureSchedule

LEMMA RetryLeads ==
  ASSUME NEW m \in Machines, m.phase \in RetryPhases
  PROVE  \E P: /\ Goes(m, RetryTimerElapsed(m), P) /\ MayLead(m.phase, P)
               /\ \A q \in P \cap CyclePhases: Kept(q) \subseteq Kept(m.phase)
<1> DEFINE p == m.phase
           P == Targets(RetryTarget(p))
<1>1. Goes(m, RetryTimerElapsed(m), P)
  BY RetryGoes
<1>2. /\ MayLead(p, P)
      /\ \A q \in P \cap CyclePhases: Kept(q) \subseteq Kept(p)
  <2>1. CASE p \in {"retryingSchedule", "retryingPersistence"}
    BY <2>1 DEF Targets, RetryTarget, MayLead, Flows, CyclePhases, Preparing,
       Deciding, Resolving, Sending, CancellablePhases
  <2>2. CASE p \in {"retryingAccountReconciliation", "retryingMarketData"}
    BY <2>2 DEF Targets, RetryTarget, MayLead, Flows, CyclePhases, Preparing,
       Deciding, Resolving, Sending, CancellablePhases, Kept
  <2>3. CASE p \in {"retryingAuthorization", "retryingExecution",
                    "retryingReconciliation"}
    BY <2>3 DEF Targets, RetryTarget, MayLead, Flows, CyclePhases, Preparing,
       Deciding, Resolving, Sending, CancellablePhases, Kept
  <2> QED BY <2>1, <2>2, <2>3 DEF RetryPhases
<1> QED  BY <1>1, <1>2

LEMMA RetrySend ==
  ASSUME IInv, NEW r \in Runs, LeavesOrder(r), rows' = rows,
         run[r].m.phase \in RetryPhases, Send(r, RetryTimerElapsed(run[r].m))
  PROVE  Copies(r) /\ Quiet(r)
<1>1. PICK P: /\ Goes(run[r].m, RetryTimerElapsed(run[r].m), P)
              /\ MayLead(run[r].m.phase, P)
              /\ \A q \in P \cap CyclePhases: Kept(q) \subseteq Kept(run[r].m.phase)
  BY RunFacts, RetryLeads
<1>2. run[r].m.phase \notin {"waiting", "submittingOrder"}
  BY DEF RetryPhases
<1> QED  BY <1>1, <1>2, QuietSend

LEMMA RetryNowTrades ==
  ASSUME IInv, NEW r \in Runs, RetryNow(r)
  PROVE  Copies(r) /\ Quiet(r)
<1>1. /\ run[r].m.phase \in RetryPhases /\ Send(r, RetryTimerElapsed(run[r].m))
      /\ rows' = rows /\ LeavesOrder(r)
  BY LeavesBy DEF RetryNow, At, history
<1> QED  BY <1>1, RetrySend

LEMMA PlanMarketRetryTrades ==
  ASSUME IInv, NEW r \in Runs, PlanMarketRetry(r)
  PROVE  Copies(r) /\ Quiet(r)
<1> DEFINE planned == [run[r].art EXCEPT !.loaded = TRUE,
                         !.retry = run[r].m.attempts["marketData"]]
<1>1. /\ run[r].m.phase = "retryingMarketData" /\ run[r].trigger = FALSE
      /\ run[r].m.phase \in CyclePhases /\ run[r].m.phase \in RetryPhases
      /\ run[r].m.phase # "waiting" /\ run[r].m.phase # "submittingOrder"
      /\ LeavesOrder(r) /\ run[r] \in RunRecords /\ run \in [Runs -> RunRecords]
  BY RunFacts, LeavesBy, Parts DEF PlanMarketRetry, At, history, CyclePhases,
     Deciding, RetryPhases
<1>2. planned.has = run[r].art.has
  BY RunFacts DEF ArtifactSets
<1>3. Flows(run[r].m.phase, run[r].m.phase)
  BY DEF Flows
<1> HIDE DEF planned
<1>4. CASE rows' = rows /\ Send(r, RetryTimerElapsed(run[r].m))
  BY <1>1, <1>4, RetrySend
<1>5. CASE /\ rows' = Saved(r, planned, machine.outcome)
           /\ run' = [run EXCEPT ![r].art = planned, ![r].call = "return"]
  <2>1. Becomes(r, run[r].m, "return", planned, run[r].authorized, run[r].port)
    BY <1>1, <1>5 DEF Becomes, RunRecords
  <2>2. Copies(r)
    BY <1>1, <1>2, <1>5, <2>1 DEF Copies, Becomes
  <2>3. Quiet(r)
    BY <1>1, <1>3, <2>1 DEF Quiet, Becomes, LeavesOrder, Unconfirmed
  <2> QED BY <2>2, <2>3
<1>6. CASE rows' = rows /\ run' = [run EXCEPT ![r].call = "return"]
  <2>1. Becomes(r, run[r].m, "return", run[r].art, run[r].authorized, run[r].port)
    BY <1>1, <1>6 DEF Becomes, RunRecords
  <2>2. Copies(r)
    BY <1>1, <1>6, <2>1 DEF Copies, Becomes
  <2>3. Quiet(r)
    BY <1>1, <1>3, <2>1 DEF Quiet, Becomes, LeavesOrder, Unconfirmed
  <2> QED BY <2>2, <2>3
<1> QED  BY <1>4, <1>5, <1>6 DEF PlanMarketRetry, planned

LEMMA ResumeMarketRetryTrades ==
  ASSUME IInv, NEW r \in Runs, ResumeMarketRetry(r)
  PROVE  Copies(r) /\ Quiet(r)
<1>1. /\ run[r].m.phase \in RetryPhases /\ run[r].trigger = FALSE
      /\ run[r].m.phase # "waiting" /\ run[r].m.phase # "submittingOrder"
      /\ LeavesOrder(r) /\ run[r] \in RunRecords /\ run \in [Runs -> RunRecords]
      /\ rows' = rows
  BY RunFacts, LeavesBy, Parts DEF ResumeMarketRetry, At, history, RetryPhases
<1>2. CASE Send(r, RetryTimerElapsed(run[r].m))
  BY <1>1, <1>2, RetrySend
<1>3. CASE run' = [run EXCEPT ![r].call = "return"]
  <2>1. Becomes(r, run[r].m, "return", run[r].art, run[r].authorized, run[r].port)
    BY <1>1, <1>3 DEF Becomes, RunRecords
  <2>2. Copies(r)
    BY <1>1, <2>1 DEF Copies, Becomes
  <2>3. Flows(run[r].m.phase, run[r].m.phase)
    BY DEF Flows
  <2>4. Quiet(r)
    BY <1>1, <2>1, <2>3 DEF Quiet, Becomes, LeavesOrder, Unconfirmed
  <2> QED BY <2>2, <2>4
<1> QED  BY <1>2, <1>3 DEF ResumeMarketRetry

LEMMA AccountLeads ==
  LET p == "reconcilingAccount"
  IN  /\ Mode = "paper" => MayLead(p, {"fetchingMarketData", "cancelling"})
      /\ MayLead(p, {"retryingAccountReconciliation", "cancelling", "persisting"})
      /\ \A q \in {"fetchingMarketData", "retryingAccountReconciliation",
                   "cancelling", "persisting"}: Kept(q) = {} /\ Flows(p, q)
BY DEF MayLead, Flows, CyclePhases, Preparing, Deciding, Resolving, Sending, Kept

LEMMA ReconcileAccountTrades ==
  ASSUME IInv, NEW r \in Runs, ReconcileAccount(r)
  PROVE  Copies(r) /\ Quiet(r)
<1>1. /\ run[r].m.phase = "reconcilingAccount" /\ run[r].m \in Machines
      /\ rows' = rows /\ LeavesOrder(r)
  BY RunFacts, LeavesBy DEF ReconcileAccount, At, history
<1>2. CASE Mode = "paper" /\ Send(r, AccountReconciled(run[r].m))
  BY <1>1, <1>2, AccountGoes, AccountLeads, QuietSend
<1>3. CASE Await(r, "account")
  BY <1>1, <1>3, QuietAwait
<1> QED  BY <1>2, <1>3 DEF ReconcileAccount

LEMMA FetchMarketDataTrades ==
  ASSUME IInv, NEW r \in Runs, FetchMarketData(r)
  PROVE  Copies(r) /\ Quiet(r)
<1>1. /\ run[r].m.phase = "fetchingMarketData" /\ rows' = rows /\ LeavesOrder(r)
      /\ Await(r, "market")
  BY LeavesBy DEF FetchMarketData, At, history
<1> QED  BY <1>1, QuietAwait

LEMMA AccountAnswerTrades ==
  ASSUME IInv, NEW r \in Runs, AccountAnswer(r)
  PROVE  Copies(r) /\ Quiet(r)
<1>1. /\ run[r].m.phase = "reconcilingAccount" /\ run[r].m \in Machines
      /\ Mode = "live" /\ run[r].trigger = FALSE
      /\ run[r] \in RunRecords /\ run \in [Runs -> RunRecords]
      /\ rows' = rows /\ LeavesOrder(r)
  BY RunFacts, LeavesBy, Parts DEF AccountAnswer, Answered, CallFits, history
<1>2. CASE /\ AccountIsOwned
           /\ machine' = AccountReconciled(run[r].m)
           /\ run' = [run EXCEPT ![r].m = machine', ![r].call = "none",
                                 ![r].port = Held, ![r].exposureKnown = TRUE]
  <2> DEFINE n == AccountReconciled(run[r].m)
  <2>1. Leads(run[r].m, n, {"fetchingMarketData", "cancelling"})
    BY <1>1, AccountGoes, GoesLeads
  <2>2. machine' = n
    BY <1>2
  <2> HIDE DEF n
  <2>3. run' = [run EXCEPT ![r].m = n, ![r].call = "none",
                           ![r].port = Held, ![r].exposureKnown = TRUE]
    BY <1>2, <2>2
  <2>4. Becomes(r, n, "none", run[r].art, run[r].authorized, Held)
    BY <1>1, <2>3 DEF Becomes, RunRecords
  <2>5. /\ n.phase \in {"fetchingMarketData", "cancelling"}
        /\ Kept(n.phase) = {} /\ Flows(run[r].m.phase, n.phase)
        /\ run[r].m.phase \in Preparing
    BY <1>1, <2>1, AccountLeads DEF Leads, Preparing
  <2>6. Copies(r)
    BY <1>1, <2>4, <2>5 DEF Copies, Becomes, Flows
  <2>7. Quiet(r)
    BY <1>1, <1>2, <2>1, <2>4, <2>5 DEF Quiet, Becomes, LeavesOrder, Unconfirmed,
       Leads
  <2> QED BY <2>6, <2>7
<1>3. ASSUME NEW b \in BOOLEAN, Send(r, AccountReconciliationFailed(run[r].m, b))
      PROVE  Copies(r) /\ Quiet(r)
  BY <1>1, <1>3, AccountGoes, AccountLeads, QuietSend
<1> QED  BY <1>2, <1>3 DEF AccountAnswer

LEMMA MarketLeads ==
  /\ \A P \in SUBSET {"computingIndicators", "cancelling", "retryingMarketData",
                      "persisting"}: MayLead("fetchingMarketData", P)
  /\ \A q \in {"cancelling", "retryingMarketData", "persisting"}: Kept(q) = {}
  /\ Kept("computingIndicators") = {"market"}
BY DEF MayLead, Flows, CyclePhases, Preparing, Deciding, Resolving, Sending, Kept

LEMMA MarketAnswerTrades ==
  ASSUME IInv, NEW r \in Runs, MarketAnswer(r)
  PROVE  Copies(r) /\ Quiet(r)
<1> DEFINE m == run[r].m
           at == triggered[run[r].cycle]
           P == {"computingIndicators", "cancelling", "retryingMarketData", "persisting"}
           F == {"retryingMarketData", "cancelling", "persisting"}
<1>1. /\ m.phase = "fetchingMarketData" /\ m \in Machines
      /\ m.phase \in CyclePhases /\ LeavesOrder(r)
  BY RunFacts, LeavesBy DEF MarketAnswer, Answered, CallFits, CyclePhases, Deciding
<1>2. \A b \in BOOLEAN: Goes(m, MarketDataFailed(m, b), F)
  BY <1>1, MarketFailedGoes
<1>3. at \in Nat /\ at # 0
  <2>1. /\ run[r].cycle \in Cycles /\ run[r].cycle <= used
        /\ triggered \in [Cycles -> 0..MaxCandle] /\ MaxCandle \in Nat
    BY <1>1, RunFacts, Parts, Bounds
  <2>2. triggered[run[r].cycle] \in 0..MaxCandle /\ triggered[run[r].cycle] # 0
    BY <2>1, Parts DEF CyclesAreFresh
  <2> QED BY <2>1, <2>2
<1> HIDE DEF at
<1>4. ASSUME NEW k \in {at - 1, at} \ {0}, NEW fresh \in BOOLEAN,
             Checkpoint(r, With(r, "market"), MarketDataReady(m, k, fresh),
                        MarketDataFailed(m, TRUE))
      PROVE  Copies(r) /\ Quiet(r)
  <2> DEFINE n == MarketDataReady(m, k, fresh)
             f == MarketDataFailed(m, TRUE)
             art == With(r, "market")
  <2>1. k \in Nat /\ k # 0
    BY <1>3
  <2>2. Leads(m, n, P)
    BY <1>1, <2>1, MarketReadyGoes DEF Leads
  <2>3. Leads(m, f, F)
    BY <1>2, GoesLeads
  <2>4. art.has = run[r].art.has \cup {"market"}
    BY WithType DEF Artifacts
  <2>5. /\ MayLead(m.phase, P) /\ MayLead(m.phase, F)
        /\ \A q \in F: Kept(q) = {}
        /\ \A q \in P: Kept(q) \subseteq art.has
    BY <1>1, <2>4, MarketLeads
  <2>6. Checkpoint(r, art, n, f)
    BY <1>4
  <2> HIDE DEF n, f, art, P, F
  <2>7. /\ run[r].art.has \subseteq art.has
        /\ \A q \in F \cap CyclePhases: Kept(q) = {}
        /\ \A q \in P \cap CyclePhases: Kept(q) \subseteq Kept(m.phase) \cup art.has
    BY <2>4, <2>5
  <2>8. m.phase # "submittingOrder"
    BY <1>1
  <2>9. /\ Leads(run[r].m, n, P) /\ MayLead(run[r].m.phase, P)
        /\ Leads(run[r].m, f, F) /\ MayLead(run[r].m.phase, F)
        /\ run[r].m.phase \in CyclePhases /\ run[r].m.phase # "submittingOrder"
        /\ \A q \in P \cap CyclePhases: Kept(q) \subseteq Kept(run[r].m.phase) \cup art.has
    BY <1>1, <2>2, <2>3, <2>5, <2>7, <2>8
  <2> QED BY <1>1, <2>6, <2>7, <2>9, QuietCheckpoint
<1>5. ASSUME NEW b \in BOOLEAN, Send(r, MarketDataFailed(m, b)), rows' = rows
      PROVE  Copies(r) /\ Quiet(r)
  BY <1>1, <1>2, <1>5, MarketLeads, QuietSend
<1> QED  BY <1>4, <1>5 DEF MarketAnswer, at

LEMMA ComputeTrades ==
  ASSUME IInv, NEW r \in Runs, NEW p \in Deciding, NEW needs, NEW yields \in Artifacts,
         NEW n, NEW P, Goes(run[r].m, n, P), MayLead(p, P),
         \A q \in P \cap CyclePhases: Kept(q) \subseteq Kept(p) \cup {yields},
         Compute(r, p, needs, yields, n)
  PROVE  Copies(r) /\ Quiet(r)
<1> DEFINE f == CycleFailed(run[r].m)
           art == With(r, yields)
<1>1. /\ run[r].m.phase = p /\ run[r].m \in Machines /\ LeavesOrder(r)
      /\ p \in CyclePhases /\ p # "waiting" /\ p # "submittingOrder"
  BY RunFacts, LeavesBy DEF Compute, At, history, CyclePhases, Deciding
<1>2. Goes(run[r].m, f, {"persisting"}) /\ Leads(run[r].m, f, {"persisting"})
  BY <1>1, CycleFailedGoes, GoesLeads
<1>3. /\ MayLead(p, {"persisting"})
      /\ "persisting" \notin CyclePhases
  BY DEF MayLead, Flows, CyclePhases, Preparing, Deciding, Resolving, Sending
<1>4. art.has = run[r].art.has \cup {yields}
  BY WithType
<1>5. CASE Checkpoint(r, art, n, f)
  <2> HIDE DEF f, art
  <2>1. Leads(run[r].m, n, P)
    BY GoesLeads
  <2>2. /\ run[r].art.has \subseteq art.has
        /\ \A q \in P \cap CyclePhases: Kept(q) \subseteq Kept(p) \cup art.has
        /\ \A q \in {"persisting"} \cap CyclePhases: Kept(q) = {}
    BY <1>3, <1>4
  <2> QED BY <1>1, <1>2, <1>3, <1>5, <2>1, <2>2, QuietCheckpoint
<1>6. CASE Send(r, f) /\ rows' = rows
  <2> HIDE DEF f
  <2>1. \A q \in {"persisting"} \cap CyclePhases: Kept(q) \subseteq Kept(p)
    BY <1>3
  <2> QED BY <1>1, <1>2, <1>3, <1>6, <2>1, QuietSend
<1> QED  BY <1>5, <1>6 DEF Compute

LEMMA DecisionTrades ==
  ASSUME IInv, NEW r \in Runs,
         ComputeIndicators(r) \/ EvaluateStrategies(r) \/ Allocate(r)
  PROVE  Copies(r) /\ Quiet(r)
<1>1. run[r].m \in Machines
  BY RunFacts
<1>2. /\ MayLead("computingIndicators", {"evaluatingStrategies", "cancelling"})
      /\ MayLead("evaluatingStrategies", {"allocating", "cancelling"})
      /\ MayLead("allocating", {"checkingRisk", "cancelling"})
      /\ MayLead("allocating", {"persisting"})
  BY DEF MayLead, Flows, CyclePhases, Preparing, Deciding, Resolving, Sending
<1>3. /\ {"computingIndicators", "evaluatingStrategies", "allocating"} \subseteq Deciding
      /\ {"indicators", "signals", "order"} \subseteq Artifacts
      /\ "cancelling" \notin CyclePhases /\ "persisting" \notin CyclePhases
  BY DEF CyclePhases, Preparing, Deciding, Resolving, Artifacts
<1>4. /\ Kept("evaluatingStrategies") \subseteq Kept("computingIndicators") \cup {"indicators"}
      /\ Kept("allocating") \subseteq Kept("evaluatingStrategies") \cup {"signals"}
      /\ Kept("checkingRisk") \subseteq Kept("allocating") \cup {"order"}
  BY DEF Kept, Sending, Resolving
<1>5. CASE ComputeIndicators(r)
  <2>1. Goes(run[r].m, IndicatorsComputed(run[r].m), {"evaluatingStrategies", "cancelling"})
    BY <1>1, DecisionGoes
  <2>2. \A q \in {"evaluatingStrategies", "cancelling"} \cap CyclePhases:
          Kept(q) \subseteq Kept("computingIndicators") \cup {"indicators"}
    BY <1>3, <1>4
  <2> QED BY <1>2, <1>3, <1>5, <2>1, <2>2, ComputeTrades DEF ComputeIndicators
<1>6. CASE EvaluateStrategies(r)
  <2>1. Goes(run[r].m, StrategiesEvaluated(run[r].m), {"allocating", "cancelling"})
    BY <1>1, DecisionGoes
  <2>2. \A q \in {"allocating", "cancelling"} \cap CyclePhases:
          Kept(q) \subseteq Kept("evaluatingStrategies") \cup {"signals"}
    BY <1>3, <1>4
  <2> QED BY <1>2, <1>3, <1>6, <2>1, <2>2, ComputeTrades DEF EvaluateStrategies
<1>7. CASE Compute(r, "allocating", {"market", "signals"}, "order",
                   AllocationCompleted(run[r].m, TRUE))
  <2>1. Goes(run[r].m, AllocationCompleted(run[r].m, TRUE), {"checkingRisk", "cancelling"})
    BY <1>1, DecisionGoes
  <2>2. \A q \in {"checkingRisk", "cancelling"} \cap CyclePhases:
          Kept(q) \subseteq Kept("allocating") \cup {"order"}
    BY <1>3, <1>4
  <2> QED BY <1>2, <1>3, <1>7, <2>1, <2>2, ComputeTrades
<1>8. CASE Compute(r, "allocating", {"market", "signals"}, "signals",
                   AllocationCompleted(run[r].m, FALSE))
  <2>1. Goes(run[r].m, AllocationCompleted(run[r].m, FALSE), {"persisting"})
    BY <1>1, DecisionGoes
  <2>2. \A q \in {"persisting"} \cap CyclePhases:
          Kept(q) \subseteq Kept("allocating") \cup {"signals"}
    BY <1>3
  <2> QED BY <1>2, <1>3, <1>8, <2>1, <2>2, ComputeTrades
<1> QED  BY <1>5, <1>6, <1>7, <1>8 DEF Allocate

LEMMA CopiesBecomes ==
  ASSUME IInv, NEW r \in Runs, run[r].m.phase # "waiting",
         NEW n, NEW call, NEW art, NEW authorized, NEW port,
         Becomes(r, n, call, art, authorized, port),
         run[r].art.has \subseteq art.has,
         art.loaded => run[r].art.loaded \/ run[r].m.phase \in CyclePhases,
         n.phase \in CyclePhases => run[r].m.phase \in CyclePhases,
         \/ /\ rows' = rows
            /\ n.phase \in CyclePhases => Kept(n.phase) \subseteq Kept(run[r].m.phase)
         \/ /\ run[r].art.loaded \/ run[r].m.phase \in CyclePhases
            /\ \E o \in {machine.outcome, run[r].m.outcome}: rows' = Saved(r, art, o)
            /\ n.phase \in CyclePhases =>
                 Kept(n.phase) \subseteq Kept(run[r].m.phase) \cup art.has
  PROVE  Copies(r)
<1>1. run'[r].m = n /\ run'[r].art = art /\ run'[r].trigger = FALSE
  BY RunFacts DEF Becomes
<1> QED  BY <1>1 DEF Copies

LEMMA CheckRiskTrades ==
  ASSUME IInv, NEW r \in Runs, CheckRisk(r)
  PROVE  Copies(r) /\ Quiet(r)
<1> DEFINE n == RiskApproved(run[r].m)
           x == RiskRejected(run[r].m)
           f == CycleFailed(run[r].m)
           art == With(r, "risk")
           P == {"persistingOrderIntent", "cancelling"}
           F == {"persisting"}
<1>1. /\ run[r].m.phase = "checkingRisk" /\ run[r].m \in Machines /\ LeavesOrder(r)
      /\ run[r].m.phase \in CyclePhases
      /\ run[r].m.phase # "waiting" /\ run[r].m.phase # "submittingOrder"
  BY RunFacts, LeavesBy DEF CheckRisk, At, CyclePhases, Deciding
<1>2. /\ Goes(run[r].m, f, F) /\ Leads(run[r].m, f, F)
      /\ Leads(run[r].m, n, P) /\ Leads(run[r].m, x, F)
  BY <1>1, CycleFailedGoes, DecisionGoes, GoesLeads
<1>3. /\ MayLead(run[r].m.phase, P) /\ MayLead(run[r].m.phase, F)
      /\ F \cap CyclePhases = {}
  BY <1>1 DEF MayLead, Flows, CyclePhases, Preparing, Deciding, Resolving, Sending
<1>4. \A q \in P \cap CyclePhases: Kept(q) \subseteq Kept(run[r].m.phase) \cup {"risk"}
  BY <1>1 DEF Kept, CyclePhases, Preparing, Deciding, Resolving, Sending
<1>5. art.has = run[r].art.has \cup {"risk"}
  BY WithType DEF Artifacts
<1>6. \/ Checkpoint(r, art, n, f)
      \/ Checkpoint(r, run[r].art, x, f)
      \/ Send(r, f) /\ rows' = rows
  BY DEF CheckRisk
<1> HIDE DEF n, x, f, art, P, F
<1>7. /\ run[r].art.has \subseteq art.has /\ run[r].art.has \subseteq run[r].art.has
      /\ \A q \in F \cap CyclePhases: Kept(q) = {}
      /\ \A q \in F \cap CyclePhases: Kept(q) \subseteq Kept(run[r].m.phase) \cup run[r].art.has
      /\ \A q \in F \cap CyclePhases: Kept(q) \subseteq Kept(run[r].m.phase)
      /\ \A q \in P \cap CyclePhases: Kept(q) \subseteq Kept(run[r].m.phase) \cup art.has
  BY <1>3, <1>4, <1>5
<1>8. CASE Checkpoint(r, art, n, f)
  BY <1>1, <1>2, <1>3, <1>7, <1>8, QuietCheckpoint
<1>9. CASE Checkpoint(r, run[r].art, x, f)
  BY <1>1, <1>2, <1>3, <1>7, <1>9, QuietCheckpoint
<1>10. CASE Send(r, f) /\ rows' = rows
  BY <1>1, <1>2, <1>3, <1>7, <1>10, QuietSend
<1> QED  BY <1>6, <1>8, <1>9, <1>10

LEMMA PersistOrderIntentTrades ==
  ASSUME IInv, NEW r \in Runs, PersistOrderIntent(r)
  PROVE  Copies(r) /\ (Quiet(r) \/ Intends(r))
<1> DEFINE n == OrderIntentPersisted(run[r].m)
           f == CycleFailed(run[r].m)
           P == {"authorizing", "cancelling"}
           F == {"persisting"}
<1>1. /\ run[r].m.phase = "persistingOrderIntent" /\ run[r].m \in Machines
      /\ run[r].m.phase \in CyclePhases
      /\ run[r].m.phase # "waiting" /\ run[r].m.phase # "submittingOrder"
      /\ rows' = rows
      /\ UNCHANGED <<portfolio, exchange, bracket, executions>>
  BY RunFacts DEF PersistOrderIntent, At, CyclePhases, Deciding, venue, history
<1>2. Goes(run[r].m, f, F) /\ Leads(run[r].m, n, P)
  BY <1>1, CycleFailedGoes, DecisionGoes, GoesLeads
<1>3. MayLead(run[r].m.phase, F) /\ F \cap CyclePhases = {}
  BY <1>1 DEF MayLead, Flows, CyclePhases, Preparing, Deciding, Resolving, Sending
<1>4. \A q \in P \cap CyclePhases: Kept(q) \subseteq Kept(run[r].m.phase)
  BY <1>1 DEF Kept, CyclePhases, Preparing, Deciding, Resolving, Sending
<1>5. \/ Send(r, n) /\ orders' = Intended(run[r].cycle)
      \/ Send(r, f) /\ orders' = orders
  BY DEF PersistOrderIntent
<1>6. CASE Send(r, n) /\ orders' = Intended(run[r].cycle)
  <2>1. Becomes(r, n, "none", run[r].art, run[r].authorized, run[r].port)
    BY <1>6, SentBecomes
  <2>2. n.phase \in P /\ (n.outcome = "ORDER_CONFIRMED" => run[r].m.outcome = "ORDER_CONFIRMED")
    BY <1>2 DEF Leads
  <2> HIDE DEF n
  <2>3. n.phase \in CyclePhases => Kept(n.phase) \subseteq Kept(run[r].m.phase)
    BY <1>4, <2>2
  <2>4. Copies(r)
    BY <1>1, <2>1, <2>3, CopiesBecomes
  <2>5. Intends(r)
    BY <1>1, <1>6, <2>1, <2>2 DEF Intends, Becomes, Unconfirmed
  <2> QED BY <2>4, <2>5
<1>7. CASE Send(r, f) /\ orders' = orders
  <2>1. LeavesOrder(r)
    BY <1>1, <1>7 DEF LeavesOrder
  <2> HIDE DEF f, F
  <2>2. \A q \in F \cap CyclePhases: Kept(q) \subseteq Kept(run[r].m.phase)
    BY <1>3
  <2> QED BY <1>1, <1>2, <1>3, <1>7, <2>1, <2>2, QuietSend
<1> QED  BY <1>5, <1>6, <1>7

LEMMA AuthorizeTrades ==
  ASSUME IInv, NEW r \in Runs, Authorize(r)
  PROVE  Copies(r) /\ (Quiet(r) \/ Authorizes(r))
<1> DEFINE n == AuthorizationReady(run[r].m, TRUE)
           f == AuthorizationFailed(run[r].m, FALSE)
           F == {"retryingAuthorization", "cancelling", "persisting"}
<1>1. /\ run[r].m.phase = "authorizing" /\ run[r].m \in Machines
      /\ run[r].m.phase \in CyclePhases /\ run[r].call = "none"
      /\ run[r].m.phase # "waiting" /\ run[r].m.phase # "submittingOrder"
      /\ rows' = rows /\ MachineInForm(run[r].m)
      /\ UNCHANGED <<portfolio, orders, exchange, bracket, executions>>
      /\ run \in [Runs -> RunRecords] /\ run[r] \in RunRecords
  BY RunFacts, Parts DEF Authorize, At, CyclePhases, Deciding, venue, history
<1>2. run[r].m.shutdownMode = "none"
  BY <1>1 DEF MachineInForm, SettlingPhases
<1>3. /\ Goes(run[r].m, f, F) /\ n.phase = "submittingOrder"
      /\ n.outcome = "ORDER_CONFIRMED" => run[r].m.outcome = "ORDER_CONFIRMED"
  BY <1>1, <1>2, AuthorizationGoes DEF Goes, Like
<1>4. /\ MayLead(run[r].m.phase, F)
      /\ \A q \in F \cap CyclePhases: Kept(q) \subseteq Kept(run[r].m.phase)
      /\ Kept("submittingOrder") \subseteq Kept(run[r].m.phase)
  BY <1>1 DEF MayLead, Flows, CyclePhases, Preparing, Deciding, Resolving, Sending, Kept
<1>5. LeavesOrder(r)
  BY <1>1 DEF LeavesOrder
<1>6. CASE Send(r, f)
  <2> HIDE DEF f, F
  <2> QED BY <1>1, <1>3, <1>4, <1>5, <1>6, QuietSend
<1>7. CASE run' = [run EXCEPT ![r].m = n, ![r].authorized = TRUE]
  <2> HIDE DEF n
  <2>1. /\ run'[r].m = n /\ run'[r].authorized = TRUE /\ run'[r].call = "none"
        /\ run'[r].art = run[r].art /\ run'[r].port = run[r].port
        /\ run'[r].trigger = run[r].trigger
    BY <1>1, <1>7 DEF RunRecords
  <2>2. Becomes(r, n, "none", run[r].art, TRUE, run[r].port)
    BY <2>1 DEF Becomes
  <2>3. Copies(r)
    BY <1>1, <1>3, <1>4, <2>2, CopiesBecomes
  <2>4. Authorizes(r)
    BY <1>1, <1>3, <2>1 DEF Authorizes, Unconfirmed
  <2> QED BY <2>3, <2>4
<1> QED  BY <1>6, <1>7 DEF Authorize

LEMMA SubmitUnpreparedTrades ==
  ASSUME IInv, NEW r \in Runs, SubmitUnprepared(r)
  PROVE  Copies(r) /\ Quiet(r)
<1> DEFINE n == OrderOutcomeUnknown(run[r].m)
<1>1. /\ run[r].m.phase = "submittingOrder" /\ run[r].m \in Machines
      /\ run[r].m.phase \in CyclePhases /\ run[r].m.phase # "waiting"
      /\ rows' = rows /\ LeavesOrder(r) /\ ~ReadyToSubmit(r)
  BY RunFacts, LeavesBy DEF SubmitUnprepared, At, CyclePhases, history
<1>2. /\ n.phase = "reconcilingOrder"
      /\ n.outcome = "ORDER_CONFIRMED" => run[r].m.outcome = "ORDER_CONFIRMED"
  BY <1>1, OrderGoes DEF Goes, Like
<1>3. Flows("submittingOrder", "reconcilingOrder") /\ "reconcilingOrder" \notin Deciding
      /\ Kept("reconcilingOrder") \subseteq Kept("submittingOrder")
  BY DEF Flows, CyclePhases, Preparing, Deciding, Resolving, Sending, Kept
<1>4. Becomes(r, n, "none", run[r].art, run[r].authorized, run[r].port)
  BY SentBecomes DEF SubmitUnprepared
<1> HIDE DEF n
<1>5. Copies(r)
  BY <1>1, <1>2, <1>3, <1>4, CopiesBecomes
<1>6. /\ run'[r].m = n /\ run'[r].call = "none"
      /\ run'[r].authorized = run[r].authorized /\ run'[r].port = run[r].port
  BY <1>4 DEF Becomes
<1>7. Quiet(r)
  BY <1>1, <1>2, <1>3, <1>6 DEF Quiet, LeavesOrder, Unconfirmed
<1> QED  BY <1>5, <1>7

LEMMA SubmitLiveOrderTrades ==
  ASSUME IInv, NEW r \in Runs, SubmitLiveOrder(r)
  PROVE  Copies(r) /\ Quiet(r)
<1>1. run[r].m.phase = "submittingOrder" /\ rows' = rows /\ LeavesOrder(r)
      /\ Await(r, "submit")
  BY LeavesBy DEF SubmitLiveOrder, At, history
<1> QED  BY <1>1, QuietAwait

LEMMA ReconcileNothingTrades ==
  ASSUME IInv, NEW r \in Runs, ReconcileNothing(r)
  PROVE  Copies(r) /\ Quiet(r)
<1>1. /\ run[r].m.phase = "reconcilingOrder" /\ run[r].m \in Machines
      /\ run[r].m.phase # "waiting" /\ run[r].m.phase # "submittingOrder"
      /\ rows' = rows /\ LeavesOrder(r)
      /\ Send(r, ReconciliationFailed(run[r].m, FALSE))
  BY RunFacts, LeavesBy DEF ReconcileNothing, At, history
<1>2. /\ MayLead(run[r].m.phase, {"retryingReconciliation", "failed"})
      /\ \A q \in {"retryingReconciliation", "failed"} \cap CyclePhases:
           Kept(q) \subseteq Kept(run[r].m.phase)
  BY <1>1 DEF MayLead, Flows, CyclePhases, Preparing, Deciding, Resolving, Sending, Kept
<1>3. Goes(run[r].m, ReconciliationFailed(run[r].m, FALSE),
           {"retryingReconciliation", "failed"})
  BY <1>1, OrderGoes
<1> QED  BY <1>1, <1>2, <1>3, QuietSend

LEMMA ReconcileLiveOrderTrades ==
  ASSUME IInv, NEW r \in Runs, ReconcileLiveOrder(r)
  PROVE  Copies(r) /\ Quiet(r)
<1> DEFINE c == IF orders[run[r].cycle].idKnown THEN "lookup" ELSE "replay"
<1>1. run[r].m.phase = "reconcilingOrder" /\ rows' = rows /\ LeavesOrder(r)
      /\ Await(r, c)
  BY LeavesBy DEF ReconcileLiveOrder, At, history
<1>2. c # "unwind" /\ (c = "replay" => ~orders[run[r].cycle].idKnown)
  OBVIOUS
<1> HIDE DEF c
<1> QED  BY <1>1, <1>2, QuietAwait

LEMMA CancelCurrentEffectTrades ==
  ASSUME IInv, NEW r \in Runs, CancelCurrentEffect(r)
  PROVE  Copies(r) /\ Quiet(r)
<1> DEFINE n == EffectCancelled(run[r].m)
           f == EffectCancelFailed(run[r].m)
           P == {"persisting"}
<1>1. /\ run[r].m.phase = "cancelling" /\ run[r].m \in Machines
      /\ run[r].m.phase # "waiting" /\ run[r].m.phase # "submittingOrder"
      /\ rows' = rows /\ LeavesOrder(r)
  BY RunFacts, LeavesBy DEF CancelCurrentEffect, At, history
<1>2. Goes(run[r].m, f, P) /\ Leads(run[r].m, n, P)
  BY <1>1, CancelledEnds DEF Ends, Leads
<1>3. /\ MayLead(run[r].m.phase, P) /\ P \cap CyclePhases = {}
  BY <1>1 DEF MayLead, Flows, CyclePhases, Preparing, Deciding, Resolving, Sending
<1>4. \/ Send(r, n) \/ Send(r, f) \/ Await(r, "kill")
  BY DEF CancelCurrentEffect
<1> HIDE DEF n, f, P
<1>5. \A q \in P \cap CyclePhases: Kept(q) \subseteq Kept(run[r].m.phase)
  BY <1>3
<1>6. CASE Send(r, f)
  BY <1>1, <1>2, <1>3, <1>5, <1>6, QuietSend
<1>7. CASE Await(r, "kill")
  BY <1>1, <1>7, QuietAwait
<1>8. CASE Send(r, n)
  <2>1. Becomes(r, n, "none", run[r].art, run[r].authorized, run[r].port)
    BY <1>8, SentBecomes
  <2>2. Quiet(r) /\ n.phase \in P
    BY <1>1, <1>2, <1>3, <2>1, QuietBecomes, ZenonT(60)
  <2>3. n.phase \notin CyclePhases
    BY <1>3, <2>2
  <2>4. Copies(r)
    BY <1>1, <2>1, <2>3, CopiesBecomes
  <2> QED BY <2>2, <2>4
<1> QED  BY <1>4, <1>6, <1>7, <1>8

LEMMA PersistCycleTrades ==
  ASSUME IInv, NEW r \in Runs, PersistCycle(r)
  PROVE  Copies(r) /\ Quiet(r)
<1> DEFINE n == PersistSucceeded(run[r].m)
           f == PersistFailed(run[r].m, TRUE)
           P == {"failed", "stopped", "cancelling", "halted", "scheduling"}
           F == {"retryingPersistence", "failed"}
<1>1. /\ run[r].m.phase = "persisting" /\ run[r].m \in Machines
      /\ run[r].m.phase # "waiting" /\ run[r].m.phase # "submittingOrder"
      /\ LeavesOrder(r)
  BY RunFacts, LeavesBy DEF PersistCycle, At, history
<1>2. Goes(run[r].m, f, F) /\ Goes(run[r].m, n, P) /\ Leads(run[r].m, n, P)
  BY <1>1, PersistGoes, GoesLeads
<1>3. /\ MayLead(run[r].m.phase, P) /\ P \cap CyclePhases = {}
      /\ MayLead(run[r].m.phase, F) /\ F \cap CyclePhases = {}
  BY <1>1 DEF MayLead, Flows, CyclePhases, Preparing, Deciding, Resolving, Sending
<1>4. \/ /\ Send(r, n)
         /\ \/ rows' = rows
            \/ run[r].art.loaded /\ rows' = Saved(r, run[r].art, run[r].m.outcome)
      \/ Send(r, f) /\ rows' = rows
  BY DEF PersistCycle
<1> HIDE DEF n, f, P, F
<1>5. /\ \A q \in P \cap CyclePhases: Kept(q) \subseteq Kept(run[r].m.phase)
      /\ \A q \in F \cap CyclePhases: Kept(q) \subseteq Kept(run[r].m.phase)
  BY <1>3
<1>6. CASE Send(r, f) /\ rows' = rows
  BY <1>1, <1>2, <1>3, <1>5, <1>6, QuietSend
<1>7. CASE Send(r, n) /\ rows' = rows
  BY <1>1, <1>2, <1>3, <1>5, <1>7, QuietSend
<1>8. CASE /\ Send(r, n) /\ run[r].art.loaded
           /\ rows' = Saved(r, run[r].art, run[r].m.outcome)
  <2>1. Becomes(r, n, "none", run[r].art, run[r].authorized, run[r].port)
    BY <1>8, SentBecomes
  <2>2. Quiet(r) /\ n.phase \in P
    <3>1. Leads(run[r].m, n, P) /\ MayLead(run[r].m.phase, P) /\ LeavesOrder(r)
      BY <1>1, <1>2, <1>3
    <3> QED BY <1>1, <2>1, <3>1, QuietBecomes
  <2>3. n.phase \notin CyclePhases
    BY <1>3, <2>2
  <2>4. Copies(r)
    BY <1>1, <1>8, <2>1, <2>3, CopiesBecomes
  <2> QED BY <2>2, <2>4
<1> QED  BY <1>4, <1>6, <1>7, <1>8

(* The order is answered for.                                              *)
LEMMA SendingPhases ==
  /\ Sending \subseteq CyclePhases /\ "waiting" \notin Sending
  /\ \A p, q \in Sending: Kept(p) = Kept(q)
  /\ {"submittingOrder", "reconcilingOrder", "retryingExecution",
      "retryingReconciliation"} \subseteq Sending
  /\ {"persisting", "failed", "cancelling"} \cap CyclePhases = {}
BY DEF Sending, CyclePhases, Preparing, Deciding, Resolving, Kept

LEMMA RefuseCopies ==
  ASSUME IInv, NEW r \in Runs, run[r].m.phase \in Sending, rows' = rows,
         NEW n, Refuse(r, n), n.phase \in Sending \cup {"persisting", "failed", "cancelling"}
  PROVE  /\ Copies(r) /\ run'[r].m = n /\ run'[r].authorized = FALSE
         /\ run'[r].call = "none" /\ run'[r].port = run[r].port
<1>1. Becomes(r, n, "none", run[r].art, FALSE, run[r].port)
  BY SentBecomes
<1>2. /\ run[r].m.phase \in CyclePhases /\ run[r].m.phase # "waiting"
      /\ n.phase \in CyclePhases => Kept(n.phase) = Kept(run[r].m.phase)
  BY SendingPhases
<1>3. Copies(r)
  BY <1>1, <1>2, CopiesBecomes
<1> QED  BY <1>1, <1>3 DEF Becomes

LEMMA ConfirmCopies ==
  ASSUME IInv, NEW r \in Runs, run[r].m.phase \in Sending,
         NEW booked, NEW n, NEW f, Confirm(r, booked, n, f),
         n.phase \in {"persisting"}, f.phase \in Sending \cup {"failed"}
  PROVE  /\ Copies(r) /\ run'[r].m \in {n, f} /\ run'[r].authorized = FALSE
         /\ run'[r].call = "none" /\ run'[r].port = booked
<1> DEFINE x == machine'
           art == With(r, "execution")
<1>1. x \in {n, f} /\ Becomes(r, x, "none", art, FALSE, booked)
  BY SentBecomes
<1>2. \/ rows' = rows
      \/ rows' = Saved(r, art, machine.outcome)
  BY DEF Confirm
<1>3. run[r].art.has \subseteq art.has
  BY WithType DEF Artifacts
<1> HIDE DEF x, art
<1>4. /\ run[r].m.phase \in CyclePhases /\ run[r].m.phase # "waiting"
      /\ x.phase \in CyclePhases => Kept(x.phase) = Kept(run[r].m.phase)
  BY <1>1, SendingPhases
<1>5. Copies(r)
  BY <1>1, <1>2, <1>3, <1>4, CopiesBecomes
<1> QED  BY <1>1, <1>5 DEF Becomes

LEMMA SubmitPaperOrderTrades ==
  ASSUME IInv, NEW r \in Runs, SubmitPaperOrder(r)
  PROVE  Copies(r) /\ SubmitsPaper(r)
<1> DEFINE c == run[r].cycle
           m == run[r].m
           n == OrderConfirmed(m)
           f == OrderOutcomeUnknown(m)
           x == OrderRejected(m, FALSE)
<1>1. /\ Mode = "paper" /\ m.phase = "submittingOrder" /\ run[r].authorized
      /\ m \in Machines /\ m.phase \in Sending
      /\ UNCHANGED <<portfolio, exchange, bracket>>
  BY RunFacts, SendingPhases DEF SubmitPaperOrder, At, ReadyToSubmit, venue
<1>2. n.phase = "persisting" /\ f.phase = "reconcilingOrder" /\ x.phase = "persisting"
  <2>1. Goes(m, f, {"reconcilingOrder"}) /\ Ends(m, n)
    BY <1>1, OrderGoes, ConfirmedEnds
  <2>2. x = EndWith(Landed(m), "ORDER_REJECTED", "persisting")
    BY DEF OrderRejected, RetryOr
  <2>3. Like(m, Landed(m))
    BY <1>1 DEF Like, Landed, Machines
  <2>4. Goes(m, x, Targets("persisting"))
    BY <1>1, <2>2, <2>3, LikeEnd DEF Phases, SettlingPhases, Outcomes
  <2> QED BY <2>1, <2>4 DEF Goes, Ends, Targets, CancellablePhases
<1>3. \A b: Confirm(r, b, n, f) =>
        /\ Copies(r) /\ run'[r].m.phase \in {"persisting", "reconcilingOrder"}
        /\ run'[r].authorized = FALSE /\ run'[r].call = "none" /\ run'[r].port = b
  <2> SUFFICES ASSUME NEW b, Confirm(r, b, n, f)
               PROVE  /\ Copies(r) /\ run'[r].m.phase \in {"persisting", "reconcilingOrder"}
                      /\ run'[r].authorized = FALSE /\ run'[r].call = "none"
                      /\ run'[r].port = b
    OBVIOUS
  <2> HIDE DEF n, f
  <2>1. n.phase \in {"persisting"} /\ f.phase \in Sending \cup {"failed"}
    BY <1>2, SendingPhases
  <2>2. /\ Copies(r) /\ run'[r].m \in {n, f} /\ run'[r].authorized = FALSE
        /\ run'[r].call = "none" /\ run'[r].port = b
    BY <1>1, <2>1, ConfirmCopies
  <2> QED BY <1>2, <2>2
<1>4. \A y \in {f, x}: Refuse(r, y) /\ rows' = rows =>
        /\ Copies(r) /\ run'[r].m.phase \in {"persisting", "reconcilingOrder"}
        /\ run'[r].authorized = FALSE /\ run'[r].call = "none"
        /\ run'[r].port = run[r].port
  <2> SUFFICES ASSUME NEW y \in {f, x}, Refuse(r, y), rows' = rows
               PROVE  /\ Copies(r) /\ run'[r].m.phase \in {"persisting", "reconcilingOrder"}
                      /\ run'[r].authorized = FALSE /\ run'[r].call = "none"
                      /\ run'[r].port = run[r].port
    OBVIOUS
  <2> HIDE DEF f, x
  <2>1. y.phase \in {"persisting", "reconcilingOrder"}
    BY <1>2
  <2>2. y.phase \in Sending \cup {"persisting", "failed", "cancelling"}
    BY <2>1, SendingPhases
  <2> QED BY <1>1, <2>1, <2>2, RefuseCopies
<1>5. CASE Executed(r) /\ Confirm(r, orders[c].booked, n, f)
           /\ UNCHANGED <<orders, executions>>
  BY <1>1, <1>3, <1>5 DEF SubmitsPaper
<1>6. CASE /\ ~Executed(r) \/ MaxFaults > 0
           /\ orders' = [orders EXCEPT ![c] = PaperRow(r)]
           /\ executions' = [executions EXCEPT ![c] = @ + 1]
           /\ Confirm(r, run[r].port \cup {c}, n, f)
  BY <1>1, <1>3, <1>6 DEF SubmitsPaper
<1>7. CASE Refuse(r, x) /\ UNCHANGED <<rows, orders, executions>>
  BY <1>1, <1>4, <1>7 DEF SubmitsPaper
<1>8. CASE Refuse(r, f) /\ UNCHANGED <<rows, orders, executions>>
  BY <1>1, <1>4, <1>8 DEF SubmitsPaper
<1> QED  BY <1>5, <1>6, <1>7, <1>8 DEF SubmitPaperOrder, PaperRow

(* Where a reconciliation leads.                                           *)
LEMMA ReconciledTo ==
  ASSUME IInv, NEW r \in Runs, run[r].m.phase = "reconcilingOrder"
  PROVE  LET m == run[r].m
         IN  /\ m \in Machines /\ m.phase \in Sending
             /\ OrderReconciled(m, TRUE).phase = "persisting"
             /\ Leads(m, OrderReconciled(m, FALSE), {"persisting"})
             /\ \A b \in BOOLEAN: Leads(m, ReconciliationFailed(m, b),
                                        {"retryingReconciliation", "failed"})
             /\ Leads(m, OrderProtectionFailed(m), {"persisting"})
<1>1. run[r].m \in Machines
  BY RunFacts
<1> QED  BY <1>1, OrderGoes, ConfirmedEnds, SendingPhases, GoesLeads DEF Ends

LEMMA ReconcilePaperOrderTrades ==
  ASSUME IInv, NEW r \in Runs, ReconcilePaperOrder(r)
  PROVE  Copies(r) /\ ReconcilesPaper(r)
<1> DEFINE c == run[r].cycle
           m == run[r].m
           n == OrderReconciled(m, TRUE)
           x == OrderReconciled(m, FALSE)
           f == ReconciliationFailed(m, TRUE)
<1>1. /\ Mode = "paper" /\ m.phase = "reconcilingOrder" /\ m.phase \in Sending
      /\ UNCHANGED <<portfolio, orders, exchange, bracket, executions>>
  BY SendingPhases DEF ReconcilePaperOrder, At, venue, history
<1>2. /\ n.phase = "persisting" /\ x.phase = "persisting"
      /\ f.phase \in {"retryingReconciliation", "failed"}
  BY <1>1, ReconciledTo DEF Leads
<1>3. \/ Executed(r) /\ Confirm(r, orders[c].booked, n, f)
      \/ Refuse(r, x) /\ rows' = rows
      \/ Refuse(r, f) /\ rows' = rows
  BY DEF ReconcilePaperOrder
<1> HIDE DEF n, x, f
<1>4. /\ n.phase \in {"persisting"} /\ f.phase \in Sending \cup {"failed"}
      /\ {n.phase, x.phase, f.phase} \subseteq Resolving \cup {"persisting", "failed"}
      /\ x.phase \in Sending \cup {"persisting", "failed", "cancelling"}
      /\ f.phase \in Sending \cup {"persisting", "failed", "cancelling"}
  BY <1>2 DEF Sending, Resolving
<1>5. CASE Executed(r) /\ Confirm(r, orders[c].booked, n, f)
  <2>1. /\ Copies(r) /\ run'[r].m \in {n, f} /\ run'[r].authorized = FALSE
        /\ run'[r].call = "none" /\ run'[r].port = orders[c].booked
    BY <1>1, <1>4, <1>5, ConfirmCopies
  <2> QED BY <1>1, <1>4, <1>5, <2>1 DEF ReconcilesPaper
<1>6. ASSUME NEW y \in {x, f}, Refuse(r, y), rows' = rows
      PROVE  Copies(r) /\ ReconcilesPaper(r)
  <2>1. y.phase \in Sending \cup {"persisting", "failed", "cancelling"}
    BY <1>4
  <2>2. /\ Copies(r) /\ run'[r].m = y /\ run'[r].authorized = FALSE
        /\ run'[r].call = "none" /\ run'[r].port = run[r].port
    BY <1>1, <1>6, <2>1, RefuseCopies
  <2> QED BY <1>1, <1>4, <2>2 DEF ReconcilesPaper
<1> QED  BY <1>3, <1>5, <1>6

LEMMA SubmitAnswerTrades ==
  ASSUME IInv, NEW r \in Runs, SubmitAnswer(r)
  PROVE  Copies(r) /\ SubmitsLive(r)
<1> DEFINE c == run[r].cycle
           m == run[r].m
           n == OrderOutcomeUnknown(m)
<1>1. /\ Mode = "live" /\ m.phase = "submittingOrder" /\ run[r].authorized
      /\ m \in Machines /\ m.phase \in Sending
      /\ rows' = rows /\ UNCHANGED <<bracket, executions>>
  BY RunFacts, SendingPhases DEF SubmitAnswer, Answered, CallFits, history
<1>2. Leads(m, n, {"reconcilingOrder"})
  BY <1>1, OrderGoes, GoesLeads
<1>3. \A b \in BOOLEAN: Leads(m, OrderRejected(m, b),
                              {"retryingExecution", "cancelling", "persisting"})
  BY <1>1, OrderGoes, GoesLeads
<1>4. Records(c, {"ACKNOWLEDGED", "REJECTED", "OUTCOME_UNKNOWN"})
  BY DEF SubmitAnswer, Records
<1>5. \/ Refuse(r, n) /\ (Accepted(c) \/ exchange' = exchange)
      \/ /\ \E b \in BOOLEAN: Refuse(r, OrderRejected(m, b))
         /\ exchange' = exchange
  BY DEF SubmitAnswer
<1>6. CASE Refuse(r, n) /\ (Accepted(c) \/ exchange' = exchange)
  <2> HIDE DEF n
  <2>1. /\ n.phase = "reconcilingOrder"
        /\ n.outcome = "ORDER_CONFIRMED" => m.outcome = "ORDER_CONFIRMED"
        /\ n.phase \in Sending \cup {"persisting", "failed", "cancelling"}
    BY <1>2, SendingPhases DEF Leads
  <2>2. /\ Copies(r) /\ run'[r].m = n /\ run'[r].authorized = FALSE
        /\ run'[r].call = "none" /\ run'[r].port = run[r].port
    BY <1>1, <1>6, <2>1, RefuseCopies
  <2> QED BY <1>1, <1>4, <1>6, <2>1, <2>2 DEF SubmitsLive, Unconfirmed
<1>7. ASSUME NEW b \in BOOLEAN, Refuse(r, OrderRejected(m, b)), exchange' = exchange
      PROVE  Copies(r) /\ SubmitsLive(r)
  <2> DEFINE x == OrderRejected(m, b)
  <2>1. Leads(m, x, {"retryingExecution", "cancelling", "persisting"}) /\ Refuse(r, x)
    BY <1>3, <1>7
  <2> HIDE DEF x
  <2>2. /\ x.phase \in {"retryingExecution", "cancelling", "persisting"}
        /\ x.outcome = "ORDER_CONFIRMED" => m.outcome = "ORDER_CONFIRMED"
        /\ x.phase \in Sending \cup {"persisting", "failed", "cancelling"}
    BY <2>1, SendingPhases DEF Leads
  <2>3. /\ Copies(r) /\ run'[r].m = x /\ run'[r].authorized = FALSE
        /\ run'[r].call = "none" /\ run'[r].port = run[r].port
    BY <1>1, <2>1, <2>2, RefuseCopies
  <2> QED BY <1>1, <1>4, <1>7, <2>2, <2>3 DEF SubmitsLive, Unconfirmed
<1> QED  BY <1>5, <1>6, <1>7

(* A reconciliation that ends, or is refused.                              *)
LEMMA RefuseReconciles ==
  ASSUME IInv, NEW r \in Runs, Mode = "live", run[r].m.phase = "reconcilingOrder",
         rows' = rows, UNCHANGED <<bracket, executions>>,
         NEW n, Refuse(r, n),
         \/ n = OrderReconciled(run[r].m, FALSE)
         \/ \E b \in BOOLEAN: n = ReconciliationFailed(run[r].m, b),
         Records(run[r].cycle, {"ACKNOWLEDGED", "REJECTED"}),
         exchange' = exchange \/ Accepted(run[r].cycle) \/ Emptied
  PROVE  Copies(r) /\ ReconcilesLive(r)
<1> DEFINE m == run[r].m
<1>1. /\ n.phase \in {"persisting", "retryingReconciliation", "failed"}
      /\ n.outcome = "ORDER_CONFIRMED" => m.outcome = "ORDER_CONFIRMED"
      /\ m.phase \in Sending
  BY ReconciledTo DEF Leads
<1>2. /\ n.phase \in Sending \cup {"persisting", "failed", "cancelling"}
      /\ n.phase \in Resolving \cup {"persisting", "failed"}
  BY <1>1 DEF Sending, Resolving
<1>3. /\ Copies(r) /\ run'[r].m = n /\ run'[r].authorized = FALSE
      /\ run'[r].call = "none" /\ run'[r].port = run[r].port
  BY <1>1, <1>2, RefuseCopies
<1>4. Unconfirmed(r)
  BY <1>1, <1>3 DEF Unconfirmed
<1> QED  BY <1>2, <1>3, <1>4 DEF ReconcilesLive

LEMMA ReplayAnswerTrades ==
  ASSUME IInv, NEW r \in Runs, ReplayAnswer(r)
  PROVE  Copies(r) /\ ReconcilesLive(r)
<1> DEFINE c == run[r].cycle
           m == run[r].m
<1>1. /\ Mode = "live" /\ m.phase = "reconcilingOrder" /\ m.phase \in Sending
      /\ rows' = rows /\ UNCHANGED <<bracket, executions>>
      /\ run[r].authorized \in BOOLEAN
  BY RunFacts, SendingPhases DEF ReplayAnswer, Answered, CallFits, history, RunRecords
<1>2. /\ Records(c, {"ACKNOWLEDGED", "REJECTED"})
      /\ exchange' = exchange \/ Accepted(c) \/ Emptied
  BY DEF ReplayAnswer, Records
<1>3. \/ Await(r, "lookup")
      \/ Refuse(r, OrderReconciled(m, FALSE))
      \/ \E b \in BOOLEAN: Refuse(r, ReconciliationFailed(m, b))
  BY DEF ReplayAnswer
<1>4. CASE Await(r, "lookup")
  <2>1. Becomes(r, m, "lookup", run[r].art, run[r].authorized, run[r].port)
    BY <1>4, SentBecomes
  <2>2. m.phase # "waiting" /\ m.phase \in CyclePhases
    BY <1>1, SendingPhases
  <2>3. Copies(r)
    BY <1>1, <2>1, <2>2, CopiesBecomes
  <2>4. ReconcilesLive(r)
    BY <1>1, <1>2, <2>1 DEF ReconcilesLive, Becomes, Unconfirmed, Resolving
  <2> QED BY <2>3, <2>4
<1> QED  BY <1>1, <1>2, <1>3, <1>4, RefuseReconciles

LEMMA LookupAnswerTrades ==
  ASSUME IInv, NEW r \in Runs, LookupAnswer(r)
  PROVE  Copies(r) /\ (Quiet(r) \/ ReconcilesLive(r))
<1> DEFINE c == run[r].cycle
           m == run[r].m
           n == OrderReconciled(m, TRUE)
           f == ReconciliationFailed(m, TRUE)
<1>1. /\ Mode = "live" /\ m.phase = "reconcilingOrder" /\ m.phase \in Sending
      /\ UNCHANGED <<portfolio, exchange, bracket, executions>>
  BY RunFacts, SendingPhases DEF LookupAnswer, Answered, CallFits, history, venue
<1>2. \/ /\ Protected(c) /\ Record(c, "CONFIRMED", TRUE)
         /\ Confirm(r, run[r].port \cup {c}, n, f)
      \/ /\ exchange[c] \in {"filled", "closed"} /\ Await(r, "unwind")
         /\ rows' = rows /\ orders' = orders
      \/ /\ Records(c, {"ACKNOWLEDGED", "REJECTED"}) /\ rows' = rows
         /\ \/ Refuse(r, OrderReconciled(m, FALSE))
            \/ \E b \in BOOLEAN: Refuse(r, ReconciliationFailed(m, b))
  BY DEF LookupAnswer, Records
<1>3. CASE /\ Protected(c) /\ Record(c, "CONFIRMED", TRUE)
           /\ Confirm(r, run[r].port \cup {c}, n, f)
  <2>1. n.phase = "persisting" /\ f.phase \in {"retryingReconciliation", "failed"}
    BY <1>1, ReconciledTo DEF Leads
  <2> HIDE DEF n, f
  <2>2. /\ n.phase \in {"persisting"} /\ f.phase \in Sending \cup {"failed"}
        /\ {n.phase, f.phase} \subseteq Resolving \cup {"persisting", "failed"}
    BY <2>1 DEF Sending, Resolving
  <2>3. /\ Copies(r) /\ run'[r].m \in {n, f} /\ run'[r].authorized = FALSE
        /\ run'[r].call = "none"
    BY <1>1, <1>3, <2>2, ConfirmCopies
  <2> QED BY <1>1, <1>3, <2>2, <2>3 DEF ReconcilesLive
<1>4. CASE /\ exchange[c] \in {"filled", "closed"} /\ Await(r, "unwind")
           /\ rows' = rows /\ orders' = orders
  <2>1. LeavesOrder(r)
    BY <1>1, <1>4 DEF LeavesOrder
  <2> QED BY <1>1, <1>4, <2>1, QuietAwait
<1>5. CASE /\ Records(c, {"ACKNOWLEDGED", "REJECTED"}) /\ rows' = rows
           /\ \/ Refuse(r, OrderReconciled(m, FALSE))
              \/ \E b \in BOOLEAN: Refuse(r, ReconciliationFailed(m, b))
  BY <1>1, <1>5, RefuseReconciles
<1> QED  BY <1>2, <1>3, <1>4, <1>5

LEMMA ClosesSome == Flattened \/ PartlyFlattened => Emptied
BY DEF Flattened, PartlyFlattened, Emptied

LEMMA UnwindAnswerTrades ==
  ASSUME IInv, NEW r \in Runs, UnwindAnswer(r)
  PROVE  Copies(r) /\ ReconcilesLive(r)
<1> DEFINE c == run[r].cycle
           m == run[r].m
           n == OrderProtectionFailed(m)
           art == With(r, "execution")
<1>1. /\ Mode = "live" /\ m.phase = "reconcilingOrder" /\ m.phase \in Sending
      /\ run[r].call = "unwind" /\ run[r].authorized \in BOOLEAN
      /\ rows' = rows /\ UNCHANGED <<bracket, executions>>
      /\ run[r] \in RunRecords /\ run \in [Runs -> RunRecords]
  BY RunFacts, Parts, SendingPhases
     DEF UnwindAnswer, Answered, CallFits, history, RunRecords
<1>2. Emptied
  BY ClosesSome DEF UnwindAnswer
<1>3. \/ /\ Record(c, "PROTECTION_FAILED", TRUE)
         /\ run' = [run EXCEPT ![r].m = n, ![r].call = "none", ![r].art = art,
                               ![r].port = {}, ![r].exposureKnown = TRUE]
      \/ /\ orders' = orders
         /\ \E b \in BOOLEAN: Refuse(r, ReconciliationFailed(m, b))
  BY DEF UnwindAnswer
<1>4. CASE /\ Record(c, "PROTECTION_FAILED", TRUE)
           /\ run' = [run EXCEPT ![r].m = n, ![r].call = "none", ![r].art = art,
                                 ![r].port = {}, ![r].exposureKnown = TRUE]
  <2>1. /\ n.phase = "persisting"
        /\ n.outcome = "ORDER_CONFIRMED" => m.outcome = "ORDER_CONFIRMED"
    BY <1>1, ReconciledTo DEF Leads
  <2>2. run[r].art.has \subseteq art.has
    BY WithType DEF Artifacts
  <2> HIDE DEF n, art
  <2>3. Becomes(r, n, "none", art, run[r].authorized, {})
    BY <1>1, <1>4 DEF Becomes, RunRecords
  <2>4. /\ m.phase # "waiting" /\ m.phase \in CyclePhases
        /\ n.phase \notin CyclePhases
    BY <1>1, <2>1, SendingPhases
  <2>5. Copies(r)
    BY <1>1, <2>2, <2>3, <2>4, CopiesBecomes
  <2>6. /\ run'[r].m = n /\ run'[r].authorized = run[r].authorized
        /\ run'[r].call = "none"
    BY <2>3 DEF Becomes
  <2>7. ReconcilesLive(r)
    BY <1>1, <1>2, <1>4, <2>1, <2>6 DEF ReconcilesLive, Unconfirmed
  <2> QED BY <2>5, <2>7
<1>5. CASE /\ orders' = orders
           /\ \E b \in BOOLEAN: Refuse(r, ReconciliationFailed(m, b))
  <2>1. Records(c, {"ACKNOWLEDGED", "REJECTED"})
    BY <1>5 DEF Records
  <2> QED BY <1>1, <1>2, <1>5, <2>1, RefuseReconciles
<1> QED  BY <1>3, <1>4, <1>5

LEMMA KillAnswerTrades ==
  ASSUME IInv, NEW r \in Runs, KillAnswer(r)
  PROVE  Copies(r) /\ Empties(r)
<1> DEFINE m == run[r].m
<1>1. /\ Mode = "live" /\ m.phase = "cancelling" /\ m \in Machines
      /\ rows' = rows /\ UNCHANGED <<orders, bracket, executions>>
  BY RunFacts DEF KillAnswer, Answered, CallFits, history
<1>2. Emptied
  BY ClosesSome DEF KillAnswer
<1>3. \E n: Send(r, n) /\ Leads(m, n, {"persisting"})
  BY <1>1, CancelledEnds, GoesLeads DEF KillAnswer, Ends, Leads
<1>4. PICK n: Send(r, n) /\ Leads(m, n, {"persisting"})
  BY <1>3
<1>5. Becomes(r, n, "none", run[r].art, run[r].authorized, run[r].port)
  BY <1>4, SentBecomes
<1>6. n.phase \notin CyclePhases
  BY <1>4, SendingPhases DEF Leads
<1>7. Copies(r)
  BY <1>1, <1>5, <1>6, CopiesBecomes
<1>8. Empties(r)
  BY <1>1, <1>2, <1>4, <1>5, <1>6 DEF Empties, Becomes, Unconfirmed, Leads
<1> QED  BY <1>7, <1>8

(* Every step of a run.                                                    *)
LEMMA StepTrades ==
  ASSUME IInv, NEW r \in Runs, RunStep(r) \/ Answer(r)
  PROVE  Fires(r) \/ (Copies(r) /\ Trades(r))
<1>1. CASE RunStep(r)
  BY <1>1, FireAlarmFires, EnsureScheduleTrades, RetryNowTrades,
     PlanMarketRetryTrades, ResumeMarketRetryTrades, ReconcileAccountTrades,
     FetchMarketDataTrades, DecisionTrades, CheckRiskTrades,
     PersistOrderIntentTrades, AuthorizeTrades, SubmitUnpreparedTrades,
     SubmitPaperOrderTrades, SubmitLiveOrderTrades, ReconcileNothingTrades,
     ReconcilePaperOrderTrades, ReconcileLiveOrderTrades,
     CancelCurrentEffectTrades, PersistCycleTrades DEF RunStep, Trades
<1>2. CASE Answer(r)
  BY <1>2, AccountAnswerTrades, MarketAnswerTrades, SubmitAnswerTrades,
     ReplayAnswerTrades, LookupAnswerTrades, UnwindAnswerTrades, KillAnswerTrades
     DEF Answer, Trades
<1> QED  BY <1>1, <1>2

-----------------------------------------------------------------------------
(* The steps of an agent whose invocations do not overlap, of three kinds. *)

(* The only run takes a step.                                              *)
Strides(r) ==
  /\ Active = {r} /\ Active' = {r}
  /\ run[r].m = machine /\ run'[r].m = machine'
  /\ run'[r].cycle = run[r].cycle
  /\ UNCHANGED <<setup, used, session, crashes>>
  /\ Fires(r) \/ (Copies(r) /\ Trades(r))

(* m is the machine of the state, or what a command makes of it.           *)
Heeds(m) ==
  \/ m.phase \notin CyclePhases /\ m.outcome # "ORDER_CONFIRMED"
  \/ /\ m.cycleId = machine.cycleId /\ m.outcome = machine.outcome
     /\ m.phase \in CyclePhases =>
          \/ m.phase = machine.phase
          \/ m.phase = "reconcilingOrder" /\ machine.phase = "submittingOrder"

(* A run begins, and goes on with the cycle of its machine.                *)
Starts(r) ==
  /\ Active \subseteq {r} /\ Active' = {r} /\ run'[r].m = machine'
  /\ UNCHANGED <<setup, rows, orders, exchange, bracket, executions, crashes>>
  /\ Heeds(machine')
  /\ \E alarm \in BOOLEAN, resume \in {0, machine'.cycleId}:
       /\ Began(r, machine', run'[r].port, alarm, resume)
       /\ resume = machine'.cycleId \/ machine'.phase \notin CyclePhases
  /\ Mode = "paper" =>
       \/ /\ session' = session
          /\ \/ Active = {} /\ run'[r].port = portfolio
             \/ Active = {r} /\ run'[r].port = run[r].port
       \/ /\ session' = used /\ run'[r].port = {}
          /\ machine'.phase \notin CyclePhases

(* The account changes by itself, or by the requests of an evicted run.    *)
Drifts ==
  \/ UNCHANGED venue
  \/ Emptied /\ bracket' = bracket
  \/ \E r \in Active:
       /\ run[r].call \in {"submit", "replay"} /\ exchange[run[r].cycle] = "none"
       /\ exchange' = [exchange EXCEPT ![run[r].cycle] = "open"]
       /\ bracket' = bracket /\ Active' = {}
  \/ \E c \in Cycles:
       /\ exchange[c] = "open" /\ exchange'[c] \in {"filled", "void"}
       /\ \A d \in Cycles \ {c}: exchange'[d] = exchange[d] /\ bracket'[d] = bracket[d]

(* No run begins or goes on; one may end.                                  *)
Rests ==
  /\ UNCHANGED <<setup, rows, orders, executions, session>>
  /\ \A s \in Active': s \in Active /\ run'[s] = run[s]
  /\ \/ machine' = machine
     \/ machine'.phase \notin CyclePhases /\ machine'.outcome # "ORDER_CONFIRMED"
  /\ crashes' = 0 =>
       /\ crashes = 0
       /\ \/ Active' = Active /\ portfolio' = portfolio
          \/ Active' = {} /\ \E r \in Active: portfolio' = run[r].port
  /\ Drifts

LEMMA StepStrides ==
  ASSUME IInv, SerialForm, NEW r \in Runs, RunStep(r) \/ Answer(r), UNCHANGED shell
  PROVE  Strides(r)
<1>1. Turn(r)
  BY StepTurns
<1>2. /\ run[r].active /\ Turned(r) /\ Frame /\ Alone
  BY <1>1 DEF Turn, OnTurn, SerialForm
<1>3. r \in Active /\ Active' = Active /\ run[r].m = machine /\ Active = {r}
  BY <1>2 DEF Active, Turned, Alone
<1>4. machine' = run'[r].m /\ run'[r].cycle = run[r].cycle
  BY <1>2, <1>3 DEF Turned
<1>5. UNCHANGED <<setup, used, session, crashes>>
  BY <1>2 DEF Frame, shell
<1>6. Fires(r) \/ (Copies(r) /\ Trades(r))
  BY StepTrades
<1> QED  BY <1>3, <1>4, <1>5, <1>6 DEF Strides

LEMMA HeedsSame == Heeds(machine)
BY DEF Heeds

(* What a command or an alarm that finds no run has in common.             *)
LEMMA BeganStarts ==
  ASSUME IInv, OneByOne, SerialForm, NEW r \in Runs, NEW alarm \in BOOLEAN,
         NEW port, machine' \in Machines, NEW resume \in {0, machine'.cycleId},
         Began(r, machine', port, alarm, resume),
         resume = machine'.cycleId \/ machine'.phase \notin CyclePhases,
         Heeds(machine'),
         UNCHANGED <<setup, rows, orders, exchange, bracket, executions, crashes>>,
         Mode = "paper" =>
           \/ session' = session /\ Active = {} /\ port = portfolio
           \/ session' = session /\ Active = {r} /\ port = run[r].port
           \/ session' = used /\ port = {} /\ machine'.phase \notin CyclePhases
  PROVE  Starts(r)
<1>1. Active \subseteq {r} /\ Active' = {r}
  BY SoleRun DEF Began, Begun
<1>2. run'[r].m = machine' /\ run'[r].port = port
  BY DEF Began
<1>3. Mode = "paper" =>
       \/ /\ session' = session
          /\ \/ Active = {} /\ run'[r].port = portfolio
             \/ Active = {r} /\ run'[r].port = run[r].port
       \/ /\ session' = used /\ run'[r].port = {}
          /\ machine'.phase \notin CyclePhases
  BY <1>2
<1>4. Began(r, machine', run'[r].port, alarm, resume)
  BY <1>2
<1>5. \E a \in BOOLEAN, c \in {0, machine'.cycleId}:
        /\ Began(r, machine', run'[r].port, a, c)
        /\ c = machine'.cycleId \/ machine'.phase \notin CyclePhases
  BY <1>4
<1> QED  BY <1>1, <1>2, <1>3, <1>5 DEF Starts

LEMMA StartAgentStarts ==
  ASSUME IInv, OneByOne, SerialForm, NEW r \in Runs, StartAgent(r)
  PROVE  Starts(r)
<1> DEFINE k == IF Mode = "live" /\ configured THEN machine.lastDecisionCandle ELSE 0
<1>1. k \in Nat
  BY MachineFacts
<1>2. machine' = StartRequested(NewMachine(k))
  BY DEF StartAgent
<1> HIDE DEF k
<1>3. /\ machine' \in Machines /\ machine'.phase = "scheduling"
      /\ machine'.outcome = "IDLE"
  BY <1>1, <1>2, StartGoes
<1>4. machine'.phase \notin CyclePhases
  BY <1>3 DEF CyclePhases, Preparing, Deciding, Resolving
<1>5. Began(r, machine', portfolio', FALSE, 0)
  BY StartAgentKeeps
<1>6. UNCHANGED <<setup, rows, orders, exchange, bracket, executions, crashes>>
  BY DEF StartAgent, venue
<1>7. Mode = "paper" => session' = used /\ portfolio' = {}
  BY DEF StartAgent
<1>8. Heeds(machine')
  BY <1>3, <1>4 DEF Heeds
<1>9. FALSE \in BOOLEAN /\ 0 \in {0, machine'.cycleId}
  OBVIOUS
<1> HIDE DEF k
<1> QED  BY <1>3, <1>4, <1>5, <1>6, <1>7, <1>8, <1>9, BeganStarts

LEMMA ControlStarts ==
  ASSUME IInv, OneByOne, SerialForm, NEW r \in Runs, NEW name,
         NEW m \in {StopRequested(machine), KillSwitchEngaged(machine)},
         Control(r, name, m)
  PROVE  Starts(r)
<1> DEFINE resume == IF machine.phase \in {"waiting", "scheduling", "stopped"}
                     THEN 0 ELSE machine.cycleId
<1>1. m \in Machines /\ MachineInForm(m)
  BY ControlForm
<1>2. /\ machine' = m /\ r \notin Active /\ portfolio' = portfolio
      /\ UNCHANGED <<setup, rows, orders, exchange, bracket, executions, crashes,
                     session, candle>>
      /\ Command(name) /\ Begin(r, m, portfolio, FALSE, resume, FALSE)
  BY DEF Control, venue, history
<1>3. /\ m.cycleId = machine.cycleId /\ m.outcome = machine.outcome
      /\ \/ m.phase = machine.phase \/ m.phase = "cancelling"
         \/ m.phase = "reconcilingOrder" /\ machine.phase = "submittingOrder"
  BY MachineFacts, ControlGoes
<1>4. "cancelling" \notin CyclePhases
      /\ {"waiting", "scheduling", "stopped"} \cap CyclePhases = {}
  BY DEF CyclePhases, Preparing, Deciding, Resolving
<1>5. Heeds(m)
  BY <1>3, <1>4 DEF Heeds
<1>6. /\ resume \in {0, m.cycleId} /\ resume \in 0..MaxCycles
      /\ resume = m.cycleId \/ m.phase \notin CyclePhases
  BY <1>3, <1>4, MachineFacts, Parts, Bounds
<1> HIDE DEF resume
<1>7. current = None
  BY <1>2, CommandFacts
<1>8. Began(r, m, portfolio, FALSE, resume)
  BY <1>1, <1>2, <1>6, <1>7, MachineFacts, BeginRuns
<1>9. Active \subseteq {r}
  BY <1>8, SoleRun DEF Began
<1>10. Active = {}
  BY <1>2, <1>9
<1> QED  BY <1>1, <1>2, <1>5, <1>6, <1>8, <1>10, BeganStarts

LEMMA AlarmStarts ==
  ASSUME IInv, OneByOne, SerialForm, NEW r \in Runs, NEW alarm \in BOOLEAN,
         Began(r, machine, portfolio, alarm, machine.cycleId), r \notin Active,
         UNCHANGED <<setup, machine, rows, orders, exchange, bracket, executions,
                     crashes, session>>
  PROVE  Starts(r)
<1>1. Active \subseteq {r}
  BY SoleRun DEF Began
<1>2. Active = {} /\ machine' \in Machines /\ Heeds(machine')
      /\ machine.cycleId \in {0, machine'.cycleId}
  BY <1>1, MachineFacts, HeedsSame
<1>3. Began(r, machine', portfolio, alarm, machine.cycleId)
  OBVIOUS
<1> QED  BY <1>2, <1>3, BeganStarts

(* What changes nothing that a run reads.                                  *)
LEMMA SameRests ==
  ASSUME UNCHANGED <<setup, machine, portfolio, rows, orders, executions, session,
                     run, exchange, bracket>>,
         crashes' = 0 => crashes = 0
  PROVE  Rests
<1>1. Active' = Active
  BY DEF Active
<1> QED  BY <1>1 DEF Rests, Drifts, venue, Active

LEMMA AlarmsStart ==
  ASSUME IInv, OneByOne, SerialForm, NEW r \in Runs,
         RunNow(r) \/ ScheduledTick(r) \/ RetryTick(r)
  PROVE  Starts(r) \/ Rests
<1>0. {TRUE, FALSE} \subseteq BOOLEAN
  OBVIOUS
<1>1. CASE RunNow(r)
  <2>1. /\ UNCHANGED <<setup, machine, rows, orders, exchange, bracket, executions,
                       crashes, session>>
        /\ r \notin Active
    BY <1>1 DEF RunNow, durable, venue, history
  <2> QED BY <1>0, <1>1, <2>1, RunNowKeeps, AlarmStarts
<1>2. CASE ScheduledTick(r)
  <2>1. /\ UNCHANGED <<setup, machine, rows, orders, exchange, bracket, executions,
                       crashes, session>>
        /\ r \notin Active
    BY <1>2 DEF ScheduledTick, durable, venue, history, shell
  <2> QED BY <1>0, <1>2, <2>1, ScheduledTickKeeps, AlarmStarts
<1>3. CASE RetryTick(r)
  <2>1. /\ UNCHANGED <<setup, machine, portfolio, rows, orders, exchange, bracket,
                       executions, crashes, session>>
        /\ r \notin Active \/ UNCHANGED <<run, current, used, triggered>>
    BY <1>3 DEF RetryTick, venue, history, shell
  <2>2. CASE UNCHANGED <<run, current, used, triggered>>
    BY <2>1, <2>2, SameRests
  <2>3. CASE /\ Began(r, machine, portfolio, FALSE, machine.cycleId)
             /\ r \notin Active
    BY <1>0, <2>1, <2>3, AlarmStarts
  <2> QED BY <1>3, <2>1, <2>2, <2>3, RetryTickKeeps
<1> QED  BY <1>1, <1>2, <1>3

LEMMA PublishStarts ==
  ASSUME IInv, OneByOne, SerialForm, NEW r \in Runs, Publish(r)
  PROVE  Starts(r) \/ Rests
<1>1. /\ machine' = run[r].m /\ portfolio' = run[r].port
      /\ UNCHANGED <<setup, rows, orders, exchange, bracket, executions, crashes, session>>
  BY DEF Publish, venue, history, shell
<1>2. run[r].active /\ run[r].m \in Machines
  BY PublishKeeps
<1>3. r \in Active /\ run[r].m = machine /\ Active = {r} /\ machine' = machine
  BY <1>1, <1>2 DEF Active, Alone, SerialForm
<1>4. CASE Began(r, run[r].m, run[r].port, TRUE, run[r].m.cycleId)
  <2>1. Began(r, machine', run[r].port, TRUE, machine'.cycleId)
    BY <1>1, <1>4
  <2>2. Heeds(machine') /\ machine' \in Machines /\ TRUE \in BOOLEAN
        /\ machine'.cycleId \in {0, machine'.cycleId}
    BY <1>1, <1>2, <1>3, HeedsSame
  <2> QED BY <1>1, <1>3, <2>1, <2>2, BeganStarts
<1>5. CASE run' = [run EXCEPT ![r] = IdleRun]
  <2>1. run \in [Runs -> RunRecords] /\ ~IdleRun.active
    BY Parts DEF IdleRun
  <2>2. Active' = {}
    BY <1>3, <1>5, <2>1 DEF Active
  <2> QED BY <1>1, <1>3, <2>2 DEF Rests, Drifts, venue
<1> QED  BY <1>4, <1>5, PublishKeeps

LEMMA ResetRests ==
  ASSUME IInv, OneByOne, SerialForm, ResetAgent
  PROVE  Rests
<1>1. /\ machine' = Reset(machine)
      /\ UNCHANGED <<setup, portfolio, rows, orders, executions, session, run,
                     exchange, bracket, crashes>>
  BY DEF ResetAgent, venue, history
<1>2. machine \in Machines
  BY MachineFacts
<1>3. machine' = machine
      \/ (machine'.phase = "stopped" /\ machine'.outcome = "IDLE")
  BY <1>1, <1>2, ResetGoes DEF NewMachine
<1>4. machine' = machine
      \/ (machine'.phase \notin CyclePhases /\ machine'.outcome # "ORDER_CONFIRMED")
  BY <1>3 DEF CyclePhases, Preparing, Deciding, Resolving
<1>5. Active' = Active
  BY <1>1 DEF Active
<1> QED  BY <1>1, <1>4, <1>5 DEF Rests, Drifts, venue, Active

LEMMA EnvironmentRests ==
  ASSUME IInv,
         CloseCandle \/ RetryDeadline \/ (\E c \in Cycles: Settle(c)) \/ OnStart
  PROVE  Rests
<1>1. CASE CloseCandle \/ RetryDeadline
  BY <1>1, SameRests DEF CloseCandle, RetryDeadline, durable, venue, history, shell
<1>2. ASSUME NEW c \in Cycles, Settle(c) PROVE Rests
  <2>1. UNCHANGED <<setup, machine, portfolio, rows, orders, executions, session,
                    run, crashes>>
    BY <1>2 DEF Settle, durable, history, shell
  <2>2. exchange \in [Cycles -> ExchangeStates] /\ bracket \in [Cycles -> BOOLEAN]
    BY Parts DEF StorageInForm
  <2>3. /\ exchange[c] = "open" /\ exchange'[c] \in {"filled", "void"}
        /\ \A d \in Cycles \ {c}: exchange'[d] = exchange[d] /\ bracket'[d] = bracket[d]
    BY <1>2, <2>2 DEF Settle
  <2>4. Active' = Active
    BY <2>1 DEF Active
  <2>5. Drifts
    BY <2>3 DEF Drifts
  <2> QED BY <2>1, <2>4, <2>5 DEF Rests, Active
<1>3. CASE OnStart
  BY <1>3, SameRests DEF OnStart, venue, history
<1> QED  BY <1>1, <1>2, <1>3

LEMMA CrashRests ==
  ASSUME IInv, OneByOne, SerialForm, Crash
  PROVE  Rests
<1>1. /\ crashes' = crashes + 1 /\ run' = [r \in Runs |-> IdleRun]
      /\ UNCHANGED <<setup, machine, portfolio, rows, orders, executions, session, bracket>>
  BY DEF Crash, durable, history
<1>2. Active' = {} /\ crashes' # 0
  BY <1>1, StandFacts DEF Active, IdleRun
<1>3. exchange \in [Cycles -> ExchangeStates]
  BY Untouched
<1>4. Drifts
  <2>1. CASE PartlyFlattened
    BY <1>1, <2>1 DEF Drifts, Emptied, PartlyFlattened
  <2>2. ASSUME NEW S \in SUBSET {c \in {run[r].cycle: r \in {s \in Runs:
                                  run[s].call \in {"submit", "replay"}}}:
                                exchange[c] = "none"},
               exchange' = [c \in Cycles |-> IF c \in S THEN "open" ELSE exchange[c]]
        PROVE  Drifts
    <3>1. CASE S = {}
      <4>1. exchange' = exchange
        BY <1>3, <2>2, <3>1
      <4> QED BY <1>1, <4>1 DEF Drifts, venue
    <3>2. CASE S # {}
      <4>1. \A s \in Runs: run[s].call \in {"submit", "replay"} => s \in Active
        BY Parts DEF ThreadInForm, IdleRun, Active
      <4>2. PICK d \in S: TRUE
        BY <3>2
      <4>3. PICK r \in Runs: run[r].call \in {"submit", "replay"} /\ d = run[r].cycle
        BY <4>2
      <4>4. r \in Active /\ exchange[d] = "none"
        BY <4>1, <4>2, <4>3
      <4>5. \A s \in Active: s = r
        BY <4>4 DEF SerialForm, Alone
      <4>6. S = {d}
        BY <4>1, <4>2, <4>3, <4>5
      <4>7. exchange' = [exchange EXCEPT ![d] = "open"]
        BY <1>3, <2>2, <4>6
      <4> QED BY <1>1, <1>2, <4>3, <4>4, <4>7 DEF Drifts
    <3> QED BY <3>1, <3>2
  <2> QED BY <2>1, <2>2 DEF Crash
<1> QED  BY <1>1, <1>2, <1>4 DEF Rests

(* Every step of an agent whose invocations do not overlap.                *)
LEMMA NextMoves ==
  ASSUME IInv, OneByOne, SerialForm, [Next]_vars
  PROVE  Rests \/ \E r \in Runs: Strides(r) \/ Starts(r)
<1>1. CASE UNCHANGED vars
  BY <1>1, SameRests DEF vars, shell, runVars, durable, venue, history
<1>2. CASE Step
  BY <1>2, StepStrides DEF Step
<1>3. ASSUME NEW r \in Runs,
             \/ StartAgent(r) \/ StopAgent(r) \/ KillAgent(r) \/ RunNow(r)
             \/ ScheduledTick(r) \/ RetryTick(r) \/ Publish(r)
      PROVE  Starts(r) \/ Rests
  <2>1. CASE StopAgent(r)
    BY <2>1, ControlStarts DEF StopAgent
  <2>2. CASE KillAgent(r)
    BY <2>2, ControlStarts DEF KillAgent
  <2> QED BY <1>3, <2>1, <2>2, StartAgentStarts, AlarmsStart, PublishStarts
<1>4. CASE \E r \in Runs:
             \/ StartAgent(r) \/ StopAgent(r) \/ KillAgent(r) \/ RunNow(r)
             \/ ScheduledTick(r) \/ RetryTick(r) \/ Publish(r)
  BY <1>3, <1>4
<1>5. CASE CloseCandle \/ RetryDeadline \/ (\E c \in Cycles: Settle(c)) \/ OnStart
  BY <1>5, EnvironmentRests
<1> QED  BY <1>1, <1>2, <1>4, <1>5, ResetRests, CrashRests DEF Next

-----------------------------------------------------------------------------
(* The records of an agent whose invocations do not overlap.               *)

(* A run that is to fire its alarm has a cycle of which nothing is known.  *)
TriggersAreNew ==
  \A r \in Active: run[r].trigger =>
    /\ run[r].cycle \in Cycles
    /\ rows[run[r].cycle] = NoRow /\ orders[run[r].cycle].status = "none"
    /\ exchange[run[r].cycle] = "none"

(* The machine is not persisted in a phase whose artifacts are not, and the*)
(* row of a cycle holds nothing that its run does not.                     *)
ArtifactsAreKept ==
  /\ machine.phase \in CyclePhases =>
       Kept(machine.phase) \subseteq rows[machine.cycleId].art.has
  /\ \A r \in Active:
       run[r].cycle # 0 /\ (run[r].art.loaded \/ run[r].m.phase \in CyclePhases) =>
         rows[run[r].cycle].art.has \subseteq run[r].art.has

(* A credential lives as long as its submission.                           *)
AuthorizedInPhase ==
  \A r \in Active: run[r].authorized => run[r].m.phase = "submittingOrder"

(* The intent of an order and its approval come before the order.          *)
IntentIsKept ==
  /\ machine.phase \in Sending => orders[machine.cycleId].status # "none"
  /\ \A c \in Cycles: exchange[c] # "none" =>
       orders[c].status # "none" /\ {"order", "risk"} \subseteq rows[c].art.has

(* Nothing is sent on paper.                                               *)
PaperHasNoVenue == Mode = "paper" => \A c \in Cycles: exchange[c] = "none"

Recorded ==
  /\ TriggersAreNew /\ ArtifactsAreKept /\ AuthorizedInPhase /\ IntentIsKept
  /\ PaperHasNoVenue

LEMMA FixedSetup ==
  ASSUME setup' = setup
  PROVE  Cycles' = Cycles /\ Mode' = Mode /\ MaxFaults' = MaxFaults
         /\ OneByOne' = OneByOne
BY DEF Cycles, MaxCycles, Mode, MaxFaults, OneByOne, MaxRuns

(* What may become of the account and of the orders.                       *)
LEMMA AcceptedFacts ==
  ASSUME IInv, NEW c \in Cycles, Accepted(c)
  PROVE  \A d \in Cycles:
           \/ exchange'[d] = exchange[d]
           \/ d = c /\ exchange[d] = "none" /\ exchange'[d] = "open"
BY Untouched DEF Accepted

LEMMA EmptiedFacts ==
  ASSUME IInv, Emptied
  PROVE  \A d \in Cycles:
           \/ exchange'[d] = exchange[d]
           \/ exchange[d] = "open" /\ exchange'[d] = "void"
           \/ exchange[d] = "filled" /\ exchange'[d] = "closed"
<1>1. PICK S \in SUBSET (OpenOrders \cup Held): exchange' = Closed(S)
  BY DEF Emptied
<1> QED  BY <1>1 DEF Closed, OpenOrders, Held

LEMMA RecordFacts ==
  ASSUME IInv, NEW c \in Cycles, NEW s \in OrderStatuses, NEW id \in BOOLEAN,
         Record(c, s, id)
  PROVE  /\ orders'[c].status = s
         /\ orders[c].idKnown \/ id => orders'[c].idKnown
         /\ \A d \in Cycles \ {c}: orders'[d] = orders[d]
<1>1. orders \in [Cycles -> OrderRows] /\ orders[c] \in OrderRows
  BY Untouched
<1> DEFINE k == id \/ orders[c].idKnown
<1>2. k \in BOOLEAN
  BY <1>1 DEF OrderRows
<1>3. orders' = [orders EXCEPT ![c].status = s, ![c].idKnown = k]
  BY <1>1 DEF Record, OrderRows
<1> HIDE DEF k
<1>4. orders'[c].status = s /\ orders'[c].idKnown = k
      /\ \A d \in Cycles \ {c}: orders'[d] = orders[d]
  BY <1>1, <1>3 DEF OrderRows
<1> QED  BY <1>4 DEF k

LEMMA RecordsFacts ==
  ASSUME IInv, NEW c \in Cycles, NEW S \in SUBSET OrderStatuses, Records(c, S)
  PROVE  /\ orders'[c].status \in S \/ orders' = orders
         /\ orders[c].idKnown => orders'[c].idKnown
         /\ \A d \in Cycles \ {c}: orders'[d] = orders[d]
<1>1. CASE orders' = orders
  BY <1>1
<1>2. ASSUME NEW st \in S, NEW id \in BOOLEAN, Record(c, st, id)
      PROVE  /\ orders'[c].status \in S
             /\ orders[c].idKnown => orders'[c].idKnown
             /\ \A d \in Cycles \ {c}: orders'[d] = orders[d]
  BY <1>2, RecordFacts
<1> QED  BY <1>1, <1>2 DEF Records

LEMMA IntendedFacts ==
  ASSUME IInv, NEW c \in Cycles, orders' = Intended(c)
  PROVE  /\ orders'[c].status # "none"
         /\ \A d \in Cycles:
              /\ orders'[d].idKnown = orders[d].idKnown
              /\ orders'[d].booked = orders[d].booked
              /\ \/ orders'[d].status = orders[d].status
                 \/ orders'[d].status = "INTENT_PERSISTED" /\ orders[d].status = "none"
<1>1. orders \in [Cycles -> OrderRows] /\ orders[c] \in OrderRows
  BY Untouched
<1>2. CASE orders[c].status = "none"
  <2>1. orders' = [orders EXCEPT ![c].status = "INTENT_PERSISTED"]
    BY <1>2 DEF Intended
  <2> QED BY <1>1, <1>2, <2>1 DEF OrderRows
<1>3. CASE orders[c].status # "none"
  BY <1>3 DEF Intended
<1> QED  BY <1>2, <1>3

(* The cycle of a run that takes a step.                                   *)
LEMMA StrideFacts ==
  ASSUME IInv, IInv', NEW r \in Runs, Strides(r)
  PROVE  /\ Cycles' = Cycles /\ Mode' = Mode
         /\ run[r].m.phase = machine.phase /\ run'[r].m.phase = machine'.phase
         /\ machine.phase \in CyclePhases =>
              run[r].cycle = machine.cycleId /\ run[r].cycle \in Cycles
              /\ run[r].cycle # 0
         /\ machine'.phase \in CyclePhases =>
              run[r].cycle = machine'.cycleId /\ run[r].cycle \in Cycles
              /\ run[r].cycle # 0
         /\ Copies(r) => run[r].cycle = machine.cycleId /\ machine'.cycleId = machine.cycleId
<1>1. Cycles' = Cycles /\ Mode' = Mode
  BY FixedSetup DEF Strides
<1>2. run[r].m = machine /\ run'[r].m = machine' /\ run'[r].cycle = run[r].cycle
  BY DEF Strides
<1>3. /\ run[r].m.phase # "waiting" => run[r].cycle = run[r].m.cycleId
      /\ run[r].m.phase \in CyclePhases => run[r].cycle \in Cycles /\ run[r].cycle # 0
  BY RunFacts
<1>4. "waiting" \notin CyclePhases
  BY DEF CyclePhases, Preparing, Deciding, Resolving
<1>5. RunInForm(run[r])' /\ MachineInForm(machine)'
  BY Parts DEF IInv, ThreadInForm
<1>6. /\ (run'[r].trigger => run'[r].m.phase = "waiting")
      /\ (~run'[r].trigger => run'[r].cycle = run'[r].m.cycleId)
  BY <1>5 DEF RunInForm
<1>7. Copies(r) => run'[r].trigger = FALSE /\ run[r].m.phase # "waiting"
  BY DEF Copies
<1>8. machine'.phase \in CyclePhases => run[r].cycle = machine'.cycleId
  BY <1>2, <1>4, <1>6
<1>9. machine'.phase \in CyclePhases => run[r].cycle \in Cycles /\ run[r].cycle # 0
  <2>2. run[r].cycle \in 0..MaxCycles /\ Cycles = 1..MaxCycles /\ MaxCycles \in Nat
    BY Parts, Bounds, RunFacts
  <2> QED BY <1>5, <1>8, <2>2 DEF MachineInForm
<1> QED  BY <1>1, <1>2, <1>3, <1>4, <1>6, <1>7, <1>8, <1>9

(* The row of a cycle only gains artifacts.                                *)
RowsGrow == \A c \in Cycles: rows[c].art.has \subseteq rows'[c].art.has

LEMMA StrideRows ==
  ASSUME IInv, IInv', NEW r \in Runs, Strides(r), TriggersAreNew, ArtifactsAreKept
  PROVE  ArtifactsAreKept' /\ RowsGrow
<1> DEFINE v == run[r]
           w == run'[r]
           c == run[r].cycle
<1>1. /\ v.m.phase = machine.phase /\ w.m.phase = machine'.phase
      /\ machine.phase \in CyclePhases => c = machine.cycleId /\ c \in Cycles /\ c # 0
      /\ machine'.phase \in CyclePhases => c = machine'.cycleId /\ c \in Cycles /\ c # 0
      /\ Cycles' = Cycles
  BY StrideFacts
<1>2. Active = {r} /\ Active' = {r} /\ w.cycle = c
  BY DEF Strides
<1>3. /\ machine.phase \in CyclePhases => Kept(machine.phase) \subseteq rows[c].art.has
      /\ c # 0 /\ (v.art.loaded \/ v.m.phase \in CyclePhases) =>
           rows[c].art.has \subseteq v.art.has
  BY <1>1, <1>2 DEF ArtifactsAreKept
<1>4. (c # 0 => c \in Cycles) /\ rows \in [Cycles -> CycleRows]
  <2>1. c \in 0..MaxCycles /\ Cycles = 1..MaxCycles /\ MaxCycles \in Nat
    BY RunFacts, Parts, Bounds
  <2> QED BY <2>1, Untouched
<1> SUFFICES
      /\ RowsGrow
      /\ w.m.phase \in CyclePhases => Kept(w.m.phase) \subseteq rows'[c].art.has
      /\ c # 0 /\ (w.art.loaded \/ w.m.phase \in CyclePhases) =>
           rows'[c].art.has \subseteq w.art.has
  BY <1>1, <1>2 DEF ArtifactsAreKept
<1>5. CASE Fires(r)
  <2>1. /\ w.m.phase \in {"reconcilingAccount", "cancelling"} /\ rows' = rows
        /\ v.trigger
    BY <1>5 DEF Fires
  <2>2. rows[c].art.has = {}
    BY <1>2, <2>1 DEF TriggersAreNew, NoRow, NoArtifacts
  <2>3. Kept(w.m.phase) = {}
    BY <2>1 DEF Kept, Sending, Resolving
  <2> QED BY <2>1, <2>2, <2>3 DEF RowsGrow
<1>6. CASE Copies(r)
  <2>1. /\ v.art.has \subseteq w.art.has
        /\ w.art.loaded => v.art.loaded \/ v.m.phase \in CyclePhases
        /\ w.m.phase \in CyclePhases => v.m.phase \in CyclePhases
    BY <1>6 DEF Copies
  <2>2. CASE /\ rows' = rows
             /\ w.m.phase \in CyclePhases => Kept(w.m.phase) \subseteq Kept(v.m.phase)
    BY <1>1, <1>3, <2>1, <2>2 DEF RowsGrow
  <2>3. ASSUME v.art.loaded \/ v.m.phase \in CyclePhases,
               NEW o \in {machine.outcome, v.m.outcome}, rows' = Saved(r, w.art, o),
               w.m.phase \in CyclePhases =>
                 Kept(w.m.phase) \subseteq Kept(v.m.phase) \cup w.art.has
        PROVE  /\ RowsGrow
               /\ w.m.phase \in CyclePhases => Kept(w.m.phase) \subseteq rows'[c].art.has
               /\ c # 0 /\ (w.art.loaded \/ w.m.phase \in CyclePhases) =>
                    rows'[c].art.has \subseteq w.art.has
    <3> DEFINE x == [stored |-> TRUE, art |-> w.art, outcome |-> o]
    <3>1. rows' = [rows EXCEPT ![c] = x]
      BY <2>3 DEF Saved
    <3>2. x.art = w.art
      OBVIOUS
    <3> HIDE DEF x
    <3>3. /\ c # 0 => rows'[c].art.has = w.art.has
          /\ \A d \in Cycles \ {c}: rows'[d] = rows[d]
      BY <1>4, <3>1, <3>2
    <3>4. c # 0 => rows[c].art.has \subseteq w.art.has
      BY <1>3, <2>1, <2>3
    <3>5. RowsGrow
      <4> SUFFICES ASSUME NEW d \in Cycles
                   PROVE  rows[d].art.has \subseteq rows'[d].art.has
        BY DEF RowsGrow
      <4>1. CASE d # c
        BY <3>3, <4>1
      <4>2. CASE d = c
        <5>1. c # 0
          <6>1. Cycles = 1..MaxCycles
            BY Parts, Bounds
          <6> QED BY <4>2, <6>1
        <5> QED BY <3>3, <3>4, <4>2, <5>1
      <4> QED BY <4>1, <4>2
    <3> QED BY <1>1, <1>3, <2>1, <2>3, <3>3, <3>4, <3>5
  <2> QED BY <1>6, <2>2, <2>3 DEF Copies
<1> QED  BY <1>5, <1>6 DEF Strides

LEMMA CompleteToSubmit ==
  ASSUME IInv, IInv', NEW r \in Runs, Strides(r), ArtifactsAreKept,
         run[r].authorized, machine.phase = "submittingOrder"
  PROVE  ReadyToSubmit(r)
<1>1. machine.phase \in CyclePhases /\ Kept(machine.phase) = {"market", "order", "risk"}
  BY DEF CyclePhases, Preparing, Deciding, Resolving, Kept, Sending
<1>2. /\ run[r].cycle = machine.cycleId /\ run[r].cycle # 0
      /\ run[r].m.phase = machine.phase /\ Active = {r}
  BY <1>1, StrideFacts DEF Strides
<1>3. Kept(machine.phase) \subseteq run[r].art.has
  BY <1>1, <1>2 DEF ArtifactsAreKept
<1> QED  BY <1>1, <1>3 DEF ReadyToSubmit

LEMMA StrideAuthorized ==
  ASSUME IInv, IInv', NEW r \in Runs, Strides(r), ArtifactsAreKept, AuthorizedInPhase
  PROVE  AuthorizedInPhase'
<1>1. /\ run[r].m.phase = machine.phase /\ Active = {r} /\ Active' = {r}
  BY StrideFacts DEF Strides
<1>2. run[r].authorized => run[r].m.phase = "submittingOrder"
  BY <1>1 DEF AuthorizedInPhase
<1> SUFFICES ASSUME run'[r].authorized PROVE run'[r].m.phase = "submittingOrder"
  BY <1>1 DEF AuthorizedInPhase
<1>3. CASE Fires(r)
  BY <1>2, <1>3 DEF Fires
<1>4. CASE Quiet(r)
  <2>1. run[r].authorized
    BY <1>4 DEF Quiet
  <2>2. ReadyToSubmit(r)
    BY <1>1, <1>2, <2>1, CompleteToSubmit
  <2> QED BY <1>2, <1>4, <2>1, <2>2 DEF Quiet
<1>5. CASE Trades(r) /\ ~Quiet(r)
  BY <1>2, <1>5 DEF Trades, Intends, Authorizes, SubmitsPaper, SubmitsLive,
     ReconcilesPaper, ReconcilesLive, Empties
<1> QED  BY <1>3, <1>4, <1>5 DEF Strides

LEMMA StrideTriggers ==
  ASSUME NEW r \in Runs, Strides(r)
  PROVE  TriggersAreNew'
BY DEF Strides, TriggersAreNew, Fires, Copies

(* What becomes of the account and of the records in a step.               *)
LEMMA StrideAccount ==
  ASSUME IInv, IInv', NEW r \in Runs, Strides(r)
  PROVE  /\ \A d \in Cycles:
              \/ exchange'[d] = exchange[d]
              \/ exchange[d] = "open" /\ exchange'[d] = "void"
              \/ exchange[d] = "filled" /\ exchange'[d] = "closed"
              \/ /\ exchange[d] = "none" /\ exchange'[d] = "open" /\ d = run[r].cycle
                 /\ machine.phase \in {"submittingOrder", "reconcilingOrder"}
         /\ Mode = "paper" => exchange' = exchange
         /\ bracket' = bracket
<1>1. run[r].m = machine
  BY DEF Strides
<1>2. run[r].m.phase \in {"submittingOrder", "reconcilingOrder"} => run[r].cycle \in Cycles
  BY RunFacts DEF CyclePhases, Resolving
<1>3. CASE exchange' = exchange /\ bracket' = bracket
  BY <1>3
<1>4. CASE SubmitsLive(r)
  BY <1>1, <1>2, <1>4, AcceptedFacts DEF SubmitsLive
<1>5. CASE ReconcilesLive(r)
  BY <1>1, <1>2, <1>5, AcceptedFacts, EmptiedFacts DEF ReconcilesLive
<1>6. CASE Empties(r)
  BY <1>6, EmptiedFacts DEF Empties
<1>7. CASE Fires(r) \/ Quiet(r) \/ Intends(r) \/ Authorizes(r) \/ SubmitsPaper(r) \/ ReconcilesPaper(r)
  BY <1>3, <1>7 DEF Fires, Quiet, Intends, Authorizes, SubmitsPaper, ReconcilesPaper
<1> QED  BY <1>4, <1>5, <1>6, <1>7 DEF Strides, Trades

LEMMA OrderPhases ==
  /\ {"submittingOrder", "reconcilingOrder", "persistingOrderIntent", "authorizing"}
       \subseteq CyclePhases
  /\ {"submittingOrder", "reconcilingOrder", "authorizing"} \subseteq Sending
  /\ Sending \subseteq CyclePhases
  /\ Kept("submittingOrder") = {"market", "order", "risk"}
  /\ Kept("reconcilingOrder") = {"market", "order", "risk"}
BY DEF CyclePhases, Preparing, Deciding, Resolving, Sending, Kept

LEMMA StrideOrders ==
  ASSUME IInv, IInv', NEW r \in Runs, Strides(r)
  PROVE  /\ \A d \in Cycles: orders[d].status # "none" => orders'[d].status # "none"
         /\ machine'.phase \in Sending =>
              \/ machine.phase \in Sending
              \/ orders'[run[r].cycle].status # "none"
<1> DEFINE c == run[r].cycle
<1>1. /\ run[r].m.phase = machine.phase /\ run'[r].m.phase = machine'.phase
      /\ run[r].m.phase \in CyclePhases => c \in Cycles
  BY StrideFacts
<1>2. CASE Fires(r)
  <2>1. machine'.phase \notin Sending /\ orders' = orders
    BY <1>1, <1>2 DEF Fires, Sending, Resolving
  <2> QED BY <2>1
<1>3. CASE Quiet(r)
  BY <1>1, <1>3 DEF Quiet, Flows
<1>4. CASE Intends(r)
  <2>1. c \in Cycles /\ orders' = Intended(c)
    BY <1>1, <1>4, OrderPhases DEF Intends
  <2>2. /\ orders'[c].status # "none"
        /\ \A d \in Cycles: \/ orders'[d].status = orders[d].status
                            \/ orders'[d].status = "INTENT_PERSISTED"
    BY <2>1, IntendedFacts
  <2> QED BY <2>2
<1>5. CASE Authorizes(r)
  BY <1>1, <1>5, OrderPhases DEF Authorizes
<1>6. CASE SubmitsPaper(r)
  <2>1. machine.phase \in Sending /\ c \in Cycles
    BY <1>1, <1>6, OrderPhases DEF SubmitsPaper
  <2>2. orders' = orders \/ orders' = [orders EXCEPT ![c] = PaperRow(r)]
    BY <1>6 DEF SubmitsPaper
  <2>3. orders \in [Cycles -> OrderRows] /\ PaperRow(r).status = "CONFIRMED"
    BY Untouched DEF PaperRow
  <2>4. \A d \in Cycles: orders'[d] = orders[d] \/ orders'[d] = PaperRow(r)
    BY <2>2, <2>3
  <2> QED BY <2>1, <2>3, <2>4
<1>7. CASE SubmitsLive(r)
  <2>1. machine.phase \in Sending /\ c \in Cycles
        /\ Records(c, {"ACKNOWLEDGED", "REJECTED", "OUTCOME_UNKNOWN"})
    BY <1>1, <1>7, OrderPhases DEF SubmitsLive
  <2>2. {"ACKNOWLEDGED", "REJECTED", "OUTCOME_UNKNOWN"} \subseteq OrderStatuses
    BY DEF OrderStatuses
  <2> QED BY <2>1, <2>2, RecordsFacts
<1>8. CASE ReconcilesPaper(r)
  BY <1>1, <1>8, OrderPhases DEF ReconcilesPaper
<1>9. CASE ReconcilesLive(r)
  <2>1. machine.phase \in Sending /\ c \in Cycles
    BY <1>1, <1>9, OrderPhases DEF ReconcilesLive
  <2>2. {"ACKNOWLEDGED", "REJECTED", "CONFIRMED", "PROTECTION_FAILED"} \subseteq OrderStatuses
        /\ TRUE \in BOOLEAN
    BY DEF OrderStatuses
  <2>3. CASE Records(c, {"ACKNOWLEDGED", "REJECTED"})
    BY <2>1, <2>2, <2>3, RecordsFacts
  <2>4. CASE Record(c, "CONFIRMED", TRUE) \/ Record(c, "PROTECTION_FAILED", TRUE)
    BY <2>1, <2>2, <2>4, RecordFacts
  <2> QED BY <1>9, <2>3, <2>4 DEF ReconcilesLive
<1>10. CASE Empties(r)
  BY <1>1, <1>10, OrderPhases DEF Empties
<1> QED  BY <1>2, <1>3, <1>4, <1>5, <1>6, <1>7, <1>8, <1>9, <1>10 DEF Strides, Trades

LEMMA StrideIntent ==
  ASSUME IInv, IInv', NEW r \in Runs, Strides(r), Recorded
  PROVE  IntentIsKept'
<1> DEFINE c == run[r].cycle
<1>1. /\ machine.phase \in CyclePhases => c = machine.cycleId /\ c \in Cycles
      /\ machine'.phase \in CyclePhases => c = machine'.cycleId /\ c \in Cycles
      /\ Cycles' = Cycles
  BY StrideFacts
<1>2. /\ \A d \in Cycles: orders[d].status # "none" => orders'[d].status # "none"
      /\ machine'.phase \in Sending =>
           machine.phase \in Sending \/ orders'[c].status # "none"
  BY StrideOrders
<1>3. RowsGrow
  BY StrideRows DEF Recorded
<1>4. /\ machine.phase \in Sending => orders[machine.cycleId].status # "none"
      /\ \A d \in Cycles: exchange[d] # "none" =>
           orders[d].status # "none" /\ {"order", "risk"} \subseteq rows[d].art.has
  BY DEF Recorded, IntentIsKept
<1>5. machine'.phase \in Sending => orders'[machine'.cycleId].status # "none"
  BY <1>1, <1>2, <1>4, OrderPhases
<1>6. ASSUME NEW d \in Cycles, exchange'[d] # "none"
      PROVE  orders'[d].status # "none" /\ {"order", "risk"} \subseteq rows'[d].art.has
  <2>1. CASE exchange[d] # "none"
    BY <1>2, <1>3, <1>4, <2>1 DEF RowsGrow
  <2>2. CASE exchange[d] = "none"
    <3>1. d = c /\ machine.phase \in {"submittingOrder", "reconcilingOrder"}
      BY <1>6, <2>2, StrideAccount
    <3>2. Kept(machine.phase) \subseteq rows[d].art.has
      BY <1>1, <3>1, OrderPhases DEF Recorded, ArtifactsAreKept
    <3>3. orders[d].status # "none"
      BY <1>1, <1>4, <3>1, OrderPhases
    <3> QED BY <1>2, <1>3, <3>1, <3>2, <3>3, OrderPhases DEF RowsGrow
  <2> QED BY <2>1, <2>2
<1> QED  BY <1>1, <1>5, <1>6 DEF IntentIsKept

LEMMA StrideRecorded ==
  ASSUME IInv, IInv', NEW r \in Runs, Strides(r), Recorded
  PROVE  Recorded'
<1>1. TriggersAreNew' /\ ArtifactsAreKept' /\ AuthorizedInPhase' /\ IntentIsKept'
  BY StrideTriggers, StrideRows, StrideAuthorized, StrideIntent DEF Recorded
<1>2. PaperHasNoVenue'
  BY StrideFacts, StrideAccount DEF Recorded, PaperHasNoVenue
<1> QED  BY <1>1, <1>2 DEF Recorded

(* What a run that begins finds.                                           *)
LEMMA StartFacts ==
  ASSUME IInv, IInv', NEW r \in Runs, Starts(r)
  PROVE  /\ Cycles' = Cycles /\ Mode' = Mode /\ Active' = {r}
         /\ run'[r].m = machine' /\ run'[r].authorized = FALSE
         /\ run'[r].call = "none"
         /\ run'[r].trigger => run'[r].cycle = used + 1 /\ used + 1 \in Cycles
         /\ machine'.phase \in CyclePhases =>
              /\ machine'.cycleId = machine.cycleId /\ machine'.cycleId \in Cycles
              /\ \/ machine'.phase = machine.phase
                 \/ machine'.phase = "reconcilingOrder" /\ machine.phase = "submittingOrder"
         /\ machine'.outcome = "ORDER_CONFIRMED" =>
              /\ machine'.cycleId = machine.cycleId
              /\ machine.outcome = "ORDER_CONFIRMED"
         /\ run'[r].art.loaded \/ run'[r].m.phase \in CyclePhases =>
              /\ run'[r].cycle = machine'.cycleId
              /\ run'[r].cycle # 0 => run'[r].art = LoadArtifacts(run'[r].cycle)
<1>1. Cycles' = Cycles /\ Mode' = Mode /\ MaxCycles' = MaxCycles
  BY FixedSetup DEF Starts, MaxCycles
<1>2. PICK alarm \in BOOLEAN, resume \in {0, machine'.cycleId}:
        /\ Began(r, machine', run'[r].port, alarm, resume)
        /\ resume = machine'.cycleId \/ machine'.phase \notin CyclePhases
  BY DEF Starts
<1>3. /\ run' \in [Runs -> RunRecords] /\ run'[r].m = machine'
      /\ run'[r].call = "none" /\ run'[r].authorized = FALSE
      /\ run'[r].art = IF machine'.phase = "waiting" THEN NoArtifacts
                       ELSE LoadArtifacts(resume)
      /\ run'[r].trigger = (alarm /\ machine'.phase = "waiting")
      /\ run'[r].cycle = IF alarm /\ machine'.phase = "waiting" THEN used + 1
                         ELSE machine'.cycleId
  BY <1>2 DEF Began, Begun
<1>4. run'[r].cycle \in 0..MaxCycles /\ used \in 0..MaxCycles /\ MaxCycles \in Nat
      /\ Cycles = 1..MaxCycles
  BY <1>3, Parts, Bounds DEF RunRecords
<1>5. run'[r].trigger => run'[r].cycle = used + 1 /\ used + 1 \in Cycles
  <2>1. ASSUME run'[r].trigger PROVE run'[r].cycle = used + 1
    BY <1>3, <2>1
  <2>2. ASSUME run'[r].cycle = used + 1 PROVE used + 1 \in Cycles
    BY <1>4, <2>2
  <2> QED BY <2>1, <2>2
<1>6. "waiting" \notin CyclePhases /\ NoArtifacts.loaded = FALSE
      /\ LoadArtifacts(0) = NoArtifacts
  BY DEF CyclePhases, Preparing, Deciding, Resolving, NoArtifacts, LoadArtifacts
<1>7. run'[r].art.loaded \/ run'[r].m.phase \in CyclePhases =>
        /\ run'[r].cycle = machine'.cycleId
        /\ run'[r].cycle # 0 => run'[r].art = LoadArtifacts(run'[r].cycle)
  BY <1>2, <1>3, <1>6
<1>8. machine'.phase \in CyclePhases =>
        /\ machine'.cycleId = machine.cycleId
        /\ \/ machine'.phase = machine.phase
           \/ machine'.phase = "reconcilingOrder" /\ machine.phase = "submittingOrder"
  BY DEF Starts, Heeds
<1>9. machine'.phase \in CyclePhases => machine'.cycleId \in Cycles
  <2>1. MachineInForm(machine)'
    BY DEF IInv
  <2>2. machine'.phase \in CyclePhases => machine'.cycleId # 0
    BY <2>1 DEF MachineInForm
  <2> QED BY <1>3, <1>4, <1>7, <2>2
<1>10. machine'.outcome = "ORDER_CONFIRMED" =>
         machine'.cycleId = machine.cycleId /\ machine.outcome = "ORDER_CONFIRMED"
  BY DEF Starts, Heeds
<1>11. Active' = {r}
  BY DEF Starts
<1> QED  BY <1>1, <1>3, <1>5, <1>7, <1>8, <1>9, <1>10, <1>11

LEMMA StartRecorded ==
  ASSUME IInv, IInv', NEW r \in Runs, Starts(r), Recorded
  PROVE  Recorded'
<1>1. /\ Cycles' = Cycles /\ Mode' = Mode /\ Active' = {r}
      /\ run'[r].m = machine' /\ run'[r].authorized = FALSE
      /\ run'[r].trigger => run'[r].cycle = used + 1 /\ used + 1 \in Cycles
      /\ machine'.phase \in CyclePhases =>
           /\ machine'.cycleId = machine.cycleId /\ machine'.cycleId \in Cycles
           /\ \/ machine'.phase = machine.phase
              \/ machine'.phase = "reconcilingOrder" /\ machine.phase = "submittingOrder"
      /\ run'[r].art.loaded \/ run'[r].m.phase \in CyclePhases =>
           /\ run'[r].cycle = machine'.cycleId
           /\ run'[r].cycle # 0 => run'[r].art = LoadArtifacts(run'[r].cycle)
  BY StartFacts
<1>2. UNCHANGED <<rows, orders, exchange>>
  BY DEF Starts
<1>3. /\ \A c \in Cycles: c > used =>
           rows[c] = NoRow /\ orders[c].status = "none" /\ exchange[c] = "none"
      /\ \A c \in Cycles: ~rows[c].stored => rows[c].art = NoArtifacts
      /\ used \in Nat
  BY Parts, Bounds DEF CyclesAreFresh
<1>4. TriggersAreNew'
  <2>1. ASSUME run'[r].trigger
        PROVE  /\ run'[r].cycle \in Cycles
               /\ rows[run'[r].cycle] = NoRow /\ orders[run'[r].cycle].status = "none"
               /\ exchange[run'[r].cycle] = "none"
    <3>1. run'[r].cycle \in Cycles /\ run'[r].cycle > used
      BY <1>1, <1>3, <2>1
    <3> QED BY <1>3, <3>1
  <2> QED BY <1>1, <1>2, <2>1 DEF TriggersAreNew
<1>5. ArtifactsAreKept'
  <2>1. ASSUME machine'.phase \in CyclePhases
        PROVE  Kept(machine'.phase) \subseteq rows[machine'.cycleId].art.has
    BY <1>1, <2>1, OrderPhases DEF Recorded, ArtifactsAreKept
  <2>2. ASSUME run'[r].cycle # 0,
               run'[r].art.loaded \/ run'[r].m.phase \in CyclePhases
        PROVE  rows[run'[r].cycle].art.has \subseteq run'[r].art.has
    <3>1. run'[r].art = LoadArtifacts(run'[r].cycle)
      BY <1>1, <2>2
    <3>2. run'[r].cycle \in Cycles
      <4>1. run' \in [Runs -> RunRecords'] /\ MaxCycles' = MaxCycles
        BY DEF IInv, TypeOK, RunsTypeOK, Starts, MaxCycles
      <4>2. run'[r].cycle \in 0..MaxCycles /\ MaxCycles \in Nat /\ Cycles = 1..MaxCycles
        BY <4>1, Parts, Bounds DEF RunRecords
      <4> QED BY <2>2, <4>2
    <3> QED BY <1>3, <2>2, <3>1, <3>2 DEF LoadArtifacts, NoArtifacts
  <2> QED BY <1>1, <1>2, <2>1, <2>2 DEF ArtifactsAreKept
<1>6. AuthorizedInPhase'
  BY <1>1 DEF AuthorizedInPhase
<1>7. IntentIsKept'
  <2>1. machine'.phase \in Sending => machine.phase \in Sending
    BY <1>1, OrderPhases
  <2>2. machine'.phase \in Sending => machine'.cycleId = machine.cycleId
    BY <1>1, OrderPhases
  <2> QED BY <1>1, <1>2, <2>1, <2>2 DEF Recorded, IntentIsKept
<1>8. PaperHasNoVenue'
  BY <1>1, <1>2 DEF Recorded, PaperHasNoVenue
<1> QED  BY <1>4, <1>5, <1>6, <1>7, <1>8 DEF Recorded

(* What becomes of the account between the steps of the runs.              *)
LEMMA DriftAccount ==
  ASSUME IInv, SerialForm, Drifts
  PROVE  /\ \A d \in Cycles:
              \/ exchange'[d] = exchange[d]
              \/ exchange[d] = "open" /\ exchange'[d] \in {"void", "filled"}
              \/ exchange[d] = "filled" /\ exchange'[d] = "closed"
              \/ /\ exchange[d] = "none" /\ exchange'[d] = "open"
                 /\ d = machine.cycleId /\ Mode = "live" /\ Active' = {}
                 /\ machine.phase \in {"submittingOrder", "reconcilingOrder"}
         /\ \A d \in Cycles: exchange[d] # "open" => bracket'[d] = bracket[d]
<1>1. exchange \in [Cycles -> ExchangeStates]
  BY Untouched
<1>2. CASE UNCHANGED venue
  BY <1>2 DEF venue
<1>3. CASE Emptied /\ bracket' = bracket
  BY <1>3, EmptiedFacts
<1>4. ASSUME NEW r \in Active,
             run[r].call \in {"submit", "replay"}, exchange[run[r].cycle] = "none",
             exchange' = [exchange EXCEPT ![run[r].cycle] = "open"],
             bracket' = bracket /\ Active' = {}
      PROVE  /\ \A d \in Cycles:
                  \/ exchange'[d] = exchange[d]
                  \/ /\ exchange[d] = "none" /\ exchange'[d] = "open"
                     /\ d = machine.cycleId /\ Mode = "live" /\ Active' = {}
                     /\ machine.phase \in {"submittingOrder", "reconcilingOrder"}
             /\ bracket' = bracket
  <2>1. r \in Runs /\ run[r].m = machine
    BY DEF Active, SerialForm, Alone
  <2>2. Mode = "live" /\ machine.phase \in {"submittingOrder", "reconcilingOrder"}
    BY <1>4, <2>1, RunFacts DEF CallFits
  <2>3. run[r].cycle = machine.cycleId
    BY <2>1, <2>2, RunFacts
  <2> QED BY <1>1, <1>4, <2>2, <2>3
<1>5. ASSUME NEW c \in Cycles,
             exchange[c] = "open" /\ exchange'[c] \in {"filled", "void"},
             \A d \in Cycles \ {c}: exchange'[d] = exchange[d] /\ bracket'[d] = bracket[d]
      PROVE  /\ \A d \in Cycles:
                  \/ exchange'[d] = exchange[d]
                  \/ exchange[d] = "open" /\ exchange'[d] \in {"void", "filled"}
             /\ \A d \in Cycles: exchange[d] # "open" => bracket'[d] = bracket[d]
  BY <1>5
<1> QED  BY <1>2, <1>3, <1>4, <1>5 DEF Drifts

LEMMA RestFacts ==
  ASSUME IInv, Rests
  PROVE  /\ Cycles' = Cycles /\ Mode' = Mode
         /\ UNCHANGED <<rows, orders, executions, session>>
         /\ \A s \in Active': s \in Active /\ run'[s] = run[s]
         /\ machine'.phase \in CyclePhases \/ machine'.outcome = "ORDER_CONFIRMED" =>
              machine' = machine
BY FixedSetup DEF Rests

LEMMA RestRecorded ==
  ASSUME IInv, SerialForm, Rests, Recorded
  PROVE  Recorded'
<1>1. /\ Cycles' = Cycles /\ Mode' = Mode /\ UNCHANGED <<rows, orders>>
      /\ \A s \in Active': s \in Active /\ run'[s] = run[s]
      /\ machine'.phase \in CyclePhases => machine' = machine
  BY RestFacts
<1>2. \A d \in Cycles:
        \/ exchange'[d] = exchange[d]
        \/ exchange[d] \notin {"none", "void"} /\ exchange'[d] # "none"
        \/ /\ d = machine.cycleId /\ Mode = "live"
           /\ machine.phase \in {"submittingOrder", "reconcilingOrder"}
  BY DriftAccount DEF Rests
<1>3. TriggersAreNew'
  <2> SUFFICES ASSUME NEW s \in Active', run'[s].trigger
               PROVE  /\ run'[s].cycle \in Cycles
                      /\ rows[run'[s].cycle] = NoRow
                      /\ orders[run'[s].cycle].status = "none"
                      /\ exchange'[run'[s].cycle] = "none"
    BY <1>1 DEF TriggersAreNew
  <2> DEFINE c == run[s].cycle
  <2>1. /\ s \in Active /\ run'[s] = run[s] /\ c \in Cycles /\ rows[c] = NoRow
        /\ orders[c].status = "none" /\ exchange[c] = "none"
    BY <1>1 DEF Recorded, TriggersAreNew
  <2>2. run[s].m.phase = "waiting" /\ run[s].m = machine
    <3>1. s \in Runs /\ run[s].trigger /\ run[s].m = machine
      BY <2>1 DEF Active, SerialForm, Alone
    <3> QED BY <3>1, RunFacts
  <2>3. exchange'[c] = "none"
    BY <1>2, <2>1, <2>2
  <2> QED BY <2>1, <2>3
<1>4. ArtifactsAreKept' /\ AuthorizedInPhase'
  BY <1>1 DEF Recorded, ArtifactsAreKept, AuthorizedInPhase
<1>5. IntentIsKept'
  <2>1. machine'.phase \in Sending => orders[machine'.cycleId].status # "none"
    BY <1>1, OrderPhases DEF Recorded, IntentIsKept
  <2>2. ASSUME NEW d \in Cycles, exchange'[d] # "none"
        PROVE  orders[d].status # "none" /\ {"order", "risk"} \subseteq rows[d].art.has
    <3>1. CASE exchange[d] # "none"
      BY <3>1 DEF Recorded, IntentIsKept
    <3>2. CASE exchange[d] = "none"
      BY <1>2, <2>2, <3>2, OrderPhases DEF Recorded, IntentIsKept, ArtifactsAreKept
    <3> QED BY <3>1, <3>2
  <2> QED BY <1>1, <2>1, <2>2 DEF IntentIsKept
<1>6. PaperHasNoVenue'
  <2>1. Mode = "paper" => Mode # "live"
    OBVIOUS
  <2> QED BY <1>1, <1>2, <2>1 DEF Recorded, PaperHasNoVenue
<1> QED  BY <1>3, <1>4, <1>5, <1>6 DEF Recorded

-----------------------------------------------------------------------------
(* The account of a live agent whose invocations do not overlap.           *)

(* What is recorded as filled was filled, and the next order was not sent. *)
OrdersAreTrue ==
  /\ \A c \in KnownBrackets: exchange[c] \in {"filled", "closed"}
  /\ \A r \in Active:
       /\ run[r].call = "unwind" => exchange[run[r].cycle] \in {"filled", "closed"}
       /\ run[r].authorized => exchange[run[r].cycle] = "none"
  /\ machine.phase \in Preparing \cup Deciding => exchange[machine.cycleId] = "none"

(* The order of cycle c left a position with its bracket.                  *)
Sure(c) == exchange[c] = "closed" \/ (exchange[c] = "filled" /\ bracket[c])

ConfirmedIsSure ==
  /\ \A c \in Cycles: rows[c].outcome = "ORDER_CONFIRMED" => Sure(c)
  /\ machine.outcome = "ORDER_CONFIRMED" =>
       machine.cycleId \in Cycles /\ Sure(machine.cycleId)

(* One order at most is in doubt, and it is that of the cycle.             *)
DoubtIsOne ==
  /\ machine.phase \in Deciding => Doubtful = {}
  /\ machine.phase \in {"submittingOrder"} \cup Resolving =>
       Doubtful \subseteq {machine.cycleId}
  /\ \A r \in Active: run[r].authorized => Doubtful = {}
  /\ \A c, d \in Doubtful: c = d

LEMMA PhasesApart ==
  /\ Preparing \cap Deciding = {}
  /\ (Preparing \cup Deciding) \cap ({"submittingOrder"} \cup Resolving) = {}
  /\ (Preparing \cup Deciding) \cap
       {"waiting", "persisting", "failed", "cancelling", "reconcilingOrder",
        "submittingOrder"} = {}
  /\ ({"submittingOrder"} \cup Resolving) \cap
       {"waiting", "persisting", "failed", "cancelling", "reconcilingAccount"} = {}
  /\ {"persistingOrderIntent", "authorizing", "retryingExecution"} \subseteq Deciding
  /\ {"submittingOrder", "reconcilingOrder"} \subseteq {"submittingOrder"} \cup Resolving
  /\ "retryingExecution" \notin {"submittingOrder"} \cup Resolving
  /\ Preparing \cup Deciding \cup {"submittingOrder"} \cup Resolving \subseteq CyclePhases
BY DEF Preparing, Deciding, Resolving, CyclePhases

(* What a step of a live run records of its order.                         *)
LEMMA StrideBrackets ==
  ASSUME IInv, IInv', NEW r \in Runs, Strides(r), Mode = "live"
  PROVE  /\ \A d \in Cycles: d # run[r].cycle =>
              (d \in KnownBrackets' <=> d \in KnownBrackets)
         /\ run[r].cycle \in KnownBrackets' =>
              \/ run[r].cycle \in KnownBrackets
              \/ ReconcilesLive(r) /\ Protected(run[r].cycle) /\ exchange' = exchange
              \/ ReconcilesLive(r) /\ run[r].call = "unwind" /\ Emptied
         /\ ~(SubmitsLive(r) \/ ReconcilesLive(r)) => KnownBrackets' = KnownBrackets
<1> DEFINE c == run[r].cycle
           K == {"CONFIRMED", "PROTECTION_FAILED"}
<1>1. /\ run[r].m.phase = machine.phase /\ Cycles' = Cycles
      /\ run[r].m.phase \in CyclePhases => c \in Cycles
  BY StrideFacts
<1>2. /\ \A d \in Cycles: d \in KnownBrackets <=> orders[d].status \in K
      /\ \A d \in Cycles: d \in KnownBrackets' <=> orders'[d].status \in K
      /\ KnownBrackets \subseteq Cycles /\ KnownBrackets' \subseteq Cycles
  BY <1>1 DEF KnownBrackets
<1>3. CASE orders' = orders /\ ~(SubmitsLive(r) \/ ReconcilesLive(r))
  BY <1>2, <1>3
<1>4. CASE Intends(r)
  <2>1. c \in Cycles /\ orders' = Intended(c)
    BY <1>1, <1>4, OrderPhases DEF Intends
  <2>2. \A d \in Cycles: orders'[d].status \in K <=> orders[d].status \in K
    BY <2>1, IntendedFacts
  <2> QED BY <1>2, <2>2
<1>5. CASE SubmitsLive(r)
  <2>1. c \in Cycles /\ Records(c, {"ACKNOWLEDGED", "REJECTED", "OUTCOME_UNKNOWN"})
    BY <1>1, <1>5, OrderPhases DEF SubmitsLive
  <2>2. {"ACKNOWLEDGED", "REJECTED", "OUTCOME_UNKNOWN"} \in SUBSET OrderStatuses
    BY DEF OrderStatuses
  <2>3. /\ orders'[c].status \in {"ACKNOWLEDGED", "REJECTED", "OUTCOME_UNKNOWN"}
           \/ orders' = orders
        /\ \A d \in Cycles \ {c}: orders'[d] = orders[d]
    BY <2>1, <2>2, RecordsFacts
  <2> QED BY <1>2, <1>5, <2>3
<1>6. CASE ReconcilesLive(r)
  <2>1. c \in Cycles
    BY <1>1, <1>6, OrderPhases DEF ReconcilesLive
  <2>2. {"ACKNOWLEDGED", "REJECTED"} \in SUBSET OrderStatuses /\ TRUE \in BOOLEAN
        /\ {"CONFIRMED", "PROTECTION_FAILED"} \subseteq OrderStatuses
    BY DEF OrderStatuses
  <2>3. CASE Records(c, {"ACKNOWLEDGED", "REJECTED"})
    <3>1. /\ orders'[c].status \in {"ACKNOWLEDGED", "REJECTED"} \/ orders' = orders
          /\ \A d \in Cycles \ {c}: orders'[d] = orders[d]
      BY <2>1, <2>2, <2>3, RecordsFacts
    <3> QED BY <1>2, <1>6, <3>1
  <2>4. CASE Record(c, "CONFIRMED", TRUE) /\ Protected(c) /\ exchange' = exchange
    <3>1. \A d \in Cycles \ {c}: orders'[d] = orders[d]
      BY <2>1, <2>2, <2>4, RecordFacts
    <3> QED BY <1>2, <1>6, <2>4, <3>1
  <2>5. CASE Record(c, "PROTECTION_FAILED", TRUE) /\ run[r].call = "unwind" /\ Emptied
    <3>1. \A d \in Cycles \ {c}: orders'[d] = orders[d]
      BY <2>1, <2>2, <2>5, RecordFacts
    <3> QED BY <1>2, <1>6, <2>5, <3>1
  <2> QED BY <1>6, <2>3, <2>4, <2>5 DEF ReconcilesLive
<1>7. CASE Fires(r) \/ Quiet(r) \/ Authorizes(r) \/ Empties(r)
  <2>1. orders' = orders
    BY <1>7 DEF Fires, Quiet, Authorizes, Empties
  <2>2. ~(SubmitsLive(r) \/ ReconcilesLive(r)) \/ SubmitsLive(r) \/ ReconcilesLive(r)
    OBVIOUS
  <2> QED BY <1>3, <1>5, <1>6, <2>1, <2>2
<1>8. ~SubmitsPaper(r) /\ ~ReconcilesPaper(r)
  BY DEF SubmitsPaper, ReconcilesPaper
<1> QED  BY <1>4, <1>5, <1>6, <1>7, <1>8 DEF Strides, Trades

LEMMA StrideTrue ==
  ASSUME IInv, IInv', NEW r \in Runs, Strides(r), Mode = "live", Recorded, OrdersAreTrue
  PROVE  OrdersAreTrue'
<1> DEFINE c == run[r].cycle
           v == run[r]
           w == run'[r]
           F == {"filled", "closed"}
<1>1. /\ v.m.phase = machine.phase /\ w.m.phase = machine'.phase /\ Cycles' = Cycles
      /\ machine.phase \in CyclePhases => c = machine.cycleId /\ c \in Cycles
      /\ machine'.phase \in CyclePhases => c = machine'.cycleId /\ c \in Cycles
      /\ Active = {r} /\ Active' = {r} /\ w.cycle = c
  BY StrideFacts DEF Strides
<1>2. /\ \A d \in Cycles:
           \/ exchange'[d] = exchange[d]
           \/ exchange[d] = "open" /\ exchange'[d] = "void"
           \/ exchange[d] = "filled" /\ exchange'[d] = "closed"
           \/ /\ exchange[d] = "none" /\ exchange'[d] = "open" /\ d = c
  BY StrideAccount
<1>3. /\ KnownBrackets \subseteq Cycles /\ KnownBrackets' \subseteq Cycles
      /\ \A d \in KnownBrackets: exchange[d] \in F
      /\ v.call = "unwind" => exchange[c] \in F
      /\ v.authorized => exchange[c] = "none"
      /\ machine.phase \in Preparing \cup Deciding => exchange[c] = "none"
  BY <1>1, PhasesApart DEF KnownBrackets, OrdersAreTrue
<1>4. \A d \in KnownBrackets': exchange'[d] \in F
  <2> SUFFICES ASSUME NEW d \in KnownBrackets' PROVE exchange'[d] \in F
    OBVIOUS
  <2>1. d \in Cycles
    BY <1>3
  <2>2. CASE d \in KnownBrackets
    BY <1>2, <1>3, <2>1, <2>2
  <2>3. CASE d \notin KnownBrackets
    <3>1. /\ d = c
          /\ \/ Protected(c) /\ exchange' = exchange
             \/ v.call = "unwind" /\ Emptied
      BY <2>1, <2>3, StrideBrackets
    <3> QED BY <1>2, <1>3, <2>1, <3>1 DEF Protected
  <2> QED BY <2>2, <2>3
<1>5. w.call = "unwind" => exchange'[c] \in F
  BY <1>3 DEF Strides, Fires, Trades, Quiet, Intends, Authorizes, SubmitsPaper, SubmitsLive,
     ReconcilesPaper, ReconcilesLive, Empties
<1>6. w.authorized => exchange'[c] = "none"
  <2>1. AuthorizedInPhase'
    BY StrideAuthorized DEF Recorded
  <2>2. v.authorized => v.m.phase = "submittingOrder"
    BY <1>1 DEF Recorded, AuthorizedInPhase
  <2>3. CASE Fires(r) \/ Quiet(r) \/ Intends(r)
    BY <1>3, <2>3 DEF Fires, Quiet, Intends
  <2>4. CASE Authorizes(r)
    BY <1>1, <1>3, <2>4, PhasesApart DEF Authorizes
  <2>5. CASE SubmitsLive(r) \/ ReconcilesLive(r) \/ Empties(r)
    BY <2>2, <2>5 DEF SubmitsLive, ReconcilesLive, Empties
  <2> QED BY <2>3, <2>4, <2>5 DEF Strides, Trades, SubmitsPaper, ReconcilesPaper
<1>7. machine'.phase \in Preparing \cup Deciding => exchange'[c] = "none"
  <2>1. CASE Fires(r)
    BY <1>1, <2>1 DEF Fires, Recorded, TriggersAreNew
  <2>2. CASE Quiet(r)
    BY <1>1, <1>3, <2>2, PhasesApart DEF Quiet, Flows
  <2>3. CASE Intends(r)
    BY <1>1, <1>3, <2>3, PhasesApart DEF Intends
  <2>4. CASE Authorizes(r)
    BY <1>1, <2>4, PhasesApart DEF Authorizes
  <2>5. CASE SubmitsLive(r)
    BY <1>1, <1>3, <2>5, PhasesApart DEF SubmitsLive
  <2>6. CASE ReconcilesLive(r)
    BY <1>1, <2>6, PhasesApart DEF ReconcilesLive
  <2>7. CASE Empties(r)
    BY <1>1, <2>7, PhasesApart DEF Empties
  <2> QED BY <2>1, <2>2, <2>3, <2>4, <2>5, <2>6, <2>7
          DEF Strides, Trades, SubmitsPaper, ReconcilesPaper
<1> QED  BY <1>1, <1>4, <1>5, <1>6, <1>7, PhasesApart DEF OrdersAreTrue

(* What was sure stays sure.                                               *)
LEMMA StrideSure ==
  ASSUME IInv, IInv', NEW r \in Runs, Strides(r), Mode = "live", ConfirmedIsSure
  PROVE  ConfirmedIsSure'
<1> DEFINE c == run[r].cycle
<1>1. /\ run[r].m = machine /\ run'[r].m = machine' /\ Cycles' = Cycles
      /\ machine.phase \in CyclePhases => c = machine.cycleId /\ c \in Cycles /\ c # 0
      /\ Copies(r) => c = machine.cycleId /\ machine'.cycleId = machine.cycleId
  BY StrideFacts DEF Strides
<1>2. \A d \in Cycles: Sure(d) => Sure(d)'
  BY StrideAccount DEF Sure
<1>3. /\ \A d \in Cycles: rows[d].outcome = "ORDER_CONFIRMED" => Sure(d)
      /\ machine.outcome = "ORDER_CONFIRMED" =>
           machine.cycleId \in Cycles /\ Sure(machine.cycleId)
  BY DEF ConfirmedIsSure
<1>4. CASE Fires(r)
  BY <1>1, <1>2, <1>3, <1>4 DEF Fires, ConfirmedIsSure, Sure
<1>5. CASE Copies(r) /\ Trades(r)
  <2>1. machine'.outcome = "ORDER_CONFIRMED" =>
          machine'.cycleId \in Cycles /\ Sure(machine.cycleId)'
    <3>1. CASE Unconfirmed(r)
      BY <1>1, <1>2, <1>3, <1>5, <3>1 DEF Unconfirmed, Sure
    <3>2. CASE ReconcilesLive(r) /\ Protected(c) /\ exchange' = exchange
      <4>1. c \in Cycles /\ machine'.cycleId = c
        BY <1>1, <1>5, <3>2, OrderPhases DEF ReconcilesLive
      <4>2. bracket' = bracket
        BY <3>2 DEF ReconcilesLive
      <4> QED BY <3>2, <4>1, <4>2 DEF Sure, Protected
    <3> QED BY <1>5, <3>1, <3>2
            DEF Trades, Quiet, Intends, Authorizes, SubmitsPaper, SubmitsLive,
                ReconcilesPaper, ReconcilesLive, Empties
  <2>2. ASSUME NEW d \in Cycles, rows'[d].outcome = "ORDER_CONFIRMED"
        PROVE  Sure(d)'
    <3>1. CASE rows'[d] = rows[d]
      BY <1>2, <1>3, <2>2, <3>1
    <3>2. CASE rows'[d] # rows[d]
      <4>1. PICK o \in {machine.outcome, run[r].m.outcome}:
              rows' = Saved(r, run'[r].art, o)
        BY <1>5, <3>2 DEF Copies
      <4> DEFINE x == [stored |-> TRUE, art |-> run'[r].art, outcome |-> o]
      <4>2. rows' = [rows EXCEPT ![c] = x] /\ x.outcome = machine.outcome
        BY <1>1, <4>1 DEF Saved
      <4> HIDE DEF x
      <4>3. rows \in [Cycles -> CycleRows]
        BY Untouched
      <4>4. d = c /\ rows'[d] = x
        BY <3>2, <4>2, <4>3
      <4>5. Sure(c)
        BY <1>1, <1>3, <1>5, <2>2, <4>2, <4>4
      <4> QED BY <1>2, <4>4, <4>5
    <3> QED BY <3>1, <3>2
  <2> QED BY <1>1, <2>1, <2>2 DEF ConfirmedIsSure
<1> QED  BY <1>4, <1>5 DEF Strides

(* An owned account holds nothing that is in doubt.                        *)
LEMMA OwnedIsClear ==
  ASSUME OrdersAreTrue, AccountIsOwned
  PROVE  Doubtful = {}
BY DEF OrdersAreTrue, AccountIsOwned, Doubtful, OpenOrders, Held

LEMMA StrideDoubt ==
  ASSUME IInv, IInv', NEW r \in Runs, Strides(r), Mode = "live", Recorded,
         OrdersAreTrue, DoubtIsOne
  PROVE  DoubtIsOne'
<1> DEFINE c == run[r].cycle
           v == run[r]
           w == run'[r]
           D == Doubtful
           E == Doubtful'
           S == {"submittingOrder"} \cup Resolving
<1>1. /\ v.m.phase = machine.phase /\ w.m.phase = machine'.phase /\ Cycles' = Cycles
      /\ machine.phase \in CyclePhases => c = machine.cycleId /\ c \in Cycles
      /\ machine'.phase \in CyclePhases => c = machine'.cycleId /\ c \in Cycles
      /\ Active = {r} /\ Active' = {r} /\ w.cycle = c
  BY StrideFacts DEF Strides
<1>2. /\ machine.phase \in Deciding => D = {}
      /\ machine.phase \in S => D \subseteq {c}
      /\ v.authorized => D = {}
      /\ \A d, e \in D: d = e
  BY <1>1, PhasesApart DEF DoubtIsOne
<1>3. /\ D = {d \in Cycles: \/ exchange[d] = "open"
                            \/ exchange[d] = "filled" /\ bracket[d]
                               /\ d \notin KnownBrackets}
      /\ E = {d \in Cycles: \/ exchange'[d] = "open"
                            \/ exchange'[d] = "filled" /\ bracket'[d]
                               /\ d \notin KnownBrackets'}
  BY <1>1 DEF Doubtful, OpenOrders, Held
<1>4. /\ \A d \in Cycles:
           \/ exchange'[d] = exchange[d]
           \/ exchange[d] = "open" /\ exchange'[d] = "void"
           \/ exchange[d] = "filled" /\ exchange'[d] = "closed"
           \/ /\ exchange[d] = "none" /\ exchange'[d] = "open" /\ d = c
              /\ machine.phase \in S
      /\ bracket' = bracket
  BY StrideAccount, PhasesApart
<1>5. /\ \A d \in Cycles: d # c => (d \in KnownBrackets' <=> d \in KnownBrackets)
      /\ ~(SubmitsLive(r) \/ ReconcilesLive(r)) => KnownBrackets' = KnownBrackets
  BY StrideBrackets
<1>6. w.authorized => w.m.phase = "submittingOrder"
  BY <1>1, StrideAuthorized DEF Recorded, AuthorizedInPhase
<1> HIDE DEF D, E, v, w, S
<1>7. E \subseteq D \cup {c}
  BY <1>3, <1>4, <1>5
<1>8. SUFFICES /\ machine'.phase \in Deciding => E = {}
               /\ machine'.phase \in S => E \subseteq {c}
               /\ w.authorized => E = {}
               /\ \A d, e \in E: d = e
  BY <1>1, PhasesApart DEF DoubtIsOne, E, S, w
<1>9. ASSUME exchange' = exchange, KnownBrackets' = KnownBrackets PROVE E = D
  BY <1>3, <1>4, <1>9
<1>10. CASE Fires(r)
  <2>1. E = D /\ machine'.phase \notin Deciding \cup S /\ ~w.authorized
    <3>1. exchange' = exchange /\ ~(SubmitsLive(r) \/ ReconcilesLive(r))
      BY <1>10 DEF Fires, SubmitsLive, ReconcilesLive
    <3>2. machine'.phase \notin Deciding \cup S /\ machine'.phase # "submittingOrder"
      BY <1>1, <1>10, PhasesApart DEF Fires, S, w, Preparing, Deciding, Resolving
    <3> QED BY <1>1, <1>5, <1>6, <1>9, <3>1, <3>2 DEF w
  <2> QED BY <1>2, <2>1
<1>11. CASE Quiet(r)
  <2>1. E = D
    <3>1. orders' = orders /\ exchange' = exchange
      BY <1>11 DEF Quiet
    <3>2. KnownBrackets' = KnownBrackets
      BY <1>1, <3>1 DEF KnownBrackets
    <3> QED BY <1>9, <3>1, <3>2
  <2>2. machine'.phase \in Deciding => D = {}
    BY <1>1, <1>2, <1>11, OwnedIsClear DEF Quiet, D, v, w
  <2>3. machine'.phase \in S => machine.phase \in S
    BY <1>1, <1>11 DEF Quiet, Flows, S, v, w
  <2>4. w.authorized => v.authorized
    BY <1>11 DEF Quiet, v, w
  <2> QED BY <1>2, <2>1, <2>2, <2>3, <2>4
<1>12. CASE Intends(r) \/ Authorizes(r)
  <2>1. machine.phase \in Deciding
    BY <1>1, <1>12, PhasesApart DEF Intends, Authorizes, v
  <2>2. E = D
    <3>1. ~(SubmitsLive(r) \/ ReconcilesLive(r)) /\ exchange' = exchange
      BY <1>12 DEF Intends, Authorizes, SubmitsLive, ReconcilesLive
    <3> QED BY <1>5, <1>9, <3>1
  <2> QED BY <1>2, <2>1, <2>2
<1>13. CASE SubmitsLive(r)
  <2>1. v.authorized /\ D = {} /\ exchange[c] = "none" /\ c \in Cycles
    BY <1>1, <1>2, <1>13, OrderPhases DEF SubmitsLive, OrdersAreTrue, v
  <2>2. /\ ~w.authorized
        /\ \/ w.m.phase = "reconcilingOrder"
           \/ exchange' = exchange /\ w.m.phase \notin S
    BY <1>13, PhasesApart DEF SubmitsLive, w, S, Resolving
  <2>3. machine'.phase = "reconcilingOrder" => machine'.phase \notin Deciding
    BY PhasesApart
  <2>4. exchange' = exchange => E = {}
    BY <1>3, <1>4, <1>5, <2>1
  <2> QED BY <1>1, <1>7, <2>1, <2>2, <2>3, <2>4 DEF w
<1>14. CASE ReconcilesLive(r)
  <2>1. machine.phase \in S /\ machine'.phase \notin Deciding /\ ~w.authorized
    <3>1. machine.phase \in S /\ machine'.phase \notin Deciding
          /\ machine'.phase # "submittingOrder"
      BY <1>1, <1>14, PhasesApart DEF ReconcilesLive, v, w, S, Resolving
    <3> QED BY <1>1, <1>6, <3>1 DEF w
  <2> QED BY <1>2, <1>7, <2>1
<1>15. CASE Empties(r)
  <2>1. machine'.phase \notin Deciding \cup S /\ ~w.authorized /\ machine.phase \notin S
    <3>1. machine'.phase \notin Deciding \cup S /\ machine.phase \notin S
          /\ machine'.phase # "submittingOrder"
      BY <1>1, <1>15, PhasesApart DEF Empties, v, w, S, CyclePhases
    <3> QED BY <1>1, <1>6, <3>1 DEF w
  <2>2. KnownBrackets' = KnownBrackets
    BY <1>5, <1>15 DEF Empties, SubmitsLive, ReconcilesLive
  <2>3. E \subseteq D
    BY <1>3, <1>4, <2>1, <2>2
  <2> QED BY <1>2, <2>1, <2>3
<1> QED  BY <1>10, <1>11, <1>12, <1>13, <1>14, <1>15
         DEF Strides, Trades, SubmitsPaper, ReconcilesPaper

AccountForm == Mode = "live" => OrdersAreTrue /\ ConfirmedIsSure /\ DoubtIsOne

LEMMA StrideAccountForm ==
  ASSUME IInv, IInv', NEW r \in Runs, Strides(r), Recorded, AccountForm
  PROVE  AccountForm'
BY StrideFacts, StrideTrue, StrideSure, StrideDoubt DEF AccountForm

LEMMA StartAccountForm ==
  ASSUME IInv, IInv', NEW r \in Runs, Starts(r), AccountForm
  PROVE  AccountForm'
<1>1. /\ Cycles' = Cycles /\ Mode' = Mode /\ Active' = {r}
      /\ run'[r].authorized = FALSE /\ run'[r].call = "none"
      /\ machine'.phase \in CyclePhases =>
           /\ machine'.cycleId = machine.cycleId
           /\ \/ machine'.phase = machine.phase
              \/ machine'.phase = "reconcilingOrder" /\ machine.phase = "submittingOrder"
      /\ machine'.outcome = "ORDER_CONFIRMED" =>
           machine'.cycleId = machine.cycleId /\ machine.outcome = "ORDER_CONFIRMED"
  BY StartFacts
<1>2. UNCHANGED <<rows, orders, exchange, bracket>>
  BY DEF Starts
<1> SUFFICES ASSUME Mode = "live", OrdersAreTrue, ConfirmedIsSure, DoubtIsOne
             PROVE  OrdersAreTrue' /\ ConfirmedIsSure' /\ DoubtIsOne'
  BY <1>1 DEF AccountForm
<1>3. KnownBrackets' = KnownBrackets /\ Doubtful' = Doubtful
  BY <1>1, <1>2 DEF KnownBrackets, Doubtful, OpenOrders, Held
<1>4. OrdersAreTrue'
  BY <1>1, <1>2, <1>3, PhasesApart DEF OrdersAreTrue
<1>5. ConfirmedIsSure'
  BY <1>1, <1>2 DEF ConfirmedIsSure, Sure
<1>6. DoubtIsOne'
  <2>1. machine'.phase \in Deciding => machine.phase \in Deciding
    BY <1>1, PhasesApart
  <2>2. machine'.phase \in {"submittingOrder"} \cup Resolving =>
          /\ machine.phase \in {"submittingOrder"} \cup Resolving
          /\ machine'.cycleId = machine.cycleId
    BY <1>1, PhasesApart
  <2> QED BY <1>1, <1>3, <2>1, <2>2 DEF DoubtIsOne
<1> QED  BY <1>4, <1>5, <1>6

LEMMA RestAccountForm ==
  ASSUME IInv, SerialForm, Rests, Recorded, AccountForm
  PROVE  AccountForm'
<1>1. /\ Cycles' = Cycles /\ Mode' = Mode /\ UNCHANGED <<rows, orders>>
      /\ \A s \in Active': s \in Active /\ run'[s] = run[s]
      /\ machine'.phase \in CyclePhases \/ machine'.outcome = "ORDER_CONFIRMED" =>
           machine' = machine
  BY RestFacts
<1> DEFINE S == {"submittingOrder"} \cup Resolving
<1>2. /\ \A d \in Cycles:
           \/ exchange'[d] = exchange[d]
           \/ exchange[d] = "open" /\ exchange'[d] \in {"void", "filled"}
           \/ exchange[d] = "filled" /\ exchange'[d] = "closed"
           \/ /\ exchange[d] = "none" /\ exchange'[d] = "open"
              /\ d = machine.cycleId /\ machine.phase \in S /\ Active' = {}
      /\ \A d \in Cycles: exchange[d] # "open" => bracket'[d] = bracket[d]
  <2>1. {"submittingOrder", "reconcilingOrder"} \subseteq S
    BY DEF Resolving
  <2> QED BY <2>1, DriftAccount DEF Rests
<1>3. \A s \in Active: s \in Runs /\ run[s].m = machine
  BY DEF Active, SerialForm, Alone
<1> SUFFICES ASSUME Mode = "live", OrdersAreTrue, ConfirmedIsSure, DoubtIsOne
             PROVE  OrdersAreTrue' /\ ConfirmedIsSure' /\ DoubtIsOne'
  BY <1>1 DEF AccountForm
<1>4. KnownBrackets' = KnownBrackets /\ KnownBrackets \subseteq Cycles
  BY <1>1 DEF KnownBrackets
<1>5. machine'.phase \in Preparing \cup Deciding \cup S => machine' = machine
  BY <1>1, PhasesApart
<1>6. OrdersAreTrue'
  <2>1. \A c \in KnownBrackets: exchange'[c] \in {"filled", "closed"}
    BY <1>2, <1>4 DEF OrdersAreTrue
  <2>2. ASSUME NEW s \in Active'
        PROVE  /\ run'[s].call = "unwind" => exchange'[run'[s].cycle] \in {"filled", "closed"}
               /\ run'[s].authorized => exchange'[run'[s].cycle] = "none"
    <3>1. s \in Active /\ run'[s] = run[s] /\ s \in Runs /\ run[s].m = machine
      BY <1>1, <1>3
    <3>2. ASSUME run[s].call = "unwind"
          PROVE  exchange'[run[s].cycle] \in {"filled", "closed"}
      <4>1. run[s].cycle \in Cycles
        <5>1. run[s].m.phase = "reconcilingOrder"
          BY <3>1, <3>2, RunFacts DEF CallFits
        <5> QED BY <3>1, <5>1, RunFacts, OrderPhases
      <4> QED BY <1>2, <3>1, <3>2, <4>1 DEF OrdersAreTrue
    <3>3. ASSUME run[s].authorized PROVE exchange'[run[s].cycle] = "none"
      <4>1. run[s].cycle \in Cycles
        BY <3>1, <3>3, RunFacts, OrderPhases DEF Recorded, AuthorizedInPhase
      <4>2. exchange[run[s].cycle] = "none" /\ Active' # {}
        BY <3>1, <3>3 DEF OrdersAreTrue
      <4> QED BY <1>2, <4>1, <4>2
    <3> QED BY <3>1, <3>2, <3>3
  <2>3. ASSUME machine'.phase \in Preparing \cup Deciding
        PROVE  exchange'[machine'.cycleId] = "none"
    <3>1. machine' = machine /\ machine.phase \in Preparing \cup Deciding
      BY <1>5, <2>3
    <3>2. machine.phase \in CyclePhases /\ machine.phase \notin S
      BY <3>1, PhasesApart
    <3>3. machine.cycleId \in Cycles
      BY <3>2, MachineFacts, Parts, Bounds DEF MachineInForm
    <3>4. exchange[machine.cycleId] = "none"
      BY <3>1 DEF OrdersAreTrue
    <3> QED BY <1>2, <3>1, <3>2, <3>3, <3>4
  <2> QED BY <1>4, <2>1, <2>2, <2>3 DEF OrdersAreTrue
<1>7. ConfirmedIsSure'
  BY <1>1, <1>2 DEF ConfirmedIsSure, Sure
<1>8. DoubtIsOne'
  <2> DEFINE D == Doubtful
             E == Doubtful'
  <2>1. /\ D = {d \in Cycles: \/ exchange[d] = "open"
                              \/ exchange[d] = "filled" /\ bracket[d]
                                 /\ d \notin KnownBrackets}
        /\ E = {d \in Cycles: \/ exchange'[d] = "open"
                              \/ exchange'[d] = "filled" /\ bracket'[d]
                                 /\ d \notin KnownBrackets}
    BY <1>1, <1>4 DEF Doubtful, OpenOrders, Held
  <2>2. /\ machine.phase \in Deciding => D = {}
        /\ machine.phase \in S => D \subseteq {machine.cycleId}
        /\ \A s \in Active: run[s].authorized => D = {}
        /\ \A c, d \in D: c = d
    BY DEF DoubtIsOne
  <2> HIDE DEF D, E
  <2>3. \/ E \subseteq D
        \/ machine.phase \in S /\ E \subseteq D \cup {machine.cycleId} /\ Active' = {}
    BY <1>2, <2>1
  <2>4. machine'.phase \in Deciding => E = {}
    BY <1>5, <2>2, <2>3, PhasesApart
  <2>5. machine'.phase \in S => E \subseteq {machine'.cycleId}
    BY <1>5, <2>2, <2>3
  <2>6. \A c, d \in E: c = d
    BY <2>2, <2>3
  <2>7. \A s \in Active': run'[s].authorized => E = {}
    BY <1>1, <2>2, <2>3
  <2> QED BY <2>4, <2>5, <2>6, <2>7 DEF DoubtIsOne, E
<1> QED  BY <1>6, <1>7, <1>8

-----------------------------------------------------------------------------
(* Paper orders.                                                           *)

(* An order is executed once, and its row says so.                         *)
ExecutedOnce ==
  \A c \in Cycles:
    \/ executions[c] = 0
    \/ executions[c] = 1 /\ Mode = "paper" /\ orders[c].status = "CONFIRMED"

(* A cycle that has not come past its submission has not executed.         *)
NotExecuted ==
  Mode = "paper" /\ machine.phase \in Preparing \cup Deciding \cup {"submittingOrder"} =>
    orders[machine.cycleId].status # "CONFIRMED"

(* What the session has executed.                                          *)
Fills == {c \in Cycles: c > session /\ orders[c].status = "CONFIRMED"}

(* The portfolio of the agent, of its run and of the row of its order.     *)
FillsAreBooked ==
  Mode = "paper" /\ crashes = 0 =>
    /\ Active = {} => portfolio = Fills
    /\ \A r \in Active:
         /\ run[r].port = Fills
         /\ run[r].trigger => run[r].cycle > session
    /\ machine.phase \in CyclePhases => machine.cycleId > session
    /\ machine.phase \in Resolving /\ orders[machine.cycleId].status = "CONFIRMED" =>
         orders[machine.cycleId].booked = Fills

SessionIsPast == session <= used

(* What a step of a paper run records.                                     *)
LEMMA PaperOrders ==
  ASSUME IInv, NEW r \in Runs, Mode = "paper", Copies(r) /\ Trades(r)
  PROVE  \/ /\ \A d \in Cycles: /\ orders'[d].status = "CONFIRMED" <=>
                                    orders[d].status = "CONFIRMED"
                                /\ orders'[d].booked = orders[d].booked
            /\ executions' = executions
            /\ \/ run'[r].port = run[r].port
               \/ /\ run'[r].port = orders[run[r].cycle].booked
                  /\ Executed(r)
                  /\ run[r].m.phase \in {"submittingOrder", "reconcilingOrder"}
            /\ Quiet(r) \/ Intends(r) \/ Authorizes(r) \/ SubmitsPaper(r)
               \/ ReconcilesPaper(r)
         \/ /\ SubmitsPaper(r) /\ (~Executed(r) \/ MaxFaults > 0)
            /\ run[r].m.phase = "submittingOrder"
            /\ run[r].cycle \in Cycles
            /\ run'[r].m.phase \in {"persisting", "reconcilingOrder"}
            /\ run'[r].port = run[r].port \cup {run[r].cycle}
            /\ orders' = [orders EXCEPT ![run[r].cycle] = PaperRow(r)]
            /\ executions' = [executions EXCEPT ![run[r].cycle] = @ + 1]
<1> DEFINE c == run[r].cycle
<1>1. Mode # "live"
  OBVIOUS
<1>2. Quiet(r) \/ Intends(r) \/ Authorizes(r) \/ SubmitsPaper(r) \/ ReconcilesPaper(r)
  BY <1>1 DEF Trades, SubmitsLive, ReconcilesLive, Empties
<1>3. CASE Quiet(r) \/ Authorizes(r)
  BY <1>3 DEF Quiet, Authorizes
<1>4. CASE Intends(r)
  <2>1. c \in Cycles
    BY <1>4, RunFacts, OrderPhases DEF Intends
  <2>2. \A d \in Cycles: /\ orders'[d].status = "CONFIRMED" <=>
                              orders[d].status = "CONFIRMED"
                         /\ orders'[d].booked = orders[d].booked
    BY <1>4, <2>1, IntendedFacts DEF Intends
  <2> QED BY <1>4, <2>2 DEF Intends
<1>5. CASE ReconcilesPaper(r)
  BY <1>5 DEF ReconcilesPaper
<1>6. CASE SubmitsPaper(r)
  <2>1. c \in Cycles
    BY <1>6, RunFacts, OrderPhases DEF SubmitsPaper
  <2> QED BY <1>6, <2>1 DEF SubmitsPaper
<1> QED  BY <1>2, <1>3, <1>4, <1>5, <1>6

LEMMA PaperRowFacts ==
  ASSUME IInv, NEW r \in Runs, run[r].cycle \in Cycles,
         orders' = [orders EXCEPT ![run[r].cycle] = PaperRow(r)]
  PROVE  /\ orders'[run[r].cycle].status = "CONFIRMED"
         /\ orders'[run[r].cycle].booked = run[r].port \cup {run[r].cycle}
         /\ \A d \in Cycles \ {run[r].cycle}: orders'[d] = orders[d]
BY Untouched DEF PaperRow

(* A step of a run executes no order twice, if the row of the order can be *)
(* read, or if the order was not executed before.                          *)
LEMMA StepExecutes ==
  ASSUME IInv, NEW r \in Runs, RunStep(r) \/ Answer(r), UNCHANGED shell, ExecutedOnce,
         \/ MaxFaults = 0
         \/ Mode = "paper" /\ run[r].m.phase = "submittingOrder" => ~Executed(r)
  PROVE  ExecutedOnce'
<1> DEFINE c == run[r].cycle
<1>1. Cycles' = Cycles /\ Mode' = Mode /\ MaxFaults \in Nat /\ Mode \in {"paper", "live"}
  BY FixedSetup, Parts, Bounds DEF shell
<1>2. executions \in [Cycles -> Nat]
  BY Parts DEF StorageInForm
<1>3. CASE Fires(r)
  BY <1>1, <1>3 DEF Fires, ExecutedOnce
<1>4. CASE Mode = "live" /\ Copies(r) /\ Trades(r)
  <2>1. executions' = executions
    BY <1>4 DEF Trades, Quiet, Intends, Authorizes, SubmitsPaper, SubmitsLive,
                ReconcilesPaper, ReconcilesLive, Empties
  <2>2. \A d \in Cycles: executions[d] = 0
    BY <1>4 DEF ExecutedOnce
  <2> QED BY <1>1, <2>1, <2>2 DEF ExecutedOnce
<1>5. CASE Mode = "paper" /\ Copies(r) /\ Trades(r)
  <2>1. CASE /\ \A d \in Cycles: orders'[d].status = "CONFIRMED" <=>
                                   orders[d].status = "CONFIRMED"
             /\ executions' = executions
    BY <1>1, <2>1 DEF ExecutedOnce
  <2>2. CASE /\ ~Executed(r) \/ MaxFaults > 0
             /\ run[r].m.phase = "submittingOrder" /\ c \in Cycles
             /\ orders' = [orders EXCEPT ![c] = PaperRow(r)]
             /\ executions' = [executions EXCEPT ![c] = @ + 1]
    <3>1. ~Executed(r)
      BY <1>1, <1>5, <2>2
    <3>2. executions[c] = 0
      BY <2>2, <3>1 DEF Executed, ExecutedOnce
    <3>3. /\ executions'[c] = 1
          /\ \A d \in Cycles \ {c}: executions'[d] = executions[d]
      BY <1>2, <2>2, <3>2
    <3>4. /\ orders'[c].status = "CONFIRMED"
          /\ \A d \in Cycles \ {c}: orders'[d] = orders[d]
      BY <2>2, PaperRowFacts
    <3> HIDE DEF c
    <3> QED BY <1>1, <1>5, <3>3, <3>4 DEF ExecutedOnce
  <2> QED BY <1>5, <2>1, <2>2, PaperOrders
<1>6. Fires(r) \/ (Copies(r) /\ Trades(r))
  BY StepTrades
<1> QED  BY <1>1, <1>3, <1>4, <1>5, <1>6

(* What is no step of a run executes nothing.                              *)
LEMMA OthersExecute ==
  ASSUME ExecutedOnce, UNCHANGED <<setup, orders, executions>>
  PROVE  ExecutedOnce'
BY FixedSetup DEF ExecutedOnce

LEMMA OthersLeave ==
  ASSUME [Next]_vars, ~Step
  PROVE  UNCHANGED <<setup, orders, executions>>
<1>1. CASE UNCHANGED vars
  BY <1>1 DEF vars, shell, runVars, durable, history
<1>2. ASSUME NEW r \in Runs,
             \/ StartAgent(r) \/ StopAgent(r) \/ KillAgent(r) \/ RunNow(r)
             \/ ScheduledTick(r) \/ RetryTick(r) \/ Publish(r)
      PROVE  UNCHANGED <<setup, orders, executions>>
  BY <1>2 DEF StartAgent, StopAgent, KillAgent, Control, RunNow, ScheduledTick,
     RetryTick, Publish, durable, history, shell
<1>3. CASE ResetAgent \/ CloseCandle \/ RetryDeadline \/ (\E c \in Cycles: Settle(c))
           \/ Crash \/ OnStart
  BY <1>3 DEF ResetAgent, CloseCandle, RetryDeadline, Settle, Crash, OnStart,
     durable, history, shell
<1> QED  BY <1>1, <1>2, <1>3 DEF Next

LEMMA SessionStaysPast ==
  ASSUME IInv, SessionIsPast, [Next]_vars
  PROVE  SessionIsPast'
<1>1. used \in Nat /\ session \in Nat
  BY Parts, Bounds
<1>2. CASE UNCHANGED <<used, session>>
  BY <1>2 DEF SessionIsPast
<1>3. CASE Step
  <2>1. PICK r \in Runs: (RunStep(r) \/ Answer(r)) /\ UNCHANGED shell
    BY <1>3 DEF Step
  <2>2. Turn(r)
    BY <2>1, StepTurns
  <2> QED BY <1>2, <2>2 DEF Turn, OnTurn, Frame
<1>4. ASSUME NEW r \in Runs,
             \/ StartAgent(r) \/ StopAgent(r) \/ KillAgent(r) \/ RunNow(r)
             \/ ScheduledTick(r) \/ RetryTick(r) \/ Publish(r)
      PROVE  /\ session' \in {session, used}
             /\ used' \in {used, used + 1}
  BY <1>4 DEF StartAgent, StopAgent, KillAgent, Control, RunNow, ScheduledTick,
     RetryTick, Publish, Begin, history
<1>5. ASSUME NEW r \in Runs, session' \in {session, used}, used' \in {used, used + 1}
      PROVE  SessionIsPast'
  BY <1>1, <1>5 DEF SessionIsPast
<1>6. CASE ResetAgent \/ CloseCandle \/ RetryDeadline \/ (\E c \in Cycles: Settle(c))
           \/ Crash \/ OnStart
  BY <1>2, <1>6 DEF ResetAgent, CloseCandle, RetryDeadline, Settle, Crash, OnStart,
     durable, history, shell, market
<1>7. CASE UNCHANGED vars
  BY <1>2, <1>7 DEF vars, runVars, history, market
<1> QED  BY <1>3, <1>4, <1>5, <1>6, <1>7 DEF Next

LEMMA StrideNotExecuted ==
  ASSUME IInv, IInv', NEW r \in Runs, Strides(r), TriggersAreNew, NotExecuted
  PROVE  NotExecuted'
<1> DEFINE c == run[r].cycle
           S == Preparing \cup Deciding \cup {"submittingOrder"}
<1>1. /\ Mode' = Mode /\ run[r].m.phase = machine.phase
      /\ run'[r].m.phase = machine'.phase
      /\ machine.phase \in CyclePhases => c = machine.cycleId /\ c \in Cycles
      /\ machine'.phase \in CyclePhases => c = machine'.cycleId /\ c \in Cycles
  BY StrideFacts
<1>2. S \subseteq CyclePhases
  BY DEF CyclePhases
<1> SUFFICES ASSUME Mode = "paper", machine'.phase \in S
             PROVE  orders'[c].status # "CONFIRMED"
  BY <1>1, <1>2 DEF NotExecuted
<1>3. CASE Fires(r)
  <2>1. r \in Active /\ run[r].trigger /\ orders' = orders
    BY <1>3 DEF Fires, Strides
  <2> QED BY <2>1 DEF TriggersAreNew
<1>4. CASE Copies(r) /\ Trades(r)
  <2>1. CASE /\ \A d \in Cycles: orders'[d].status = "CONFIRMED" <=>
                                   orders[d].status = "CONFIRMED"
             /\ Quiet(r) \/ Intends(r) \/ Authorizes(r) \/ SubmitsPaper(r)
                \/ ReconcilesPaper(r)
    <3>1. machine.phase \in S
      <4>1. CASE Quiet(r)
        BY <1>1, <4>1 DEF Quiet, Flows
      <4>2. CASE Intends(r) \/ Authorizes(r) \/ SubmitsPaper(r)
        BY <1>1, <4>2, PhasesApart DEF Intends, Authorizes, SubmitsPaper
      <4>3. CASE ReconcilesPaper(r)
        BY <1>1, <4>3, PhasesApart DEF ReconcilesPaper, Resolving
      <4> QED BY <2>1, <4>1, <4>2, <4>3
    <3>2. c = machine.cycleId /\ c \in Cycles
      BY <1>1, <1>2, <3>1
    <3> QED BY <2>1, <3>1, <3>2 DEF NotExecuted
  <2>2. CASE run'[r].m.phase \in {"persisting", "reconcilingOrder"}
    BY <1>1, <2>2, PhasesApart
  <2> QED BY <1>4, <2>1, <2>2, PaperOrders
<1> QED  BY <1>3, <1>4 DEF Strides

LEMMA StartNotExecuted ==
  ASSUME IInv, IInv', NEW r \in Runs, Starts(r), NotExecuted
  PROVE  NotExecuted'
<1>1. /\ Mode' = Mode
      /\ machine'.phase \in CyclePhases =>
           /\ machine'.cycleId = machine.cycleId
           /\ \/ machine'.phase = machine.phase
              \/ machine'.phase = "reconcilingOrder"
  BY StartFacts
<1>2. orders' = orders
  BY DEF Starts
<1> QED  BY <1>1, <1>2, PhasesApart DEF NotExecuted

LEMMA RestNotExecuted ==
  ASSUME IInv, Rests, NotExecuted
  PROVE  NotExecuted'
<1>1. Mode' = Mode /\ orders' = orders
      /\ (machine'.phase \in CyclePhases => machine' = machine)
  BY RestFacts
<1> QED  BY <1>1, PhasesApart DEF NotExecuted

(* The step of a paper run that executes its order books the fill.         *)
LEMMA StrideFills ==
  ASSUME IInv, IInv', NEW r \in Runs, Strides(r), NotExecuted, FillsAreBooked
  PROVE  FillsAreBooked'
<1> DEFINE c == run[r].cycle
<1>1. /\ Mode' = Mode /\ Cycles' = Cycles /\ run[r].m.phase = machine.phase
      /\ run'[r].m.phase = machine'.phase
      /\ machine.phase \in CyclePhases => c = machine.cycleId /\ c \in Cycles
      /\ machine'.phase \in CyclePhases => c = machine'.cycleId /\ c \in Cycles
  BY StrideFacts
<1>2. /\ Active = {r} /\ Active' = {r} /\ session' = session /\ crashes' = crashes
      /\ run'[r].cycle = c
  BY DEF Strides
<1> SUFFICES ASSUME Mode = "paper", crashes = 0
             PROVE  /\ run'[r].port = Fills'
                    /\ run'[r].trigger => c > session
                    /\ machine'.phase \in CyclePhases => c > session
                    /\ machine'.phase \in Resolving /\ orders'[c].status = "CONFIRMED" =>
                         orders'[c].booked = Fills'
  <2>1. Resolving \subseteq CyclePhases
    BY DEF CyclePhases
  <2> QED BY <1>1, <1>2, <2>1 DEF FillsAreBooked
<1>3. /\ run[r].port = Fills /\ (run[r].trigger => c > session)
      /\ machine.phase \in CyclePhases => c > session
      /\ machine.phase \in Resolving /\ orders[c].status = "CONFIRMED" =>
           orders[c].booked = Fills
      /\ machine.phase = "submittingOrder" => orders[c].status # "CONFIRMED"
  <2>1. Resolving \subseteq CyclePhases /\ "submittingOrder" \in CyclePhases
    BY DEF CyclePhases
  <2> QED BY <1>1, <1>2, <2>1 DEF FillsAreBooked, NotExecuted

<1>4. Fills' = {d \in Cycles: d > session /\ orders'[d].status = "CONFIRMED"}
  BY <1>1, <1>2 DEF Fills
<1> HIDE DEF c
<1>5. CASE Fires(r)
  <2>1. /\ machine'.phase \in {"reconcilingAccount", "cancelling"}
        /\ run[r].trigger /\ orders' = orders /\ run'[r].port = run[r].port
    BY <1>1, <1>5 DEF Fires
  <2>2. machine'.phase \notin Resolving
    BY <2>1 DEF Resolving
  <2>3. Fills' = Fills
    BY <1>4, <2>1 DEF Fills
  <2> QED BY <1>3, <2>1, <2>2, <2>3
<1>6. CASE Copies(r) /\ Trades(r)
  <2>1. /\ run'[r].trigger = FALSE
        /\ machine'.phase \in CyclePhases => machine.phase \in CyclePhases
    BY <1>1, <1>6 DEF Copies
  <2>2. CASE /\ \A d \in Cycles: /\ orders'[d].status = "CONFIRMED" <=>
                                      orders[d].status = "CONFIRMED"
                                 /\ orders'[d].booked = orders[d].booked
             /\ \/ run'[r].port = run[r].port
                \/ /\ run'[r].port = orders[c].booked /\ Executed(r)
                   /\ run[r].m.phase \in {"submittingOrder", "reconcilingOrder"}
             /\ Quiet(r) \/ Intends(r) \/ Authorizes(r) \/ SubmitsPaper(r)
                \/ ReconcilesPaper(r)
    <3>1. Fills' = Fills
      BY <1>4, <2>2 DEF Fills
    <3>2. run'[r].port = Fills
      <4>1. CASE /\ run'[r].port = orders[c].booked /\ Executed(r)
                 /\ run[r].m.phase \in {"submittingOrder", "reconcilingOrder"}
        BY <1>1, <1>3, <4>1 DEF Executed, Resolving, c
      <4> QED BY <1>3, <2>2, <4>1
    <3>3. ASSUME machine'.phase \in Resolving, orders'[c].status = "CONFIRMED"
          PROVE  orders'[c].booked = Fills
      <4>1. machine'.phase \in CyclePhases /\ c \in Cycles
        BY <1>1, <3>3 DEF CyclePhases
      <4>2. orders[c].status = "CONFIRMED" /\ orders'[c].booked = orders[c].booked
        BY <2>2, <3>3, <4>1
      <4>3. machine.phase \in Resolving \cup {"submittingOrder"}
        <5>1. CASE Quiet(r)
          BY <1>1, <3>3, <5>1 DEF Quiet, Flows
        <5>2. CASE Intends(r) \/ Authorizes(r)
          BY <1>1, <3>3, <5>2 DEF Intends, Authorizes, Resolving
        <5>3. CASE SubmitsPaper(r) \/ ReconcilesPaper(r)
          BY <1>1, <5>3 DEF SubmitsPaper, ReconcilesPaper, Resolving
        <5> QED BY <2>2, <5>1, <5>2, <5>3
      <4> QED BY <1>3, <4>2, <4>3
    <3> QED BY <1>3, <2>1, <3>1, <3>2, <3>3
  <2>3. CASE /\ run[r].m.phase = "submittingOrder" /\ c \in Cycles
             /\ run'[r].port = run[r].port \cup {c}
             /\ orders' = [orders EXCEPT ![c] = PaperRow(r)]
    <3>1. /\ orders'[c].status = "CONFIRMED"
          /\ orders'[c].booked = run[r].port \cup {c}
          /\ \A d \in Cycles \ {c}: orders'[d] = orders[d]
      BY <2>3, PaperRowFacts DEF c
    <3>2. machine.phase \in CyclePhases /\ c > session
      BY <1>1, <1>3, <2>3, OrderPhases
    <3>3. Fills' = Fills \cup {c}
      BY <1>4, <2>3, <3>1, <3>2 DEF Fills
    <3> QED BY <1>3, <2>1, <2>3, <3>1, <3>2, <3>3
  <2>4. \/ /\ \A d \in Cycles: /\ orders'[d].status = "CONFIRMED" <=>
                                    orders[d].status = "CONFIRMED"
                               /\ orders'[d].booked = orders[d].booked
           /\ \/ run'[r].port = run[r].port
              \/ /\ run'[r].port = orders[c].booked /\ Executed(r)
                 /\ run[r].m.phase \in {"submittingOrder", "reconcilingOrder"}
           /\ Quiet(r) \/ Intends(r) \/ Authorizes(r) \/ SubmitsPaper(r)
              \/ ReconcilesPaper(r)
        \/ /\ run[r].m.phase = "submittingOrder" /\ c \in Cycles
           /\ run'[r].port = run[r].port \cup {c}
           /\ orders' = [orders EXCEPT ![c] = PaperRow(r)]
    BY <1>6, PaperOrders DEF c
  <2> QED BY <2>2, <2>3, <2>4
<1> QED  BY <1>5, <1>6 DEF Strides, c

LEMMA StartFills ==
  ASSUME IInv, IInv', NEW r \in Runs, Starts(r), SessionIsPast, NotExecuted,
         FillsAreBooked
  PROVE  FillsAreBooked'
<1>1. /\ Mode' = Mode /\ Cycles' = Cycles /\ Active' = {r}
      /\ run'[r].trigger => run'[r].cycle = used + 1 /\ used + 1 \in Cycles
      /\ machine'.phase \in CyclePhases =>
           /\ machine'.cycleId = machine.cycleId
           /\ \/ machine'.phase = machine.phase
              \/ machine'.phase = "reconcilingOrder" /\ machine.phase = "submittingOrder"
  BY StartFacts
<1>2. /\ orders' = orders /\ crashes' = crashes
      /\ Mode = "paper" =>
           \/ /\ session' = session
              /\ \/ Active = {} /\ run'[r].port = portfolio
                 \/ Active = {r} /\ run'[r].port = run[r].port
           \/ /\ session' = used /\ run'[r].port = {}
              /\ machine'.phase \notin CyclePhases
  BY DEF Starts
<1> SUFFICES ASSUME Mode = "paper", crashes = 0
             PROVE  /\ run'[r].port = Fills'
                    /\ run'[r].trigger => run'[r].cycle > session'
                    /\ machine'.phase \in CyclePhases => machine'.cycleId > session'
                    /\ machine'.phase \in Resolving
                       /\ orders'[machine'.cycleId].status = "CONFIRMED" =>
                         orders'[machine'.cycleId].booked = Fills'
  BY <1>1, <1>2 DEF FillsAreBooked
<1>3. used \in Nat /\ session \in Nat /\ session <= used
  BY Parts, Bounds DEF SessionIsPast
<1>4. Fills' = {d \in Cycles: d > session' /\ orders[d].status = "CONFIRMED"}
  BY <1>1, <1>2 DEF Fills
<1>5. run'[r].trigger => run'[r].cycle > session'
  BY <1>1, <1>2, <1>3
<1>6. Resolving \subseteq CyclePhases /\ "submittingOrder" \in CyclePhases
  BY DEF CyclePhases
<1>7. CASE session' = session /\ run'[r].port = Fills
  <2>1. Fills' = Fills
    BY <1>4, <1>7 DEF Fills
  <2>2. machine'.phase \in CyclePhases => machine'.cycleId > session'
    BY <1>1, <1>6, <1>7 DEF FillsAreBooked
  <2>3. machine'.phase \in Resolving /\ orders'[machine'.cycleId].status = "CONFIRMED" =>
          orders'[machine'.cycleId].booked = Fills
    BY <1>1, <1>2, <1>6 DEF FillsAreBooked, NotExecuted
  <2> QED BY <1>5, <1>7, <2>1, <2>2, <2>3
<1>8. CASE session' = used /\ run'[r].port = {} /\ machine'.phase \notin CyclePhases
  <2>1. \A d \in Cycles: d > used => orders[d].status # "CONFIRMED"
    BY Parts DEF CyclesAreFresh
  <2>2. Fills' = {}
    BY <1>4, <1>8, <2>1
  <2> QED BY <1>5, <1>6, <1>8, <2>2
<1> QED  BY <1>2, <1>7, <1>8 DEF FillsAreBooked

LEMMA RestFills ==
  ASSUME IInv, Rests, FillsAreBooked
  PROVE  FillsAreBooked'
<1>1. /\ Mode' = Mode /\ Cycles' = Cycles /\ session' = session /\ orders' = orders
      /\ \A s \in Active': s \in Active /\ run'[s] = run[s]
      /\ machine'.phase \in CyclePhases => machine' = machine
  BY RestFacts
<1>2. crashes' = 0 =>
        /\ crashes = 0
        /\ \/ Active' = Active /\ portfolio' = portfolio
           \/ Active' = {} /\ \E r \in Active: portfolio' = run[r].port
  BY DEF Rests
<1>3. Fills' = Fills
  BY <1>1 DEF Fills
<1>4. Resolving \subseteq CyclePhases
  BY DEF CyclePhases
<1> QED  BY <1>1, <1>2, <1>3, <1>4 DEF FillsAreBooked

-----------------------------------------------------------------------------
(* What the durable records promise.                                       *)

LedgerForm == Recorded /\ AccountForm /\ NotExecuted /\ FillsAreBooked

(* Whether an order of the setup can be executed twice.                    *)
Thrifty == OneByOne \/ MaxFaults = 0

LEMMA InitLedger == Init => SessionIsPast /\ LedgerForm /\ ExecutedOnce
<1> SUFFICES ASSUME Init PROVE SessionIsPast /\ LedgerForm /\ ExecutedOnce
  OBVIOUS
<1>1. /\ machine = NewMachine(0) /\ run = [r \in Runs |-> IdleRun] /\ portfolio = {}
      /\ exchange = [c \in Cycles |-> "none"] /\ rows = [c \in Cycles |-> NoRow]
      /\ orders = [c \in Cycles |-> [status |-> "none", idKnown |-> FALSE,
                                     booked |-> {}]]
      /\ executions = [c \in Cycles |-> 0] /\ session = 0 /\ used = 0
  BY DEF Init, RunsInit, NoRow
<1>2. /\ Active = {} /\ machine.phase = "stopped" /\ machine.outcome = "IDLE"
      /\ \A c \in Cycles: /\ exchange[c] = "none" /\ orders[c].status = "none"
                          /\ rows[c].outcome = "IDLE" /\ executions[c] = 0
  BY <1>1 DEF Active, IdleRun, NewMachine, NoRow
<1>3. machine.phase \notin CyclePhases \cup Sending
  BY <1>2 DEF CyclePhases, Preparing, Deciding, Resolving, Sending
<1>4. Recorded
  BY <1>2, <1>3 DEF Recorded, TriggersAreNew, ArtifactsAreKept, AuthorizedInPhase,
     IntentIsKept, PaperHasNoVenue
<1>5. KnownBrackets = {} /\ Doubtful = {}
  BY <1>2 DEF KnownBrackets, Doubtful, OpenOrders, Held
<1>6. AccountForm
  BY <1>2, <1>3, <1>5, PhasesApart
     DEF AccountForm, OrdersAreTrue, ConfirmedIsSure, DoubtIsOne
<1>7. NotExecuted
  BY <1>3, PhasesApart DEF NotExecuted
<1>8. FillsAreBooked
  BY <1>1, <1>2, <1>3, PhasesApart DEF FillsAreBooked, Fills
<1> QED  BY <1>1, <1>2, <1>4, <1>6, <1>7, <1>8 DEF SessionIsPast, LedgerForm, ExecutedOnce

LEMMA NextLedger ==
  ASSUME IInv, IInv', OneByOne => SerialForm /\ LedgerForm, SessionIsPast,
         [Next]_vars
  PROVE  (OneByOne => LedgerForm)'
<1>1. setup' = setup
  BY SetupIsFixed DEF vars, shell
<1> SUFFICES ASSUME OneByOne, SerialForm, LedgerForm PROVE LedgerForm'
  BY <1>1, FixedSetup
<1>2. ASSUME NEW r \in Runs, Strides(r) PROVE LedgerForm'
  <2>1. Recorded' /\ AccountForm' /\ NotExecuted' /\ FillsAreBooked'
    BY <1>2, StrideRecorded, StrideAccountForm, StrideNotExecuted, StrideFills
       DEF LedgerForm, Recorded
  <2> QED BY <2>1 DEF LedgerForm
<1>3. ASSUME NEW r \in Runs, Starts(r) PROVE LedgerForm'
  <2>1. Recorded' /\ AccountForm' /\ NotExecuted' /\ FillsAreBooked'
    BY <1>3, StartRecorded, StartAccountForm, StartNotExecuted, StartFills
       DEF LedgerForm
  <2> QED BY <2>1 DEF LedgerForm
<1>4. CASE Rests
  <2>1. Recorded' /\ AccountForm' /\ NotExecuted' /\ FillsAreBooked'
    BY <1>4, RestRecorded, RestAccountForm, RestNotExecuted, RestFills
       DEF LedgerForm
  <2> QED BY <2>1 DEF LedgerForm
<1> QED  BY <1>2, <1>3, <1>4, NextMoves

LEMMA NextExecuted ==
  ASSUME IInv, OneByOne => SerialForm /\ LedgerForm, Thrifty => ExecutedOnce,
         [Next]_vars
  PROVE  (Thrifty => ExecutedOnce)'
<1>1. setup' = setup
  BY SetupIsFixed DEF vars, shell
<1>2. Thrifty' = Thrifty
  BY <1>1, FixedSetup DEF Thrifty
<1> SUFFICES ASSUME Thrifty, ExecutedOnce PROVE ExecutedOnce'
  BY <1>2
<1>3. CASE Step
  <2>1. PICK r \in Runs: (RunStep(r) \/ Answer(r)) /\ UNCHANGED shell
    BY <1>3 DEF Step
  <2>2. ASSUME OneByOne, Mode = "paper", run[r].m.phase = "submittingOrder"
        PROVE  ~Executed(r)
    <3>1. run[r].active
      BY <2>1, StepTurns DEF Turn, OnTurn
    <3>2. run[r].m = machine
      BY <2>2, <3>1 DEF SerialForm, Alone, Active
    <3>3. run[r].cycle = machine.cycleId
      BY <2>2, <3>2, RunFacts
    <3> QED BY <2>2, <3>2, <3>3 DEF LedgerForm, NotExecuted, Executed
  <2> QED BY <2>1, <2>2, StepExecutes DEF Thrifty
<1>4. CASE ~Step
  BY <1>4, OthersLeave, OthersExecute
<1> QED  BY <1>3, <1>4

(* The records of every agent.                                             *)
Ledger ==
  /\ SessionIsPast
  /\ OneByOne => LedgerForm
  /\ Thrifty => ExecutedOnce

LEMMA LedgerHolds == Spec => []Ledger
<1>1. Init => Ledger
  BY InitLedger DEF Ledger
<1>2. IInv /\ IInv' /\ (OneByOne => SerialForm) /\ Ledger /\ [Next]_vars => Ledger'
  <2> SUFFICES ASSUME IInv, IInv', OneByOne => SerialForm, Ledger, [Next]_vars
               PROVE  Ledger'
    OBVIOUS
  <2>1. SessionIsPast /\ (OneByOne => SerialForm /\ LedgerForm)
        /\ (Thrifty => ExecutedOnce)
    BY DEF Ledger
  <2> QED BY <2>1, SessionStaysPast, NextLedger, NextExecuted DEF Ledger
<1> QED  BY <1>1, <1>2, Soundness, SerialSoundness, PTL DEF Spec

LEMMA NeedsAreKept ==
  ASSUME NEW p
  PROVE  /\ p \in CyclePhases => Needs(p) \subseteq Kept(p)
         /\ p \notin CyclePhases => Needs(p) = {}
<1>1. CASE p \in CyclePhases
  BY <1>1 DEF Needs, Kept, Sending, CyclePhases, Preparing, Deciding, Resolving
<1>2. CASE p \notin CyclePhases
  BY <1>2 DEF Needs, CyclePhases, Preparing, Deciding, Resolving
<1> QED  BY <1>1, <1>2

(* An agent whose invocations do not overlap can resolve every order from  *)
(* its records: what reached the exchange has its intent and its risk      *)
(* approval, one order at most is in doubt, a resumed run finds what it    *)
(* reads, and a confirmed position is guarded.                             *)
THEOREM RecordsAreEnough == Spec => [](OneByOne => RecordsSuffice)
<1>1. IInv /\ (OneByOne => SerialForm) /\ Ledger => (OneByOne => RecordsSuffice)
  <2> SUFFICES ASSUME IInv, SerialForm, LedgerForm, OneByOne PROVE RecordsSuffice
    BY DEF Ledger
  <2>0. Mode \in {"paper", "live"}
    BY Parts, Bounds
  <2>1. OrderIsExplained
    BY DEF OrderIsExplained, LedgerForm, Recorded, IntentIsKept
  <2>2. OneDoubtfulOrder
    <3>1. \A c, d \in Doubtful: c = d
      <4>1. CASE Mode = "live"
        BY <4>1 DEF LedgerForm, AccountForm, DoubtIsOne
      <4>2. CASE Mode = "paper"
        BY <4>2 DEF LedgerForm, Recorded, PaperHasNoVenue, Doubtful, OpenOrders, Held
      <4> QED BY <2>0, <4>1, <4>2
    <3>2. Doubtful = {} \/ \E c: Doubtful = {c}
      BY <3>1
    <3>3. Cardinality(Doubtful) \in {0, 1}
      BY <3>2, FS_EmptySet, FS_Singleton
    <3> QED BY <3>3 DEF OneDoubtfulOrder
  <2>3. ArtifactsAtHand
    <3> SUFFICES ASSUME NEW r \in Active
                 PROVE  Needs(run[r].m.phase) \subseteq run[r].art.has
      BY DEF ArtifactsAtHand
    <3>1. r \in Runs /\ run[r].m = machine
      BY DEF Active, SerialForm, Alone
    <3>2. CASE machine.phase \in CyclePhases
      <4>1. run[r].cycle = machine.cycleId /\ run[r].cycle # 0
        <5>1. machine.phase # "waiting"
          BY <3>2 DEF CyclePhases, Preparing, Deciding, Resolving
        <5> QED BY <3>1, <3>2, <5>1, RunFacts
      <4>2. Kept(machine.phase) \subseteq run[r].art.has
        BY <3>1, <3>2, <4>1 DEF LedgerForm, Recorded, ArtifactsAreKept
      <4> QED BY <3>1, <3>2, <4>2, NeedsAreKept
    <3>3. CASE machine.phase \notin CyclePhases
      BY <3>1, <3>3, NeedsAreKept
    <3> QED BY <3>2, <3>3
  <2>4. ConfirmedIsProtected
    <3>1. CASE Mode = "live"
      BY <3>1 DEF ConfirmedIsProtected, LedgerForm, AccountForm, ConfirmedIsSure, Sure
    <3>2. CASE Mode = "paper"
      BY <3>2 DEF ConfirmedIsProtected, LedgerForm, Recorded, PaperHasNoVenue
    <3> QED BY <2>0, <3>1, <3>2
  <2> QED BY <2>1, <2>2, <2>3, <2>4 DEF RecordsSuffice
<1> QED  BY <1>1, Soundness, SerialSoundness, LedgerHolds, PTL

(* An order is executed once on paper, however many runs submit it, if     *)
(* invocations do not overlap or the rows of the orders can be read.       *)
THEOREM ExecutesOnce ==
  Spec => [](OneByOne \/ MaxFaults = 0 => OneExecutionPerOrder)
<1>1. Ledger => (OneByOne \/ MaxFaults = 0 => OneExecutionPerOrder)
  <2> SUFFICES ASSUME ExecutedOnce, NEW c \in Cycles PROVE executions[c] <= 1
    BY DEF Ledger, Thrifty, OneExecutionPerOrder
  <2>1. executions[c] \in {0, 1}
    BY DEF ExecutedOnce
  <2> QED BY <2>1
<1> QED  BY <1>1, LedgerHolds, PTL

(* The paper portfolio at rest holds the fills of its session, whatever    *)
(* writes failed, as long as the object was not evicted.                   *)
THEOREM FillsBooked == Spec => []BooksEveryFill
<1>1. Ledger => BooksEveryFill
  BY DEF Ledger, LedgerForm, FillsAreBooked, BooksEveryFill, AtRest, Fills
<1> QED  BY <1>1, LedgerHolds, PTL
=============================================================================
