---------------------------- MODULE TradingAgent ----------------------------
(***************************************************************************)
(* The Durable Object of one trading agent (trading-agent.ts, one          *)
(* product): operator commands, the grid alarm, the one-shot market retry  *)
(* alarm, evictions and restarts, around the runs of CycleRuns.            *)
(***************************************************************************)
EXTENDS CycleRuns

ASSUME CommandsAssumption ==
  \A s \in Setups:
    /\ s.names \subseteq {"start", "stop", "kill", "reset", "runNow"}
    /\ s.commands \in Nat /\ s.crashes \in Nat

Commands == setup.names         \* the operator commands issued
MaxCommands == setup.commands   \* bound: operator commands
MaxCrashes == setup.crashes     \* bound: evictions of the object
MaxRuns == setup.runs           \* bound: invocations in flight together

VARIABLES configured,  \* state.configuration is set
          up,          \* the object is in memory
          commands,    \* operator commands issued
          crashes      \* evictions so far

shell == <<setup, configured, up, commands, crashes>>

vars == <<runVars, shell>>

TypeOK ==
  /\ RunsTypeOK
  /\ configured \in BOOLEAN
  /\ up \in BOOLEAN
  /\ commands \in 0..MaxCommands
  /\ crashes \in 0..MaxCrashes

Init ==
  /\ RunsInit
  /\ configured = FALSE
  /\ up = TRUE
  /\ commands = 0
  /\ crashes = 0

-----------------------------------------------------------------------------
Active == {r \in Runs: run[r].active}

(* The thread is free for a new request or alarm.                          *)
Idle == up /\ current = None

LoadArtifacts(c) ==
  IF c # 0 /\ rows[c].stored THEN rows[c].art ELSE NoArtifacts

(* runCurrent up to the loop, on machine m: planCycleWake and              *)
(* resolveCycleInvocation; a new cycle identifier is drawn only to be      *)
(* fired at once.                                                          *)
Begin(r, m, port, alarm, resume, byAlarm) ==
  LET fires == alarm /\ m.phase = "waiting"
      c == IF fires THEN used + 1 ELSE m.cycleId
  IN  /\ Cardinality(Active \cup {r}) <= MaxRuns
      /\ fires => used < MaxCycles
      /\ run' = [run EXCEPT ![r] =
           [IdleRun EXCEPT
              !.active = TRUE, !.m = m, !.port = port, !.trigger = fires,
              !.pending = alarm /\ ~fires, !.byAlarm = byAlarm, !.cycle = c,
              !.art = IF m.phase = "waiting" THEN NoArtifacts
                      ELSE LoadArtifacts(resume)]]
      /\ current' = r
      /\ used' = IF fires THEN used + 1 ELSE used
      /\ triggered' = IF fires THEN [triggered EXCEPT ![c] = candle]
                      ELSE triggered

Command(name) ==
  /\ Idle
  /\ name \in Commands
  /\ commands < MaxCommands
  /\ commands' = commands + 1

(* startAgent: only from "stopped".  A live start on the same product      *)
(* keeps the portfolio and the last decided candle; a paper start is a new *)
(* session.                                                                *)
StartAgent(r) ==
  LET keeps == Mode = "live" /\ configured
      m == StartRequested(
             NewMachine(IF keeps THEN machine.lastDecisionCandle ELSE 0))
      port == IF keeps THEN portfolio ELSE {}
  IN  /\ Command("start")
      /\ r \notin Active
      /\ machine.phase = "stopped"
      /\ machine' = m
      /\ portfolio' = port
      /\ configured' = TRUE
      /\ IF Mode = "live"
         THEN UNCHANGED <<session, decisions>>
         ELSE session' = used /\ decisions' = [k \in 1..MaxCandle |-> 0]
      /\ Begin(r, m, port, FALSE, 0, FALSE)
      /\ UNCHANGED <<schedule, retryAlarm, rows, orders, candle, retryDue,
                     venue, faults, executions, blindRisk, up, crashes,
                     setup>>

(* control: the event goes to the persisted machine, whatever runs are in  *)
(* flight, the result is persisted, and a run resumes it.                  *)
Control(r, name, m) ==
  LET resume == IF machine.phase \in {"waiting", "scheduling", "stopped"}
                THEN 0 ELSE machine.cycleId
  IN  /\ Command(name)
      /\ configured
      /\ r \notin Active
      /\ machine' = m
      /\ Begin(r, m, portfolio, FALSE, resume, FALSE)
      /\ UNCHANGED <<portfolio, schedule, retryAlarm, rows, orders, candle,
                     retryDue, venue, faults, history, configured, up,
                     crashes, setup>>

StopAgent(r) == Control(r, "stop", StopRequested(machine))

KillAgent(r) == Control(r, "kill", KillSwitchEngaged(machine))

(* resetAgent persists the machine and runs nothing.                       *)
ResetAgent ==
  /\ Command("reset")
  /\ configured
  /\ machine' = Reset(machine)
  /\ UNCHANGED <<portfolio, schedule, retryAlarm, rows, orders, run, current,
                 market, venue, faults, history, configured, up, crashes,
                 setup>>

RunNow(r) ==
  /\ Command("runNow")
  /\ configured
  /\ r \notin Active
  /\ Begin(r, machine, portfolio, TRUE, machine.cycleId, FALSE)
  /\ UNCHANGED <<durable, candle, retryDue, venue, faults, history,
                 configured, up, crashes, setup>>

(* Alarms are handled one at a time.                                       *)
NoAlarmRunning == \A r \in Active: ~run[r].byAlarm

ScheduledTick(r) ==
  /\ Idle
  /\ schedule
  /\ NoAlarmRunning
  /\ IsEnabled(machine)
  /\ r \notin Active
  /\ Begin(r, machine, portfolio, TRUE, machine.cycleId, TRUE)
  /\ UNCHANGED <<durable, candle, retryDue, venue, faults, history, shell>>

(* retryTick acts on a planned retry of the cycle in progress, and is      *)
(* dropped otherwise.                                                      *)
RetryPlanned ==
  /\ machine.phase = "retryingMarketData"
  /\ LoadArtifacts(machine.cycleId).retry # 0

RetryTick(r) ==
  /\ Idle
  /\ retryAlarm
  /\ NoAlarmRunning
  /\ retryAlarm' = FALSE
  /\ \/ /\ RetryPlanned
        /\ retryDue
        /\ r \notin Active
        /\ Begin(r, machine, portfolio, FALSE, machine.cycleId, TRUE)
     \/ /\ ~RetryPlanned
        /\ UNCHANGED <<run, current, used, triggered>>
  /\ UNCHANGED <<machine, portfolio, schedule, rows, orders, candle, retryDue,
                 venue, faults, history, shell>>

(* runCurrent after the loop: the result replaces the machine and the      *)
(* portfolio of the state, a disabled agent loses its grid alarm, and an   *)
(* alarm that only resumed a cycle now starts its own.                     *)
Publish(r) ==
  /\ Finished(r)
  /\ machine' = run[r].m
  /\ portfolio' = run[r].port
  /\ schedule' = (schedule /\ IsEnabled(run[r].m))
  /\ IF run[r].pending /\ run[r].m.phase = "waiting" /\ used < MaxCycles
     THEN Begin(r, run[r].m, run[r].port, TRUE, run[r].m.cycleId,
                run[r].byAlarm)
     ELSE /\ run' = [run EXCEPT ![r] = IdleRun]
          /\ current' = None
          /\ UNCHANGED <<used, triggered>>
  /\ UNCHANGED <<retryAlarm, rows, orders, candle, retryDue, venue, faults,
                 history, shell>>

-----------------------------------------------------------------------------
(* The environment.                                                        *)

CloseCandle ==
  /\ candle < MaxCandle
  /\ candle' = candle + 1
  /\ UNCHANGED <<durable, run, current, used, triggered, retryDue, venue,
                 faults, history, shell>>

RetryDeadline ==
  /\ RetryPlanned
  /\ ~retryDue
  /\ retryDue' = TRUE
  /\ UNCHANGED <<durable, run, current, used, candle, triggered, venue,
                 faults, history, shell>>

(* A market order fills, with or without its attached bracket, or dies     *)
(* without a fill.                                                         *)
Settle(c) ==
  /\ exchange[c] = "open"
  /\ \/ /\ exchange' = [exchange EXCEPT ![c] = "filled"]
        /\ \E attached \in BOOLEAN: bracket' = [bracket EXCEPT ![c] = attached]
     \/ /\ exchange' = [exchange EXCEPT ![c] = "void"]
        /\ UNCHANGED bracket
  /\ UNCHANGED <<durable, run, current, market, faults, history, shell>>

(* An eviction loses the runs.  A request in flight may have arrived, and  *)
(* a kill in flight may have closed any part of the account.               *)
Crash ==
  LET posting == {run[r].cycle: r \in {s \in Runs:
                    run[s].call \in {"submit", "replay"}}}
      killing == \E r \in Runs: run[r].call \in {"kill", "unwind"}
  IN  /\ up
      /\ crashes < MaxCrashes
      /\ crashes' = crashes + 1
      /\ up' = FALSE
      /\ run' = [r \in Runs |-> IdleRun]
      /\ current' = None
      /\ \/ \E S \in SUBSET {c \in posting: exchange[c] = "none"}:
              exchange' = [c \in Cycles |-> IF c \in S THEN "open"
                                            ELSE exchange[c]]
         \/ killing /\ PartlyFlattened
      /\ UNCHANGED <<durable, market, bracket, faults, history, configured,
                     commands, setup>>

(* onStart, on the next alarm or request: an enabled agent gets its grid   *)
(* alarm back.                                                             *)
OnStart ==
  /\ ~up
  /\ up' = TRUE
  /\ schedule' = (schedule \/ (configured /\ IsEnabled(machine)))
  /\ UNCHANGED <<machine, portfolio, retryAlarm, rows, orders, run, current,
                 market, venue, faults, history, configured, commands,
                 crashes, setup>>

Step == \E r \in Runs: (RunStep(r) \/ Answer(r)) /\ UNCHANGED shell

Next ==
  \/ Step
  \/ ResetAgent
  \/ \E r \in Runs:
       \/ StartAgent(r) \/ StopAgent(r) \/ KillAgent(r) \/ RunNow(r)
       \/ ScheduledTick(r) \/ RetryTick(r) \/ Publish(r)
  \/ CloseCandle \/ RetryDeadline \/ \E c \in Cycles: Settle(c)
  \/ Crash \/ OnStart

Spec == Init /\ [][Next]_vars

(* Fairness: a run on the thread goes on; every network call is answered   *)
(* or times out; armed alarms fire, and wake an evicted object; an order   *)
(* at the exchange ends.  Nothing obliges an operator, a candle or a crash.*)
Fairness ==
  /\ WF_vars(Step)
  /\ WF_vars(\E r \in Runs: Publish(r))
  /\ WF_vars(\E r \in Runs: ScheduledTick(r))
  /\ WF_vars(\E r \in Runs: RetryTick(r))
  /\ WF_vars(RetryDeadline)
  /\ WF_vars((schedule \/ retryAlarm) /\ OnStart)
  /\ WF_vars(\E c \in Cycles: Settle(c))

FairSpec == Spec /\ Fairness

-----------------------------------------------------------------------------
(* Safety of an agent whose invocations do not overlap.                    *)

(* No invocation overlaps another.                                         *)
OneByOne == MaxRuns = 1

AtRest == OneByOne /\ up /\ Active = {}

(* No candle decides twice: not for two cycles, not for one that was       *)
(* retried, resumed after an eviction or restarted live, as long as        *)
(* invocations do not overlap.                                             *)
OneDecisionPerCandle ==
  OneByOne => \A k \in 1..MaxCandle: decisions[k] <= 1

(* At rest the published paper portfolio holds exactly the orders recorded *)
(* as executed in this session, whatever writes failed on the way: the     *)
(* fill of an execution whose checkpoint was refused is not lost, and an   *)
(* execution that was not recorded is not held.  Only an eviction between  *)
(* the last checkpoint and the publication loses the fill of its cycle.    *)
BooksEveryFill ==
  Mode = "paper" /\ AtRest /\ crashes = 0 =>
    portfolio = {c \in Cycles: c > session /\ orders[c].status = "CONFIRMED"}

(* At rest an enabled agent has its grid alarm: it is woken again, also    *)
(* after an eviction.  A disabled one has none, unless an eviction came    *)
(* between the end of its last cycle and its publication.                  *)
ArmedWhenEnabled ==
  AtRest => /\ IsEnabled(machine) => schedule
            /\ schedule /\ crashes = 0 => IsEnabled(machine)

(* "halted" means an empty account: no open order and nothing held, also   *)
(* when the kill met an order in flight or an agent that was evicted.      *)
HaltedIsFlat ==
  OneByOne /\ Mode = "live" /\ machine.phase = "halted" => OpenOrders \cup Held = {}

(* An order whose fate the agent has not recorded: open at the exchange,   *)
(* or filled with a bracket the agent does not know.                       *)
Doubtful ==
  OpenOrders \cup {c \in Held: bracket[c] /\ c \notin KnownBrackets}

(* While one order is in doubt no later cycle sends another: the ownership *)
(* check of the account closes every cycle until the doubt is resolved.    *)
OneDoubtfulOrder == OneByOne => Cardinality(Doubtful) <= 1

(* Whatever reached the exchange is explained by durable records: the      *)
(* intent, and the artifacts of its cycle with the risk approval, so that  *)
(* a restarted agent can reconcile it.                                     *)
OrderIsExplained ==
  OneByOne => \A c \in Cycles: exchange[c] # "none" =>
    /\ orders[c].status # "none"
    /\ {"order", "risk"} \subseteq rows[c].art.has

(* What each phase reads of the artifacts.                                 *)
Needs(p) ==
  CASE p = "computingIndicators"                      -> {"market"}
    [] p = "evaluatingStrategies"             -> {"market", "indicators"}
    [] p = "allocating"                               -> {"market", "signals"}
    [] p = "checkingRisk"                             -> {"market", "order"}
    [] p \in {"persistingOrderIntent", "authorizing"} -> {"order"}
    [] p = "reconcilingOrder"                         -> {"order", "risk"}
    [] OTHER                                          -> {}

(* A run never finds an artifact of its phase missing, also when it resumes*)
(* a cycle that an eviction interrupted: the machine is not persisted in a *)
(* phase whose artifacts are not.  The error paths of the interpreter for  *)
(* missing artifacts are never taken.                                      *)
ArtifactsAtHand ==
  \A r \in Active: current = r => Needs(run[r].m.phase) \subseteq run[r].art.has

(* A cycle recorded as confirmed left a position with its bracket.         *)
ConfirmedIsProtected ==
  \A c \in Cycles:
    rows[c].outcome = "ORDER_CONFIRMED" /\ exchange[c] = "filled" => bracket[c]

(* The durable records are enough to resolve every order: what reached the *)
(* exchange has its intent and artifacts, one order at most is in doubt,   *)
(* what resumes finds what it reads, and a confirmed position is guarded.  *)
RecordsSuffice ==
  /\ OrderIsExplained
  /\ OneDoubtfulOrder
  /\ ArtifactsAtHand
  /\ ConfirmedIsProtected

-----------------------------------------------------------------------------
(* Safety that overlapping invocations leave standing.                     *)

(* An order is executed once on paper, however many runs submit it.        *)
OneExecutionPerOrder == \A c \in Cycles: executions[c] <= 1

-----------------------------------------------------------------------------
(* Liveness.                                                               *)

InProgress(c) ==
  /\ machine.cycleId = c
  /\ IsEnabled(machine)
  /\ machine.phase \notin {"waiting", "scheduling", "retryingSchedule"}

(* A cycle that began ends, through its retries, failures and evictions.   *)
CycleSettles ==
  \A c \in UNION {1..s.cycles: s \in Setups}: InProgress(c) ~> ~InProgress(c)

(* A kill requested of an agent that is not failed brings it to rest.      *)
KillSettles == machine.shutdownMode = "kill-switch" ~> ~IsEnabled(machine)

-----------------------------------------------------------------------------
(* Statements of the documentation that the code does not keep.            *)

(* A live risk decision uses the account's other exposure                  *)
(* (live-account-control.md, invariant 2).                                 *)
RiskSeesAccount == ~blindRisk

(* Only an order that ended without a fill is recorded as rejected         *)
(* (agent-runtime.md, Adapter Coinbase live).                              *)
RejectedIsVoid ==
  \A c \in Cycles:
    orders[c].status = "REJECTED" => exchange[c] \in {"none", "void"}

(* A kill in progress is not cancelled by a stop                           *)
(* (live-account-control.review.md, Cancellation).                         *)
KillIsNotCancelled ==
  [][machine.shutdownMode = "kill-switch" /\ IsEnabled(machine) =>
       machine'.shutdownMode = "kill-switch"]_vars

=============================================================================
