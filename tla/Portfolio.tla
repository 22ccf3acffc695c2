------------------------------- MODULE Portfolio -------------------------------
(***************************************************************************)
(* A paper agent with several products: the orchestrator machine that      *)
(* admits their risk, and the invocations that run one product cycle after *)
(* the other on the shared state (trading-agent.ts, portfolio-runtime.ts). *)
(*                                                                         *)
(* A product cycle is reduced to what crosses the portfolio: the awaited   *)
(* market, the proposal, its order and the phase it ends in.  As in        *)
(* CycleRuns, a run works on a private copy and holds the thread except    *)
(* while it awaits the market or the stagger between two products.  Prices *)
(* are constant, so that a position is its exposure; the daily loss, the   *)
(* other half of the admission, is left out.                               *)
(***************************************************************************)
EXTENDS Integers, Sequences, FiniteSets

CONSTANTS NumProducts,  \* product slots, in the sorted order of their names
          Alarm,        \* the invocation of an alarm: one at a time
          Requests,     \* the invocations of operator requests
          None,         \* no run
          ProductCap,   \* maxGrossExposure of a slot
          Cap,          \* portfolioRisk.maxGrossExposure
          MaxCommands,  \* bound: operator commands
          MaxMishaps    \* bound: evictions and cycles that exhaust their retries

Products == 1..NumProducts

ASSUME PortfolioAssumption ==
  /\ NumProducts \in Nat \ {0, 1} /\ Alarm \notin Requests
  /\ None \notin Requests \cup {Alarm}
  /\ {ProductCap, Cap} \subseteq Nat \ {0}
  /\ {MaxCommands, MaxMishaps} \subseteq Nat

Runs == Requests \cup {Alarm}

VARIABLES
  orchestrator,  \* portfolioSession.portfolio
  product,       \* portfolioSession.products, with its cycle's order
  schedule,      \* the shared grid alarm is armed
  retryAlarm,    \* the one-shot retry alarm of each product
  run,           \* the runs
  current,       \* the run that holds the thread
  up,            \* the object is in memory
  commands, mishaps,
  evicted,       \* history: the object was evicted
  overlap,       \* history: a product was touched with its cycle in flight
  undecided      \* history: an order admitted by a machine that ignored it

shell == <<up, commands, mishaps, evicted>>
vars == <<orchestrator, product, schedule, retryAlarm, run, current, shell,
          overlap, undecided>>

Terminal == {"stopped", "halted", "failed"}
ProductPhases == {"scheduling", "waiting", "fetching", "retrying",
                  "ordering", "cancelling"} \cup Terminal
NoTarget == -1

NewProduct == [phase |-> "stopped", shutdown |-> "none", target |-> NoTarget,
               position |-> 0]
Started == [NewProduct EXCEPT !.phase = "scheduling"]
IsEnabled(m) == m.phase \notin Terminal
SomeEnabled(ps) == \E p \in Products: IsEnabled(ps[p])

IdleRun == [at |-> "idle", trigger |-> FALSE,
            stagger |-> FALSE, control |-> "none", todo |-> <<>>,
            executed |-> FALSE, pending |-> FALSE, own |-> NewProduct]

AllProducts == [p \in Products |-> p]

(* runPortfolio of the products in todo.                                   *)
Walk(todo) == [IdleRun EXCEPT !.at = "next", !.todo = todo]

-----------------------------------------------------------------------------
(* multiProductPortfolioMachine, of a valid configuration.                 *)

NoSession == [phase |-> "idle",
              statuses |-> [p \in Products |-> "none"],
              exposure |-> [p \in Products |-> 0],
              killSwitch |-> FALSE, last |-> <<0, FALSE>>]

NewOrchestrator ==
  [NoSession EXCEPT !.phase = "running",
                  !.statuses = [p \in Products |-> "running"]]

(* The exposures together: their units, for they are whole.                *)
Sum(f) == Cardinality({u \in Products \X (1..ProductCap): u[2] <= f[u[1]]})

AdmissibleAlone(o, p, proposed) ==  \* mutant: the other products do not count
  o.statuses[p] = "running" /\ ~o.killSwitch /\ proposed <= Cap

Admissible(o, p, proposed) ==
  /\ o.statuses[p] = "running"
  /\ ~o.killSwitch
  /\ Sum([o.exposure EXCEPT ![p] = proposed]) <= Cap

(* RISK_PROPOSED: no handler outside running and draining.                 *)
RiskProposed(o, p, proposed) ==
  CASE o.phase = "running" /\ Admissible(o, p, proposed) ->
         [o EXCEPT !.exposure[p] = proposed, !.last = <<p, TRUE>>]
    [] o.phase \in {"running", "draining"}
         /\ ~(o.phase = "running" /\ Admissible(o, p, proposed)) ->
         [o EXCEPT !.last = <<p, FALSE>>]
    [] OTHER -> o

ApprovedAny(o, p) == o.last[1] = p  \* mutant: any decision about p counts

(* proposePortfolioRisk reads the decision from lastDecision.              *)
Approved(o, p) == o.last = <<p, TRUE>>

Active(o) == o.phase \in {"running", "draining"}

ExposureReported(o, p, m) ==
  IF Active(o) THEN [o EXCEPT !.exposure[p] = m.position] ELSE o

(* The eventless transitions at quiescence.                                *)
Quiesce(o) ==
  IF Active(o) /\ \A p \in Products: o.statuses[p] \in Terminal
  THEN [o EXCEPT !.phase = IF o.phase = "running" THEN "complete"
                           ELSE "halted"]
  ELSE o

(* PRODUCT_STOPPED, PRODUCT_HALTED, PRODUCT_FAILED.                        *)
ProductEnded(o, p, m) ==
  IF Active(o) /\ m.phase \in Terminal
  THEN Quiesce([o EXCEPT !.statuses[p] = m.phase]) ELSE o

KillEngaged(o) ==
  IF Active(o) THEN [o EXCEPT !.phase = "draining", !.killSwitch = TRUE]
  ELSE o

PortfolioReset(o) ==
  IF o.phase \in {"complete", "halted"} THEN NoSession ELSE o

-----------------------------------------------------------------------------
TypeOK ==
  /\ orchestrator \in
       [phase: {"idle", "running", "draining", "complete", "halted"},
        statuses: [Products -> {"none", "running"} \cup Terminal],
        exposure: [Products -> 0..ProductCap],
        killSwitch: BOOLEAN, last: ({0} \cup Products) \X BOOLEAN]
  /\ product \in [Products ->
       [phase: ProductPhases, shutdown: {"none", "stop", "kill"},
        target: NoTarget..ProductCap, position: 0..ProductCap]]
  /\ schedule \in BOOLEAN /\ retryAlarm \in [Products -> BOOLEAN]
  /\ \A r \in Runs:
       /\ run[r].at \in {"idle", "control", "next", "stagger", "cycle",
                         "fetch", "publish"}
       /\ run[r].own.position \in 0..ProductCap
  /\ current \in Runs \cup {None}
  /\ up \in BOOLEAN /\ overlap \in BOOLEAN /\ undecided \in BOOLEAN
  /\ commands \in 0..MaxCommands /\ mishaps \in 0..MaxMishaps
  /\ evicted \in BOOLEAN

Init ==
  /\ orchestrator = NoSession
  /\ product = [p \in Products |-> NewProduct]
  /\ schedule = FALSE /\ retryAlarm = [p \in Products |-> FALSE]
  /\ run = [r \in Runs |-> IdleRun] /\ current = None /\ up = TRUE
  /\ commands = 0 /\ mishaps = 0 /\ evicted = FALSE
  /\ overlap = FALSE /\ undecided = FALSE

-----------------------------------------------------------------------------
(* runPortfolio: one product cycle after the other.                        *)

Set(r, v) == run' = [run EXCEPT ![r] = v]

Begin(r, v) ==
  up /\ current = None /\ run[r].at = "idle" /\ current' = r /\ Set(r, v)

(* The exposure of every product, reported at a wake.                      *)
Reported(o, ps) ==
  [o EXCEPT !.exposure = IF Active(o) THEN [p \in Products |-> ps[p].position]
                         ELSE @]

Mishap == mishaps < MaxMishaps /\ mishaps' = mishaps + 1

Holds(r, at) == current = r /\ run[r].at = at

(* runProductCycle starts from the state as it is now.                     *)
StartCycle(r, p) ==
  Set(r, [run[r] EXCEPT
            !.at = "cycle", !.own = product[p], !.executed = run[r].stagger,
            !.pending = run[r].trigger /\ product[p].phase # "waiting"])

NextProduct(r) ==
  /\ Holds(r, "next") /\ run[r].todo # <<>>
  /\ LET p == Head(run[r].todo) IN
     IF ~IsEnabled(product[p])
     THEN Set(r, [run[r] EXCEPT !.todo = Tail(@)]) /\ UNCHANGED current
     ELSE IF run[r].executed
     THEN Set(r, [run[r] EXCEPT !.at = "stagger"]) /\ current' = None
     ELSE StartCycle(r, p) /\ UNCHANGED current
  /\ UNCHANGED <<orchestrator, product, schedule, retryAlarm, shell, overlap,
                 undecided>>

(* The stagger gave the thread away: the product is read again.            *)
Staggered(r) ==
  /\ up /\ current = None /\ run[r].at = "stagger" /\ current' = r
  /\ LET p == Head(run[r].todo) IN
     IF IsEnabled(product[p]) THEN StartCycle(r, p)
     ELSE Set(r, [run[r] EXCEPT !.at = "next", !.todo = Tail(@)])
  /\ UNCHANGED <<orchestrator, product, schedule, retryAlarm, shell, overlap,
                 undecided>>

(* The alarm goes when the whole portfolio is quiescent.                   *)
EndRun(r) ==
  /\ Holds(r, "next") /\ run[r].todo = <<>>
  /\ run' = [run EXCEPT ![r] = IdleRun] /\ current' = None
  /\ schedule' = (schedule /\ SomeEnabled(product))
  /\ UNCHANGED <<orchestrator, product, retryAlarm, shell, overlap, undecided>>

-----------------------------------------------------------------------------
(* runProductCycle.  The machine of the product is persisted at each send, *)
(* the rest of the product at its publication.                             *)

This(r) == Head(run[r].todo)

Persist(r, m) ==
  product' = [product EXCEPT ![This(r)] =
    [@ EXCEPT !.phase = m.phase, !.shutdown = m.shutdown, !.target = m.target]]

Move(r, at, m) ==
  Set(r, [run[r] EXCEPT !.at = at, !.own = m]) /\ Persist(r, m)

(* What a cycle that persisted its end goes to.                            *)
Rest(m) ==
  [m EXCEPT !.phase = CASE m.shutdown = "stop" -> "stopped"
                        [] m.shutdown = "kill" -> "halted"
                        [] OTHER -> "waiting"]

(* A cycle that goes on to the next one passes through scheduling.         *)
End(r, m) ==
  /\ Move(r, "publish", m)
  /\ schedule' = (schedule \/ m.phase = "waiting")

Fires(r) == run[r].trigger /\ ~run[r].pending /\ run[r].own.phase = "waiting"

InFlight(p) == \E s \in Runs: run[s].at = "fetch" /\ This(s) = p

(* The market is awaited, at once or in a retry.                           *)
Fetch(r) ==
  /\ Holds(r, "cycle")
  /\ Fires(r) \/ run[r].own.phase \in {"fetching", "retrying"}
  /\ Move(r, "fetch", [run[r].own EXCEPT !.phase = "fetching"])
  /\ current' = None /\ overlap' = (overlap \/ InFlight(This(r)))
  /\ UNCHANGED <<orchestrator, schedule, retryAlarm, shell, undecided>>

(* Nothing to do: a waiting product, or a retry that is not due.           *)
Pause(r) ==
  /\ Holds(r, "cycle")
  /\ \/ run[r].own.phase = "waiting" /\ ~Fires(r)
     \/ run[r].own.phase = "retrying" /\ (run[r].trigger \/ r # Alarm)
     \/ ~IsEnabled(run[r].own)
  /\ Set(r, [run[r] EXCEPT !.at = "publish"])
  /\ UNCHANGED <<orchestrator, product, schedule, retryAlarm, current, shell,
                 overlap, undecided>>

(* scheduling, and cancelling: on paper there is nothing to cancel.        *)
Settle(r) ==
  /\ Holds(r, "cycle")
  /\ run[r].own.phase \in {"scheduling", "cancelling"}
  /\ End(r, Rest(run[r].own))
  /\ UNCHANGED <<orchestrator, retryAlarm, current, shell, overlap, undecided>>

(* A step of the cycle exhausts its retries.                               *)
Fail(r) ==
  /\ Holds(r, "cycle")
  /\ run[r].own.phase \in {"scheduling", "cancelling", "ordering"}
  /\ Mishap
  /\ Move(r, "publish", [run[r].own EXCEPT !.phase = "failed",
                                     !.target = NoTarget])
  /\ UNCHANGED <<orchestrator, schedule, retryAlarm, current, up, commands,
                 evicted, overlap, undecided>>

Answered(r) == up /\ current = None /\ run[r].at = "fetch" /\ current' = r

(* The cycle ends without an order: no signal, or an error.                *)
NoOrder(r) ==
  /\ Answered(r)
  /\ End(r, Rest(run[r].own))
  /\ UNCHANGED <<orchestrator, retryAlarm, shell, overlap, undecided>>

PlanRetry(r) ==
  /\ Answered(r)
  /\ Move(r, "publish", [run[r].own EXCEPT !.phase = "retrying"])
  /\ retryAlarm' = [retryAlarm EXCEPT ![This(r)] = TRUE]
  /\ UNCHANGED <<orchestrator, schedule, shell, overlap, undecided>>

(* A locally approved order is proposed with the position it leads to.     *)
Propose(r) ==
  /\ Answered(r)
  /\ \E target \in 0..ProductCap \ {run[r].own.position}:
       LET p == This(r)
           m == run[r].own
           o == RiskProposed(orchestrator, p, target)
       IN  /\ orchestrator' = o
           /\ IF Approved(o, p)
              THEN /\ Move(r, "cycle",
                           [m EXCEPT !.phase = "ordering", !.target = target])
                   /\ UNCHANGED schedule
                   /\ undecided' = (undecided \/ ~Active(orchestrator))
              ELSE End(r, Rest(m)) /\ UNCHANGED undecided
  /\ UNCHANGED <<retryAlarm, shell, overlap>>

Filled(m) == m.target

(* The order is executed, or reconciled by a run that resumes it from the  *)
(* portfolio its row leads to; one that a shutdown reached first may not   *)
(* have been executed.                                                     *)
Execute(r) ==
  /\ Holds(r, "cycle") /\ run[r].own.phase = "ordering"
  /\ LET m == run[r].own IN
     \E done \in {TRUE, m.shutdown = "none"}:
       End(r, [Rest(m) EXCEPT !.target = NoTarget,
                              !.position = IF done THEN Filled(m) ELSE @])
  /\ UNCHANGED <<orchestrator, retryAlarm, current, shell, overlap, undecided>>

(* The whole product replaces the one of the state; its exposure and its   *)
(* end are reported; a wake that found a cycle to resume starts its own.   *)
Publish(r) ==
  /\ Holds(r, "publish")
  /\ LET p == This(r)
         m == run[r].own
     IN  /\ product' = [product EXCEPT ![p] = m]
         /\ orchestrator' =
              ProductEnded(ExposureReported(orchestrator, p, m), p, m)
         /\ IF run[r].pending /\ m.phase = "waiting"
            THEN Set(r, [run[r] EXCEPT !.at = "cycle", !.pending = FALSE])
            ELSE Set(r, [run[r] EXCEPT !.at = "next", !.todo = Tail(@),
                                       !.pending = FALSE, !.own = NewProduct])
  /\ UNCHANGED <<schedule, retryAlarm, current, shell, overlap, undecided>>

-----------------------------------------------------------------------------
(* Commands and alarms.                                                    *)

Command == commands < MaxCommands /\ commands' = commands + 1

Touched == overlap' = (overlap \/ \E p \in Products: InFlight(p))

(* startPortfolioAgent: a new session, of a portfolio at rest.             *)
StartPortfolio(r) ==
  /\ Command /\ ~SomeEnabled(product)
  /\ orchestrator' = NewOrchestrator
  /\ product' = [p \in Products |-> Started] /\ schedule' = FALSE
  /\ Begin(r, Walk(AllProducts)) /\ Touched
  /\ UNCHANGED <<retryAlarm, up, mishaps, evicted, undecided>>

(* stopPortfolioAgent and killPortfolioAgent: the orchestrator first, then *)
(* the event to every product, then a run.                                 *)
Control(r, name, o) ==
  /\ Command /\ orchestrator' = o
  /\ Begin(r, [Walk(AllProducts) EXCEPT !.at = "control", !.control = name])
  /\ Touched
  /\ UNCHANGED <<product, schedule, retryAlarm, up, mishaps, evicted,
                 undecided>>

StopPortfolio(r) == Control(r, "stop", orchestrator)
KillPortfolio(r) == Control(r, "kill", KillEngaged(orchestrator))

ControlNext(r) ==
  LET p == Head(run[r].todo) IN
  /\ product' = IF IsEnabled(product[p])
                THEN [product EXCEPT ![p].shutdown = run[r].control,
                        ![p].phase = IF @ = "ordering" THEN @ ELSE "cancelling"]
                ELSE product
  /\ Set(r, [run[r] EXCEPT !.todo = Tail(@)])

ControlProduct(r) ==
  /\ Holds(r, "control")
  /\ IF run[r].todo # <<>> THEN ControlNext(r)
     ELSE /\ Set(r, Walk(AllProducts))
          /\ UNCHANGED product
  /\ UNCHANGED <<orchestrator, schedule, retryAlarm, current, shell, overlap,
                 undecided>>

ResetPortfolio ==
  /\ up /\ current = None /\ Command
  /\ product' = [p \in Products |->
       IF product[p].phase \in {"failed", "halted"}
       THEN [product[p] EXCEPT !.phase = "stopped", !.shutdown = "none"]
       ELSE product[p]]
  /\ orchestrator' = PortfolioReset(orchestrator) /\ Touched
  /\ UNCHANGED <<schedule, retryAlarm, run, current, up, mishaps, evicted,
                 undecided>>

Wake(r, stagger) ==
  /\ orchestrator' = Reported(orchestrator, product)
  /\ Begin(r, [Walk(AllProducts) EXCEPT !.trigger = TRUE, !.stagger = stagger])
  /\ UNCHANGED <<product, schedule, retryAlarm, up, mishaps, evicted, overlap,
                 undecided>>

RunNow(r) == Command /\ orchestrator # NoSession /\ Wake(r, FALSE)

ScheduledTick ==
  /\ schedule
  /\ Wake(Alarm, TRUE) /\ UNCHANGED commands

(* retryTick runs the product the alarm names, if it waits for a retry.    *)
RetryTick ==
  /\ run[Alarm].at = "idle"
  /\ \E p \in Products:
       /\ retryAlarm[p] /\ retryAlarm' = [retryAlarm EXCEPT ![p] = FALSE]
       /\ IF product[p].phase = "retrying"
          THEN Begin(Alarm, Walk(<<p>>))
          ELSE up /\ current = None /\ UNCHANGED <<run, current>>
  /\ UNCHANGED <<orchestrator, product, schedule, shell, overlap, undecided>>

Crash ==
  /\ up /\ Mishap /\ evicted' = TRUE /\ up' = FALSE
  /\ run' = [r \in Runs |-> IdleRun] /\ current' = None
  /\ UNCHANGED <<orchestrator, product, schedule, retryAlarm, commands, overlap,
                 undecided>>

(* onStart: an enabled portfolio gets its grid alarm back.                 *)
OnStart ==
  /\ ~up /\ up' = TRUE
  /\ schedule' = (schedule \/ SomeEnabled(product))
  /\ UNCHANGED <<orchestrator, product, retryAlarm, run, current, commands,
                 mishaps, evicted, overlap, undecided>>

RunStep(r) ==
  \/ NextProduct(r) \/ Staggered(r) \/ EndRun(r) \/ ControlProduct(r)
  \/ Fetch(r) \/ Pause(r) \/ Settle(r) \/ Fail(r) \/ Execute(r) \/ Publish(r)
  \/ NoOrder(r) \/ PlanRetry(r) \/ Propose(r)

Next ==
  \/ \E r \in Runs: RunStep(r)
  \/ \E r \in Requests:
       StartPortfolio(r) \/ StopPortfolio(r) \/ KillPortfolio(r) \/ RunNow(r)
  \/ ResetPortfolio \/ ScheduledTick \/ RetryTick \/ Crash \/ OnStart

Spec == Init /\ [][Next]_vars

(* A run goes on, its market answers or times out, armed alarms fire and   *)
(* wake an evicted object.                                                 *)
Fairness ==
  /\ \A r \in Runs: WF_vars(RunStep(r))
  /\ WF_vars(ScheduledTick) /\ WF_vars(OnStart)

FairSpec == Spec /\ Fairness

-----------------------------------------------------------------------------
(* Nothing was evicted and no product had two cycles in flight.            *)
Undisturbed == ~evicted /\ ~overlap

(* The positions together stay under the consolidated cap (INV-P1 of       *)
(* models/multi-product-portfolio.md), also when runs of different         *)
(* products interleave, until something is evicted or a product has two    *)
(* cycles in flight.                                                       *)
CapHolds ==
  Undisturbed => Sum([p \in Products |-> product[p].position]) <= Cap

(* At rest an enabled portfolio has the shared alarm.                      *)
ArmedWhenEnabled ==
  up /\ (\A r \in Runs: run[r].at = "idle") /\ SomeEnabled(product) /\ ~overlap
    => schedule

(* From a kill on no order is taken up, whatever runs are in flight and    *)
(* whatever was evicted.                                                   *)
NothingTakenUp ==
  [][orchestrator.phase = "draining" =>
       \A p \in Products:
         product'[p].phase = "ordering" => product[p].phase = "ordering"]_vars

(* A kill drains the portfolio: it takes up no order, the alarm goes on as *)
(* long as a product is enabled, and the portfolio comes to its end.       *)
DrainEnds ==
  /\ []ArmedWhenEnabled
  /\ NothingTakenUp
  /\ orchestrator.phase = "draining" ~>
       orchestrator.phase # "draining" \/ ~Undisturbed

(* Every order was admitted by a decision of the machine (INV-P5).         *)
AdmissionIsDecided == ~undecided
=============================================================================
