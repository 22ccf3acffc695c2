---------------------------- MODULE ProtectiveOrder ----------------------------
(***************************************************************************)
(* The protective order of a spot position                                 *)
(* (models/protective-order.machine.ts, models/protective-order.ts): an    *)
(* actor that is armed with a plan, sees the open and then the range of    *)
(* every candle, and decides on a total exit.  The machine is a set of     *)
(* operators from actor to actor, one per event.                           *)
(*                                                                         *)
(* Prices are integers, and the basis points of a policy are parts of      *)
(* Whole: a distance is rounded down, as a tick would round it.            *)
(***************************************************************************)
EXTENDS Integers

CONSTANT Whole  \* what the distances of a policy are parts of, 10_000 in the code

None == -1

Share(price, parts) == (price * parts) \div Whole

(* A policy: its mode, the distances of its stop and of its take, in parts *)
(* or in multiples of the ATR, None for a take that is not set.            *)
Policy(mode, stop, take) == [mode |-> mode, stop |-> stop, take |-> take]
NoPolicy == Policy("NONE", 0, None)

NoPlan == [quantity |-> 0, entry |-> 0, stop |-> 0, take |-> None,
           anchor |-> 0, armedAt |-> None]

(* createProtectiveOrderPlan                                               *)
Plan(policy, quantity, entry, atr, at) ==
  LET distance(n) == IF policy.mode = "ATR" THEN atr * n ELSE Share(entry, n)
  IN [quantity |-> quantity, entry |-> entry,
      stop |-> entry - distance(policy.stop),
      take |-> IF policy.take = None THEN None ELSE entry + distance(policy.take),
      anchor |-> entry, armedAt |-> at]

ValidPlan(policy, plan, atr) ==
  /\ plan.quantity > 0 /\ plan.entry > 0
  /\ policy.mode = "ATR" => atr > 0
  /\ plan.stop \in 1..(plan.entry - 1)
  /\ plan.take = None \/ plan.take > plan.entry

NoExit == [kind |-> "none", reason |-> "none", price |-> 0]
Exit(kind, reason, price) == [kind |-> kind, reason |-> reason, price |-> price]

(* A fault: a gap is filled at the level it jumped over.                   *)
FilledAtLevel(plan, open) ==
  CASE open <= plan.stop -> Exit("STOP_LOSS", "GAP_OPEN", plan.stop)
    [] open > plan.stop /\ plan.take # None /\ open >= plan.take ->
         Exit("TAKE_PROFIT", "GAP_OPEN", plan.take)
    [] OTHER -> NoExit

(* resolveProtectiveOpen                                                   *)
OpenExit(plan, open) ==
  CASE open <= plan.stop -> Exit("STOP_LOSS", "GAP_OPEN", open)
    [] open > plan.stop /\ plan.take # None /\ open >= plan.take ->
         Exit("TAKE_PROFIT", "GAP_OPEN", open)
    [] OTHER -> NoExit

(* resolveProtectiveRange: on a candle that touches both, the stop wins.   *)
RangeExit(plan, c) ==
  LET stopHit == c.low <= plan.stop
      takeHit == plan.take # None /\ c.high >= plan.take
  IN CASE stopHit -> Exit("STOP_LOSS",
                          IF takeHit THEN "AMBIGUOUS_STOP_FIRST" ELSE "INTRABAR",
                          plan.stop)
       [] takeHit /\ ~stopHit -> Exit("TAKE_PROFIT", "INTRABAR", plan.take)
       [] OTHER -> NoExit

(* advanceTrailingPlan: the stop follows a new high, and never comes back. *)
Advance(plan, policy, high) ==
  IF policy.mode # "TRAILING" \/ high <= plan.anchor THEN plan
  ELSE LET trailed == high - Share(high, policy.stop)
       IN [plan EXCEPT !.anchor = high,
                       !.stop = IF trailed > @ THEN trailed ELSE @]

-----------------------------------------------------------------------------
(* The machine.                                                            *)

NoActor == [state |-> "none", policy |-> NoPolicy, plan |-> NoPlan,
            start |-> None, open |-> None, last |-> None,
            exit |-> NoExit, fault |-> "none"]

(* Nothing but an armed actor is sent the events below.                    *)
Armed(a) == a.state \in {"awaitingOpen", "awaitingRange"}

Failed(a, fault) == [a EXCEPT !.state = "failed", !.fault = fault]

Triggered(a, exit, start) ==
  [a EXCEPT !.state = "triggered", !.exit = exit, !.last = start,
            !.start = None, !.open = None]

(* A new actor, and ARM_REQUESTED.                                         *)
Arm(policy, quantity, entry, atr, at) ==
  LET idle == [NoActor EXCEPT !.state = "idle", !.policy = policy]
      plan == Plan(policy, quantity, entry, atr, at)
  IN IF ValidPlan(policy, plan, atr)
     THEN [idle EXCEPT !.state = "awaitingOpen", !.plan = plan]
     ELSE Failed(idle, "plan")

CandleOpened(a, c) ==
  LET exit == OpenExit(a.plan, c.open)
  IN IF \/ a.state # "awaitingOpen" \/ c.start <= a.last
        \/ c.start < a.plan.armedAt
     THEN Failed(a, "sequence")
     ELSE IF exit # NoExit THEN Triggered(a, exit, c.start)
     ELSE [a EXCEPT !.state = "awaitingRange", !.start = c.start, !.open = c.open]

CandleRangeReplayed(a, c) ==
  LET exit == RangeExit(a.plan, c)
  IN IF \/ a.state # "awaitingRange" \/ a.start # c.start
        \/ a.open \notin c.low..c.high \/ c.start < a.plan.armedAt
     THEN Failed(a, "sequence")
     ELSE IF exit # NoExit THEN Triggered(a, exit, c.start)
     ELSE [a EXCEPT !.state = "awaitingOpen", !.last = c.start, !.start = None,
                    !.open = None, !.plan = Advance(@, a.policy, c.high)]

InCandle(a, at) == a.start \in {None, at}

(* An increase makes a new plan from the new average entry.                *)
PositionIncreased(a, quantity, entry, atr, at) ==
  LET plan == Plan(a.policy, quantity, entry, atr, at)
  IN IF /\ quantity > a.plan.quantity
        /\ ValidPlan(a.policy, plan, atr) /\ InCandle(a, at)
     THEN [a EXCEPT !.plan = plan]
     ELSE Failed(a, "plan")

PositionReduced(a, quantity, at) ==
  IF /\ quantity \in 1..(a.plan.quantity - 1)
     /\ at >= a.plan.armedAt /\ InCandle(a, at)
  THEN [a EXCEPT !.plan.quantity = quantity]
  ELSE Failed(a, "plan")
=============================================================================
