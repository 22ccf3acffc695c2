--------------------------- MODULE MCTradingAgent ---------------------------
(* Instances of TradingAgent for TLC: the setups each run goes through.    *)
EXTENDS TradingAgent, TLC

(* One retry of every kind: each retry and each exhaustion happens.        *)
OneRetry == [k \in AttemptKinds |-> 1]

(* Runs are interchangeable.                                               *)
RunSymmetry == Permutations(Runs)

Agent(m, rs, cs, ks, fs, ns, n, e) ==
  [mode |-> m, runs |-> rs, cycles |-> cs, candles |-> ks, faults |-> fs,
   names |-> ns, commands |-> n, crashes |-> e]

Operator == {"start", "stop", "kill", "reset"}

(* One invocation at a time.                                               *)
Serial ==
  {Agent("paper", 1, 2, 2, 2, Operator \cup {"runNow"}, 3, 0),
   Agent("live", 1, 2, 2, 1, Operator, 3, 1)}

(* Two overlapping invocations.                                            *)
Overlapping ==
  {Agent("paper", 2, 2, 1, 0, {"start", "kill", "runNow"}, 3, 0)}

Everything == Serial \cup Overlapping

(* A cycle that must end, and a kill that must.                            *)
Settling ==
  {Agent("live", 1, 2, 1, 1, {"start", "runNow"}, 2, 1),
   Agent("live", 1, 1, 1, 2, {"start", "kill", "reset", "runNow"}, 3, 0)}

(* The instances of the statements that do not hold.                       *)
OneReplayed == {Agent("live", 1, 1, 1, 2, {"start"}, 1, 0)}
OneRetried == {Agent("live", 1, 1, 1, 1, {"start"}, 1, 0)}
=============================================================================
