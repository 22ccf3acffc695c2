----------------------------- MODULE RegimeFilter -----------------------------
(***************************************************************************)
(* The regime filter (models/regime-filter.machine.ts, regime-filter.ts):  *)
(* what the market was classified as, candle after candle, and the regime  *)
(* that is confirmed by it.  The classification of an observation is a     *)
(* choice: a kind, or pending while the slow average has too short a       *)
(* history for its slope.                                                  *)
(***************************************************************************)
EXTENDS Integers

CONSTANTS MinObservations, ConfirmationCount,
          SlopePeriods  \* 0 for EMA_THRESHOLD, which needs no history

Kinds == {"BULLISH", "BEARISH", "RANGE"}
NoKind == "none"
Pending == "pending"

(* The machine's states are the regime; stopped comes after the last       *)
(* candle and is left out.                                                 *)
WarmingUp ==
  [regime |-> NoKind, count |-> 0, pendingKind |-> NoKind, pendingCount |-> 0,
   opposingKind |-> NoKind, opposingCount |-> 0, last |-> 0, history |-> 0,
   failed |-> FALSE]

(* classifyRegimeObservation                                               *)
Classes(f) == IF f.history < SlopePeriods THEN {Pending} ELSE Kinds

ValidObservation(f, start) == start > f.last

(* A fault: a streak goes on whatever is classified.                       *)
CarriedOn(kind, of, count) == count + 1

Streak(kind, of, count) == IF kind = of THEN count + 1 ELSE 1

(* base, of every recorder: an observation counts also when it is pending. *)
Counted(f, start) ==
  [f EXCEPT !.count = @ + 1, !.last = start,
            !.history = IF @ < SlopePeriods THEN @ + 1 ELSE @]

WarmedUp(f, kind) ==
  /\ f.count + 1 >= MinObservations
  /\ Streak(kind, f.pendingKind, f.pendingCount) >= ConfirmationCount

SwitchConfirmed(f, kind) ==
  /\ kind # f.regime
  /\ Streak(kind, f.opposingKind, f.opposingCount) >= ConfirmationCount

(* recordRegimeEntry                                                       *)
Entered(f, kind, start) ==
  [Counted(f, start) EXCEPT
     !.regime = kind, !.pendingKind = NoKind, !.pendingCount = 0,
     !.opposingKind = NoKind, !.opposingCount = 0]

(* recordRegimeObservation                                                 *)
Recorded(f, kind, start) ==
  IF kind = f.regime
  THEN [Counted(f, start) EXCEPT !.opposingKind = NoKind, !.opposingCount = 0]
  ELSE [Counted(f, start) EXCEPT
          !.opposingKind = kind,
          !.opposingCount = Streak(kind, f.opposingKind, f.opposingCount)]

(* recordWarmingObservation                                                *)
Warming(f, kind, start) ==
  [Counted(f, start) EXCEPT
     !.pendingKind = kind,
     !.pendingCount = Streak(kind, f.pendingKind, f.pendingCount)]

CandleClosed(f, kind, start) ==
  CASE ~ValidObservation(f, start) -> [f EXCEPT !.failed = TRUE]
    [] ValidObservation(f, start) /\ kind = Pending -> Counted(f, start)
    [] ValidObservation(f, start) /\ kind # Pending /\ f.regime = NoKind ->
         IF WarmedUp(f, kind) THEN Entered(f, kind, start)
         ELSE Warming(f, kind, start)
    [] OTHER ->
         IF SwitchConfirmed(f, kind) THEN Entered(f, kind, start)
         ELSE Recorded(f, kind, start)
=============================================================================
