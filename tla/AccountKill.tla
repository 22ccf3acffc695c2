----------------------------- MODULE AccountKill -----------------------------
(***************************************************************************)
(* executeCoinbaseKill: the liveAccountControl machine and the calls its   *)
(* executor makes, one action per call of the exchange.  The identifiers,  *)
(* the product and the error codes of the context are left out; an error   *)
(* is retryable or it is not.  The adapter only returns snapshots that the *)
(* machine accepts as valid, so accountIsInvalid never holds.              *)
(***************************************************************************)
EXTENDS CoinbaseAccount

CONSTANTS KillLimits,     \* retryLimits of the machine
          MaxKillSteps    \* MAX_CONTROL_STEPS

KillKinds == {"cancellation", "reconciliation", "flatten", "verification"}

ASSUME KillLimitsAssumption ==
  /\ KillLimits \in [KillKinds -> Nat]
  /\ MaxKillSteps \in Nat

VARIABLE kill  \* the machine of the kill and the locals of its executor

KillPhases ==
  {"idle", "cancellingOrders", "retryingCancellation", "reconcilingPosition",
   "retryingReconciliation", "flatteningPosition", "verifyingFlat",
   "retryingVerification", "completed", "failed"}

(* call: the call of the phase that comes next; listed, seen: its answers; *)
(* sent: the orders this execution sent.                                   *)
KillRecords ==
  [phase: KillPhases, attempts: [KillKinds -> Nat], unknown: BOOLEAN,
   quantity: Quantities, step: 0..MaxKillSteps, sent: SUBSET FlattenIds,
   call: {"first", "second", "third"}, listed: SUBSET OrderIds,
   seen: [total: Quantities, available: Quantities]]

IdleKill ==
  [phase |-> "idle", attempts |-> [k \in KillKinds |-> 0], unknown |-> FALSE,
   quantity |-> 0, step |-> 0, sent |-> {}, call |-> "first", listed |-> {},
   seen |-> [total |-> 0, available |-> 0]]

KillRequested(permitted) ==
  [IdleKill EXCEPT !.phase = IF permitted THEN "cancellingOrders" ELSE "failed"]

Killing == kill.phase \notin {"idle", "completed", "failed"}

-----------------------------------------------------------------------------
(* The machine: an event ends the iteration of the executor's loop.        *)
Turn(k, phase) ==
  [k EXCEPT !.phase = phase, !.step = @ + 1, !.call = "first",
            !.listed = {}, !.seen = IdleKill.seen]

Left(k, kind) == k.attempts[kind] < KillLimits[kind]

Spend(k, kind) == [k EXCEPT !.attempts[kind] = @ + 1]

RetryOrFail(k, kind, retryable, phase) ==
  IF retryable /\ Left(k, kind) THEN Turn(Spend(k, kind), phase)
  ELSE Turn(k, "failed")

(* What a phase that reads the account retries with, and where.            *)
ReadKind(k) ==
  IF k.phase = "verifyingFlat" THEN "verification" ELSE "reconciliation"
ReadRetry(k) == IF k.phase = "verifyingFlat" THEN "retryingVerification"
                                             ELSE "retryingReconciliation"

HeldQuantity(total, available) ==
  available <= Dust \/ total - available > Dust

MayFlattenAgain(k) == Left(k, "flatten")  \* mutant: the unknown is forgotten
MayFlatten(k) == Left(k, "flatten") /\ ~k.unknown

OpenForgotten(k, total, available, openCount) ==  \* mutant: orders ignored
  IF total <= Dust THEN Turn(k, "completed")
  ELSE IF MayFlatten(k)
  THEN Turn([Spend(k, "flatten") EXCEPT !.quantity = available],
            "flatteningPosition")
  ELSE Turn(k, "failed")

AccountReconciled(k, total, available, openCount) ==
  IF openCount > 0 THEN Turn(k, "cancellingOrders")
  ELSE IF total <= Dust THEN Turn(k, "completed")
  ELSE IF HeldQuantity(total, available)
  THEN RetryOrFail(k, ReadKind(k), TRUE, ReadRetry(k))
  ELSE IF MayFlatten(k)
  THEN Turn([Spend(k, "flatten") EXCEPT !.quantity = available,
                                        !.unknown = FALSE],
            "flatteningPosition")
  ELSE Turn(k, "failed")

FlattenConfirmed(k) == Turn([k EXCEPT !.unknown = FALSE], "verifyingFlat")
FlattenUnknown(k) == Turn([k EXCEPT !.unknown = TRUE], "verifyingFlat")
FlattenRejected(k, retryable) ==
  Turn(k, IF retryable /\ Left(k, "flatten") THEN "reconcilingPosition"
          ELSE "failed")

-----------------------------------------------------------------------------
(* The executor.  Every call may fail, for a while or for good.            *)
In(phases) == kill.phase \in phases /\ kill.step < MaxKillSteps

Next1(k) == kill' = k /\ UNCHANGED account

(* cancelAndConfirmProductOrders: list, cancel what was listed, list again.*)
CancellationFails(retryable) ==
  Next1(RetryOrFail(kill, "cancellation", retryable, "retryingCancellation"))

ListOrders ==
  /\ In({"cancellingOrders"}) /\ kill.call # "second"
  /\ \/ /\ OpenIds = {}
        /\ Next1(Turn(kill, "reconcilingPosition"))
     \/ /\ OpenIds # {} /\ kill.call = "first"
        /\ Next1([kill EXCEPT !.call = "second", !.listed = OpenIds])
     \/ /\ OpenIds # {} /\ kill.call = "third"
        /\ CancellationFails(TRUE)
     \/ \E retryable \in BOOLEAN: CancellationFails(retryable)

CancelOrders ==
  /\ In({"cancellingOrders"}) /\ kill.call = "second"
  /\ \/ /\ kill.listed \subseteq OpenIds
        /\ \E ended \in {{}, kill.listed}:
             orders' = Cancelled(kill.listed, ended)
        /\ kill' = [kill EXCEPT !.call = "third"]
        /\ UNCHANGED base
     \/ \E retryable \in BOOLEAN, ended \in {{}, kill.listed},
           received \in BOOLEAN:
          /\ orders' = IF received THEN Cancelled(kill.listed, ended)
                       ELSE orders
          /\ kill' = RetryOrFail(kill, "cancellation", retryable,
                                 "retryingCancellation")
          /\ UNCHANGED base

RetryTimer ==
  /\ In({"retryingCancellation", "retryingReconciliation",
         "retryingVerification"})
  /\ Next1(Turn(kill, CASE kill.phase = "retryingCancellation" ->
                             "cancellingOrders"
                        [] kill.phase = "retryingReconciliation" ->
                             "reconcilingPosition"
                        [] OTHER -> "verifyingFlat"))

(* accountAndOrderCount: the balances first, then the orders.              *)
ReadFails(retryable) ==
  Next1(RetryOrFail(kill, ReadKind(kill), retryable, ReadRetry(kill)))

ReadAccount ==
  /\ In({"reconcilingPosition", "verifyingFlat"}) /\ kill.call = "first"
  /\ \/ Next1([kill EXCEPT !.call = "second",
                           !.seen = [total |-> base, available |-> Available]])
     \/ \E retryable \in BOOLEAN: ReadFails(retryable)

CountOrders ==
  /\ In({"reconcilingPosition", "verifyingFlat"}) /\ kill.call = "second"
  /\ \/ Next1(AccountReconciled(kill, kill.seen.total, kill.seen.available,
                                Cardinality(OpenIds)))
     \/ \E retryable \in BOOLEAN: ReadFails(retryable)

(* flattenReconciledPosition: submit under a new identifier, which one     *)
(* whose request never arrived still is; look up what is acknowledged.     *)
FreshId == CHOOSE i \in FlattenIds: orders[i] = NoOrder

SubmitFlatten ==
  /\ In({"flatteningPosition"}) /\ kill.call = "first"
  /\ \E j \in FlattenIds: orders[j] = NoOrder
  /\ LET i == FreshId
         sending == [kill EXCEPT !.sent = @ \cup {i}] IN
       \/ /\ Accepts(i, kill.quantity)
          /\ orders' = Placed(i, kill.quantity, TRUE)
          /\ kill' = [sending EXCEPT !.call = "second", !.listed = {i}]
       \/ \E o \in Lost(i, kill.quantity, TRUE):
            orders' = o /\ kill' = FlattenUnknown(sending)
       \/ \E retryable \in BOOLEAN:
            kill' = FlattenRejected(kill, retryable) /\ UNCHANGED orders
  /\ UNCHANGED base

LookUpFlatten ==
  /\ In({"flatteningPosition"}) /\ kill.call = "second"
  /\ \E i \in kill.listed:
       LET ended == orders[i].status = "done" IN
       \/ Next1(FlattenUnknown(kill))
       \/ ended /\ orders[i].sold /\ Next1(FlattenConfirmed(kill))
       \/ ended /\ ~orders[i].sold /\ Next1(FlattenRejected(kill, FALSE))

KillStep ==
  \/ ListOrders \/ CancelOrders \/ RetryTimer \/ ReadAccount \/ CountOrders
  \/ SubmitFlatten \/ LookUpFlatten

-----------------------------------------------------------------------------
KillType ==
  /\ kill \in KillRecords
  /\ \A kind \in KillKinds: kill.attempts[kind] <= KillLimits[kind]

(* An execution whose flattening order is in doubt never sends another one *)
(* (models/live-account-control.md, invariant 10).                         *)
OneFlattenInDoubt == Cardinality({i \in kill.sent: Pending(i)}) <= 1

(* The executor's bound of MAX_CONTROL_STEPS is never what ends a kill:    *)
(* every mix of failures, late orders and held balances ends before it.    *)
KillNeverExhausts == Killing => kill.step < MaxKillSteps

(* A kill that succeeded left nothing open and at most dust, and its steps *)
(* are never what ends a kill.                                             *)
KillMeansFlat ==
  /\ kill.phase = "completed" => base <= Dust /\ OpenIds = {}
  /\ KillNeverExhausts

=============================================================================
