---------------------------- MODULE ProtectedSell ----------------------------
(***************************************************************************)
(* executeCoinbaseProtectedSell: the liveSellProtection machine, the calls *)
(* of its executor, the checkpoints of dodash_sell_workflows, and the      *)
(* calls of submitLiveOrder and reconcileLiveOrder that start and resume   *)
(* it; the safety kill nested in it; and the kill that the trading cycle   *)
(* runs in "cancelling".  An eviction loses the machines and their calls.  *)
(***************************************************************************)
EXTENDS AccountKill

CONSTANTS Positions,   \* quantities held, each under its bracket
          Requests,    \* quantities of the intents, far above an increment
          MaxMishaps   \* bound on evictions and refused writes
ASSUME SellAssumption ==
       /\ Positions \subseteq 0..MaxBase /\ MaxMishaps \in Nat
       /\ Requests \subseteq (Dust + 1)..MaxBase

VARIABLES
  sell,        \* the machine of the SELL and the locals of its executor
  checkpoint,  \* its row in dodash_sell_workflows
  outcome,     \* what the cycle knows: of the SELL, or of its own kill
  mishaps

sellVars == <<sell, checkpoint, outcome, mishaps>>
vars == <<account, kill, sellVars>>

SellPhases ==
  {"none", "cancellingProtections", "reconcilingBeforeSell",
   "submittingSell", "reconcilingSell", "reconcilingResidual",
   "armingResidual", "confirmingResidualProtection", "safetyFlattening",
   "completed", "safetyCompleted", "failed"}

(* requested: the quantity of the intent; known: exchangeOrderId is set;   *)
(* total: totalBaseQuantity of the last snapshot; sold: outcome of the     *)
(* machine; call, listed: where the effect of the phase is.                *)
SellRecords ==
  [phase: SellPhases, requested: Quantities, known: BOOLEAN,
   total: Quantities,
   sold: {"IDLE", "NO_SELL_NEEDED", "SOLD_FLAT", "SOLD_REPROTECTED"},
   call: {"checkpoint", "first", "second", "third"},
   listed: SUBSET OrderIds]

NoSell == [phase |-> "none", requested |-> 0, known |-> FALSE, total |-> 0,
           sold |-> "IDLE", call |-> "checkpoint", listed |-> {}]

Owned == {"bracket"}  \* loadKnownProtectiveOrderIds

(* idle: nothing was asked; selling, killing: it runs, or is to be run     *)
(* again after an eviction; unknown: the SELL is to be reconciled.         *)
Outcomes == {"idle", "selling", "killing", "unknown", "confirmed",
             "protectionFailed", "failed", "killed", "killFailed"}

TypeOK ==
  /\ AccountType /\ KillType
  /\ sell \in SellRecords /\ checkpoint \in SellRecords
  /\ outcome \in Outcomes
  /\ mishaps \in 0..MaxMishaps

(* A position under its bracket, and perhaps an order not of this agent.   *)
Init ==
  /\ base \in Positions
  /\ \E stray \in {NoOrder} \cup
         {[NewOrder(n, TRUE) EXCEPT !.side = "BUY"]: n \in 1..(MaxBase - base)}:
       orders = [i \in OrderIds |->
                   CASE i = "bracket" /\ base > 0 -> NewOrder(base, FALSE)
                     [] i = "stray" -> stray
                     [] OTHER -> NoOrder]
  /\ kill = IdleKill
  /\ sell = NoSell /\ checkpoint = NoSell
  /\ outcome = "idle" /\ mishaps = 0

-----------------------------------------------------------------------------
(* The machine.  Every event is followed by a checkpoint of its phase.     *)
To(s, phase) == [s EXCEPT !.phase = phase, !.call = "checkpoint",
                          !.listed = {}]

Unsafe(s) == To(s, "safetyFlattening")

AccountBeforeSell(s, total, available) ==
  IF total <= Dust
  THEN To([s EXCEPT !.total = total, !.sold = "NO_SELL_NEEDED"], "completed")
  ELSE IF /\ total + Dust >= s.requested
          /\ available + Dust >= s.requested
          /\ total - available <= Dust
  THEN To([s EXCEPT !.total = total], "submittingSell")
  ELSE Unsafe([s EXCEPT !.total = total])

SoldOut(s, total, available) ==  \* mutant: the residual is not protected
  To([s EXCEPT !.total = total, !.sold = "SOLD_FLAT"], "completed")

AccountAfterSell(s, total, available) ==
  IF total <= Dust
  THEN To([s EXCEPT !.total = total, !.sold = "SOLD_FLAT"], "completed")
  ELSE IF ~HeldQuantity(total, available)
  THEN To([s EXCEPT !.total = total], "armingResidual")
  ELSE Unsafe([s EXCEPT !.total = total])

-----------------------------------------------------------------------------
(* The executor.                                                           *)
At(phase, call) ==
  outcome = "selling" /\ sell.phase = phase /\ sell.call = call

Send(s) ==
  sell' = s /\ UNCHANGED <<kill, checkpoint, outcome, mishaps>>

Answered(s) == Send(s) /\ UNCHANGED account

Forgotten == [NoSell EXCEPT !.requested = sell.requested]  \* the intent

(* persist: the write precedes the effect of the phase; when it is refused *)
(* the execution ends UNKNOWN at the checkpoint it has.                    *)
Persist ==
  /\ outcome = "selling" /\ sell.call = "checkpoint"
  /\ \/ /\ checkpoint' = sell
        /\ sell' = [sell EXCEPT !.call = "first"]
        /\ UNCHANGED <<outcome, mishaps>>
     \/ /\ mishaps < MaxMishaps /\ mishaps' = mishaps + 1
        /\ outcome' = "unknown" /\ sell' = Forgotten
        /\ UNCHANGED checkpoint
  /\ UNCHANGED <<account, kill>>

(* clearCoinbaseOwnedProtections.                                          *)
ListProtections ==
  /\ \/ At("cancellingProtections", "first")
     \/ At("cancellingProtections", "third")
  /\ \/ /\ OpenIds = {} /\ Answered(To(sell, "reconcilingBeforeSell"))
     \/ /\ OpenIds # {} /\ OpenIds \subseteq Owned /\ sell.call = "first"
        /\ Answered([sell EXCEPT !.call = "second", !.listed = OpenIds])
     \/ Answered(Unsafe(sell))

CancelProtections ==
  /\ At("cancellingProtections", "second")
  /\ UNCHANGED base
  /\ \E ended \in {{}, sell.listed}, received \in BOOLEAN:
       /\ orders' = IF received THEN Cancelled(sell.listed, ended) ELSE orders
       /\ \/ /\ received /\ sell.listed \subseteq OpenIds
             /\ Send([sell EXCEPT !.call = "third"])
          \/ Send(Unsafe(sell))

ReconcileAccount ==
  \/ /\ At("reconcilingBeforeSell", "first")
     /\ \/ Answered(AccountBeforeSell(sell, base, Available))
        \/ Answered(Unsafe(sell))
  \/ /\ At("reconcilingResidual", "first")
     /\ \/ Answered(AccountAfterSell(sell, base, Available))
        \/ Answered(Unsafe(sell))

(* submitCoinbaseOrder with the identifier and the quantity of the intent. *)
Submit(acknowledged, unanswered) ==
  /\ UNCHANGED base
  /\ \/ /\ Accepts("sell", sell.requested)
        /\ orders' = Placed("sell", sell.requested, TRUE)
        /\ Send(acknowledged)
     \/ \E o \in Lost("sell", sell.requested, TRUE):
          orders' = o /\ Send(unanswered)
     \/ UNCHANGED orders /\ Send(Unsafe(sell))

SubmitSell ==
  /\ At("submittingSell", "first")
  /\ Submit(To([sell EXCEPT !.known = TRUE], "reconcilingSell"),
            To(sell, "reconcilingSell"))

(* Without the exchange's identifier the SELL is sent again first.         *)
ReplaySell ==
  /\ At("reconcilingSell", "first") /\ ~sell.known
  /\ Submit([sell EXCEPT !.call = "second"], Unsafe(sell))

(* getCoinbaseOrder: only a SELL that has ended and sold is confirmed.     *)
LookUpSell ==
  /\ At("reconcilingSell", IF sell.known THEN "first" ELSE "second")
  /\ \/ /\ orders["sell"].status = "done" /\ orders["sell"].sold
        /\ Answered(To([sell EXCEPT !.known = TRUE], "reconcilingResidual"))
     \/ Answered(Unsafe(sell))

(* submitCoinbaseProtectionOrder: what is not an acceptance fails the sell, *)
(* an answer that was lost too.                                            *)
SubmitProtection ==
  \/ /\ Accepts("residual", sell.total)
     /\ orders' = Placed("residual", sell.total, FALSE)
     /\ Send(To(sell, "confirmingResidualProtection"))
  \/ \E o \in Lost("residual", sell.total, FALSE) \cup {orders}:
       orders' = o /\ Send(Unsafe(sell))

(* The residual is protected under an identifier derived from the SELL.    *)
ArmResidual ==
  /\ At("armingResidual", "first")
  /\ UNCHANGED base
  /\ SubmitProtection

(* confirmCoinbaseProtectiveOrder: open, and for the whole residual.       *)
ConfirmResidual ==
  /\ At("confirmingResidualProtection", "first")
  /\ \/ /\ orders["residual"].status = "open"
        /\ orders["residual"].size = sell.total
        /\ Answered(To([sell EXCEPT !.sold = "SOLD_REPROTECTED"],
                       "completed"))
     \/ Answered(Unsafe(sell))

(* safetyFlattening: the kill runs to its end, then the machine goes on.   *)
BeginSafetyKill ==
  /\ At("safetyFlattening", "first") /\ kill.phase = "idle"
  /\ kill' = KillRequested(TRUE)
  /\ UNCHANGED <<account, sellVars>>

EndSafetyKill ==
  /\ At("safetyFlattening", "first")
  /\ kill.phase \in {"completed", "failed"}
  /\ sell' = To(sell, IF kill.phase = "completed" THEN "safetyCompleted"
                      ELSE "failed")
  /\ kill' = IdleKill
  /\ UNCHANGED <<account, checkpoint, outcome, mishaps>>

Finish ==
  /\ outcome = "selling" /\ sell.call = "first"
  /\ sell.phase \in {"completed", "safetyCompleted", "failed"}
  /\ outcome' = CASE sell.phase = "completed" -> "confirmed"
                  [] sell.phase = "safetyCompleted" -> "protectionFailed"
                  [] OTHER -> "failed"
  /\ sell' = NoSell
  /\ UNCHANGED <<account, kill, checkpoint, mishaps>>

SellStep ==
  \/ Persist \/ ListProtections \/ CancelProtections \/ ReconcileAccount
  \/ SubmitSell \/ ReplaySell \/ LookUpSell \/ ArmResidual \/ ConfirmResidual
  \/ BeginSafetyKill \/ EndSafetyKill \/ Finish

-----------------------------------------------------------------------------
(* The trading cycle around them.                                          *)

SubmitLiveSell ==
  /\ outcome = "idle"
  /\ \E requested \in Requests:
       sell' = To([NoSell EXCEPT !.requested = requested],
                  "cancellingProtections")
  /\ outcome' = "selling"
  /\ UNCHANGED <<account, kill, checkpoint, mishaps>>

ResumeOnlyStored ==  \* mutant: a SELL without a row is not started again
  /\ outcome = "unknown" /\ checkpoint # NoSell
  /\ sell' = To(checkpoint, checkpoint.phase) /\ outcome' = "selling"
  /\ UNCHANGED <<account, kill, checkpoint, mishaps>>

(* reconcileLiveOrder, after an UNKNOWN or after an eviction: the stored   *)
(* machine goes on, or a new one starts if none was stored.                *)
ResumeSell ==
  /\ outcome = "unknown"
  /\ sell' = IF checkpoint # NoSell THEN To(checkpoint, checkpoint.phase)
             ELSE To(sell, "cancellingProtections")
  /\ outcome' = "selling"
  /\ UNCHANGED <<account, kill, checkpoint, mishaps>>

(* cancelCurrentEffect of a kill, and again after an eviction.             *)
BeginKill ==
  /\ outcome = "idle" \/ (outcome = "killing" /\ kill.phase = "idle")
  /\ \E permitted \in BOOLEAN: kill' = KillRequested(permitted)
  /\ outcome' = "killing"
  /\ UNCHANGED <<account, sell, checkpoint, mishaps>>

EndKill ==
  /\ outcome = "killing" /\ kill.phase \in {"completed", "failed"}
  /\ outcome' = IF kill.phase = "completed" THEN "killed" ELSE "killFailed"
  /\ UNCHANGED <<account, kill, sell, checkpoint, mishaps>>

Crash ==
  /\ mishaps < MaxMishaps /\ outcome \in {"selling", "killing", "unknown"}
  /\ mishaps' = mishaps + 1
  /\ outcome' = IF outcome = "killing" THEN "killing" ELSE "unknown"
  /\ sell' = Forgotten /\ kill' = IdleKill
  /\ UNCHANGED <<account, checkpoint>>

Next ==
  \/ Killing /\ KillStep /\ UNCHANGED sellVars
  \/ ~Killing /\ SellStep
  \/ SubmitLiveSell \/ ResumeSell \/ BeginKill \/ EndKill \/ Crash
  \/ Exchange /\ UNCHANGED <<kill, sellVars>>

Spec == Init /\ [][Next]_vars

(* The worker runs what it has started; after an eviction the next request *)
(* restores the cycle, which reconciles the SELL or repeats the kill.      *)
FairSpec ==
  /\ Spec
  /\ WF_vars(Killing /\ KillStep /\ UNCHANGED sellVars)
  /\ WF_vars(~Killing /\ SellStep)
  /\ WF_vars(ResumeSell) /\ WF_vars(BeginKill /\ outcome = "killing")
  /\ WF_vars(EndKill)

-----------------------------------------------------------------------------
(* A SELL or a kill ends, for all the failures, evictions and late orders. *)
ExitEnds ==
  outcome \in {"selling", "killing", "unknown"} ~>
    outcome \in {"confirmed", "protectionFailed", "failed", "killed",
                 "killFailed"}

ExitStatus ==
  CASE outcome = "idle" -> "held"
    [] outcome \in {"selling", "killing", "unknown"} -> "exiting"
    [] outcome = "confirmed" -> "protected"
    [] outcome \in {"protectionFailed", "killed"} -> "flat"
    [] OTHER -> "failed"

Exit == INSTANCE AccountExit WITH covered <- Covered, status <- ExitStatus

(* Leaving a position refines AccountExit: no normal end without flatness  *)
(* or full protection, and nothing undoes it afterwards.                   *)
ExitIsSafe == Exit!Spec
=============================================================================
