------------------------------ MODULE PerpOrders ------------------------------
(***************************************************************************)
(* Perpetual orders of an agent: runOrder and recoverPending of the        *)
(* Hyperliquid runner, the machine they drive, the rows of                 *)
(* dodash_perp_orders and dodash_perp_fills, and what the caller is told.  *)
(* Every request to the venue is an await: other invocations of the agent  *)
(* run meanwhile, each with a runner of its own.  Signatures, prices and   *)
(* the risk gate are left out; an order is immediate-or-cancel.            *)
(***************************************************************************)
EXTENDS Naturals, Sequences, SequencesExt

CONSTANTS Orders,       \* clientOrderIds, one per decision
          MaxGaps,      \* PERP_FILL_BACKFILL_MAX_GAPS_PER_CYCLE
          MaxMishaps    \* bound on lost answers, refused writes and evictions

NoOne == "nobody"  \* no clientOrderId: a recovery that nobody waits for

ASSUME PerpAssumption ==
  MaxGaps \in Nat \ {0} /\ MaxMishaps \in Nat /\ NoOne \notin Orders

VARIABLES
  venue,      \* what became of an order at the venue
  row,        \* outcome of its row in dodash_perp_orders
  created,    \* the rows in the order of created_at
  settled,    \* the rows with an outcome in the order of settled_at
  fills,      \* the orders with rows in dodash_perp_fills
  run,        \* where the runOrder of an order is
  worker,     \* the recoverPending of the tick and that of a cycle
  told,       \* the answer to who submitted or reconciled an order
  contested,  \* orders found not placed while they could still be
  mishaps

stored == <<row, created, settled, fills>>
vars == <<venue, stored, run, worker, told, contested, mishaps>>

Workers == {"tick", "cycle"}
Outcomes == {"ACCEPTED", "REJECTED"}

Idle == [phase |-> "idle", todo |-> <<>>, for |-> NoOne]

TypeOK ==
  /\ venue \in [Orders -> {"none", "sent", "filled", "unfilled", "refused"}]
  /\ row \in [Orders -> {"none", "open"} \cup Outcomes]
  /\ created \in Seq(Orders) /\ IsInjective(created)
  /\ settled \in Seq(Orders) /\ IsInjective(settled)
  /\ fills \subseteq Orders /\ contested \subseteq Orders
  /\ run \in [Orders -> {"idle", "signing", "submitting", "reconciling",
                         "fills"}]
  /\ worker \in [Workers ->
       [phase: {"idle", "pending", "fills", "backfill"},
        todo: Seq(Orders), for: Orders \cup {NoOne}]]
  /\ told \in [Orders -> {"nothing", "UNKNOWN", "CONFIRMED", "REJECTED"}]
  /\ mishaps \in 0..MaxMishaps

Init ==
  /\ venue = [o \in Orders |-> "none"] /\ row = [o \in Orders |-> "none"]
  /\ created = <<>> /\ settled = <<>> /\ fills = {} /\ contested = {}
  /\ run = [o \in Orders |-> "idle"] /\ worker = [w \in Workers |-> Idle]
  /\ told = [o \in Orders |-> "nothing"]
  /\ mishaps = 0

-----------------------------------------------------------------------------
(* The store and the answers of the venue.                                 *)

Failing(n) == mishaps + n <= MaxMishaps /\ mishaps' = mishaps + n
Count(succeeds) == IF succeeds THEN 0 ELSE 1

(* persistOutcome: an outcome is written once.                             *)
Write(o, outcome, succeeds) ==
  IF succeeds /\ row[o] = "open"
  THEN row' = [row EXCEPT ![o] = outcome] /\ settled' = Append(settled, o)
  ELSE UNCHANGED <<row, settled>>

(* fetchHyperliquidOrderFills and persistFills.                            *)
Fills(o, succeeds) ==
  fills \cup {p \in {o}: succeeds /\ venue[p] = "filled"}

OrderStatusOpen(o) == "ACCEPTED"  \* mutant: an unplaced order is taken for open

(* orderStatus: an order cancelled without a fill counts as accepted.      *)
OrderStatus(o) ==
  IF venue[o] \in {"filled", "unfilled"} THEN "ACCEPTED" ELSE "REJECTED"

(* Whether an order that is not placed now may still be.                   *)
OnItsWay(o) == venue[o] = "sent" \/ run[o] = "signing"

Contest(o) ==
  contested' = contested \cup {p \in {o}: OnItsWay(p)}

-----------------------------------------------------------------------------
(* runOrder                                                                *)

Told(o, answer) == told' = [told EXCEPT ![o] = answer]
At(o, phase) == run' = [run EXCEPT ![o] = phase]

Insert(o) ==
  /\ row' = [row EXCEPT ![o] = IF @ = "none" THEN "open" ELSE @]
  /\ created' = IF row[o] = "none" THEN Append(created, o) ELSE created

Start(o) ==
  /\ run[o] = "idle" /\ told[o] = "nothing"
  /\ \/ Insert(o) /\ At(o, "signing") /\ UNCHANGED <<told, mishaps>>
     \/ Told(o, "REJECTED") /\ UNCHANGED <<row, created, run, mishaps>>
     \/ Failing(1) /\ Told(o, "UNKNOWN") /\ UNCHANGED <<row, created, run>>
  /\ UNCHANGED <<venue, settled, fills, worker, contested>>

(* signOnce: the index of the asset is read, the action signed and sent.   *)
Sign(o) ==
  /\ run[o] = "signing"
  /\ \/ /\ At(o, "submitting") /\ venue' = [venue EXCEPT ![o] = "sent"]
        /\ UNCHANGED <<told, mishaps>>
     \/ Failing(1) /\ At(o, "idle") /\ Told(o, "UNKNOWN") /\ UNCHANGED venue
  /\ UNCHANGED <<stored, worker, contested>>

(* finishOutcome, after the read of the fills if the order was accepted.   *)
Finish(o, outcome, read) ==
  \E write \in BOOLEAN:
    /\ Failing(Count(write) + Count(read)) /\ Write(o, outcome, write)
    /\ At(o, "idle")
    /\ Told(o, CASE ~write -> "UNKNOWN"
                 [] outcome = "ACCEPTED" -> "CONFIRMED"
                 [] OTHER -> "REJECTED")
    /\ UNCHANGED <<venue, created, worker>>

Unanswered(o, phase) ==
  /\ Failing(1) /\ At(o, phase)
  /\ told' = IF phase = "idle" THEN [told EXCEPT ![o] = "UNKNOWN"] ELSE told
  /\ UNCHANGED <<venue, stored, worker, contested>>

(* submitHyperliquidOrder: the immediate order is filled, or an error.     *)
SubmitIssue(o) ==
  CASE venue[o] = "filled"                 -> "ACCEPTED"
    [] venue[o] \in {"unfilled", "refused"} -> "REJECTED"
    [] OTHER                               -> "UNKNOWN"

UnknownIsRejected(o) ==  \* mutant: no answer is taken for a refusal
  /\ run[o] = "submitting"
  /\ \/ /\ venue[o] = "filled" /\ At(o, "fills")
        /\ UNCHANGED <<venue, stored, worker, told, contested, mishaps>>
     \/ Finish(o, "REJECTED", TRUE) /\ UNCHANGED <<fills, contested>>

SubmitAnswered(o) ==
  /\ run[o] = "submitting"
  /\ \/ /\ SubmitIssue(o) = "ACCEPTED" /\ At(o, "fills")
        /\ UNCHANGED <<venue, stored, worker, told, contested, mishaps>>
     \/ /\ SubmitIssue(o) = "REJECTED" /\ Finish(o, "REJECTED", TRUE)
        /\ UNCHANGED <<fills, contested>>
     \/ Unanswered(o, "reconciling")

Reconcile(o) ==
  /\ run[o] = "reconciling"
  /\ \/ /\ OrderStatus(o) = "ACCEPTED" /\ At(o, "fills")
        /\ UNCHANGED <<venue, stored, worker, told, contested, mishaps>>
     \/ /\ OrderStatus(o) = "REJECTED" /\ Finish(o, "REJECTED", TRUE)
        /\ Contest(o) /\ UNCHANGED fills
     \/ Unanswered(o, "idle")

ReadFills(o) ==
  /\ run[o] = "fills"
  /\ \E read \in BOOLEAN:
       fills' = Fills(o, read) /\ Finish(o, "ACCEPTED", read)
  /\ UNCHANGED contested

-----------------------------------------------------------------------------
(* recoverPending                                                          *)

(* The orders of a set, those that come last in an order of rows first.    *)
Newest(S, rows) ==
  {s \in SeqOf(S, Len(rows)):
     /\ Range(s) = S
     /\ \A m, n \in DOMAIN s: m < n =>
          \E i, j \in DOMAIN rows: i < j /\ rows[i] = s[n] /\ rows[j] = s[m]}

Pending == Newest({o \in Orders: row[o] = "open"}, created)

Gaps == {SubSeq(open, 1, IF Len(open) < MaxGaps THEN Len(open) ELSE MaxGaps):
           open \in Newest({o \in Orders: row[o] = "ACCEPTED" /\ o \notin fills},
                           settled)}

Now(w, phase, todo) ==
  worker' = [worker EXCEPT ![w].phase = phase, ![w].todo = todo]

Recover(w, for) ==
  /\ worker[w].phase = "idle"
  /\ \E todo \in Pending:
       worker' = [worker EXCEPT ![w] = [phase |-> "pending", todo |-> todo,
                                        for |-> for]]
  /\ UNCHANGED <<venue, stored, run, told, contested, mishaps>>

Tick == Recover("tick", NoOne)

(* reconcilePerpSignalOrder, of a cycle whose order has no known outcome.  *)
ReconcileSignal(o) == told[o] = "UNKNOWN" /\ Recover("cycle", o)

Settling(w, o, outcome, read) ==
  \E write \in BOOLEAN:
    /\ Failing(Count(write) + Count(read)) /\ Write(o, outcome, write)
    /\ Now(w, "pending", Tail(worker[w].todo))
    /\ UNCHANGED <<venue, created, run, told>>

AskStatus(w) ==
  /\ worker[w].phase = "pending" /\ worker[w].todo # <<>>
  /\ LET o == Head(worker[w].todo) IN
     \/ /\ OrderStatus(o) = "ACCEPTED" /\ Now(w, "fills", worker[w].todo)
        /\ UNCHANGED <<venue, stored, run, told, contested, mishaps>>
     \/ /\ OrderStatus(o) = "REJECTED" /\ Settling(w, o, "REJECTED", TRUE)
        /\ Contest(o) /\ UNCHANGED fills
     \/ /\ Failing(1) /\ Now(w, "pending", Tail(worker[w].todo))
        /\ UNCHANGED <<venue, stored, run, told, contested>>

RecoverFills(w) ==
  /\ worker[w].phase = "fills"
  /\ \E read \in BOOLEAN:
       LET o == Head(worker[w].todo) IN
       fills' = Fills(o, read) /\ Settling(w, o, "ACCEPTED", read)
  /\ UNCHANGED contested

DetectNothing(w) ==  \* mutant: no backfill
  /\ worker[w].phase = "pending" /\ worker[w].todo = <<>>
  /\ Now(w, "backfill", <<>>)
  /\ UNCHANGED <<venue, stored, run, told, contested, mishaps>>

(* backfillMissingFills: the gaps settled last, up to the cap; none are    *)
(* filled when the read of the rows fails.                                 *)
DetectGaps(w) ==
  /\ worker[w].phase = "pending" /\ worker[w].todo = <<>>
  /\ \/ \E open \in Gaps: Now(w, "backfill", open) /\ UNCHANGED mishaps
     \/ Failing(1) /\ Now(w, "backfill", <<>>)
  /\ UNCHANGED <<venue, stored, run, told, contested>>

Backfill(w) ==
  /\ worker[w].phase = "backfill" /\ worker[w].todo # <<>>
  /\ \E read \in BOOLEAN:
       Failing(Count(read)) /\ fills' = Fills(Head(worker[w].todo), read)
  /\ Now(w, "backfill", Tail(worker[w].todo))
  /\ UNCHANGED <<venue, row, created, settled, run, told, contested>>

(* The cycle is told CONFIRMED whatever was recovered.                     *)
EndRecovery(w) ==
  /\ worker[w].phase = "backfill" /\ worker[w].todo = <<>>
  /\ worker' = [worker EXCEPT ![w] = Idle]
  /\ told' = [o \in Orders |->
       IF worker[w].for = o THEN "CONFIRMED" ELSE told[o]]
  /\ UNCHANGED <<venue, stored, run, contested, mishaps>>

-----------------------------------------------------------------------------
(* A request arrives at the venue, perhaps after its sender gave up.       *)
Arrive(o) ==
  /\ venue[o] = "sent"
  /\ \E fate \in {"filled", "unfilled", "refused", "none"}:
       venue' = [venue EXCEPT ![o] = fate]
  /\ UNCHANGED <<stored, run, worker, told, contested, mishaps>>

Crash ==
  /\ Failing(1)
  /\ told' = [o \in Orders |-> IF run[o] = "idle" THEN told[o] ELSE "UNKNOWN"]
  /\ run' = [o \in Orders |-> "idle"] /\ worker' = [w \in Workers |-> Idle]
  /\ UNCHANGED <<venue, stored, contested>>

RunStep(o) == Sign(o) \/ SubmitAnswered(o) \/ Reconcile(o) \/ ReadFills(o)

WorkerStep(w) ==
  \/ AskStatus(w) \/ RecoverFills(w) \/ DetectGaps(w) \/ Backfill(w)
  \/ EndRecovery(w)

Next ==
  \/ \E o \in Orders: Start(o) \/ RunStep(o) \/ ReconcileSignal(o) \/ Arrive(o)
  \/ \E w \in Workers: WorkerStep(w)
  \/ Tick \/ Crash

Spec == Init /\ [][Next]_vars

(* The grid alarm ticks for ever, also of a disabled agent; every request  *)
(* is answered or times out, and reaches the venue or is dropped.          *)
Answered ==
  /\ \A w \in Workers: WF_vars(WorkerStep(w))
  /\ \A o \in Orders: WF_vars(RunStep(o)) /\ WF_vars(Arrive(o))

FairSpec == Spec /\ WF_vars(Tick) /\ Answered

-----------------------------------------------------------------------------
(* A row says ACCEPTED, and fills are recorded, only of what the venue has *)
RowsAreTrue ==
  \A o \in Orders:
    /\ row[o] = "ACCEPTED" => venue[o] \in {"filled", "unfilled"}
    /\ o \in fills => venue[o] = "filled" /\ row[o] # "none"

(* An order that the venue filled stays to be recovered or is recorded as  *)
(* accepted, through lost answers, evictions and concurrent recoveries;    *)
(* the exception is one that a recovery found not placed too early.        *)
NothingIsForgotten ==
  \A o \in Orders:
    venue[o] = "filled" /\ o \notin contested => row[o] \in {"open", "ACCEPTED"}

(* Every recorded intent is resolved once the venue answers, and the fills *)
(* of every accepted order are recorded in the end: "la répétition cyclique*)
(* couvre le reste" (hyperliquid-orchestrator.ts:157).                     *)
GapsAreFilled ==
  \A o \in Orders:
    /\ row[o] = "open" ~> row[o] \in Outcomes
    /\ row[o] = "ACCEPTED" /\ venue[o] = "filled" ~> o \in fills

(* An order is confirmed to its cycle only when it was accepted.           *)
ConfirmedIsAccepted ==
  \A o \in Orders: told[o] = "CONFIRMED" => row[o] = "ACCEPTED"
=============================================================================
