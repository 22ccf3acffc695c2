--------------------------- MODULE CoinbaseAccount ---------------------------
(***************************************************************************)
(* The Coinbase portfolio and product that one agent owns, as seen through *)
(* the calls of apps/agent/src/coinbase-control.ts: a quantity of the base *)
(* currency, in units of the base increment, and the orders of the         *)
(* product, one per client order identifier.  An open SELL holds the       *)
(* quantity it still has to sell.  A request whose answer is lost may have *)
(* been accepted, may be accepted later ("late") or may never arrive; a    *)
(* second request under the same identifier finds the first order.         *)
(***************************************************************************)
EXTENDS Integers, FiniteSets

CONSTANTS MaxBase,      \* largest quantity held at the start
          Dust,         \* dustQuantity: the base increment of the product
          FlattenIds    \* identifiers derived for flattening attempts

ClientIds == {"bracket", "stray", "sell", "residual"}
OrderIds == FlattenIds \cup ClientIds

ASSUME BaseAssumption ==
  /\ MaxBase \in Nat /\ Dust \in Nat \ {0}
  /\ IsFiniteSet(FlattenIds) /\ FlattenIds \cap ClientIds = {}

VARIABLES base,    \* base quantity held
          orders   \* OrderIds -> order

account == <<base, orders>>

Quantities == 0..(2 * MaxBase)

(* size: the quantity ordered; left: what is still to be filled; sold: it  *)
(* was filled in part at least; dying: it ends by itself or by a           *)
(* cancellation under way, where an order that protects lasts until it is  *)
(* filled or cancelled.  Of an order that is done only "sold" is kept.     *)
OrderRecords ==
  [status: {"none", "late", "open", "done"}, side: {"BUY", "SELL"},
   size: Quantities, left: Quantities, sold: BOOLEAN, dying: BOOLEAN]

NoOrder == [status |-> "none", side |-> "SELL", size |-> 0, left |-> 0,
            sold |-> FALSE, dying |-> FALSE]

NewOrder(quantity, dying) ==
  [NoOrder EXCEPT !.status = "open", !.size = quantity, !.left = quantity,
                  !.dying = dying]

Ended(order) == [NoOrder EXCEPT !.status = "done", !.sold = order.sold]

AccountType ==
  /\ base \in Quantities
  /\ orders \in [OrderIds -> OrderRecords]

OpenIds == {i \in OrderIds: orders[i].status = "open"}
Pending(i) == orders[i].status \in {"late", "open"}

(* What orders have left to fill, increment by increment.                  *)
ToFill(ids) == Cardinality(UNION {{i} \X (1..orders[i].left): i \in ids})

Held == ToFill({i \in OpenIds: orders[i].side = "SELL"})
Available == base - Held

(* The quantity that open protective orders would sell.                    *)
Covered == ToFill(OpenIds \cap {"bracket", "residual"})

-----------------------------------------------------------------------------
(* The exchange takes a SELL: an identifier it knows is the order it names *)
(* and nothing else; a new one needs the quantity available.               *)
Known(i) == orders[i].status \in {"open", "done"}
Accepts(i, quantity) == Known(i) \/ quantity <= Available

Placed(i, quantity, dying) ==
  IF Known(i) THEN orders
  ELSE [orders EXCEPT ![i] = NewOrder(quantity, dying)]

(* What a request leaves behind when its answer is lost.                   *)
Lost(i, quantity, dying) ==
  {orders, [orders EXCEPT ![i] =
              IF Known(i) THEN @
              ELSE [NewOrder(quantity, dying) EXCEPT !.status = "late"]]}
  \cup (IF Accepts(i, quantity) THEN {Placed(i, quantity, dying)} ELSE {})

(* A batch of cancellations was received: an order named ends at once, or  *)
(* stays listed while its cancellation is queued.                          *)
Cancelled(ids, ended) ==
  [i \in OrderIds |->
     IF i \notin ids \cap OpenIds THEN orders[i]
     ELSE IF i \in ended THEN Ended(orders[i])
     ELSE [orders[i] EXCEPT !.dying = TRUE]]

-----------------------------------------------------------------------------
(* What happens at the exchange between the calls of the agent.            *)
Fill(i) ==
  /\ i \in OpenIds
  /\ \E n \in 1..orders[i].left:
       LET filled == [orders[i] EXCEPT !.left = @ - n, !.sold = TRUE] IN
       /\ base' = IF filled.side = "SELL" THEN base - n ELSE base + n
       /\ orders' = [orders EXCEPT
            ![i] = IF filled.left = 0 THEN Ended(filled) ELSE filled]

Die(i) ==
  /\ i \in OpenIds /\ orders[i].dying
  /\ orders' = [orders EXCEPT ![i] = Ended(@)]
  /\ UNCHANGED base

(* A late request arrives and is accepted, or refused for want of quantity *)
Arrive(i) ==
  /\ orders[i].status = "late"
  /\ orders' = [orders EXCEPT ![i] =
       IF @.left <= Available THEN [@ EXCEPT !.status = "open"] ELSE NoOrder]
  /\ UNCHANGED base

Exchange == \E i \in OrderIds: Fill(i) \/ Die(i) \/ Arrive(i)

=============================================================================
