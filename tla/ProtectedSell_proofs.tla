------------------------- MODULE ProtectedSell_proofs -------------------------
(***************************************************************************)
(* What holds of the protected SELL and of the kill for every quantity,    *)
(* every dust, every set of flattening identifiers, every retry limit and  *)
(* every number of mishaps.                                                *)
(***************************************************************************)
EXTENDS ProtectedSell, FiniteSetTheorems, TLAPS

(* The invariant.  The account: what open SELLs hold is held, and an order *)
(* that buys, which only the stray one does, leaves the bound of a quantity*)
(* alone; a request on its way is a SELL of more than dust, so that it     *)
(* cannot be accepted any more once the position is flat.                  *)
Accounted ==
  /\ base <= MaxBase /\ Held <= base
  /\ \A i \in OpenIds:
       orders[i].side = "BUY" => base + orders[i].left <= MaxBase

OrdersInForm == \A i \in OrderIds:
  /\ orders[i].side = "BUY" => i = "stray"
  /\ orders[i].status = "late" =>
       orders[i].side = "SELL" /\ orders[i].left > Dust

(* The kill: it runs for the SELL that waits for it or for the cycle, and  *)
(* once the orders were confirmed cancelled nothing buys any more, so that *)
(* the balance it read can only have shrunk since.                         *)
Owner ==
  \/ outcome \in {"killing", "killed", "killFailed"}
  \/ At("safetyFlattening", "first")

Cancelling == kill.phase \in {"cancellingOrders", "retryingCancellation"}
Reading == kill.phase \in {"reconcilingPosition", "verifyingFlat"}

KillInForm ==
  /\ kill.phase = "idle" => kill.sent = {}
  /\ kill.phase # "idle" => Owner
  /\ Killing /\ ~Cancelling => \A i \in OpenIds: orders[i].side = "SELL"
  /\ Reading /\ kill.call = "second" => base <= kill.seen.total
  /\ kill.phase = "completed" => base <= Dust /\ OpenIds = {}

(* Of the orders that a kill sent at most one is pending; none is when the *)
(* next one is about to be sent, and one that is late is known as a doubt. *)
FlattenInForm ==
  /\ \A i, j \in kill.sent: Pending(i) /\ Pending(j) => i = j
  /\ \A i \in kill.sent: orders[i].status = "late" => kill.unknown
  /\ kill.phase = "flatteningPosition" /\ kill.call = "first" =>
       /\ kill.quantity > Dust /\ ~kill.unknown
       /\ \A i \in kill.sent: ~Pending(i)
  /\ kill.phase = "flatteningPosition" /\ kill.call # "first" =>
       /\ kill.call = "second" /\ kill.listed \subseteq kill.sent
       /\ \A i \in kill.sent: Pending(i) => i \in kill.listed
       /\ \A i \in kill.listed: orders[i].status # "late"
       /\ \A i, j \in kill.listed: i = j

(* The SELL: what it and its residual protection order is more than dust.  *)
OrdersMore(s) ==
  /\ s.requested > Dust
  /\ s.phase = "armingResidual" => s.total > Dust

SellInForm ==
  /\ outcome \in {"selling", "unknown"} => OrdersMore(sell)
  /\ checkpoint # NoSell => OrdersMore(checkpoint)

IInv == TypeOK /\ Accounted /\ OrdersInForm /\ KillInForm /\ FlattenInForm /\ SellInForm


-----------------------------------------------------------------------------
(* What orders have left to fill, as a set of increments.                  *)
Increments(o, ids) == UNION {{i} \X (1..o[i].left): i \in ids}

SellIds(o) == {i \in OrderIds: o[i].status = "open" /\ o[i].side = "SELL"}

HeldBy(o) == Cardinality(Increments(o, SellIds(o)))

Orders == [OrderIds -> OrderRecords]

Holds(order) ==
  IF order.status = "open" /\ order.side = "SELL" THEN order.left ELSE 0

(* The identifiers are finitely many.                                      *)
LEMMA FiniteIds == IsFiniteSet(OrderIds) /\ IsFiniteSet(ClientIds)
<1>1. IsFiniteSet(ClientIds)
  <2>1. IsFiniteSet({}) /\ IsFiniteSet({} \cup {"bracket"})
    BY FS_EmptySet, FS_AddElement
  <2>2. IsFiniteSet(({} \cup {"bracket"}) \cup {"stray"})
    BY <2>1, FS_AddElement
  <2>3. IsFiniteSet((({} \cup {"bracket"}) \cup {"stray"}) \cup {"sell"})
    BY <2>2, FS_AddElement
  <2>4. IsFiniteSet(((({} \cup {"bracket"}) \cup {"stray"}) \cup {"sell"})
                      \cup {"residual"})
    BY <2>3, FS_AddElement
  <2>5. ((({} \cup {"bracket"}) \cup {"stray"}) \cup {"sell"})
          \cup {"residual"} = ClientIds
    BY DEF ClientIds
  <2> QED BY <2>4, <2>5
<1> QED BY <1>1, BaseAssumption, FS_Union DEF OrderIds

LEMMA UpTo ==
  ASSUME NEW n \in Nat
  PROVE  IsFiniteSet(1..n) /\ Cardinality(1..n) = n
<1>1. IsFiniteSet(1..n) /\ Cardinality(1..n) = IF 1 > n THEN 0 ELSE n - 1 + 1
  BY FS_Interval
<1> QED BY <1>1

(* Orders have finitely many increments left.                              *)
LEMMA FiniteIncrements ==
  ASSUME NEW o \in Orders, NEW ids \in SUBSET OrderIds
  PROVE  /\ IsFiniteSet(Increments(o, ids))
         /\ Cardinality(Increments(o, ids)) \in Nat
<1>1. IsFiniteSet(OrderIds \X (0..(2 * MaxBase)))
  <2>1. IsFiniteSet(0..(2 * MaxBase))
    <3>1. 0 \in Int /\ 2 * MaxBase \in Int
      BY BaseAssumption
    <3> QED BY <3>1, FS_Interval
  <2> QED BY <2>1, FiniteIds, FS_Product
<1>2. \A i \in ids: o[i].left \in 0..(2 * MaxBase)
  BY DEF Orders, OrderRecords, Quantities
<1>3. Increments(o, ids) \in SUBSET (OrderIds \X (0..(2 * MaxBase)))
  BY <1>2, BaseAssumption DEF Increments
<1> QED BY <1>1, <1>3, FS_Subset, FS_CardinalityType

(* One order more is what it has left more.                                *)
LEMMA OneOrderMore ==
  ASSUME NEW o \in Orders, NEW ids \in SUBSET OrderIds,
         NEW i \in OrderIds, i \notin ids
  PROVE  Cardinality(Increments(o, ids \cup {i}))
           = Cardinality(Increments(o, ids)) + o[i].left
<1> DEFINE new == {i} \X (1..o[i].left)
<1>1. o[i].left \in Nat
  BY BaseAssumption DEF Orders, OrderRecords, Quantities
<1>2. IsFiniteSet({i}) /\ Cardinality({i}) = 1
  BY FS_Singleton
<1>3. IsFiniteSet(1..o[i].left) /\ Cardinality(1..o[i].left) = o[i].left
  BY <1>1, UpTo
<1>4. IsFiniteSet(new) /\ Cardinality(new) = o[i].left
  <2>1. IsFiniteSet(new)
         /\ Cardinality(new) = Cardinality({i}) * Cardinality(1..o[i].left)
    BY <1>2, <1>3, FS_Product
  <2> QED BY <2>1, <1>1, <1>2, <1>3
<1>5. Increments(o, ids \cup {i}) = Increments(o, ids) \cup new
  BY DEF Increments
<1>6. Increments(o, ids) \cap new = {}
  BY DEF Increments
<1>7. Cardinality(Increments(o, ids) \cup new)
        = Cardinality(Increments(o, ids)) + Cardinality(new)
          - Cardinality(Increments(o, ids) \cap new)
  BY <1>4, FiniteIncrements, FS_Union
<1>8. Cardinality(Increments(o, ids)) \in Nat
  BY FiniteIncrements
<1>9. Cardinality(Increments(o, ids) \cap new) = 0
  BY <1>6, FS_EmptySet
<1>10. Cardinality(Increments(o, ids \cup {i}))
         = Cardinality(Increments(o, ids)) + Cardinality(new) - 0
  BY <1>5, <1>7, <1>9
<1> HIDE DEF new
<1> QED BY <1>1, <1>4, <1>8, <1>10

(* Orders with as much left have the same increments left.                 *)
LEMMA SameIncrements ==
  ASSUME NEW o, NEW p, NEW ids, \A i \in ids: o[i].left = p[i].left
  PROVE  Increments(o, ids) = Increments(p, ids)
BY DEF Increments

(* What is held is a natural number, and none of it without an open SELL.  *)
LEMMA HeldType ==
  ASSUME NEW o \in Orders
  PROVE  HeldBy(o) \in Nat
BY FiniteIncrements DEF HeldBy, SellIds

LEMMA NothingHeld ==
  ASSUME NEW o, SellIds(o) = {}
  PROVE  HeldBy(o) = 0
<1>1. Increments(o, {}) = {}
  BY DEF Increments
<1> QED BY <1>1, FS_EmptySet DEF HeldBy

(* When one order changes, so does what is held, by what that one holds.   *)
LEMMA HeldChanges ==
  ASSUME NEW o \in Orders, NEW i \in OrderIds, NEW order \in OrderRecords
  PROVE  /\ [o EXCEPT ![i] = order] \in Orders
         /\ HeldBy([o EXCEPT ![i] = order])
              = HeldBy(o) - Holds(o[i]) + Holds(order)
<1> DEFINE p == [o EXCEPT ![i] = order]
           rest == SellIds(o) \ {i}
<1>1. p \in Orders /\ p[i] = order /\ (\A j \in OrderIds \ {i}: p[j] = o[j])
  BY DEF Orders
<1>2. rest \in SUBSET OrderIds /\ i \notin rest
  BY DEF SellIds
<1>3. Increments(o, rest) = Increments(p, rest)
  <2>1. \A j \in rest: o[j].left = p[j].left
    BY <1>1, <1>2
  <2> QED BY <2>1, SameIncrements
<1>4. \A q \in {o, p}: Cardinality(Increments(q, SellIds(q)))
                         = Cardinality(Increments(q, rest)) + Holds(q[i])
  <2> SUFFICES ASSUME NEW q \in {o, p}
               PROVE  Cardinality(Increments(q, SellIds(q)))
                        = Cardinality(Increments(q, rest)) + Holds(q[i])
    OBVIOUS
  <2>0. SellIds(q) \ {i} = rest
    <3>1. SellIds(p) \ {i} = rest
      BY <1>1 DEF SellIds
    <3> QED BY <3>1
  <2>1. q \in Orders /\ q[i].left \in Nat
    BY <1>1, BaseAssumption DEF Orders, OrderRecords, Quantities
  <2>2. CASE q[i].status = "open" /\ q[i].side = "SELL"
    <3>1. i \in SellIds(q)
      BY <2>2 DEF SellIds
    <3>2. SellIds(q) = rest \cup {i}
      BY <3>1, <2>0
    <3> QED BY <3>2, <2>1, <2>2, <1>2, OneOrderMore DEF Holds
  <2>3. CASE ~(q[i].status = "open" /\ q[i].side = "SELL")
    <3>1. i \notin SellIds(q)
      BY <2>3 DEF SellIds
    <3>2. SellIds(q) = rest
      BY <3>1, <2>0
    <3> QED BY <3>2, <2>1, <2>3, <1>2, FiniteIncrements DEF Holds
  <2> QED BY <2>2, <2>3
<1>5. Holds(o[i]) \in Nat /\ Holds(p[i]) \in Nat
  BY <1>1, BaseAssumption DEF Holds, Orders, OrderRecords, Quantities
<1>6. Cardinality(Increments(o, rest)) \in Nat
  BY <1>2, FiniteIncrements
<1>7. HeldBy(o) = Cardinality(Increments(o, rest)) + Holds(o[i])
  BY <1>4 DEF HeldBy
<1>8. HeldBy(p) = Cardinality(Increments(o, rest)) + Holds(order)
  BY <1>1, <1>3, <1>4 DEF HeldBy
<1> QED BY <1>1, <1>5, <1>6, <1>7, <1>8

(* Orders that end or are being cancelled hold no more than they did.      *)
LEMMA HeldShrinks ==
  ASSUME NEW o \in Orders, NEW p \in Orders,
         \A i \in OrderIds:
           p[i].status = "open" =>
             /\ o[i].status = "open" /\ p[i].side = o[i].side
             /\ p[i].left = o[i].left
  PROVE  HeldBy(p) <= HeldBy(o)
<1>1. Increments(p, SellIds(p)) \in SUBSET Increments(o, SellIds(o))
  BY DEF Increments, SellIds
<1> QED BY <1>1, FiniteIncrements, FS_Subset DEF HeldBy, SellIds

(* The account's own words for it.                                         *)
LEMMA HeldIs == Held = HeldBy(orders) /\ Held' = HeldBy(orders')
<1>1. SellIds(orders) = {i \in OpenIds: orders[i].side = "SELL"}
  BY DEF SellIds, OpenIds
<1>2. SellIds(orders') = {i \in OpenIds: orders[i].side = "SELL"}'
  BY DEF SellIds, OpenIds
<1> QED BY <1>1, <1>2 DEF Held, ToFill, HeldBy, Increments

-----------------------------------------------------------------------------
(* Steps of the account.                                                   *)
AccountInv == AccountType /\ Accounted /\ OrdersInForm

(* What a step that brings no new order does to orders.                    *)
Quiet == \A i \in OrderIds:
  /\ orders'[i].status \in {"late", "open"} =>
       Pending(i) /\ orders'[i].side = orders[i].side
  /\ orders'[i].status = "late" => orders[i].status = "late"

LEMMA OrderTypes ==
  /\ NoOrder \in OrderRecords
  /\ \A q \in Quantities, dying \in BOOLEAN:
       /\ NewOrder(q, dying) \in OrderRecords
       /\ [NewOrder(q, dying) EXCEPT !.status = "late"] \in OrderRecords
  /\ \A order \in OrderRecords:
       /\ Ended(order) \in OrderRecords
       /\ [order EXCEPT !.dying = TRUE] \in OrderRecords
       /\ [order EXCEPT !.status = "open"] \in OrderRecords
<1>1. 0 \in Quantities
  BY BaseAssumption DEF Quantities
<1>2. NoOrder \in OrderRecords
  BY <1>1 DEF NoOrder, OrderRecords
<1>3. ASSUME NEW q \in Quantities, NEW dying \in BOOLEAN
      PROVE  /\ NewOrder(q, dying) \in OrderRecords
             /\ [NewOrder(q, dying) EXCEPT !.status = "late"] \in OrderRecords
  BY DEF NoOrder, NewOrder, OrderRecords
<1>4. ASSUME NEW order \in OrderRecords
      PROVE  /\ Ended(order) \in OrderRecords
             /\ [order EXCEPT !.dying = TRUE] \in OrderRecords
             /\ [order EXCEPT !.status = "open"] \in OrderRecords
  BY <1>1 DEF NoOrder, Ended, OrderRecords
<1> QED BY <1>2, <1>3, <1>4

(* A change of one order leaves the account in form, if what it holds fits *)
(* what is held.                                                           *)
LEMMA OneOrderKeeps ==
  ASSUME AccountInv, NEW i \in OrderIds, NEW order \in OrderRecords,
         orders' = [orders EXCEPT ![i] = order],
         base' \in Quantities, base' <= MaxBase,
         Held - Holds(orders[i]) + Holds(order) <= base',
         order.side = "BUY" =>
           i = "stray" /\ order.status # "late"
             /\ (order.status = "open" => base' + order.left <= MaxBase),
         order.status = "late" => order.left > Dust,
         base' = base \/ i = "stray" \/ base' <= base
  PROVE  AccountInv'
<1> USE DEF AccountInv
<1>1. orders \in Orders
  BY DEF AccountType, Orders
<1>2. AccountType' /\ Held' <= base'
  BY <1>1, HeldChanges, HeldIs DEF AccountType, Orders
<1>3. orders'[i] = order /\ \A j \in OrderIds \ {i}: orders'[j] = orders[j]
  BY DEF AccountType
<1>4. OrdersInForm'
  <2> SUFFICES ASSUME NEW j \in OrderIds
               PROVE  /\ orders'[j].side = "BUY" => j = "stray"
                      /\ orders'[j].status = "late" =>
                           orders'[j].side = "SELL" /\ orders'[j].left > Dust
    BY DEF OrdersInForm
  <2>1. CASE j = i
    BY <2>1, <1>3 DEF OrderRecords
  <2>2. CASE j # i
    BY <2>2, <1>3 DEF OrdersInForm
  <2> QED BY <2>1, <2>2
<1>5. \A j \in OpenIds': orders'[j].side = "BUY" =>
        base' + orders'[j].left <= MaxBase
  <2> SUFFICES ASSUME NEW j \in OpenIds', orders'[j].side = "BUY"
               PROVE  base' + orders'[j].left <= MaxBase
    OBVIOUS
  <2>1. j \in OrderIds /\ orders'[j].status = "open"
    BY DEF OpenIds
  <2>2. CASE j = i
    BY <2>1, <2>2, <1>3
  <2>3. CASE j # i
    <3>1. j \in OpenIds /\ orders[j].side = "BUY" /\ orders'[j] = orders[j]
      BY <2>1, <2>3, <1>3 DEF OpenIds
    <3>2. j = "stray" /\ base + orders[j].left <= MaxBase
      BY <3>1, <2>1 DEF Accounted, OrdersInForm
    <3>3. base' <= base
      BY <3>2, <2>3 DEF AccountType, Quantities
    <3>4. orders[j].left \in Int /\ base \in Int /\ base' \in Int
      BY <2>1, BaseAssumption DEF AccountType, OrderRecords, Quantities
    <3> QED BY <3>1, <3>2, <3>3, <3>4, BaseAssumption
  <2> QED BY <2>2, <2>3
<1> QED BY <1>2, <1>4, <1>5 DEF Accounted

(* What is available lies between nothing and what is held of the base.    *)
LEMMA AvailableType ==
  ASSUME AccountInv
  PROVE  /\ Held \in Nat /\ base \in Nat /\ Available \in 0..base
         /\ Available \in Quantities /\ base \in 0..MaxBase
<1>1. Held \in Nat
  BY HeldIs, HeldType DEF AccountInv, AccountType, Orders
<1> QED BY <1>1, BaseAssumption
        DEF AccountInv, AccountType, Accounted, Available, Quantities

LEMMA HoldsAtMost ==
  ASSUME AccountInv, NEW i \in OrderIds
  PROVE  Holds(orders[i]) \in 0..Held /\ orders[i].left \in Nat
<1>1. orders \in Orders /\ NoOrder \in OrderRecords
  BY OrderTypes DEF AccountInv, AccountType, Orders
<1>2. HeldBy([orders EXCEPT ![i] = NoOrder])
        = HeldBy(orders) - Holds(orders[i]) + Holds(NoOrder)
  BY <1>1, HeldChanges
<1>3. HeldBy([orders EXCEPT ![i] = NoOrder]) \in Nat
  BY <1>1, HeldChanges, HeldType
<1>4. Holds(NoOrder) = 0
  BY DEF Holds, NoOrder
<1>5. orders[i].left \in Nat
  BY BaseAssumption DEF AccountInv, AccountType, OrderRecords, Quantities
<1>6. Holds(orders[i]) \in Nat
  BY <1>5 DEF Holds
<1> QED BY <1>2, <1>3, <1>4, <1>5, <1>6, HeldIs, AvailableType

LEMMA FillKeeps ==
  ASSUME AccountInv, NEW i \in OrderIds, Fill(i)
  PROVE  AccountInv' /\ Quiet /\ (orders[i].side = "SELL" => base' <= base)
<1> PICK n \in 1..orders[i].left:
      LET filled == [orders[i] EXCEPT !.left = @ - n, !.sold = TRUE] IN
      /\ base' = IF filled.side = "SELL" THEN base - n ELSE base + n
      /\ orders' = [orders EXCEPT
           ![i] = IF filled.left = 0 THEN Ended(filled) ELSE filled]
  BY DEF Fill
<1> DEFINE filled == [orders[i] EXCEPT !.left = @ - n, !.sold = TRUE]
           order == IF filled.left = 0 THEN Ended(filled) ELSE filled
<1>1. i \in OpenIds /\ orders[i].status = "open" /\ orders[i] \in OrderRecords
  BY DEF Fill, OpenIds, AccountInv, AccountType
<1>2. /\ orders[i].left \in 0..(2 * MaxBase) /\ n \in Nat
      /\ n <= orders[i].left /\ base \in 0..MaxBase /\ Held \in Nat
      /\ Held <= base
  BY <1>1, HoldsAtMost, AvailableType
     DEF OrderRecords, Quantities, AccountInv, Accounted
<1>3. /\ filled \in OrderRecords /\ filled.left = orders[i].left - n
      /\ filled.side = orders[i].side /\ filled.status = "open"
  <2>1. orders[i].left - n \in Quantities
    BY <1>2, BaseAssumption DEF Quantities
  <2> HIDE DEF Quantities
  <2> QED BY <1>1, <2>1 DEF OrderRecords
<1>4. order \in OrderRecords
  BY <1>3, OrderTypes
<1>5. order.side = "BUY" => orders[i].side = "BUY" /\ order = filled
  BY <1>3 DEF Ended, NoOrder
<1>6. order.status # "late"
  BY <1>3 DEF Ended, NoOrder
<1>7. base' = IF orders[i].side = "SELL" THEN base - n ELSE base + n
  BY <1>3
<1>8. Holds(order) = IF orders[i].side = "SELL" THEN orders[i].left - n ELSE 0
  BY <1>2, <1>3 DEF Holds, Ended, NoOrder
<1>9. Holds(orders[i])
        = IF orders[i].side = "SELL" THEN orders[i].left ELSE 0
  BY <1>1 DEF Holds
<1>10. orders[i].side = "BUY" =>
         i = "stray" /\ base + orders[i].left <= MaxBase
  BY <1>1 DEF AccountInv, Accounted, OrdersInForm
<1>11. orders[i].side \in {"BUY", "SELL"}
  BY <1>1 DEF OrderRecords
<1>12. Held - Holds(orders[i]) + Holds(order) <= base'
  BY <1>2, <1>7, <1>8, <1>9, <1>11
<1>13. Holds(orders[i]) <= Held
  BY <1>2, HoldsAtMost
<1>14. base' \in Quantities /\ base' <= MaxBase
  BY <1>2, <1>7, <1>9, <1>10, <1>11, <1>13, BaseAssumption DEF Quantities
<1>15. order.side = "BUY" => base' + order.left <= MaxBase
  <2> SUFFICES ASSUME order.side = "BUY"
               PROVE  base' + order.left <= MaxBase
    OBVIOUS
  <2>1. orders[i].side = "BUY" /\ order.left = orders[i].left - n
    BY <1>3, <1>5
  <2>2. base' = base + n /\ base + orders[i].left <= MaxBase
    BY <2>1, <1>7, <1>10
  <2> HIDE DEF order, filled
  <2> QED BY <2>1, <2>2, <1>2, BaseAssumption
<1>16. orders[i].side = "SELL" => base' <= base
  BY <1>2, <1>7
<1>17. orders' = [orders EXCEPT ![i] = order]
  OBVIOUS
<1> HIDE DEF order
<1>18. AccountInv'
  BY <1>4, <1>5, <1>6, <1>10, <1>11, <1>12, <1>14, <1>15, <1>16, <1>17,
     OneOrderKeeps
<1>19. Quiet
  <2>1. \A j \in OrderIds \ {i}: orders'[j] = orders[j]
    BY <1>17 DEF AccountInv, AccountType
  <2>2. orders'[i] = order
    BY <1>17 DEF AccountInv, AccountType
  <2>3. order.status = "open" => order.side = orders[i].side
    BY <1>3 DEF order, Ended, NoOrder
  <2> QED BY <2>1, <2>2, <2>3, <1>1, <1>6 DEF Quiet, Pending
<1> QED BY <1>16, <1>18, <1>19

LEMMA DieKeeps ==
  ASSUME AccountInv, NEW i \in OrderIds, Die(i)
  PROVE  AccountInv' /\ Quiet /\ base' = base
<1>1. orders[i] \in OrderRecords /\ orders' = [orders EXCEPT ![i] = Ended(@)]
  BY DEF AccountInv, AccountType, Die
<1>2. Ended(orders[i]) \in OrderRecords /\ Holds(Ended(orders[i])) = 0
      /\ Ended(orders[i]).status = "done" /\ Ended(orders[i]).side = "SELL"
  BY <1>1, OrderTypes DEF Ended, NoOrder, Holds
<1>3. base' = base
  BY DEF Die
<1>4. Held - Holds(orders[i]) <= base
  BY HoldsAtMost, AvailableType DEF AccountInv, Accounted
<1>5. base' \in Quantities /\ base' <= MaxBase
  BY <1>3, AvailableType DEF AccountInv, AccountType
<1>6. Held - Holds(orders[i]) + Holds(Ended(orders[i])) <= base'
  BY <1>2, <1>3, <1>4, HoldsAtMost, AvailableType
<1>7. AccountInv'
  <2> DEFINE order == Ended(orders[i])
  <2>1. orders' = [orders EXCEPT ![i] = order]
    BY <1>1
  <2> HIDE DEF order
  <2> QED BY <2>1, <1>2, <1>3, <1>5, <1>6, OneOrderKeeps DEF order
<1>8. Quiet
  BY <1>1, <1>2 DEF Quiet, Pending, AccountInv, AccountType
<1> QED BY <1>3, <1>7, <1>8

LEMMA ArriveKeeps ==
  ASSUME AccountInv, NEW i \in OrderIds, Arrive(i)
  PROVE  /\ AccountInv' /\ Quiet /\ base' = base
         /\ orders' = [orders EXCEPT ![i] = [@ EXCEPT !.status = "open"]]
            \/ orders' = [orders EXCEPT ![i] = NoOrder]
         /\ base <= Dust => orders' = [orders EXCEPT ![i] = NoOrder]
<1>1. /\ orders[i] \in OrderRecords /\ orders[i].status = "late"
      /\ orders[i].side = "SELL" /\ orders[i].left > Dust
  BY DEF AccountInv, AccountType, Arrive, OrdersInForm
<1>2. base' = base /\ base' \in Quantities /\ base' <= MaxBase
  BY AvailableType DEF Arrive, AccountInv, AccountType
<1>3. Holds(orders[i]) = 0
  BY <1>1 DEF Holds
<1>4. /\ Available \in 0..base /\ Available = base - Held /\ base \in Nat
      /\ Held \in Nat /\ Held <= base /\ orders[i].left \in Nat
  BY AvailableType, HoldsAtMost DEF Available, AccountInv, Accounted
<1>5. CASE orders[i].left <= Available
  <2> DEFINE order == [orders[i] EXCEPT !.status = "open"]
  <2>1. orders' = [orders EXCEPT ![i] = order]
    BY <1>5 DEF Arrive
  <2>2. /\ order \in OrderRecords /\ order.side = "SELL"
        /\ order.status = "open" /\ order.left = orders[i].left
    BY <1>1, OrderTypes DEF OrderRecords
  <2>3. Holds(order) = orders[i].left
    BY <2>2 DEF Holds
  <2> HIDE DEF order
  <2>4. Held - Holds(orders[i]) + Holds(order) <= base'
    BY <2>3, <1>2, <1>3, <1>4, <1>5
  <2>5. AccountInv'
    BY <2>1, <2>2, <2>4, <1>2, OneOrderKeeps
  <2>6. Quiet
    BY <2>1, <2>2, <1>1 DEF Quiet, Pending, AccountInv, AccountType
  <2>7. ~(base <= Dust)
    BY <1>1, <1>4, <1>5, BaseAssumption
  <2> QED BY <2>1, <2>5, <2>6, <2>7, <1>2 DEF order
<1>6. CASE ~(orders[i].left <= Available)
  <2>1. orders' = [orders EXCEPT ![i] = NoOrder]
    BY <1>6 DEF Arrive
  <2>2. /\ NoOrder \in OrderRecords /\ NoOrder.status = "none"
        /\ NoOrder.side = "SELL" /\ Holds(NoOrder) = 0
    BY OrderTypes DEF NoOrder, Holds
  <2>3. Held - Holds(orders[i]) + Holds(NoOrder) <= base'
    BY <2>2, <1>2, <1>3, <1>4
  <2>4. AccountInv'
    BY <2>1, <2>2, <2>3, <1>2, OneOrderKeeps
  <2>5. Quiet
    BY <2>1, <2>2 DEF Quiet, Pending, AccountInv, AccountType
  <2> QED BY <2>1, <2>4, <2>5, <1>2
<1> QED BY <1>5, <1>6

(* A request: the order it leaves is a SELL of the quantity.               *)
LEMMA PlacedKeeps ==
  ASSUME AccountInv, NEW i \in OrderIds, NEW q \in Quantities,
         NEW dying \in BOOLEAN, Accepts(i, q),
         orders' = Placed(i, q, dying), base' = base
  PROVE  AccountInv'
<1>1. CASE Known(i)
  <2>1. orders' = orders
    BY <1>1 DEF Placed
  <2> QED BY <2>1 DEF AccountInv, AccountType, Accounted, OrdersInForm,
                      OpenIds, Held, ToFill
<1>2. CASE ~Known(i)
  <2>1. orders' = [orders EXCEPT ![i] = NewOrder(q, dying)] /\ q <= Available
    BY <1>2 DEF Placed, Accepts
  <2>2. /\ NewOrder(q, dying) \in OrderRecords
        /\ NewOrder(q, dying).side = "SELL"
        /\ NewOrder(q, dying).status = "open"
        /\ Holds(NewOrder(q, dying)) = q
    BY OrderTypes DEF NewOrder, NoOrder, Holds
  <2>3. Holds(orders[i]) = 0
    BY <1>2 DEF Known, Holds
  <2>4. base' \in Quantities /\ base' <= MaxBase
    BY DEF AccountInv, AccountType, Accounted
  <2>5. q \in Nat
    BY BaseAssumption DEF Quantities
  <2>6. Held - Holds(orders[i]) + Holds(NewOrder(q, dying)) <= base'
    BY <2>1, <2>2, <2>3, <2>5, AvailableType DEF Available
  <2> QED BY <2>1, <2>2, <2>4, <2>6, OneOrderKeeps
<1> QED BY <1>1, <1>2

LEMMA LostKeeps ==
  ASSUME AccountInv, NEW i \in OrderIds, NEW q \in Quantities, q > Dust,
         NEW dying \in BOOLEAN, orders' \in Lost(i, q, dying), base' = base
  PROVE  AccountInv'
<1> DEFINE late == [NewOrder(q, dying) EXCEPT !.status = "late"]
<1>1. \/ orders' = orders
      \/ ~Known(i) /\ orders' = [orders EXCEPT ![i] = late]
      \/ Accepts(i, q) /\ orders' = Placed(i, q, dying)
  <2>1. orders' = [orders EXCEPT ![i] = IF Known(i) THEN @ ELSE late] =>
          orders' = orders
            \/ (~Known(i) /\ orders' = [orders EXCEPT ![i] = late])
    <3>1. [orders EXCEPT ![i] = @] = orders
      BY DEF AccountInv, AccountType
    <3> QED BY <3>1
  <2> QED BY <2>1 DEF Lost
<1>2. CASE orders' = orders
  BY <1>2 DEF AccountInv, AccountType, Accounted, OrdersInForm,
              OpenIds, Held, ToFill
<1>3. CASE ~Known(i) /\ orders' = [orders EXCEPT ![i] = late]
  <2>1. /\ late \in OrderRecords /\ late.side = "SELL" /\ late.left = q
        /\ late.status = "late" /\ Holds(late) = 0
    BY OrderTypes DEF NewOrder, NoOrder, Holds
  <2>2. Holds(orders[i]) = 0
    BY <1>3 DEF Known, Holds
  <2>3. base' \in Quantities /\ base' <= MaxBase
    BY DEF AccountInv, AccountType, Accounted
  <2> HIDE DEF late
  <2>4. Held - Holds(orders[i]) + Holds(late) <= base'
    BY <2>1, <2>2, AvailableType DEF AccountInv, Accounted
  <2> QED BY <1>3, <2>1, <2>3, <2>4, OneOrderKeeps
<1>4. CASE Accepts(i, q) /\ orders' = Placed(i, q, dying)
  BY <1>4, PlacedKeeps
<1> QED BY <1>1, <1>2, <1>3, <1>4

LEMMA CancelledKeeps ==
  ASSUME AccountInv, NEW ids, NEW ended, orders' = Cancelled(ids, ended),
         base' = base
  PROVE  AccountInv' /\ Quiet
<1> USE DEF AccountInv
<1>1. \A i \in OrderIds:
        \/ orders'[i] = orders[i]
        \/ i \in OpenIds /\ orders'[i] = Ended(orders[i])
        \/ i \in OpenIds /\ orders'[i] = [orders[i] EXCEPT !.dying = TRUE]
  BY DEF Cancelled
<1>2. orders' \in Orders /\ orders \in Orders
  BY <1>1, OrderTypes DEF Orders, AccountType, Cancelled
<1>3. \A i \in OrderIds:
        /\ orders'[i].status = "open" =>
             /\ orders[i].status = "open" /\ orders'[i].side = orders[i].side
             /\ orders'[i].left = orders[i].left
        /\ orders'[i].status = "late" => orders'[i] = orders[i]
        /\ orders'[i].side = "BUY" => orders[i].side = "BUY"
  <2> SUFFICES ASSUME NEW i \in OrderIds
               PROVE  /\ orders'[i].status = "open" =>
                           /\ orders[i].status = "open"
                           /\ orders'[i].side = orders[i].side
                           /\ orders'[i].left = orders[i].left
                      /\ orders'[i].status = "late" => orders'[i] = orders[i]
                      /\ orders'[i].side = "BUY" => orders[i].side = "BUY"
    OBVIOUS
  <2>1. CASE orders'[i] = orders[i]
    BY <2>1
  <2>2. CASE i \in OpenIds /\ orders'[i] = Ended(orders[i])
    BY <2>2 DEF Ended, NoOrder
  <2>3. CASE i \in OpenIds /\ orders'[i] = [orders[i] EXCEPT !.dying = TRUE]
    <3>1. orders[i].status = "open" /\ orders[i] \in OrderRecords
      BY <2>3, <1>2 DEF OpenIds, Orders
    <3> QED BY <2>3, <3>1 DEF OrderRecords
  <2> QED BY <1>1, <2>1, <2>2, <2>3
<1>4. Held' <= Held
  BY <1>2, <1>3, HeldShrinks, HeldIs
<1>5. Held' \in Nat
  BY <1>2, HeldIs, HeldType
<1>6. Held' <= base'
  BY <1>4, <1>5, AvailableType DEF Accounted
<1>7. AccountInv'
  BY <1>2, <1>3, <1>6 DEF AccountType, Accounted, OrdersInForm, Orders, OpenIds
<1> QED BY <1>3, <1>7 DEF Quiet, Pending

-----------------------------------------------------------------------------
(* Steps of the kill.                                                      *)
Attempts(k) ==
  k \in KillRecords /\ \A kind \in KillKinds: k.attempts[kind] <= KillLimits[kind]

LEMMA TurnType ==
  ASSUME NEW k, Attempts(k), k.step < MaxKillSteps, NEW phase \in KillPhases
  PROVE  /\ Attempts(Turn(k, phase))
         /\ Turn(k, phase).phase = phase /\ Turn(k, phase).call = "first"
         /\ Turn(k, phase).sent = k.sent
         /\ Turn(k, phase).unknown = k.unknown
         /\ Turn(k, phase).quantity = k.quantity
         /\ Turn(k, phase).step = k.step + 1
         /\ Turn(k, phase).attempts = k.attempts
<1>1. k.step + 1 \in 0..MaxKillSteps
  BY KillLimitsAssumption DEF Attempts, KillRecords
<1>2. IdleKill.seen \in [total: Quantities, available: Quantities]
  BY BaseAssumption DEF IdleKill, Quantities
<1> QED BY <1>1, <1>2 DEF Attempts, KillRecords, Turn

LEMMA SpendType ==
  ASSUME NEW k, Attempts(k), NEW kind \in KillKinds, Left(k, kind)
  PROVE  /\ Attempts(Spend(k, kind)) /\ Spend(k, kind).sent = k.sent
         /\ Spend(k, kind).step = k.step
         /\ Spend(k, kind).unknown = k.unknown
         /\ Spend(k, kind).phase = k.phase
         /\ Spend(k, kind).attempts
              = [k.attempts EXCEPT ![kind] = k.attempts[kind] + 1]
<1>1. KillLimits[kind] \in Nat /\ k.attempts \in [KillKinds -> Nat]
      /\ k.attempts[kind] < KillLimits[kind]
  BY KillLimitsAssumption DEF Left, Attempts, KillRecords
<1>2. [k.attempts EXCEPT ![kind] = k.attempts[kind] + 1] \in [KillKinds -> Nat]
  BY <1>1
<1>3. \A other \in KillKinds:
        [k.attempts EXCEPT ![kind] = k.attempts[kind] + 1][other]
          <= KillLimits[other]
  BY <1>1 DEF Attempts
<1> QED BY <1>2, <1>3 DEF Attempts, KillRecords, Spend

(* The kill's part of the invariant, apart from the account and the SELL.  *)
Rest ==
  /\ sell \in SellRecords /\ checkpoint \in SellRecords
  /\ outcome \in Outcomes /\ mishaps \in 0..MaxMishaps
  /\ SellInForm

LEMMA Parts ==
  /\ IInv <=> /\ AccountInv /\ Attempts(kill) /\ Rest
              /\ KillInForm /\ FlattenInForm
  /\ IInv' <=> /\ AccountInv' /\ Attempts(kill)' /\ Rest'
               /\ KillInForm' /\ FlattenInForm'
BY DEF IInv, TypeOK, AccountInv, KillType, Attempts, Rest

(* The SELL and its rows do not move while the kill does.                  *)
LEMMA RestStays ==
  ASSUME Rest, UNCHANGED sellVars
  PROVE  Rest' /\ (Owner => Owner')
BY DEF Rest, sellVars, SellInForm, OrdersMore, Owner, At

(* A kill goes on without a new order and without a new balance.           *)
LEMMA KillGoesOn ==
  ASSUME IInv, Killing, UNCHANGED sellVars, AccountInv', Quiet,
         Attempts(kill'), kill'.sent = kill.sent, kill'.call = "first",
         kill'.phase \notin {"idle", "completed", "flatteningPosition"},
         kill'.unknown = kill.unknown \/ kill'.unknown = TRUE
           \/ (\A i \in kill.sent: orders[i].status # "late"),
         \/ kill'.phase \in {"cancellingOrders", "retryingCancellation",
                             "failed"}
         \/ \A i \in OpenIds': orders'[i].side = "SELL"
  PROVE  IInv'
<1>1. Rest' /\ Owner'
  BY Parts, RestStays DEF KillInForm, Killing
<1>2. KillInForm'
  BY <1>1 DEF KillInForm, Killing, Cancelling, Reading
<1>3. kill.sent \subseteq OrderIds
  BY Parts DEF Attempts, KillRecords, OrderIds
<1>4. FlattenInForm'
  BY <1>3, Parts DEF FlattenInForm, Quiet, Pending
<1>5. Attempts(kill)'
  BY DEF Attempts
<1> QED BY <1>1, <1>2, <1>4, <1>5, Parts

(* An account at rest.                                                     *)
LEMMA AccountRests ==
  ASSUME AccountInv, UNCHANGED account
  PROVE  AccountInv' /\ Quiet /\ OpenIds' = OpenIds /\ orders' = orders
<1>1. orders' = orders /\ base' = base
  BY DEF account
<1>2. OpenIds' = OpenIds
  BY <1>1 DEF OpenIds
<1>3. Held' = Held
  BY <1>1, <1>2 DEF Held, ToFill
<1> QED BY <1>1, <1>2, <1>3
        DEF AccountInv, AccountType, Accounted, OrdersInForm, Quiet, Pending

(* A phase that is repeated, after a delay and while it may, or fails.     *)
LEMMA RetryType ==
  ASSUME NEW k, Attempts(k), k.step < MaxKillSteps, NEW kind \in KillKinds,
         NEW retryable \in BOOLEAN, NEW phase \in KillPhases,
         NEW next, next = RetryOrFail(k, kind, retryable, phase)
  PROVE  /\ Attempts(next) /\ next.sent = k.sent /\ next.call = "first"
         /\ next.unknown = k.unknown /\ next.phase \in {phase, "failed"}
<1>1. CASE retryable /\ Left(k, kind)
  <2>1. next = Turn(Spend(k, kind), phase)
    BY <1>1 DEF RetryOrFail
  <2>2. /\ Attempts(Spend(k, kind)) /\ Spend(k, kind).sent = k.sent
        /\ Spend(k, kind).step = k.step
        /\ Spend(k, kind).unknown = k.unknown
    BY <1>1, SpendType
  <2> QED BY <2>1, <2>2, TurnType
<1>2. CASE ~(retryable /\ Left(k, kind))
  <2>1. next = Turn(k, "failed")
    BY <1>2 DEF RetryOrFail
  <2>2. "failed" \in KillPhases
    BY DEF KillPhases
  <2> QED BY <2>1, <2>2, TurnType
<1> QED BY <1>1, <1>2

LEMMA PhasesAndKinds ==
  /\ {"cancellingOrders", "retryingCancellation", "reconcilingPosition",
      "retryingReconciliation", "flatteningPosition", "verifyingFlat",
      "retryingVerification", "completed", "failed"} \subseteq KillPhases
  /\ {"cancellation", "reconciliation", "flatten", "verification"} = KillKinds
BY DEF KillPhases, KillKinds

LEMMA CancellationFailsKeeps ==
  ASSUME IInv, UNCHANGED sellVars, In({"cancellingOrders"}),
         AccountInv', Quiet, NEW retryable \in BOOLEAN,
         kill' = RetryOrFail(kill, "cancellation", retryable,
                             "retryingCancellation")
  PROVE  IInv'
<1>1. Killing /\ kill.step < MaxKillSteps /\ Attempts(kill)
  BY Parts DEF In, Killing
<1>2. /\ Attempts(kill') /\ kill'.sent = kill.sent /\ kill'.call = "first"
      /\ kill'.unknown = kill.unknown
      /\ kill'.phase \in {"retryingCancellation", "failed"}
  BY <1>1, RetryType, PhasesAndKinds
<1> QED BY <1>1, <1>2, KillGoesOn

LEMMA ListOrdersKeeps ==
  ASSUME IInv, UNCHANGED sellVars, ListOrders
  PROVE  IInv'
<1>1. Killing /\ kill.step < MaxKillSteps /\ Attempts(kill) /\ AccountInv
  BY Parts DEF ListOrders, In, Killing
<1>2. UNCHANGED account
  BY DEF ListOrders, Next1, CancellationFails
<1>3. AccountInv' /\ Quiet /\ OpenIds' = OpenIds /\ orders' = orders
  BY <1>1, <1>2, AccountRests
<1>4. CASE OpenIds = {} /\ Next1(Turn(kill, "reconcilingPosition"))
  <2>1. kill' = Turn(kill, "reconcilingPosition")
    BY <1>4 DEF Next1
  <2>2. /\ Attempts(kill') /\ kill'.sent = kill.sent /\ kill'.call = "first"
        /\ kill'.unknown = kill.unknown /\ kill'.phase = "reconcilingPosition"
    BY <2>1, <1>1, TurnType, PhasesAndKinds
  <2> QED BY <1>1, <1>3, <1>4, <2>2, KillGoesOn
<1>5. CASE kill.call = "first"
           /\ Next1([kill EXCEPT !.call = "second", !.listed = OpenIds])
  <2>1. kill' = [kill EXCEPT !.call = "second", !.listed = OpenIds]
    BY <1>5 DEF Next1
  <2>2. OpenIds \subseteq OrderIds
    BY DEF OpenIds
  <2>3. /\ Attempts(kill)' /\ kill'.sent = kill.sent
        /\ kill'.phase = "cancellingOrders" /\ kill'.unknown = kill.unknown
    BY <2>1, <2>2, <1>1 DEF Attempts, KillRecords, ListOrders, In
  <2>4. Rest' /\ Owner'
    BY <1>1, Parts, RestStays DEF KillInForm, Killing
  <2>5. KillInForm' /\ FlattenInForm'
    BY <2>3, <2>4, <1>3, Parts
       DEF KillInForm, FlattenInForm, Killing, Cancelling, Reading, Pending
  <2> QED BY <1>3, <2>3, <2>4, <2>5, Parts
<1>6. CASE \E retryable \in BOOLEAN: CancellationFails(retryable)
  BY <1>3, <1>6, CancellationFailsKeeps
     DEF CancellationFails, Next1, ListOrders, In
<1> QED BY <1>4, <1>5, <1>6 DEF ListOrders

LEMMA CancelOrdersKeeps ==
  ASSUME IInv, UNCHANGED sellVars, CancelOrders
  PROVE  IInv'
<1>1. Killing /\ kill.step < MaxKillSteps /\ Attempts(kill) /\ AccountInv
  BY Parts DEF CancelOrders, In, Killing
<1>2. CASE /\ \E ended \in {{}, kill.listed}:
                orders' = Cancelled(kill.listed, ended)
           /\ kill' = [kill EXCEPT !.call = "third"]
           /\ UNCHANGED base
  <2>1. AccountInv' /\ Quiet
    BY <1>1, <1>2, CancelledKeeps
  <2>2. /\ Attempts(kill)' /\ kill'.sent = kill.sent
        /\ kill'.phase = "cancellingOrders" /\ kill'.unknown = kill.unknown
    BY <1>1, <1>2 DEF Attempts, KillRecords, CancelOrders, In
  <2>3. Rest' /\ Owner'
    BY <1>1, Parts, RestStays DEF KillInForm, Killing
  <2>4. kill.sent \subseteq OrderIds
    BY <1>1 DEF Attempts, KillRecords, OrderIds
  <2>5. KillInForm' /\ FlattenInForm'
    BY <2>1, <2>2, <2>3, <2>4, Parts
       DEF KillInForm, FlattenInForm, Killing, Cancelling, Reading, Pending,
           Quiet
  <2> QED BY <2>1, <2>2, <2>3, <2>5, Parts
<1>3. CASE \E retryable \in BOOLEAN, ended \in {{}, kill.listed},
              received \in BOOLEAN:
             /\ orders' = IF received THEN Cancelled(kill.listed, ended)
                          ELSE orders
             /\ kill' = RetryOrFail(kill, "cancellation", retryable,
                                    "retryingCancellation")
             /\ UNCHANGED base
  <2> PICK retryable \in BOOLEAN, ended \in {{}, kill.listed},
           received \in BOOLEAN:
             /\ orders' = IF received THEN Cancelled(kill.listed, ended)
                          ELSE orders
             /\ kill' = RetryOrFail(kill, "cancellation", retryable,
                                    "retryingCancellation")
             /\ UNCHANGED base
    BY <1>3
  <2>1. CASE received
    BY <2>1, <1>1, CancelledKeeps, CancellationFailsKeeps DEF CancelOrders, In
  <2>2. CASE ~received
    <3>1. UNCHANGED account
      BY <2>2 DEF account
    <3> QED BY <3>1, <1>1, AccountRests, CancellationFailsKeeps
            DEF CancelOrders, In
  <2> QED BY <2>1, <2>2
<1> QED BY <1>2, <1>3 DEF CancelOrders

LEMMA RetryTimerKeeps ==
  ASSUME IInv, UNCHANGED sellVars, RetryTimer
  PROVE  IInv'
<1>1. Killing /\ kill.step < MaxKillSteps /\ Attempts(kill) /\ AccountInv
  BY Parts DEF RetryTimer, In, Killing
<1>2. AccountInv' /\ Quiet /\ OpenIds' = OpenIds /\ orders' = orders
  BY <1>1, AccountRests DEF RetryTimer, Next1
<1>3. PICK phase \in {"cancellingOrders", "reconcilingPosition",
                      "verifyingFlat"}:
        /\ kill' = Turn(kill, phase)
        /\ phase # "cancellingOrders" => ~Cancelling
  BY DEF RetryTimer, Next1, In, Cancelling
<1>4. /\ Attempts(kill') /\ kill'.sent = kill.sent /\ kill'.call = "first"
      /\ kill'.unknown = kill.unknown /\ kill'.phase = phase
  BY <1>1, <1>3, TurnType, PhasesAndKinds
<1>5. phase # "cancellingOrders" => \A i \in OpenIds: orders[i].side = "SELL"
  BY <1>1, <1>3, Parts DEF KillInForm
<1> QED BY <1>1, <1>2, <1>3, <1>4, <1>5, KillGoesOn

LEMMA ReadFailsKeeps ==
  ASSUME IInv, UNCHANGED sellVars, NEW retryable \in BOOLEAN,
         In({"reconcilingPosition", "verifyingFlat"}), ReadFails(retryable)
  PROVE  IInv'
<1>1. /\ Killing /\ ~Cancelling /\ kill.step < MaxKillSteps
      /\ Attempts(kill) /\ AccountInv
  BY Parts DEF In, Killing, Cancelling
<1>2. AccountInv' /\ Quiet /\ OpenIds' = OpenIds /\ orders' = orders
  BY <1>1, AccountRests DEF ReadFails, Next1
<1>3. /\ kill' = RetryOrFail(kill, ReadKind(kill), retryable, ReadRetry(kill))
      /\ ReadKind(kill) \in KillKinds
      /\ ReadRetry(kill) \in {"retryingVerification", "retryingReconciliation"}
  BY PhasesAndKinds DEF ReadFails, Next1, ReadKind, ReadRetry
<1>4. /\ Attempts(kill') /\ kill'.sent = kill.sent /\ kill'.call = "first"
      /\ kill'.unknown = kill.unknown
      /\ kill'.phase \in {ReadRetry(kill), "failed"}
  BY <1>1, <1>3, RetryType, PhasesAndKinds
<1>5. \A i \in OpenIds': orders'[i].side = "SELL"
  BY <1>1, <1>2, Parts DEF KillInForm
<1> QED BY <1>1, <1>2, <1>3, <1>4, <1>5, KillGoesOn

LEMMA ReadAccountKeeps ==
  ASSUME IInv, UNCHANGED sellVars, ReadAccount
  PROVE  IInv'
<1>1. /\ Killing /\ ~Cancelling /\ Attempts(kill) /\ AccountInv /\ Reading
      /\ kill.phase # "idle" /\ kill.phase # "completed"
      /\ kill.phase # "flatteningPosition"
  BY Parts DEF ReadAccount, In, Killing, Cancelling, Reading
<1>2. CASE Next1([kill EXCEPT !.call = "second",
                    !.seen = [total |-> base, available |-> Available]])
  <2>1. AccountInv' /\ OpenIds' = OpenIds /\ orders' = orders /\ base' = base
    BY <1>1, <1>2, AccountRests DEF Next1, account
  <2>2. [total |-> base, available |-> Available]
          \in [total: Quantities, available: Quantities]
    BY <1>1, AvailableType DEF AccountInv, AccountType
  <2>3. /\ Attempts(kill)' /\ kill'.sent = kill.sent
        /\ kill'.phase = kill.phase /\ kill'.unknown = kill.unknown
        /\ kill'.seen.total = base
    BY <1>1, <1>2, <2>2 DEF Attempts, KillRecords, Next1
  <2>4. Rest' /\ Owner'
    BY <1>1, Parts, RestStays DEF KillInForm
  <2>5. base' <= kill'.seen.total
    BY <2>1, <2>3, <1>1, AvailableType
  <2>6. KillInForm'
    BY <1>1, <2>1, <2>3, <2>4, <2>5, Parts
       DEF KillInForm, Killing, Cancelling, Reading
  <2>7. FlattenInForm'
    BY <1>1, <2>1, <2>3, Parts DEF FlattenInForm, Pending
  <2> QED BY <2>1, <2>3, <2>4, <2>6, <2>7, Parts
<1>3. CASE \E retryable \in BOOLEAN: ReadFails(retryable)
  BY <1>3, ReadFailsKeeps DEF ReadAccount
<1> QED BY <1>2, <1>3 DEF ReadAccount

LEMMA CountOrdersKeeps ==
  ASSUME IInv, UNCHANGED sellVars, CountOrders
  PROVE  IInv'
<1>1. /\ Killing /\ ~Cancelling /\ Attempts(kill) /\ AccountInv /\ Reading
      /\ kill.step < MaxKillSteps /\ kill.call = "second"
      /\ base <= kill.seen.total
      /\ kill.seen.total \in Quantities /\ kill.seen.available \in Quantities
  <2>1. Attempts(kill) /\ AccountInv /\ KillInForm
    BY Parts
  <2> QED BY <2>1 DEF CountOrders, In, Killing, Cancelling, Reading, KillInForm,
                      Attempts, KillRecords
<1>2. CASE Next1(AccountReconciled(kill, kill.seen.total, kill.seen.available,
                                   Cardinality(OpenIds)))
  <2> DEFINE total == kill.seen.total
             available == kill.seen.available
  <2>1. /\ AccountInv' /\ Quiet /\ OpenIds' = OpenIds /\ orders' = orders
        /\ base' = base
    BY <1>1, <1>2, AccountRests DEF Next1, account
  <2>2. \A i \in OpenIds': orders'[i].side = "SELL"
    BY <1>1, <2>1, Parts DEF KillInForm
  <2>3. CASE Cardinality(OpenIds) > 0
    <3>1. kill' = Turn(kill, "cancellingOrders")
      BY <1>2, <2>3 DEF Next1, AccountReconciled
    <3>2. /\ Attempts(kill') /\ kill'.sent = kill.sent
          /\ kill'.call = "first" /\ kill'.unknown = kill.unknown
          /\ kill'.phase = "cancellingOrders"
      BY <3>1, <1>1, TurnType, PhasesAndKinds
    <3> QED BY <1>1, <2>1, <3>2, KillGoesOn
  <2>4. ~(Cardinality(OpenIds) > 0) => OpenIds = {}
    <3>1. OpenIds \in SUBSET OrderIds
      BY DEF OpenIds
    <3>2. IsFiniteSet(OpenIds) /\ Cardinality(OpenIds) \in Nat
      BY <3>1, FiniteIds, FS_Subset, FS_CardinalityType
    <3> QED BY <3>2, FS_EmptySet
  <2>5. Rest' /\ Owner'
    BY <1>1, Parts, RestStays DEF KillInForm, Killing
  <2>6. CASE OpenIds = {} /\ ~(Cardinality(OpenIds) > 0) /\ total <= Dust
    <3>1. kill' = Turn(kill, "completed")
      BY <1>2, <2>6 DEF Next1, AccountReconciled
    <3>2. /\ Attempts(kill') /\ kill'.sent = kill.sent
          /\ kill'.unknown = kill.unknown /\ kill'.phase = "completed"
      BY <3>1, <1>1, TurnType, PhasesAndKinds
    <3>3. base' <= Dust
      BY <1>1, <2>1, <2>6, AvailableType, BaseAssumption DEF Quantities
    <3>4. KillInForm'
      BY <2>1, <2>5, <2>6, <3>2, <3>3
         DEF KillInForm, Killing, Reading
    <3>5. FlattenInForm'
      BY <2>1, <3>2, Parts DEF FlattenInForm, Pending
    <3>6. Attempts(kill)'
      BY <3>2 DEF Attempts
    <3> QED BY <2>1, <2>5, <3>4, <3>5, <3>6, Parts
  <2>7. CASE /\ ~(Cardinality(OpenIds) > 0) /\ ~(total <= Dust)
             /\ HeldQuantity(total, available)
    <3>1. PICK retryable \in BOOLEAN:
            kill' = RetryOrFail(kill, ReadKind(kill), retryable,
                                ReadRetry(kill))
      BY <1>2, <2>7 DEF Next1, AccountReconciled
    <3>2. /\ ReadKind(kill) \in KillKinds
          /\ ReadRetry(kill)
               \in {"retryingVerification", "retryingReconciliation"}
          /\ ReadRetry(kill) \in KillPhases
      BY PhasesAndKinds DEF ReadKind, ReadRetry
    <3>3. /\ Attempts(kill') /\ kill'.sent = kill.sent
          /\ kill'.call = "first" /\ kill'.unknown = kill.unknown
          /\ kill'.phase \in {ReadRetry(kill), "failed"}
      BY <1>1, <3>1, <3>2, RetryType
    <3> QED BY <1>1, <2>1, <2>2, <3>2, <3>3, KillGoesOn
  <2>8. CASE /\ OpenIds = {} /\ ~(Cardinality(OpenIds) > 0)
             /\ ~(total <= Dust) /\ ~HeldQuantity(total, available)
             /\ MayFlatten(kill)
    <3> DEFINE spent == Spend(kill, "flatten")
               next == [spent EXCEPT !.quantity = available, !.unknown = FALSE]
    <3>1. kill' = Turn(next, "flatteningPosition")
      BY <1>2, <2>8 DEF Next1, AccountReconciled
    <3>2. /\ Attempts(spent) /\ spent.sent = kill.sent
          /\ spent.step = kill.step /\ ~kill.unknown
      BY <1>1, <2>8, SpendType, PhasesAndKinds DEF MayFlatten
    <3>3. /\ Attempts(next) /\ next.sent = kill.sent /\ next.step = kill.step
          /\ next.unknown = FALSE /\ next.quantity = available
      BY <1>1, <3>2 DEF Attempts, KillRecords
    <3> HIDE DEF next
    <3>4. /\ Attempts(kill') /\ kill'.sent = kill.sent
          /\ kill'.unknown = FALSE /\ kill'.quantity = available
          /\ kill'.phase = "flatteningPosition" /\ kill'.call = "first"
      BY <1>1, <3>1, <3>3, TurnType, PhasesAndKinds
    <3>5. available > Dust
      BY <1>1, <2>8, BaseAssumption DEF HeldQuantity, Quantities
    <3>6. \A i \in kill.sent: ~Pending(i)
      <4>1. kill.sent \subseteq OrderIds
        BY <1>1 DEF Attempts, KillRecords, OrderIds
      <4> QED BY <4>1, <2>8, <3>2, Parts DEF FlattenInForm, Pending, OpenIds
    <3>7. KillInForm'
      BY <2>1, <2>2, <2>5, <2>8, <3>4
         DEF KillInForm, Killing, Reading
    <3>8. FlattenInForm'
      BY <2>1, <3>4, <3>5, <3>6 DEF FlattenInForm, Pending
    <3>9. Attempts(kill)'
      BY <3>4 DEF Attempts
    <3> QED BY <2>1, <2>5, <3>7, <3>8, <3>9, Parts
  <2>9. CASE /\ ~(Cardinality(OpenIds) > 0) /\ ~(total <= Dust)
             /\ ~HeldQuantity(total, available) /\ ~MayFlatten(kill)
    <3>1. kill' = Turn(kill, "failed")
      BY <1>2, <2>9 DEF Next1, AccountReconciled
    <3>2. /\ Attempts(kill') /\ kill'.sent = kill.sent
          /\ kill'.call = "first" /\ kill'.unknown = kill.unknown
          /\ kill'.phase = "failed"
      BY <3>1, <1>1, TurnType, PhasesAndKinds
    <3> QED BY <1>1, <2>1, <3>2, KillGoesOn
  <2> QED BY <2>3, <2>4, <2>6, <2>7, <2>8, <2>9
<1>3. CASE \E retryable \in BOOLEAN: ReadFails(retryable)
  BY <1>3, ReadFailsKeeps DEF CountOrders
<1> QED BY <1>2, <1>3 DEF CountOrders

(* A rejected flattening order: nothing was sent.                          *)
LEMMA RejectedKeeps ==
  ASSUME IInv, UNCHANGED sellVars, In({"flatteningPosition"}),
         UNCHANGED account, NEW retryable \in BOOLEAN,
         kill' = FlattenRejected(kill, retryable)
  PROVE  IInv'
<1>1. /\ Killing /\ ~Cancelling /\ Attempts(kill) /\ AccountInv
      /\ kill.step < MaxKillSteps
  BY Parts DEF In, Killing, Cancelling
<1>2. AccountInv' /\ Quiet /\ OpenIds' = OpenIds /\ orders' = orders
  BY <1>1, AccountRests
<1>3. PICK phase \in {"reconcilingPosition", "failed"}: kill' = Turn(kill, phase)
  BY DEF FlattenRejected
<1>4. /\ Attempts(kill') /\ kill'.sent = kill.sent /\ kill'.call = "first"
      /\ kill'.unknown = kill.unknown /\ kill'.phase = phase
  BY <1>1, <1>3, TurnType, PhasesAndKinds
<1>5. \A i \in OpenIds': orders'[i].side = "SELL"
  BY <1>1, <1>2, Parts DEF KillInForm
<1> QED BY <1>1, <1>2, <1>4, <1>5, KillGoesOn

LEMMA SubmitFlattenKeeps ==
  ASSUME IInv, UNCHANGED sellVars, SubmitFlatten
  PROVE  IInv'
<1> DEFINE i == FreshId
           q == kill.quantity
           sending == [kill EXCEPT !.sent = @ \cup {i}]
<1>1. /\ Killing /\ ~Cancelling /\ Attempts(kill) /\ AccountInv
      /\ kill.step < MaxKillSteps /\ q \in Quantities /\ q > Dust
      /\ ~kill.unknown /\ kill.sent \subseteq OrderIds
      /\ \A j \in kill.sent: ~Pending(j)
  <2>1. Attempts(kill) /\ AccountInv /\ FlattenInForm
    BY Parts
  <2> QED BY <2>1 DEF SubmitFlatten, In, Killing, Cancelling, FlattenInForm,
                      Attempts, KillRecords, OrderIds
<1>2. i \in FlattenIds /\ orders[i] = NoOrder /\ i \in OrderIds
  BY DEF SubmitFlatten, FreshId, OrderIds
<1> HIDE DEF i
<1>3. /\ Attempts(sending) /\ sending.step = kill.step
      /\ sending.sent = kill.sent \cup {i} /\ sending.phase = kill.phase
      /\ sending.unknown = kill.unknown /\ sending.quantity = q
  BY <1>1, <1>2 DEF Attempts, KillRecords
<1>4. base' = base /\ ~Known(i) /\ ~Pending(i)
  BY <1>2 DEF SubmitFlatten, Known, Pending, NoOrder
<1>5. Rest' /\ Owner'
  BY <1>1, Parts, RestStays DEF KillInForm, Killing
<1>6. \A j \in OpenIds: orders[j].side = "SELL"
  BY <1>1, Parts DEF KillInForm
<1>7. CASE /\ Accepts(i, q) /\ orders' = Placed(i, q, TRUE)
           /\ kill' = [sending EXCEPT !.call = "second", !.listed = {i}]
  <2>1. AccountInv'
    BY <1>1, <1>2, <1>4, <1>7, PlacedKeeps
  <2>2. /\ Attempts(kill)' /\ kill'.sent = kill.sent \cup {i}
        /\ kill'.phase = "flatteningPosition" /\ kill'.call = "second"
        /\ kill'.listed = {i} /\ kill'.unknown = kill.unknown
    BY <1>2, <1>3, <1>7 DEF Attempts, KillRecords, SubmitFlatten, In
  <2>3. /\ orders'[i].status = "open" /\ orders'[i].side = "SELL"
        /\ \A j \in OrderIds \ {i}: orders'[j] = orders[j]
    BY <1>1, <1>2, <1>4, <1>7
       DEF Placed, AccountInv, AccountType, NewOrder, NoOrder
  <2>4. \A j \in OpenIds': orders'[j].side = "SELL"
    BY <1>6, <2>3 DEF OpenIds
  <2>5. KillInForm'
    BY <1>5, <2>2, <2>4 DEF KillInForm, Killing, Reading
  <2>6. \A j \in kill'.sent: j # i => ~Pending(j)'
    BY <1>1, <2>2, <2>3 DEF Pending
  <2>7. FlattenInForm'
    BY <2>2, <2>3, <2>6 DEF FlattenInForm, Pending
  <2> QED BY <1>5, <2>1, <2>2, <2>5, <2>7, Parts
<1>8. CASE \E o \in Lost(i, q, TRUE):
             orders' = o /\ kill' = FlattenUnknown(sending)
  <2>1. orders' \in Lost(i, q, TRUE) /\ kill' = FlattenUnknown(sending)
    BY <1>8
  <2>2. AccountInv'
    BY <1>1, <1>2, <1>4, <2>1, LostKeeps
  <2> DEFINE next == [sending EXCEPT !.unknown = TRUE]
  <2>3. kill' = Turn(next, "verifyingFlat")
    BY <2>1 DEF FlattenUnknown
  <2>4. /\ Attempts(next) /\ next.step = kill.step /\ next.unknown = TRUE
        /\ next.sent = kill.sent \cup {i}
    BY <1>3 DEF Attempts, KillRecords
  <2> HIDE DEF next
  <2>5. /\ Attempts(kill') /\ kill'.sent = kill.sent \cup {i}
        /\ kill'.phase = "verifyingFlat" /\ kill'.call = "first"
        /\ kill'.unknown = TRUE
    BY <1>1, <2>3, <2>4, TurnType, PhasesAndKinds
  <2>6. \A j \in OrderIds \ {i}: orders'[j] = orders[j]
    BY <1>1, <1>2, <2>1 DEF Lost, Placed, AccountInv, AccountType
  <2>7. orders'[i].side = "SELL"
    <3>1. i # "stray"
      BY <1>2, BaseAssumption DEF ClientIds
    <3> QED BY <3>1, <1>2, <2>2
            DEF AccountInv, AccountType, OrdersInForm, OrderRecords
  <2>8. \A j \in OpenIds': orders'[j].side = "SELL"
    BY <1>6, <2>6, <2>7 DEF OpenIds
  <2>9. KillInForm'
    BY <1>5, <2>5, <2>8 DEF KillInForm, Killing, Reading
  <2>10. \A j \in kill'.sent: j # i => ~Pending(j)'
    BY <1>1, <2>5, <2>6 DEF Pending
  <2>11. FlattenInForm'
    BY <2>5, <2>10 DEF FlattenInForm, Pending
  <2>12. Attempts(kill)'
    BY <2>5 DEF Attempts
  <2> QED BY <1>5, <2>2, <2>9, <2>11, <2>12, Parts
<1>9. CASE \E retryable \in BOOLEAN:
             kill' = FlattenRejected(kill, retryable) /\ UNCHANGED orders
  <2>1. UNCHANGED account
    BY <1>4, <1>9 DEF account
  <2> QED BY <1>9, <2>1, RejectedKeeps DEF SubmitFlatten, In
<1> QED BY <1>7, <1>8, <1>9 DEF SubmitFlatten, i

LEMMA LookUpFlattenKeeps ==
  ASSUME IInv, UNCHANGED sellVars, LookUpFlatten
  PROVE  IInv'
<1>1. /\ Killing /\ ~Cancelling /\ Attempts(kill) /\ AccountInv
      /\ kill.step < MaxKillSteps /\ kill.call = "second"
      /\ kill.phase = "flatteningPosition" /\ FlattenInForm
  BY Parts DEF LookUpFlatten, In, Killing, Cancelling
<1> PICK i \in kill.listed:
      \/ Next1(FlattenUnknown(kill))
      \/ /\ orders[i].status = "done" /\ orders[i].sold
         /\ Next1(FlattenConfirmed(kill))
      \/ Next1(FlattenRejected(kill, FALSE))
  BY DEF LookUpFlatten
<1>2. UNCHANGED account
  BY DEF Next1
<1>3. AccountInv' /\ Quiet /\ OpenIds' = OpenIds /\ orders' = orders
  BY <1>1, <1>2, AccountRests
<1>4. \A j \in OpenIds': orders'[j].side = "SELL"
  BY <1>1, <1>3, Parts DEF KillInForm
<1>5. CASE kill' = FlattenUnknown(kill)
  <2> DEFINE next == [kill EXCEPT !.unknown = TRUE]
  <2>1. kill' = Turn(next, "verifyingFlat")
    BY <1>5 DEF FlattenUnknown
  <2>2. /\ Attempts(next) /\ next.step = kill.step /\ next.unknown = TRUE
        /\ next.sent = kill.sent
    BY <1>1 DEF Attempts, KillRecords
  <2> HIDE DEF next
  <2>3. /\ Attempts(kill') /\ kill'.sent = kill.sent
        /\ kill'.phase = "verifyingFlat" /\ kill'.call = "first"
        /\ kill'.unknown = TRUE
    BY <1>1, <2>1, <2>2, TurnType, PhasesAndKinds
  <2> QED BY <1>1, <1>3, <1>4, <2>3, KillGoesOn
<1>6. CASE orders[i].status = "done" /\ kill' = FlattenConfirmed(kill)
  <2> DEFINE next == [kill EXCEPT !.unknown = FALSE]
  <2>1. kill' = Turn(next, "verifyingFlat")
    BY <1>6 DEF FlattenConfirmed
  <2>2. /\ Attempts(next) /\ next.step = kill.step /\ next.unknown = FALSE
        /\ next.sent = kill.sent
    BY <1>1 DEF Attempts, KillRecords
  <2> HIDE DEF next
  <2>3. /\ Attempts(kill') /\ kill'.sent = kill.sent
        /\ kill'.phase = "verifyingFlat" /\ kill'.call = "first"
    BY <1>1, <2>1, <2>2, TurnType, PhasesAndKinds
  <2>4. \A j \in kill.sent: orders[j].status # "late"
    BY <1>1, <1>6 DEF FlattenInForm, Pending
  <2> QED BY <1>1, <1>3, <1>4, <2>3, <2>4, KillGoesOn
<1>7. CASE kill' = FlattenRejected(kill, FALSE)
  BY <1>2, <1>7, RejectedKeeps DEF LookUpFlatten
<1> QED BY <1>5, <1>6, <1>7 DEF Next1

LEMMA KillStepKeeps ==
  ASSUME IInv, UNCHANGED sellVars, KillStep
  PROVE  IInv'
BY ListOrdersKeeps, CancelOrdersKeeps, RetryTimerKeeps, ReadAccountKeeps,
   CountOrdersKeeps, SubmitFlattenKeeps, LookUpFlattenKeeps DEF KillStep

(* The exchange moves on its own: a completed kill stays true, for a late  *)
(* order asks for more than is left.                                       *)
LEMMA ExchangeKeeps ==
  ASSUME IInv, Exchange, UNCHANGED <<kill, sellVars>>
  PROVE  IInv'
<1>1. AccountInv /\ Attempts(kill) /\ KillInForm /\ FlattenInForm
  BY Parts
<1>2. Rest' /\ (Owner => Owner')
  BY Parts, RestStays
<1> PICK i \in OrderIds: Fill(i) \/ Die(i) \/ Arrive(i)
  BY DEF Exchange
<1>3. AccountInv' /\ Quiet
  BY <1>1, FillKeeps, DieKeeps, ArriveKeeps
<1>4. (\A j \in OpenIds: orders[j].side = "SELL") => base' <= base
  <2>1. CASE Fill(i)
    BY <1>1, <2>1, FillKeeps DEF Fill
  <2>2. CASE Die(i) \/ Arrive(i)
    BY <1>1, <2>2, DieKeeps, ArriveKeeps, AvailableType
  <2> QED BY <2>1, <2>2
<1>5. /\ (\A j \in OpenIds: orders[j].side = "SELL") =>
           \A j \in OpenIds': orders'[j].side = "SELL"
  <2> SUFFICES ASSUME \A j \in OpenIds: orders[j].side = "SELL",
                      NEW j \in OrderIds, orders'[j].status = "open"
               PROVE  orders'[j].side = "SELL"
    BY DEF OpenIds
  <2>1. Pending(j) /\ orders'[j].side = orders[j].side
    BY <1>3 DEF Quiet
  <2> QED BY <2>1, <1>1 DEF Pending, OpenIds, AccountInv, OrdersInForm
<1>6. base <= Dust /\ OpenIds = {} => base' <= Dust /\ OpenIds' = {}
  <2> SUFFICES ASSUME base <= Dust, OpenIds = {}
               PROVE  base' <= Dust /\ OpenIds' = {}
    OBVIOUS
  <2>1. Arrive(i)
    BY DEF Fill, Die
  <2>2. base' = base /\ orders' = [orders EXCEPT ![i] = NoOrder]
    BY <1>1, <2>1, ArriveKeeps
  <2> QED BY <2>2, <1>1 DEF OpenIds, NoOrder, AccountInv, AccountType
<1>7. kill' = kill
  OBVIOUS
<1>8. KillInForm'
  <2>1. Reading /\ kill.call = "second" => base' <= kill.seen.total
    <3>1. Reading => Killing /\ ~Cancelling
      BY DEF Reading, Killing, Cancelling
    <3>2. kill.seen.total \in Int /\ base \in Int /\ base' \in Int
      BY <1>1, <1>3, BaseAssumption
         DEF Attempts, KillRecords, AccountInv, AccountType, Quantities
    <3> QED BY <3>1, <3>2, <1>1, <1>4 DEF KillInForm
  <2> QED BY <2>1, <1>1, <1>2, <1>5, <1>6, <1>7
          DEF KillInForm, Killing, Cancelling, Reading
<1>9. FlattenInForm'
  <2>1. kill.sent \subseteq OrderIds
    BY <1>1 DEF Attempts, KillRecords, OrderIds
  <2> QED BY <2>1, <1>1, <1>3, <1>7 DEF FlattenInForm, Quiet, Pending
<1>10. Attempts(kill)'
  BY <1>1, <1>7 DEF Attempts
<1> QED BY <1>2, <1>3, <1>8, <1>9, <1>10, Parts

-----------------------------------------------------------------------------
(* Steps of the SELL and of the cycle, while no kill runs.                 *)
LEMMA IdleKeeps ==
  ASSUME IInv, kill.phase = "idle", kill' = kill, AccountInv', Rest'
  PROVE  IInv'
<1>1. Attempts(kill) /\ kill.sent = {}
  BY Parts DEF KillInForm
<1>2. KillInForm' /\ FlattenInForm' /\ Attempts(kill)'
  BY <1>1 DEF KillInForm, FlattenInForm, Killing, Reading, Attempts
<1> QED BY <1>2, Parts

LEMMA ToType ==
  ASSUME NEW s \in SellRecords, NEW phase \in SellPhases
  PROVE  /\ To(s, phase) \in SellRecords
         /\ To(s, phase).requested = s.requested
         /\ To(s, phase).total = s.total
         /\ To(s, phase).phase = phase
         /\ To(s, phase).call = "checkpoint"
BY DEF SellRecords, To

LEMMA UnsafeType ==
  ASSUME NEW s \in SellRecords
  PROVE  Unsafe(s) \in SellRecords
         /\ (s.requested > Dust => OrdersMore(Unsafe(s)))
<1>1. "safetyFlattening" \in SellPhases
  BY DEF SellPhases
<1> QED BY <1>1, ToType DEF Unsafe, OrdersMore

(* The machine goes on with what its effect answered.                      *)
LEMMA SendKeeps ==
  ASSUME IInv, kill.phase = "idle", outcome = "selling", AccountInv',
         NEW s \in SellRecords, OrdersMore(s), Send(s)
  PROVE  IInv'
<1>1. Rest'
  BY Parts DEF Rest, Send, SellInForm
<1> QED BY <1>1, IdleKeeps DEF Send

LEMMA UnsafeKeeps ==
  ASSUME IInv, kill.phase = "idle", outcome = "selling", AccountInv',
         Send(Unsafe(sell))
  PROVE  IInv'
<1>1. sell \in SellRecords /\ sell.requested > Dust
  BY Parts DEF Rest, SellInForm, OrdersMore
<1> QED BY <1>1, UnsafeType, SendKeeps

(* While the SELL is anywhere but at its safety kill, no kill is there.    *)
LEMMA NoKill ==
  ASSUME IInv, outcome = "selling",
         sell.phase # "safetyFlattening" \/ sell.call # "first"
  PROVE  /\ kill.phase = "idle" /\ AccountInv /\ sell \in SellRecords
         /\ OrdersMore(sell) /\ sell.requested \in Quantities
         /\ sell.total \in Quantities
<1>1. KillInForm /\ Rest
  BY Parts
<1>2. sell \in SellRecords
  BY <1>1 DEF Rest
<1>3. kill.phase = "idle"
  BY <1>1 DEF KillInForm, Owner, At
<1> QED BY <1>1, <1>2, <1>3, Parts DEF Rest, SellInForm, SellRecords

LEMMA ForgottenType ==
  ASSUME sell \in SellRecords
  PROVE  /\ NoSell \in SellRecords /\ Forgotten \in SellRecords
         /\ Forgotten.requested = sell.requested /\ Forgotten.phase = "none"
<1>1. 0 \in Quantities /\ sell.requested \in Quantities
  BY BaseAssumption DEF Quantities, SellRecords
<1>2. NoSell \in SellRecords
  BY <1>1 DEF NoSell, SellRecords, SellPhases
<1> QED BY <1>1, <1>2 DEF Forgotten, NoSell, SellRecords

LEMMA PersistKeeps ==
  ASSUME IInv, Persist
  PROVE  IInv'
<1>1. /\ kill.phase = "idle" /\ AccountInv /\ sell \in SellRecords
      /\ OrdersMore(sell) /\ Rest
  BY NoKill, Parts DEF Persist
<1>2. AccountInv' /\ kill' = kill
  BY <1>1, AccountRests DEF Persist
<1>3. CASE /\ checkpoint' = sell /\ sell' = [sell EXCEPT !.call = "first"]
           /\ UNCHANGED <<outcome, mishaps>>
  <2>1. sell' \in SellRecords /\ OrdersMore(sell') /\ OrdersMore(checkpoint')
    BY <1>1, <1>3 DEF SellRecords, OrdersMore
  <2>2. Rest'
    BY <2>1, <1>1, <1>3 DEF Rest, SellInForm
  <2> QED BY <2>2, <1>1, <1>2, IdleKeeps
<1>4. CASE /\ mishaps < MaxMishaps /\ mishaps' = mishaps + 1
           /\ outcome' = "unknown" /\ sell' = Forgotten
           /\ UNCHANGED checkpoint
  <2>1. sell' \in SellRecords /\ sell'.requested = sell.requested
        /\ sell'.phase = "none"
    BY <1>1, <1>4, ForgottenType
  <2>2. mishaps' \in 0..MaxMishaps /\ outcome' \in Outcomes
    BY <1>1, <1>4, SellAssumption DEF Rest, Outcomes
  <2>3. Rest'
    BY <2>1, <2>2, <1>1, <1>4 DEF Rest, SellInForm, OrdersMore
  <2> QED BY <2>3, <1>1, <1>2, IdleKeeps
<1> QED BY <1>3, <1>4 DEF Persist

LEMMA ListProtectionsKeeps ==
  ASSUME IInv, ListProtections
  PROVE  IInv'
<1>1. /\ kill.phase = "idle" /\ AccountInv /\ sell \in SellRecords
      /\ OrdersMore(sell) /\ outcome = "selling"
      /\ sell.phase = "cancellingProtections"
  <2>1. outcome = "selling" /\ sell.phase = "cancellingProtections"
    BY DEF ListProtections, At
  <2> QED BY <2>1, NoKill
<1>2. AccountInv'
  BY <1>1, AccountRests DEF ListProtections, Answered
<1>3. CASE Answered(To(sell, "reconcilingBeforeSell"))
  <2>1. "reconcilingBeforeSell" \in SellPhases
    BY DEF SellPhases
  <2>2. To(sell, "reconcilingBeforeSell") \in SellRecords
        /\ OrdersMore(To(sell, "reconcilingBeforeSell"))
    BY <2>1, <1>1, ToType DEF OrdersMore
  <2> QED BY <2>2, <1>1, <1>2, <1>3, SendKeeps DEF Answered
<1>4. CASE Answered([sell EXCEPT !.call = "second", !.listed = OpenIds])
  <2> DEFINE s == [sell EXCEPT !.call = "second", !.listed = OpenIds]
  <2>1. s \in SellRecords /\ OrdersMore(s)
    BY <1>1 DEF SellRecords, OrdersMore, OpenIds
  <2> HIDE DEF s
  <2>2. Send(s)
    BY <1>4 DEF Answered, s
  <2> QED BY <2>1, <2>2, <1>1, <1>2, SendKeeps
<1>5. CASE Answered(Unsafe(sell))
  BY <1>1, <1>2, <1>5, UnsafeKeeps DEF Answered
<1> QED BY <1>3, <1>4, <1>5 DEF ListProtections

LEMMA CancelProtectionsKeeps ==
  ASSUME IInv, CancelProtections
  PROVE  IInv'
<1>1. outcome = "selling" /\ sell.phase = "cancellingProtections"
  BY DEF CancelProtections, At
<1>2. /\ kill.phase = "idle" /\ AccountInv /\ sell \in SellRecords
      /\ OrdersMore(sell)
  BY <1>1, NoKill
<1> PICK ended \in {{}, sell.listed}, received \in BOOLEAN:
      /\ orders' = IF received THEN Cancelled(sell.listed, ended) ELSE orders
      /\ \/ Send([sell EXCEPT !.call = "third"])
         \/ Send(Unsafe(sell))
  BY DEF CancelProtections
<1>3. base' = base
  BY DEF CancelProtections
<1>4. AccountInv'
  <2>1. CASE received
    BY <2>1, <1>2, <1>3, CancelledKeeps
  <2>2. CASE ~received
    BY <2>2, <1>2, <1>3, AccountRests DEF account
  <2> QED BY <2>1, <2>2
<1>5. CASE Send([sell EXCEPT !.call = "third"])
  <2> DEFINE s == [sell EXCEPT !.call = "third"]
  <2>1. s \in SellRecords /\ OrdersMore(s)
    BY <1>2 DEF SellRecords, OrdersMore
  <2> HIDE DEF s
  <2>2. Send(s)
    BY <1>5 DEF s
  <2> QED BY <2>1, <2>2, <1>1, <1>2, <1>4, SendKeeps
<1>6. CASE Send(Unsafe(sell))
  BY <1>1, <1>2, <1>4, <1>6, UnsafeKeeps
<1> QED BY <1>5, <1>6

(* What the reconciled balances lead to is in form.                        *)
LEMMA BeforeSellType ==
  ASSUME NEW s \in SellRecords, s.requested > Dust,
         NEW total \in Quantities, NEW available
  PROVE  /\ AccountBeforeSell(s, total, available) \in SellRecords
         /\ OrdersMore(AccountBeforeSell(s, total, available))
<1> DEFINE next == AccountBeforeSell(s, total, available)
<1>1. {"completed", "submittingSell"} \subseteq SellPhases
  BY DEF SellPhases
<1>2. CASE total <= Dust
  <2> DEFINE t == [s EXCEPT !.total = total, !.sold = "NO_SELL_NEEDED"]
  <2>1. t \in SellRecords /\ t.requested = s.requested
    BY DEF SellRecords
  <2>2. next = To(t, "completed")
    BY <1>2 DEF AccountBeforeSell
  <2> HIDE DEF t, next
  <2>3. next \in SellRecords /\ OrdersMore(next)
    BY <2>1, <2>2, <1>1, ToType DEF OrdersMore
  <2> QED BY <2>3 DEF next
<1>3. CASE ~(total <= Dust)
  <2> DEFINE t == [s EXCEPT !.total = total]
  <2>1. t \in SellRecords /\ t.requested = s.requested
    BY DEF SellRecords
  <2>2. next = To(t, "submittingSell") \/ next = Unsafe(t)
    BY <1>3 DEF AccountBeforeSell
  <2> HIDE DEF t, next
  <2>3. next \in SellRecords /\ OrdersMore(next)
    BY <2>1, <2>2, <1>1, ToType, UnsafeType DEF OrdersMore
  <2> QED BY <2>3 DEF next
<1> QED BY <1>2, <1>3

LEMMA AfterSellType ==
  ASSUME NEW s \in SellRecords, s.requested > Dust,
         NEW total \in Quantities, NEW available
  PROVE  /\ AccountAfterSell(s, total, available) \in SellRecords
         /\ OrdersMore(AccountAfterSell(s, total, available))
<1> DEFINE next == AccountAfterSell(s, total, available)
<1>1. {"completed", "armingResidual"} \subseteq SellPhases
  BY DEF SellPhases
<1>2. CASE total <= Dust
  <2> DEFINE t == [s EXCEPT !.total = total, !.sold = "SOLD_FLAT"]
  <2>1. t \in SellRecords /\ t.requested = s.requested
    BY DEF SellRecords
  <2>2. next = To(t, "completed")
    BY <1>2 DEF AccountAfterSell
  <2> HIDE DEF t, next
  <2>3. next \in SellRecords /\ OrdersMore(next)
    BY <2>1, <2>2, <1>1, ToType DEF OrdersMore
  <2> QED BY <2>3 DEF next
<1>3. CASE ~(total <= Dust)
  <2> DEFINE t == [s EXCEPT !.total = total]
  <2>1. t \in SellRecords /\ t.requested = s.requested /\ t.total = total
    BY DEF SellRecords
  <2>2. next = To(t, "armingResidual") \/ next = Unsafe(t)
    BY <1>3 DEF AccountAfterSell
  <2> HIDE DEF t, next
  <2>3. total > Dust
    BY <1>3, BaseAssumption DEF Quantities
  <2>4. next \in SellRecords /\ OrdersMore(next)
    BY <2>1, <2>2, <2>3, <1>1, ToType, UnsafeType DEF OrdersMore
  <2> QED BY <2>4 DEF next
<1> QED BY <1>2, <1>3

LEMMA ReconcileAccountKeeps ==
  ASSUME IInv, ReconcileAccount
  PROVE  IInv'
<1>1. outcome = "selling" /\ sell.phase # "safetyFlattening"
  BY DEF ReconcileAccount, At
<1>2. /\ kill.phase = "idle" /\ AccountInv /\ sell \in SellRecords
      /\ OrdersMore(sell)
  BY <1>1, NoKill
<1>3. base \in Quantities /\ sell.requested > Dust
  BY <1>2 DEF AccountInv, AccountType, OrdersMore
<1>4. AccountInv'
  BY <1>2, AccountRests DEF ReconcileAccount, Answered
<1>5. PICK s \in {AccountBeforeSell(sell, base, Available), Unsafe(sell),
                  AccountAfterSell(sell, base, Available)}: Send(s)
  BY DEF ReconcileAccount, Answered
<1>6. s \in SellRecords /\ OrdersMore(s)
  BY <1>2, <1>3, <1>5, BeforeSellType, AfterSellType, UnsafeType
<1> QED BY <1>1, <1>2, <1>4, <1>5, <1>6, SendKeeps

LEMMA SubmitKeeps ==
  ASSUME IInv, outcome = "selling", sell.phase # "safetyFlattening",
         NEW s \in SellRecords, OrdersMore(s),
         NEW t \in SellRecords, OrdersMore(t), Submit(s, t)
  PROVE  IInv'
<1>1. /\ kill.phase = "idle" /\ AccountInv /\ sell \in SellRecords
      /\ sell.requested > Dust /\ sell.requested \in Quantities
  BY NoKill DEF OrdersMore
<1>2. base' = base /\ "sell" \in OrderIds
  BY DEF Submit, OrderIds, ClientIds
<1>3. CASE /\ Accepts("sell", sell.requested)
           /\ orders' = Placed("sell", sell.requested, TRUE) /\ Send(s)
  <2>1. AccountInv'
    BY <1>1, <1>2, <1>3, PlacedKeeps
  <2> QED BY <2>1, <1>1, <1>3, SendKeeps
<1>4. CASE \E o \in Lost("sell", sell.requested, TRUE):
             orders' = o /\ Send(t)
  <2>1. orders' \in Lost("sell", sell.requested, TRUE) /\ Send(t)
    BY <1>4
  <2>2. AccountInv'
    BY <2>1, <1>1, <1>2, LostKeeps
  <2> QED BY <2>1, <2>2, <1>1, SendKeeps
<1>5. CASE UNCHANGED orders /\ Send(Unsafe(sell))
  <2>1. AccountInv'
    BY <1>1, <1>2, <1>5, AccountRests DEF account
  <2> QED BY <2>1, <1>1, <1>5, UnsafeKeeps
<1> QED BY <1>3, <1>4, <1>5 DEF Submit

LEMMA SubmitSellKeeps ==
  ASSUME IInv, SubmitSell
  PROVE  IInv'
<1>1. outcome = "selling" /\ sell.phase # "safetyFlattening"
  BY DEF SubmitSell, At
<1>2. sell \in SellRecords /\ OrdersMore(sell)
      /\ "reconcilingSell" \in SellPhases
  BY <1>1, NoKill DEF SellPhases
<1> DEFINE known == [sell EXCEPT !.known = TRUE]
           s == To(known, "reconcilingSell")
           t == To(sell, "reconcilingSell")
<1>3. known \in SellRecords /\ known.requested = sell.requested
  BY <1>2 DEF SellRecords
<1>4. Submit(s, t)
  BY DEF SubmitSell
<1> HIDE DEF known
<1>5. s \in SellRecords /\ OrdersMore(s) /\ t \in SellRecords /\ OrdersMore(t)
  BY <1>2, <1>3, ToType DEF OrdersMore
<1> HIDE DEF s, t
<1> QED BY <1>1, <1>4, <1>5, SubmitKeeps

LEMMA ReplaySellKeeps ==
  ASSUME IInv, ReplaySell
  PROVE  IInv'
<1>1. outcome = "selling" /\ sell.phase # "safetyFlattening"
  BY DEF ReplaySell, At
<1>2. sell \in SellRecords /\ OrdersMore(sell)
  BY <1>1, NoKill
<1> DEFINE s == [sell EXCEPT !.call = "second"]
           t == Unsafe(sell)
<1>3. s \in SellRecords /\ OrdersMore(s)
  BY <1>2 DEF SellRecords, OrdersMore
<1>4. t \in SellRecords /\ OrdersMore(t)
  BY <1>2, UnsafeType DEF OrdersMore
<1>5. Submit(s, t)
  BY DEF ReplaySell
<1> HIDE DEF s, t
<1> QED BY <1>1, <1>3, <1>4, <1>5, SubmitKeeps

LEMMA LookUpSellKeeps ==
  ASSUME IInv, LookUpSell
  PROVE  IInv'
<1>1. outcome = "selling" /\ sell.phase # "safetyFlattening"
  BY DEF LookUpSell, At
<1>2. /\ kill.phase = "idle" /\ AccountInv /\ sell \in SellRecords
      /\ OrdersMore(sell) /\ "reconcilingResidual" \in SellPhases
  BY <1>1, NoKill DEF SellPhases
<1>3. AccountInv'
  BY <1>2, AccountRests DEF LookUpSell, Answered
<1>4. CASE Answered(To([sell EXCEPT !.known = TRUE], "reconcilingResidual"))
  <2> DEFINE known == [sell EXCEPT !.known = TRUE]
             s == To(known, "reconcilingResidual")
  <2>1. known \in SellRecords /\ known.requested = sell.requested
    BY <1>2 DEF SellRecords
  <2> HIDE DEF known
  <2>2. s \in SellRecords /\ OrdersMore(s)
    BY <2>1, <1>2, ToType DEF OrdersMore
  <2>3. Send(s)
    BY <1>4 DEF Answered, known
  <2> HIDE DEF s
  <2> QED BY <2>2, <2>3, <1>1, <1>2, <1>3, SendKeeps
<1>5. CASE Answered(Unsafe(sell))
  BY <1>1, <1>2, <1>3, <1>5, UnsafeKeeps DEF Answered
<1> QED BY <1>4, <1>5 DEF LookUpSell

LEMMA ArmResidualKeeps ==
  ASSUME IInv, ArmResidual
  PROVE  IInv'
<1>1. outcome = "selling" /\ sell.phase = "armingResidual"
  BY DEF ArmResidual, At
<1>2. /\ kill.phase = "idle" /\ AccountInv /\ sell \in SellRecords
      /\ OrdersMore(sell) /\ sell.total \in Quantities /\ sell.total > Dust
      /\ "confirmingResidualProtection" \in SellPhases
      /\ base' = base /\ "residual" \in OrderIds
  BY <1>1, NoKill DEF SellPhases, OrdersMore, ArmResidual, OrderIds, ClientIds
<1>3. CASE /\ Accepts("residual", sell.total)
           /\ orders' = Placed("residual", sell.total, FALSE)
           /\ Send(To(sell, "confirmingResidualProtection"))
  <2> DEFINE s == To(sell, "confirmingResidualProtection")
  <2>1. AccountInv'
    BY <1>2, <1>3, PlacedKeeps
  <2>2. s \in SellRecords /\ OrdersMore(s)
    BY <1>2, ToType DEF OrdersMore
  <2> HIDE DEF s
  <2> QED BY <2>1, <2>2, <1>1, <1>2, <1>3, SendKeeps DEF s
<1>4. CASE \E o \in Lost("residual", sell.total, FALSE) \cup {orders}:
             orders' = o /\ Send(Unsafe(sell))
  <2>1. Send(Unsafe(sell))
        /\ (orders' = orders \/ orders' \in Lost("residual", sell.total, FALSE))
    BY <1>4
  <2>2. AccountInv'
    <3>1. CASE orders' = orders
      BY <3>1, <1>2, AccountRests DEF account
    <3>2. CASE orders' \in Lost("residual", sell.total, FALSE)
      BY <3>2, <1>2, LostKeeps
    <3> QED BY <2>1, <3>1, <3>2
  <2> QED BY <2>1, <2>2, <1>1, <1>2, UnsafeKeeps
<1> QED BY <1>3, <1>4 DEF ArmResidual, SubmitProtection

LEMMA ConfirmResidualKeeps ==
  ASSUME IInv, ConfirmResidual
  PROVE  IInv'
<1>1. outcome = "selling" /\ sell.phase # "safetyFlattening"
  BY DEF ConfirmResidual, At
<1>2. /\ kill.phase = "idle" /\ AccountInv /\ sell \in SellRecords
      /\ OrdersMore(sell) /\ "completed" \in SellPhases
  BY <1>1, NoKill DEF SellPhases
<1>3. AccountInv'
  BY <1>2, AccountRests DEF ConfirmResidual, Answered
<1>4. CASE Answered(To([sell EXCEPT !.sold = "SOLD_REPROTECTED"], "completed"))
  <2> DEFINE sold == [sell EXCEPT !.sold = "SOLD_REPROTECTED"]
             s == To(sold, "completed")
  <2>1. sold \in SellRecords /\ sold.requested = sell.requested
    BY <1>2 DEF SellRecords
  <2> HIDE DEF sold
  <2>2. s \in SellRecords /\ OrdersMore(s)
    BY <2>1, <1>2, ToType DEF OrdersMore
  <2>3. Send(s)
    BY <1>4 DEF Answered, sold
  <2> HIDE DEF s
  <2> QED BY <2>2, <2>3, <1>1, <1>2, <1>3, SendKeeps
<1>5. CASE Answered(Unsafe(sell))
  BY <1>1, <1>2, <1>3, <1>5, UnsafeKeeps DEF Answered
<1> QED BY <1>4, <1>5 DEF ConfirmResidual

(* A kill that begins has sent nothing.                                    *)
LEMMA KillRequestedType ==
  ASSUME NEW permitted \in BOOLEAN
  PROVE  LET k == KillRequested(permitted) IN
         /\ Attempts(k) /\ k.sent = {} /\ k.call = "first"
         /\ k.phase \in {"cancellingOrders", "failed"}
<1>1. Attempts(IdleKill)
  <2>1. /\ IdleKill.seen \in [total: Quantities, available: Quantities]
        /\ IdleKill.quantity \in Quantities
    BY BaseAssumption DEF IdleKill, Quantities
  <2>2. /\ IdleKill.step \in 0..MaxKillSteps
        /\ IdleKill.attempts \in [KillKinds -> Nat]
        /\ \A kind \in KillKinds: IdleKill.attempts[kind] <= KillLimits[kind]
    BY KillLimitsAssumption DEF IdleKill
  <2> QED BY <2>1, <2>2 DEF Attempts, KillRecords, IdleKill, KillPhases
<1> QED BY <1>1 DEF Attempts, KillRequested, KillRecords, IdleKill, KillPhases

LEMMA IdleKillType ==
  Attempts(IdleKill) /\ IdleKill.sent = {} /\ IdleKill.phase = "idle"
<1>1. /\ IdleKill.seen \in [total: Quantities, available: Quantities]
      /\ IdleKill.quantity \in Quantities
  BY BaseAssumption DEF IdleKill, Quantities
<1>2. /\ IdleKill.step \in 0..MaxKillSteps
      /\ IdleKill.attempts \in [KillKinds -> Nat]
      /\ \A kind \in KillKinds: IdleKill.attempts[kind] <= KillLimits[kind]
  BY KillLimitsAssumption DEF IdleKill
<1> QED BY <1>1, <1>2 DEF Attempts, KillRecords, IdleKill, KillPhases

(* The account at rest, and the kill at its beginning or gone.             *)
LEMMA KillResets ==
  ASSUME IInv, UNCHANGED account, Rest',
         \/ kill' = IdleKill
         \/ Owner' /\ \E permitted \in BOOLEAN: kill' = KillRequested(permitted)
  PROVE  IInv'
<1>1. AccountInv'
  BY Parts, AccountRests
<1>2. CASE kill' = IdleKill
  <2>1. Attempts(kill)' /\ KillInForm' /\ FlattenInForm'
    BY <1>2, IdleKillType
       DEF Attempts, KillInForm, FlattenInForm, Killing, Reading
  <2> QED BY <1>1, <2>1, Parts
<1>3. CASE Owner' /\ \E permitted \in BOOLEAN: kill' = KillRequested(permitted)
  <2>1. /\ Attempts(kill') /\ kill'.sent = {}
        /\ kill'.phase \in {"cancellingOrders", "failed"}
    BY <1>3, KillRequestedType
  <2>2. Attempts(kill)' /\ KillInForm' /\ FlattenInForm'
    BY <1>3, <2>1
       DEF Attempts, KillInForm, FlattenInForm, Killing, Cancelling, Reading
  <2> QED BY <1>1, <2>2, Parts
<1> QED BY <1>2, <1>3

LEMMA SafetyKillKeeps ==
  ASSUME IInv, BeginSafetyKill \/ EndSafetyKill
  PROVE  IInv'
<1>1. Rest /\ sell \in SellRecords /\ OrdersMore(sell)
  BY Parts DEF Rest, SellInForm, BeginSafetyKill, EndSafetyKill, At
<1>2. CASE BeginSafetyKill
  <2>1. Rest' /\ Owner' /\ UNCHANGED account
    BY <1>1, <1>2, RestStays DEF BeginSafetyKill, Owner
  <2>2. TRUE \in BOOLEAN /\ kill' = KillRequested(TRUE)
    BY <1>2 DEF BeginSafetyKill
  <2> QED BY <2>1, <2>2, KillResets
<1>3. CASE EndSafetyKill
  <2>1. PICK phase \in {"safetyCompleted", "failed"}: sell' = To(sell, phase)
    BY <1>3 DEF EndSafetyKill
  <2>2. {"safetyCompleted", "failed"} \subseteq SellPhases
    BY DEF SellPhases
  <2>3. sell' \in SellRecords /\ OrdersMore(sell')
    BY <1>1, <2>1, <2>2, ToType DEF OrdersMore
  <2>4. Rest'
    BY <1>1, <1>3, <2>3 DEF Rest, SellInForm, EndSafetyKill
  <2> QED BY <1>3, <2>4, KillResets DEF EndSafetyKill
<1> QED BY <1>2, <1>3

LEMMA FinishKeeps ==
  ASSUME IInv, Finish
  PROVE  IInv'
<1>1. /\ kill.phase = "idle" /\ AccountInv /\ Rest
      /\ sell \in SellRecords
  BY NoKill, Parts DEF Finish
<1>2. AccountInv' /\ kill' = kill
  BY <1>1, AccountRests DEF Finish
<1>3. outcome' \in {"confirmed", "protectionFailed", "failed"}
  BY DEF Finish
<1>4. sell' \in SellRecords
  BY <1>1, ForgottenType DEF Finish
<1>5. Rest'
  BY <1>1, <1>3, <1>4 DEF Finish, Rest, SellInForm, Outcomes
<1> QED BY <1>1, <1>2, <1>5, IdleKeeps

LEMMA SellStepKeeps ==
  ASSUME IInv, SellStep
  PROVE  IInv'
BY PersistKeeps, ListProtectionsKeeps, CancelProtectionsKeeps,
   ReconcileAccountKeeps, SubmitSellKeeps, ReplaySellKeeps, LookUpSellKeeps,
   ArmResidualKeeps, ConfirmResidualKeeps, SafetyKillKeeps, FinishKeeps
   DEF SellStep

LEMMA SubmitLiveSellKeeps ==
  ASSUME IInv, SubmitLiveSell
  PROVE  IInv'
<1>1. AccountInv /\ Rest /\ KillInForm /\ sell \in SellRecords
  BY Parts DEF Rest
<1>2. kill.phase = "idle"
  BY <1>1 DEF KillInForm, Owner, At, SubmitLiveSell
<1>3. AccountInv' /\ kill' = kill
  BY <1>1, AccountRests DEF SubmitLiveSell
<1> PICK requested \in Requests:
      sell' = To([NoSell EXCEPT !.requested = requested],
                 "cancellingProtections")
  BY DEF SubmitLiveSell
<1> DEFINE s == [NoSell EXCEPT !.requested = requested]
<1>4. requested \in Quantities /\ requested > Dust
  BY SellAssumption, BaseAssumption DEF Quantities
<1>5. s \in SellRecords /\ s.requested = requested
  <2>1. NoSell \in SellRecords
    BY <1>1, ForgottenType
  <2> QED BY <1>4, <2>1 DEF SellRecords, NoSell
<1>6. "cancellingProtections" \in SellPhases
  BY DEF SellPhases
<1> HIDE DEF s
<1>7. sell' = To(s, "cancellingProtections")
  BY DEF s
<1>8. sell' \in SellRecords /\ OrdersMore(sell')
  BY <1>4, <1>5, <1>6, <1>7, ToType DEF OrdersMore
<1>9. Rest'
  BY <1>1, <1>8 DEF SubmitLiveSell, Rest, SellInForm, Outcomes
<1> QED BY <1>2, <1>3, <1>9, IdleKeeps

LEMMA ResumeSellKeeps ==
  ASSUME IInv, ResumeSell
  PROVE  IInv'
<1>1. AccountInv /\ Rest /\ KillInForm /\ sell \in SellRecords
      /\ checkpoint \in SellRecords
  BY Parts DEF Rest
<1>2. kill.phase = "idle"
  BY <1>1 DEF KillInForm, Owner, At, ResumeSell
<1>3. AccountInv' /\ kill' = kill
  BY <1>1, AccountRests DEF ResumeSell
<1>4. CASE checkpoint # NoSell
  <2>1. sell' = To(checkpoint, checkpoint.phase) /\ OrdersMore(checkpoint)
        /\ checkpoint.phase \in SellPhases
    BY <1>1, <1>4 DEF ResumeSell, Rest, SellInForm, SellRecords
  <2>2. sell' \in SellRecords /\ OrdersMore(sell')
    BY <1>1, <2>1, ToType DEF OrdersMore
  <2>3. Rest'
    BY <1>1, <2>2 DEF ResumeSell, Rest, SellInForm, Outcomes
  <2> QED BY <1>2, <1>3, <2>3, IdleKeeps
<1>5. CASE checkpoint = NoSell
  <2>1. sell' = To(sell, "cancellingProtections") /\ OrdersMore(sell)
        /\ "cancellingProtections" \in SellPhases
    BY <1>1, <1>5 DEF ResumeSell, Rest, SellInForm, SellPhases
  <2>2. sell' \in SellRecords /\ OrdersMore(sell')
    BY <1>1, <2>1, ToType DEF OrdersMore
  <2>3. Rest'
    BY <1>1, <2>2 DEF ResumeSell, Rest, SellInForm, Outcomes
  <2> QED BY <1>2, <1>3, <2>3, IdleKeeps
<1> QED BY <1>4, <1>5

LEMMA BeginKillKeeps ==
  ASSUME IInv, BeginKill
  PROVE  IInv'
<1>1. Rest
  BY Parts
<1>2. Rest' /\ Owner' /\ UNCHANGED account
  BY <1>1 DEF BeginKill, Rest, SellInForm, Outcomes, Owner
<1> QED BY <1>2, KillResets DEF BeginKill

LEMMA EndKillKeeps ==
  ASSUME IInv, EndKill
  PROVE  IInv'
<1>1. AccountInv /\ Rest /\ KillInForm /\ FlattenInForm /\ Attempts(kill)
  BY Parts
<1>2. /\ AccountInv' /\ OpenIds' = OpenIds /\ orders' = orders
      /\ base' = base /\ kill' = kill
  BY <1>1, AccountRests DEF EndKill, account
<1>3. outcome' \in {"killed", "killFailed"}
  BY DEF EndKill
<1>4. Rest' /\ Owner'
  BY <1>1, <1>3 DEF EndKill, Rest, SellInForm, Outcomes, Owner
<1>5. KillInForm' /\ FlattenInForm' /\ Attempts(kill)'
  BY <1>1, <1>2, <1>4
     DEF KillInForm, FlattenInForm, Attempts, Killing, Cancelling, Reading,
         Pending
<1> QED BY <1>2, <1>4, <1>5, Parts

LEMMA CrashKeeps ==
  ASSUME IInv, Crash
  PROVE  IInv'
<1>1. Rest /\ sell \in SellRecords
  BY Parts DEF Rest
<1>2. /\ sell' \in SellRecords /\ sell'.requested = sell.requested
      /\ sell'.phase = "none"
  BY <1>1, ForgottenType DEF Crash
<1>3. outcome' \in Outcomes /\ mishaps' \in 0..MaxMishaps
  BY <1>1, SellAssumption DEF Crash, Rest, Outcomes
<1>4. outcome' \in {"selling", "unknown"} => outcome \in {"selling", "unknown"}
  BY DEF Crash
<1>5. Rest'
  BY <1>1, <1>2, <1>3, <1>4 DEF Crash, Rest, SellInForm, OrdersMore
<1> QED BY <1>5, KillResets DEF Crash

LEMMA NextKeeps ==
  ASSUME IInv, [Next]_vars
  PROVE  IInv'
<1>1. CASE UNCHANGED vars
  <2>1. /\ UNCHANGED account /\ kill' = kill /\ UNCHANGED sellVars
    BY <1>1 DEF vars
  <2>2. /\ AccountInv' /\ OpenIds' = OpenIds /\ orders' = orders
        /\ base' = base /\ Rest' /\ (Owner => Owner')
    BY <2>1, Parts, AccountRests, RestStays DEF account
  <2>3. KillInForm' /\ FlattenInForm' /\ Attempts(kill)'
    BY <2>1, <2>2, Parts
       DEF KillInForm, FlattenInForm, Attempts, Killing, Cancelling, Reading,
           Pending
  <2> QED BY <2>2, <2>3, Parts
<1> QED BY <1>1, KillStepKeeps, SellStepKeeps, SubmitLiveSellKeeps,
           ResumeSellKeeps, BeginKillKeeps, EndKillKeeps, CrashKeeps,
           ExchangeKeeps DEF Next

(* A position under its bracket is in form.                                *)
LEMMA InitInForm ==
  ASSUME Init
  PROVE  IInv
<1>0. PICK stray \in {NoOrder} \cup
         {[NewOrder(n, TRUE) EXCEPT !.side = "BUY"]: n \in 1..(MaxBase - base)}:
      orders = [i \in OrderIds |->
                  CASE i = "bracket" /\ base > 0 -> NewOrder(base, FALSE)
                    [] i = "stray" -> stray
                    [] OTHER -> NoOrder]
  BY DEF Init
<1>1. base \in 0..MaxBase /\ base \in Quantities
  BY SellAssumption, BaseAssumption DEF Init, Quantities
<1>2. NoOrder \in OrderRecords /\ NewOrder(base, FALSE) \in OrderRecords
  BY <1>1, OrderTypes
<1>3. /\ stray \in OrderRecords
      /\ stray = NoOrder \/
           (/\ stray.status = "open" /\ stray.side = "BUY"
            /\ base + stray.left <= MaxBase)
  <2>1. CASE stray = NoOrder
    BY <2>1, <1>2
  <2>2. CASE stray # NoOrder
    <3>1. PICK n \in 1..(MaxBase - base):
            stray = [NewOrder(n, TRUE) EXCEPT !.side = "BUY"]
      BY <2>2
    <3>2. n \in Quantities /\ base + n <= MaxBase
      BY <1>1, BaseAssumption DEF Quantities
    <3>3. NewOrder(n, TRUE) \in OrderRecords
      BY <3>2, OrderTypes
    <3> QED BY <3>1, <3>2, <3>3 DEF NewOrder, NoOrder, OrderRecords
  <2> QED BY <2>1, <2>2
<1>15. /\ NoOrder.status = "none" /\ NoOrder.side = "SELL"
       /\ NewOrder(base, FALSE).status = "open"
       /\ NewOrder(base, FALSE).side = "SELL"
       /\ NewOrder(base, FALSE).left = base
  BY DEF NoOrder, NewOrder
<1>4. \A i \in OrderIds:
        \/ i = "bracket" /\ base > 0 /\ orders[i] = NewOrder(base, FALSE)
        \/ i = "stray" /\ orders[i] = stray
        \/ orders[i] = NoOrder
  BY <1>0
<1>5. orders \in Orders
  BY <1>0, <1>2, <1>3 DEF Orders
<1>6. SellIds(orders) \subseteq {"bracket"}
  <2>1. NoOrder.status = "none"
    BY DEF NoOrder
  <2> QED BY <2>1, <1>3, <1>4 DEF SellIds
<1>7. Held <= base
  <2>1. CASE "bracket" \in SellIds(orders)
    <3>1. SellIds(orders) = {} \cup {"bracket"} /\ "bracket" \in OrderIds
      BY <1>6, <2>1 DEF SellIds
    <3>2. orders["bracket"].left = base
      <4>1. orders["bracket"].status = "open"
        BY <2>1 DEF SellIds
      <4>2. orders["bracket"] = NewOrder(base, FALSE)
        BY <4>1, <3>1, <1>4, <1>15
      <4> QED BY <4>2, <1>15
    <3>3. HeldBy(orders) = Cardinality(Increments(orders, {}))
                             + orders["bracket"].left
      BY <1>5, <3>1, OneOrderMore DEF HeldBy
    <3>4. Cardinality(Increments(orders, {})) = 0
      <4>1. Increments(orders, {}) = {}
        BY DEF Increments
      <4> QED BY <4>1, FS_EmptySet
    <3>5. orders["bracket"].left \in Nat
      BY <1>5, <3>1, BaseAssumption DEF Orders, OrderRecords, Quantities
    <3> QED BY <3>2, <3>3, <3>4, <3>5, HeldIs
  <2>2. CASE "bracket" \notin SellIds(orders)
    <3>1. SellIds(orders) = {}
      BY <1>6, <2>2
    <3> QED BY <3>1, <1>1, NothingHeld, HeldIs
  <2> QED BY <2>1, <2>2
<1>8. Accounted
  <2>1. \A i \in OpenIds: orders[i].side = "BUY" =>
          base + orders[i].left <= MaxBase
    BY <1>3, <1>4, <1>15 DEF OpenIds
  <2> QED BY <2>1, <1>1, <1>7 DEF Accounted
<1>9. OrdersInForm
  <2> SUFFICES ASSUME NEW i \in OrderIds
               PROVE  /\ orders[i].side = "BUY" => i = "stray"
                      /\ orders[i].status # "late"
    BY DEF OrdersInForm
  <2> QED BY <1>3, <1>4, <1>15
<1>10. AccountInv
  BY <1>1, <1>5, <1>8, <1>9 DEF AccountInv, AccountType, Orders
<1>11. sell = NoSell /\ checkpoint = NoSell /\ NoSell \in SellRecords
  BY BaseAssumption DEF Init, NoSell, SellRecords, SellPhases, Quantities
<1>12. Rest
  BY <1>11, SellAssumption DEF Init, Rest, Outcomes, SellInForm
<1>13. kill = IdleKill
  BY DEF Init
<1>14. Attempts(kill) /\ KillInForm /\ FlattenInForm
  BY <1>13, IdleKillType DEF KillInForm, FlattenInForm, Killing, Reading
<1> QED BY <1>10, <1>12, <1>14, Parts

-----------------------------------------------------------------------------
(* The invariant holds of every execution.                                 *)
THEOREM Soundness == Spec => []IInv
<1>1. Init => IInv
  BY InitInForm
<1>2. IInv /\ [Next]_vars => IInv'
  BY NextKeeps
<1> QED BY <1>1, <1>2, PTL DEF Spec

(* Every quantity is one the exchange can hold: nothing is sold twice, and *)
(* no retry goes over its limit (coinbase-control.ts, executeCoinbaseKill  *)
(* and executeCoinbaseProtectedSell).                                      *)
THEOREM TypeCorrectness == Spec => []TypeOK
<1>1. IInv => TypeOK
  BY DEF IInv
<1> QED BY <1>1, Soundness, PTL

(* A kill never has two flattening orders of its own in doubt, whatever    *)
(* answers are lost, late or wrong (coinbase-control.ts,                   *)
(* flattenReconciledPosition; live-account-control.machine.ts).            *)
THEOREM OneFlatten == Spec => []OneFlattenInDoubt
<1>1. IInv => OneFlattenInDoubt
  <2> SUFFICES ASSUME IInv
               PROVE  OneFlattenInDoubt
    OBVIOUS
  <2> DEFINE doubtful == {i \in kill.sent: Pending(i)}
  <2>1. \A i, j \in doubtful: i = j
    BY Parts DEF FlattenInForm
  <2>2. CASE doubtful = {}
    BY <2>2, FS_EmptySet DEF OneFlattenInDoubt
  <2>3. CASE doubtful # {}
    <3>1. PICK i: doubtful = {i}
      BY <2>1, <2>3
    <3>2. Cardinality({i}) = 1
      BY FS_Singleton
    <3> QED BY <3>1, <3>2 DEF OneFlattenInDoubt
  <2> QED BY <2>2, <2>3
<1> QED BY <1>1, Soundness, PTL

-----------------------------------------------------------------------------
(* The steps of a kill.  Each one is paid for: a retry by the limit of its *)
(* kind, another round of cancellations by an order that is settled in it, *)
(* another flattening order by its limit, and the rest is a bounded run.   *)
RetriesLeft(k) ==
  2 * ((KillLimits["cancellation"] - k.attempts["cancellation"])
       + (KillLimits["reconciliation"] - k.attempts["reconciliation"])
       + (KillLimits["verification"] - k.attempts["verification"]))
  + 4 * (KillLimits["flatten"] - k.attempts["flatten"])

Rank(k) ==
  CASE k.phase = "cancellingOrders" -> 2
    [] k.phase = "retryingCancellation" -> 3
    [] k.phase \in {"retryingReconciliation", "retryingVerification"} -> 2
    [] k.phase \in {"reconcilingPosition", "verifyingFlat"} -> 1
    [] k.phase = "flatteningPosition" -> IF k.call = "first" THEN 4 ELSE 2
    [] OTHER -> 0

Unsettled ==
  {i \in OrderIds: \/ orders[i].status = "late"
                   \/ orders[i].status = "open" /\ ~Cancelling}

KillBudget == 2 + RetriesLeft(IdleKill) + 2 * Cardinality(OrderIds)

Budgeted ==
  Killing => kill.step + Rank(kill) + RetriesLeft(kill)
               + 2 * Cardinality(Unsettled) <= KillBudget

LEMMA RetriesType ==
  ASSUME NEW k, Attempts(k)
  PROVE  RetriesLeft(k) \in Nat
<1>1. \A kind \in KillKinds: KillLimits[kind] - k.attempts[kind] \in Nat
  BY KillLimitsAssumption DEF Attempts, KillRecords
<1> QED BY <1>1, PhasesAndKinds DEF RetriesLeft

LEMMA RetryCosts ==
  ASSUME NEW k, Attempts(k), NEW kind \in KillKinds, Left(k, kind)
  PROVE  RetriesLeft(Spend(k, kind))
           = RetriesLeft(k) - (IF kind = "flatten" THEN 4 ELSE 2)
<1>1. \A other \in KillKinds:
        /\ KillLimits[other] \in Nat /\ k.attempts[other] \in Nat
        /\ Spend(k, kind).attempts[other]
             = k.attempts[other] + (IF other = kind THEN 1 ELSE 0)
  <2>1. k.attempts \in [KillKinds -> Nat] /\ KillLimits \in [KillKinds -> Nat]
    BY KillLimitsAssumption DEF Attempts, KillRecords
  <2>2. Spend(k, kind).attempts
          = [k.attempts EXCEPT ![kind] = k.attempts[kind] + 1]
    BY SpendType
  <2> QED BY <2>1, <2>2
<1>2. kind \in {"cancellation", "reconciliation", "flatten", "verification"}
  BY PhasesAndKinds
<1> QED BY <1>1, <1>2, PhasesAndKinds DEF RetriesLeft

LEMMA BudgetTypes ==
  ASSUME IInv
  PROVE  /\ kill.step \in Nat /\ RetriesLeft(kill) \in Nat
         /\ Rank(kill) \in Nat /\ (Killing => Rank(kill) > 0)
         /\ Cardinality(Unsettled) \in Nat /\ IsFiniteSet(Unsettled)
         /\ Cardinality(Unsettled) <= Cardinality(OrderIds)
         /\ KillBudget \in Nat /\ Cardinality(OrderIds) \in Nat
<1>1. Attempts(kill)
  BY Parts
<1>2. kill.step \in Nat /\ kill.phase \in KillPhases
  BY <1>1, KillLimitsAssumption DEF Attempts, KillRecords
<1>3. RetriesLeft(kill) \in Nat /\ RetriesLeft(IdleKill) \in Nat
  BY <1>1, RetriesType, IdleKillType
<1>4. Rank(kill) \in Nat /\ (Killing => Rank(kill) > 0)
  BY <1>2 DEF Rank, Killing, KillPhases
<1>5. Unsettled \in SUBSET OrderIds
  BY DEF Unsettled
<1>6. /\ IsFiniteSet(Unsettled) /\ Cardinality(Unsettled) \in Nat
      /\ Cardinality(OrderIds) \in Nat
      /\ Cardinality(Unsettled) <= Cardinality(OrderIds)
  BY <1>5, FiniteIds, FS_Subset, FS_CardinalityType
<1> QED BY <1>2, <1>3, <1>4, <1>6 DEF KillBudget

(* What a step costs, and what it leaves unsettled.                        *)
LEMMA BudgetStep ==
  ASSUME IInv, IInv', Budgeted, Killing,
         NEW more \in Int, NEW costs \in Int,
         Cardinality(Unsettled') <= Cardinality(Unsettled) + more,
         Killing' => kill'.step + Rank(kill') + RetriesLeft(kill')
                       <= kill.step + Rank(kill) + RetriesLeft(kill) - costs,
         2 * more <= costs
  PROVE  Budgeted'
<1>1. /\ kill.step \in Nat /\ RetriesLeft(kill) \in Nat /\ Rank(kill) \in Nat
      /\ Cardinality(Unsettled) \in Nat /\ KillBudget \in Nat
  BY BudgetTypes
<1>2. /\ kill'.step \in Nat /\ RetriesLeft(kill') \in Nat
      /\ Rank(kill') \in Nat /\ Cardinality(Unsettled') \in Nat
  <2>1. Attempts(kill') /\ Unsettled' \in SUBSET OrderIds
    BY Parts DEF Attempts, Unsettled
  <2>2. kill'.step \in Nat /\ kill'.phase \in KillPhases
    BY <2>1, KillLimitsAssumption DEF Attempts, KillRecords
  <2>3. Rank(kill') \in Nat
    BY <2>2 DEF Rank
  <2> QED BY <2>1, <2>2, <2>3, RetriesType, FiniteIds, FS_Subset,
             FS_CardinalityType
<1> QED BY <1>1, <1>2 DEF Budgeted

LEMMA UnsettledShrinks ==
  ASSUME IInv, Quiet, Cancelling => Cancelling'
  PROVE  Unsettled' \in SUBSET Unsettled
         /\ Cardinality(Unsettled') <= Cardinality(Unsettled) + 0
<1>1. Unsettled' \in SUBSET Unsettled
  BY DEF Unsettled, Quiet, Pending
<1>2. Cardinality(Unsettled') <= Cardinality(Unsettled)
  BY <1>1, BudgetTypes, FS_Subset
<1>3. Cardinality(Unsettled) \in Nat
  BY BudgetTypes
<1> QED BY <1>1, <1>2, <1>3

(* A call that fails is paid for by the limit of its kind.                 *)
LEMMA RetryBudget ==
  ASSUME IInv, IInv', Budgeted, Killing, kill.step < MaxKillSteps,
         NEW kind \in KillKinds, kind # "flatten",
         NEW retryable \in BOOLEAN, NEW phase \in KillPhases,
         kill' = RetryOrFail(kill, kind, retryable, phase),
         Quiet, Cancelling => phase = "retryingCancellation",
         \/ /\ phase = "retryingCancellation"
            /\ kill.phase = "cancellingOrders"
         \/ phase \in {"retryingReconciliation", "retryingVerification"}
            /\ kill.phase \in {"reconcilingPosition", "verifyingFlat"}
  PROVE  Budgeted'
<1>1. Attempts(kill)
  BY Parts
<1>2. CASE retryable /\ Left(kill, kind)
  <2>1. kill' = Turn(Spend(kill, kind), phase)
    BY <1>2 DEF RetryOrFail
  <2>2. /\ Attempts(Spend(kill, kind)) /\ Spend(kill, kind).step = kill.step
        /\ RetriesLeft(Spend(kill, kind)) = RetriesLeft(kill) - 2
    BY <1>1, <1>2, SpendType, RetryCosts
  <2>3. /\ kill'.step = kill.step + 1 /\ kill'.phase = phase
        /\ kill'.attempts = Spend(kill, kind).attempts
    BY <2>1, <2>2, TurnType
  <2>4. RetriesLeft(kill') = RetriesLeft(kill) - 2
    BY <2>2, <2>3 DEF RetriesLeft
  <2>5. Rank(kill') = Rank(kill) + 1
    BY <2>3 DEF Rank
  <2>6. Cardinality(Unsettled') <= Cardinality(Unsettled) + 0
    BY <2>3, UnsettledShrinks DEF Cancelling
  <2>7. kill'.step + Rank(kill') + RetriesLeft(kill')
          <= kill.step + Rank(kill) + RetriesLeft(kill) - 0
    BY <2>3, <2>4, <2>5, BudgetTypes
  <2> QED BY <2>6, <2>7, BudgetStep
<1>3. CASE ~(retryable /\ Left(kill, kind))
  <2>1. kill' = Turn(kill, "failed")
    BY <1>3 DEF RetryOrFail
  <2>2. kill'.phase = "failed"
    BY <2>1, <1>1, TurnType, PhasesAndKinds
  <2> QED BY <2>2 DEF Budgeted, Killing
<1> QED BY <1>2, <1>3

(* A phase that leads to another one of lower rank.                        *)
LEMMA TurnBudget ==
  ASSUME IInv, IInv', Budgeted, Killing, kill.step < MaxKillSteps,
         NEW k, Attempts(k), k.step = kill.step,
         NEW phase \in KillPhases, kill' = Turn(k, phase),
         NEW more \in Int, NEW costs \in Int, 2 * more <= costs,
         Cardinality(Unsettled') <= Cardinality(Unsettled) + more,
         RetriesLeft(k) = RetriesLeft(kill),
         Rank(kill') + costs < Rank(kill)
  PROVE  Budgeted'
<1>1. /\ kill'.step = kill.step + 1 /\ kill'.phase = phase
      /\ kill'.attempts = k.attempts
  BY TurnType
<1>2. RetriesLeft(kill') = RetriesLeft(kill)
  BY <1>1 DEF RetriesLeft
<1>3. /\ kill.step \in Nat /\ RetriesLeft(kill) \in Nat /\ Rank(kill) \in Nat
  BY BudgetTypes
<1>4. Rank(kill') \in Nat
  BY <1>1 DEF Rank
<1>5. kill'.step + Rank(kill') + RetriesLeft(kill')
        <= kill.step + Rank(kill) + RetriesLeft(kill) - costs
  BY <1>1, <1>2, <1>3, <1>4
<1> QED BY <1>5, BudgetStep

LEMMA ListOrdersBudget ==
  ASSUME IInv, IInv', Budgeted, ListOrders
  PROVE  Budgeted'
<1>1. /\ Killing /\ kill.step < MaxKillSteps /\ Attempts(kill) /\ AccountInv
      /\ kill.phase = "cancellingOrders" /\ Cancelling
  BY Parts DEF ListOrders, In, Killing, Cancelling
<1>2. Quiet /\ OpenIds' = OpenIds /\ orders' = orders
  BY <1>1, AccountRests DEF ListOrders, Next1, CancellationFails
<1>3. CASE OpenIds = {} /\ kill' = Turn(kill, "reconcilingPosition")
  <2>1. kill'.phase = "reconcilingPosition"
    BY <1>1, <1>3, TurnType, PhasesAndKinds
  <2>2. Unsettled' = Unsettled
    BY <1>2, <1>3, <1>1 DEF Unsettled, OpenIds
  <2>3. Rank(kill) = 2 /\ Rank(kill') = 1
    BY <1>1, <2>1 DEF Rank
  <2>4. Cardinality(Unsettled') <= Cardinality(Unsettled) + 0
    BY <2>2, BudgetTypes
  <2>5. "reconcilingPosition" \in KillPhases /\ Rank(kill') + 0 < Rank(kill)
    BY <2>3, PhasesAndKinds
  <2> QED BY <1>1, <1>3, <2>4, <2>5, TurnBudget
<1>4. CASE kill' = [kill EXCEPT !.call = "second", !.listed = OpenIds]
  <2>1. /\ kill'.phase = kill.phase /\ kill'.step = kill.step
        /\ kill'.attempts = kill.attempts
    BY <1>1, <1>4 DEF Attempts, KillRecords
  <2>2. Rank(kill') = Rank(kill) /\ RetriesLeft(kill') = RetriesLeft(kill)
    BY <1>1, <2>1 DEF Rank, RetriesLeft
  <2>3. Cancelling'
    BY <1>1, <2>1 DEF Cancelling
  <2>4. kill'.step + Rank(kill') + RetriesLeft(kill')
          <= kill.step + Rank(kill) + RetriesLeft(kill) - 0
    BY <2>1, <2>2, BudgetTypes
  <2>5. Cardinality(Unsettled') <= Cardinality(Unsettled) + 0
    BY <1>2, <2>3, UnsettledShrinks
  <2> QED BY <1>1, <2>4, <2>5, BudgetStep
<1>5. CASE \E retryable \in BOOLEAN: CancellationFails(retryable)
  <2> PICK retryable \in BOOLEAN:
        kill' = RetryOrFail(kill, "cancellation", retryable,
                            "retryingCancellation")
    BY <1>5 DEF CancellationFails, Next1
  <2> QED BY <1>1, <1>2, RetryBudget, PhasesAndKinds
<1> QED BY <1>3, <1>4, <1>5 DEF ListOrders, Next1

LEMMA CancelOrdersBudget ==
  ASSUME IInv, IInv', Budgeted, CancelOrders
  PROVE  Budgeted'
<1>1. /\ Killing /\ kill.step < MaxKillSteps /\ Attempts(kill) /\ AccountInv
      /\ kill.phase = "cancellingOrders" /\ Cancelling
  BY Parts DEF CancelOrders, In, Killing, Cancelling
<1>2. Quiet
  <2>1. PICK ended: orders' = Cancelled(kill.listed, ended) \/ orders' = orders
    BY DEF CancelOrders
  <2>2. base' = base
    BY DEF CancelOrders
  <2>3. CASE orders' = orders
    BY <2>2, <2>3, <1>1, AccountRests DEF account
  <2>4. CASE orders' = Cancelled(kill.listed, ended)
    BY <2>2, <2>4, <1>1, CancelledKeeps
  <2> QED BY <2>1, <2>3, <2>4
<1>3. CASE kill' = [kill EXCEPT !.call = "third"]
  <2>1. /\ kill'.phase = kill.phase /\ kill'.step = kill.step
        /\ kill'.attempts = kill.attempts
    BY <1>1, <1>3 DEF Attempts, KillRecords
  <2>2. Rank(kill') = Rank(kill) /\ RetriesLeft(kill') = RetriesLeft(kill)
    BY <1>1, <2>1 DEF Rank, RetriesLeft
  <2>3. Cancelling'
    BY <1>1, <2>1 DEF Cancelling
  <2>4. kill'.step + Rank(kill') + RetriesLeft(kill')
          <= kill.step + Rank(kill) + RetriesLeft(kill) - 0
    BY <2>1, <2>2, BudgetTypes
  <2>5. Cardinality(Unsettled') <= Cardinality(Unsettled) + 0
    BY <1>2, <2>3, UnsettledShrinks
  <2> QED BY <1>1, <2>4, <2>5, BudgetStep
<1>4. CASE \E retryable \in BOOLEAN:
             kill' = RetryOrFail(kill, "cancellation", retryable,
                                 "retryingCancellation")
  BY <1>1, <1>2, <1>4, RetryBudget, PhasesAndKinds
<1> QED BY <1>3, <1>4 DEF CancelOrders

LEMMA RetryTimerBudget ==
  ASSUME IInv, IInv', Budgeted, RetryTimer
  PROVE  Budgeted'
<1>1. /\ Killing /\ kill.step < MaxKillSteps /\ Attempts(kill) /\ AccountInv
  BY Parts DEF RetryTimer, In, Killing
<1>2. Quiet
  BY <1>1, AccountRests DEF RetryTimer, Next1
<1>3. PICK phase \in KillPhases:
        /\ kill' = Turn(kill, phase)
        /\ \/ /\ kill.phase = "retryingCancellation"
              /\ phase = "cancellingOrders"
           \/ /\ kill.phase = "retryingReconciliation"
              /\ phase = "reconcilingPosition"
           \/ /\ kill.phase = "retryingVerification"
              /\ phase = "verifyingFlat"
  BY PhasesAndKinds DEF RetryTimer, Next1, In
<1>4. kill'.phase = phase
  BY <1>1, <1>3, TurnType
<1>5. Rank(kill') + 0 < Rank(kill)
  BY <1>3, <1>4 DEF Rank
<1>6. Cardinality(Unsettled') <= Cardinality(Unsettled) + 0
  BY <1>2, <1>3, <1>4, UnsettledShrinks DEF Cancelling
<1> QED BY <1>1, <1>3, <1>5, <1>6, TurnBudget

LEMMA ReadFailsBudget ==
  ASSUME IInv, IInv', Budgeted, In({"reconcilingPosition", "verifyingFlat"}),
         NEW retryable \in BOOLEAN, UNCHANGED account,
         kill' = RetryOrFail(kill, ReadKind(kill), retryable, ReadRetry(kill))
  PROVE  Budgeted'
<1>1. /\ Killing /\ ~Cancelling /\ kill.step < MaxKillSteps /\ AccountInv
      /\ kill.phase \in {"reconcilingPosition", "verifyingFlat"}
  BY Parts DEF In, Killing, Cancelling
<1>2. Quiet
  BY <1>1, AccountRests
<1>3. /\ ReadKind(kill) \in KillKinds /\ ReadKind(kill) # "flatten"
      /\ ReadRetry(kill) \in KillPhases
      /\ ReadRetry(kill) \in {"retryingVerification", "retryingReconciliation"}
  BY PhasesAndKinds DEF ReadKind, ReadRetry
<1> QED BY <1>1, <1>2, <1>3, RetryBudget

LEMMA ReadAccountBudget ==
  ASSUME IInv, IInv', Budgeted, ReadAccount
  PROVE  Budgeted'
<1>1. /\ Killing /\ ~Cancelling /\ kill.step < MaxKillSteps
      /\ Attempts(kill) /\ AccountInv
      /\ kill.phase \in {"reconcilingPosition", "verifyingFlat"}
      /\ UNCHANGED account
  BY Parts DEF ReadAccount, In, Killing, Cancelling, Next1, ReadFails
<1>2. CASE kill' = [kill EXCEPT !.call = "second",
                      !.seen = [total |-> base, available |-> Available]]
  <2>1. /\ kill'.phase = kill.phase /\ kill'.step = kill.step
        /\ kill'.attempts = kill.attempts
    BY <1>1, <1>2 DEF Attempts, KillRecords
  <2>2. Rank(kill') = Rank(kill) /\ RetriesLeft(kill') = RetriesLeft(kill)
    BY <1>1, <2>1 DEF Rank, RetriesLeft
  <2>3. Quiet
    BY <1>1, AccountRests
  <2>4. kill'.step + Rank(kill') + RetriesLeft(kill')
          <= kill.step + Rank(kill) + RetriesLeft(kill) - 0
    BY <2>1, <2>2, BudgetTypes
  <2>5. Cardinality(Unsettled') <= Cardinality(Unsettled) + 0
    BY <1>1, <2>3, UnsettledShrinks
  <2> QED BY <1>1, <2>4, <2>5, BudgetStep
<1>3. CASE \E retryable \in BOOLEAN: ReadFails(retryable)
  BY <1>1, <1>3, ReadFailsBudget DEF ReadFails, Next1, ReadAccount
<1> QED BY <1>2, <1>3 DEF ReadAccount, Next1

LEMMA CountOrdersBudget ==
  ASSUME IInv, IInv', Budgeted, CountOrders
  PROVE  Budgeted'
<1>1. /\ Killing /\ ~Cancelling /\ kill.step < MaxKillSteps
      /\ Attempts(kill) /\ AccountInv /\ UNCHANGED account
      /\ kill.phase \in {"reconcilingPosition", "verifyingFlat"}
  BY Parts DEF CountOrders, In, Killing, Cancelling, Next1, ReadFails
<1>2. Quiet /\ OpenIds' = OpenIds /\ orders' = orders
  BY <1>1, AccountRests
<1>3. Rank(kill) = 1
  BY <1>1 DEF Rank
<1>4. CASE \E retryable \in BOOLEAN: ReadFails(retryable)
  BY <1>1, <1>4, ReadFailsBudget DEF ReadFails, Next1, CountOrders
<1>5. CASE kill' = AccountReconciled(kill, kill.seen.total,
                                     kill.seen.available, Cardinality(OpenIds))
  <2> DEFINE total == kill.seen.total
             available == kill.seen.available
  <2>1. CASE Cardinality(OpenIds) > 0
    <3>1. kill' = Turn(kill, "cancellingOrders")
      BY <1>5, <2>1 DEF AccountReconciled
    <3>2. kill'.phase = "cancellingOrders"
      BY <3>1, <1>1, TurnType, PhasesAndKinds
    <3>3. PICK i \in OpenIds: TRUE
      <4>1. OpenIds # {}
        BY <2>1, FS_EmptySet
      <4> QED BY <4>1
    <3>4. i \in Unsettled /\ Unsettled' \in SUBSET (Unsettled \ {i})
      BY <1>1, <1>2, <3>2 DEF Unsettled, OpenIds, Cancelling
    <3>5. /\ IsFiniteSet(Unsettled \ {i})
          /\ Cardinality(Unsettled \ {i}) = Cardinality(Unsettled) - 1
      BY <3>4, BudgetTypes, FS_RemoveElement
    <3>6. Cardinality(Unsettled') <= Cardinality(Unsettled) - 1
      BY <3>4, <3>5, FS_Subset
    <3>7. Cardinality(Unsettled') <= Cardinality(Unsettled) + (-1)
      BY <3>6, BudgetTypes
    <3>8. Rank(kill') = 2
      BY <3>2 DEF Rank
    <3>9. /\ Rank(kill') + (-2) < Rank(kill) /\ 2 * (-1) <= -2
          /\ "cancellingOrders" \in KillPhases /\ -1 \in Int /\ -2 \in Int
      BY <1>3, <3>8, PhasesAndKinds
    <3> QED BY <1>1, <3>1, <3>7, <3>9, TurnBudget
  <2>2. CASE kill' = Turn(kill, "completed") \/ kill' = Turn(kill, "failed")
    <3>1. kill'.phase \in {"completed", "failed"}
      BY <1>1, <2>2, TurnType, PhasesAndKinds
    <3> QED BY <3>1 DEF Budgeted, Killing
  <2>3. CASE kill' = RetryOrFail(kill, ReadKind(kill), TRUE, ReadRetry(kill))
    <3>1. \E retryable \in BOOLEAN:
            kill' = RetryOrFail(kill, ReadKind(kill), retryable,
                                ReadRetry(kill))
      BY <2>3
    <3> QED BY <3>1, <1>1, ReadFailsBudget DEF CountOrders
  <2>4. CASE /\ MayFlatten(kill)
             /\ kill' = Turn([Spend(kill, "flatten")
                                EXCEPT !.quantity = available,
                                       !.unknown = FALSE],
                             "flatteningPosition")
    <3> DEFINE spent == Spend(kill, "flatten")
               next == [spent EXCEPT !.quantity = available, !.unknown = FALSE]
    <3>1. /\ Attempts(spent) /\ spent.step = kill.step
          /\ RetriesLeft(spent) = RetriesLeft(kill) - 4
      BY <1>1, <2>4, SpendType, RetryCosts, PhasesAndKinds DEF MayFlatten
    <3>2. /\ Attempts(next) /\ next.step = kill.step
          /\ next.attempts = spent.attempts
      BY <1>1, <3>1 DEF Attempts, KillRecords
    <3> HIDE DEF next
    <3>3. kill' = Turn(next, "flatteningPosition")
      BY <2>4 DEF next
    <3>4. /\ kill'.step = kill.step + 1 /\ kill'.call = "first"
          /\ kill'.phase = "flatteningPosition"
          /\ kill'.attempts = spent.attempts
      BY <1>1, <3>2, <3>3, TurnType, PhasesAndKinds
    <3>5. RetriesLeft(kill') = RetriesLeft(kill) - 4 /\ Rank(kill') = 4
      BY <3>1, <3>4 DEF RetriesLeft, Rank
    <3>6. kill'.step + Rank(kill') + RetriesLeft(kill')
            <= kill.step + Rank(kill) + RetriesLeft(kill) - 0
      BY <1>3, <3>4, <3>5, BudgetTypes
    <3>7. Cardinality(Unsettled') <= Cardinality(Unsettled) + 0
      BY <1>1, <1>2, UnsettledShrinks
    <3> QED BY <1>1, <3>6, <3>7, BudgetStep
  <2> QED BY <1>5, <2>1, <2>2, <2>3, <2>4 DEF AccountReconciled
<1> QED BY <1>4, <1>5 DEF CountOrders, Next1

LEMMA RejectedBudget ==
  ASSUME IInv, IInv', Budgeted, In({"flatteningPosition"}),
         UNCHANGED account, NEW retryable \in BOOLEAN,
         kill' = FlattenRejected(kill, retryable)
  PROVE  Budgeted'
<1>1. /\ Killing /\ ~Cancelling /\ Attempts(kill) /\ AccountInv
      /\ kill.step < MaxKillSteps /\ kill.phase = "flatteningPosition"
  BY Parts DEF In, Killing, Cancelling
<1>2. Cardinality(Unsettled') <= Cardinality(Unsettled) + 0
  BY <1>1, AccountRests, UnsettledShrinks
<1>3. CASE kill' = Turn(kill, "failed")
  <2>1. kill'.phase = "failed"
    BY <1>1, <1>3, TurnType, PhasesAndKinds
  <2> QED BY <2>1 DEF Budgeted, Killing
<1>4. CASE kill' = Turn(kill, "reconcilingPosition")
  <2>1. kill'.phase = "reconcilingPosition"
    BY <1>1, <1>4, TurnType, PhasesAndKinds
  <2>2. Rank(kill') + 0 < Rank(kill) /\ "reconcilingPosition" \in KillPhases
    BY <1>1, <2>1, PhasesAndKinds DEF Rank
  <2> QED BY <1>1, <1>2, <1>4, <2>2, TurnBudget
<1> QED BY <1>3, <1>4 DEF FlattenRejected

LEMMA SubmitFlattenBudget ==
  ASSUME IInv, IInv', Budgeted, SubmitFlatten
  PROVE  Budgeted'
<1> DEFINE i == FreshId
           q == kill.quantity
           sending == [kill EXCEPT !.sent = @ \cup {i}]
<1>1. /\ Killing /\ ~Cancelling /\ Attempts(kill) /\ AccountInv
      /\ kill.step < MaxKillSteps /\ kill.phase = "flatteningPosition"
      /\ kill.call = "first"
  BY Parts DEF SubmitFlatten, In, Killing, Cancelling
<1>2. i \in FlattenIds /\ i \in OrderIds
  BY DEF SubmitFlatten, FreshId, OrderIds
<1> HIDE DEF i
<1>3. /\ Attempts(sending) /\ sending.step = kill.step
      /\ sending.phase = kill.phase /\ sending.attempts = kill.attempts
  BY <1>1, <1>2 DEF Attempts, KillRecords
<1>4. Rank(kill) = 4
  BY <1>1 DEF Rank
<1>5. ASSUME \A j \in OrderIds \ {i}: orders'[j] = orders[j]
      PROVE  Cardinality(Unsettled') <= Cardinality(Unsettled) + 1
  <2>1. Unsettled' \in SUBSET (Unsettled \cup {i})
    BY <1>1, <1>5 DEF Unsettled
  <2>2. /\ IsFiniteSet(Unsettled \cup {i})
        /\ Cardinality(Unsettled \cup {i}) <= Cardinality(Unsettled) + 1
    <3>1. /\ IsFiniteSet(Unsettled \cup {i})
          /\ Cardinality(Unsettled \cup {i})
               = IF i \in Unsettled THEN Cardinality(Unsettled)
                 ELSE Cardinality(Unsettled) + 1
      BY BudgetTypes, FS_AddElement
    <3> QED BY <3>1, BudgetTypes
  <2>3. /\ Cardinality(Unsettled') <= Cardinality(Unsettled \cup {i})
        /\ Cardinality(Unsettled') \in Nat
        /\ Cardinality(Unsettled \cup {i}) \in Nat
    BY <2>1, <2>2, FS_Subset, FS_CardinalityType
  <2> QED BY <2>2, <2>3, BudgetTypes
<1>6. CASE /\ orders' = Placed(i, q, TRUE)
           /\ kill' = [sending EXCEPT !.call = "second", !.listed = {i}]
  <2>1. \A j \in OrderIds \ {i}: orders'[j] = orders[j]
    BY <1>1, <1>2, <1>6 DEF Placed, AccountInv, AccountType
  <2>2. /\ kill'.phase = "flatteningPosition" /\ kill'.call = "second"
        /\ kill'.step = kill.step /\ kill'.attempts = kill.attempts
    BY <1>1, <1>3, <1>6 DEF Attempts, KillRecords
  <2>3. Rank(kill') = 2 /\ RetriesLeft(kill') = RetriesLeft(kill)
    BY <2>2 DEF Rank, RetriesLeft
  <2>4. kill'.step + Rank(kill') + RetriesLeft(kill')
          <= kill.step + Rank(kill) + RetriesLeft(kill) - 2
    BY <1>4, <2>2, <2>3, BudgetTypes
  <2> QED BY <1>1, <1>5, <2>1, <2>4, BudgetStep
<1>7. CASE \E o \in Lost(i, q, TRUE):
             orders' = o /\ kill' = FlattenUnknown(sending)
  <2> DEFINE next == [sending EXCEPT !.unknown = TRUE]
  <2>1. \A j \in OrderIds \ {i}: orders'[j] = orders[j]
    <3>1. orders' \in Lost(i, q, TRUE)
      BY <1>7
    <3> QED BY <1>1, <1>2, <3>1 DEF Lost, Placed, AccountInv, AccountType
  <2>2. kill' = Turn(next, "verifyingFlat")
    BY <1>7 DEF FlattenUnknown
  <2>3. /\ Attempts(next) /\ next.step = kill.step
        /\ next.attempts = kill.attempts
    BY <1>3 DEF Attempts, KillRecords
  <2> HIDE DEF next
  <2>4. kill'.phase = "verifyingFlat"
    BY <1>1, <2>2, <2>3, TurnType, PhasesAndKinds
  <2>5. Rank(kill') + 2 < Rank(kill) /\ RetriesLeft(next) = RetriesLeft(kill)
        /\ "verifyingFlat" \in KillPhases
    BY <1>4, <2>3, <2>4, PhasesAndKinds DEF Rank, RetriesLeft
  <2> QED BY <1>1, <1>5, <2>1, <2>2, <2>3, <2>5, TurnBudget
<1>8. CASE \E retryable \in BOOLEAN:
             kill' = FlattenRejected(kill, retryable) /\ UNCHANGED orders
  <2>1. UNCHANGED account
    BY <1>8 DEF SubmitFlatten, account
  <2> QED BY <1>8, <2>1, RejectedBudget DEF SubmitFlatten, In
<1> QED BY <1>6, <1>7, <1>8 DEF SubmitFlatten, i

LEMMA LookUpFlattenBudget ==
  ASSUME IInv, IInv', Budgeted, LookUpFlatten
  PROVE  Budgeted'
<1>1. /\ Killing /\ ~Cancelling /\ Attempts(kill) /\ AccountInv
      /\ kill.step < MaxKillSteps /\ kill.call = "second"
      /\ kill.phase = "flatteningPosition" /\ UNCHANGED account
  BY Parts DEF LookUpFlatten, In, Killing, Cancelling, Next1
<1>2. Cardinality(Unsettled') <= Cardinality(Unsettled) + 0
  BY <1>1, AccountRests, UnsettledShrinks
<1>3. Rank(kill) = 2
  BY <1>1 DEF Rank
<1>4. CASE \E doubt \in BOOLEAN:
             kill' = Turn([kill EXCEPT !.unknown = doubt], "verifyingFlat")
  <2> PICK doubt \in BOOLEAN:
        kill' = Turn([kill EXCEPT !.unknown = doubt], "verifyingFlat")
    BY <1>4
  <2> DEFINE next == [kill EXCEPT !.unknown = doubt]
  <2>1. /\ Attempts(next) /\ next.step = kill.step
        /\ next.attempts = kill.attempts
    BY <1>1 DEF Attempts, KillRecords
  <2>2. kill' = Turn(next, "verifyingFlat")
    OBVIOUS
  <2> HIDE DEF next
  <2>3. kill'.phase = "verifyingFlat"
    BY <1>1, <2>1, <2>2, TurnType, PhasesAndKinds
  <2>4. Rank(kill') + 0 < Rank(kill) /\ RetriesLeft(next) = RetriesLeft(kill)
        /\ "verifyingFlat" \in KillPhases
    BY <1>3, <2>1, <2>3, PhasesAndKinds DEF Rank, RetriesLeft
  <2> QED BY <1>1, <1>2, <2>1, <2>2, <2>4, TurnBudget
<1>5. CASE kill' = FlattenRejected(kill, FALSE)
  <2>1. \E retryable \in BOOLEAN: kill' = FlattenRejected(kill, retryable)
    BY <1>5
  <2> QED BY <2>1, <1>1, RejectedBudget DEF LookUpFlatten
<1> QED BY <1>4, <1>5
        DEF LookUpFlatten, Next1, FlattenUnknown, FlattenConfirmed

(* A kill that begins has its whole budget.                                *)
LEMMA KillRequestedBudget ==
  ASSUME IInv', NEW permitted \in BOOLEAN, kill' = KillRequested(permitted)
  PROVE  Budgeted'
<1>1. Unsettled' \in SUBSET OrderIds
  BY DEF Unsettled
<1>2. /\ Cardinality(Unsettled') <= Cardinality(OrderIds)
      /\ Cardinality(Unsettled') \in Nat /\ Cardinality(OrderIds) \in Nat
  BY <1>1, FiniteIds, FS_Subset, FS_CardinalityType
<1>3. /\ kill'.step = 0 /\ kill'.attempts = IdleKill.attempts
      /\ kill'.phase \in {"cancellingOrders", "failed"}
  BY DEF KillRequested, IdleKill
<1>4. CASE kill'.phase = "failed"
  BY <1>4 DEF Budgeted, Killing
<1>5. CASE kill'.phase = "cancellingOrders"
  <2>1. Rank(kill') = 2 /\ RetriesLeft(kill') = RetriesLeft(IdleKill)
    BY <1>3, <1>5 DEF Rank, RetriesLeft
  <2>2. RetriesLeft(IdleKill) \in Nat
    BY RetriesType, IdleKillType
  <2> QED BY <1>2, <1>3, <2>1, <2>2 DEF Budgeted, KillBudget
<1> QED BY <1>3, <1>4, <1>5

LEMMA NextBudget ==
  ASSUME IInv, IInv', Budgeted, [Next]_vars
  PROVE  Budgeted'
<1>1. CASE Killing /\ KillStep
  BY <1>1, ListOrdersBudget, CancelOrdersBudget, RetryTimerBudget,
     ReadAccountBudget, CountOrdersBudget, SubmitFlattenBudget,
     LookUpFlattenBudget DEF KillStep
<1>2. CASE UNCHANGED <<kill>> /\ Quiet
  <2>1. Cardinality(Unsettled') <= Cardinality(Unsettled) + 0
    BY <1>2, UnsettledShrinks DEF Cancelling
  <2>2. CASE Killing
    <3>1. kill'.step + Rank(kill') + RetriesLeft(kill')
            <= kill.step + Rank(kill) + RetriesLeft(kill) - 0
      BY <1>2, BudgetTypes
    <3> QED BY <2>1, <2>2, <3>1, BudgetStep
  <2>3. CASE ~Killing
    BY <1>2, <2>3 DEF Budgeted, Killing
  <2> QED BY <2>2, <2>3
<1>3. CASE ~Killing /\ UNCHANGED kill
  BY <1>3 DEF Budgeted, Killing
<1>4. CASE kill' = IdleKill \/ \E permitted \in BOOLEAN:
                                 kill' = KillRequested(permitted)
  <2>1. CASE kill' = IdleKill
    BY <2>1, IdleKillType DEF Budgeted, Killing
  <2> QED BY <1>4, <2>1, KillRequestedBudget
<1>5. CASE ~Killing /\ SellStep
  <2>1. UNCHANGED kill \/ BeginSafetyKill \/ EndSafetyKill
    BY <1>5 DEF SellStep, Persist, ListProtections, CancelProtections,
       ReconcileAccount, SubmitSell, ReplaySell, LookUpSell, ArmResidual,
       ConfirmResidual, Finish, Answered, Send, Submit, SubmitProtection
  <2>2. BeginSafetyKill => \E permitted \in BOOLEAN:
                             kill' = KillRequested(permitted)
    BY DEF BeginSafetyKill
  <2>3. EndSafetyKill => kill' = IdleKill
    BY DEF EndSafetyKill
  <2> QED BY <1>3, <1>4, <1>5, <2>1, <2>2, <2>3
<1>6. CASE SubmitLiveSell \/ ResumeSell \/ EndKill
  <2>1. UNCHANGED kill /\ UNCHANGED account
    BY <1>6 DEF SubmitLiveSell, ResumeSell, EndKill
  <2> QED BY <2>1, <1>2, Parts, AccountRests
<1>7. CASE BeginKill \/ Crash
  BY <1>4, <1>7 DEF BeginKill, Crash
<1>8. CASE Exchange /\ UNCHANGED <<kill, sellVars>>
  <2>1. Quiet
    BY <1>8, Parts, FillKeeps, DieKeeps, ArriveKeeps DEF Exchange
  <2> QED BY <1>2, <1>8, <2>1
<1>9. CASE UNCHANGED vars
  <2>1. UNCHANGED kill /\ UNCHANGED account
    BY <1>9 DEF vars
  <2> QED BY <2>1, <1>2, Parts, AccountRests
<1> QED BY <1>1, <1>5, <1>6, <1>7, <1>8, <1>9 DEF Next

(* No kill ever takes more than its budget of steps.                       *)
THEOREM KillIsBudgeted == Spec => []Budgeted
<1>1. Init => Budgeted
  BY IdleKillType DEF Init, Budgeted, Killing
<1>2. IInv /\ IInv' /\ Budgeted /\ [Next]_vars => Budgeted'
  BY NextBudget
<1> QED BY <1>1, <1>2, Soundness, PTL DEF Spec

(* A kill that succeeded leaves at most dust and no open order, then and   *)
(* ever after; and the executor's bound of steps never ends one, provided  *)
(* it covers the retry limits and the identifiers in use at a time.        *)
THEOREM KillSafety ==
  ASSUME KillBudget <= MaxKillSteps
  PROVE  Spec => []KillMeansFlat
<1>1. IInv /\ Budgeted => KillMeansFlat
  <2> SUFFICES ASSUME IInv, Budgeted
               PROVE  KillMeansFlat
    OBVIOUS
  <2>1. kill.phase = "completed" => base <= Dust /\ OpenIds = {}
    BY Parts DEF KillInForm
  <2>2. ASSUME Killing
        PROVE  kill.step < MaxKillSteps
    <3>1. /\ kill.step \in Nat /\ RetriesLeft(kill) \in Nat
          /\ Rank(kill) \in Nat /\ Rank(kill) > 0
          /\ Cardinality(Unsettled) \in Nat /\ KillBudget \in Nat
      BY <2>2, BudgetTypes
    <3>2. kill.step + Rank(kill) + RetriesLeft(kill)
            + 2 * Cardinality(Unsettled) <= KillBudget
      BY <2>2 DEF Budgeted
    <3> QED BY <3>1, <3>2, KillLimitsAssumption
  <2> QED BY <2>1, <2>2 DEF KillMeansFlat, KillNeverExhausts
<1> QED BY <1>1, Soundness, KillIsBudgeted, PTL

(* With the code's numbers (live-account-control.machine.ts:13-16,         *)
(* MAX_CONTROL_STEPS of coinbase-control.ts) the bound covers a product    *)
(* with twelve flattening identifiers beside its other four.               *)
THEOREM CodeNumbers ==
  ASSUME KillLimits["cancellation"] = 3, KillLimits["reconciliation"] = 4,
         KillLimits["flatten"] = 2, KillLimits["verification"] = 4,
         MaxKillSteps = 64, Cardinality(OrderIds) <= 16
  PROVE  KillBudget <= MaxKillSteps
<1>1. Cardinality(OrderIds) \in Nat
  BY FiniteIds, FS_CardinalityType
<1>2. \A kind \in KillKinds: IdleKill.attempts[kind] = 0
  BY DEF IdleKill
<1> QED BY <1>1, <1>2, PhasesAndKinds DEF KillBudget, RetriesLeft

-----------------------------------------------------------------------------
(* Leaving a position refines AccountExit.  What a phase of the SELL, the  *)
(* one that runs or the one of the checkpoint, says of a balance b and of  *)
(* orders o.                                                               *)
OpenOf(o) == {i \in OrderIds: o[i].status = "open"}
Gone(o, ids) == \A i \in ids: o[i].status \notin {"late", "open"}
Unsent(o) == \A i \in FlattenIds \cup {"residual"}: o[i].status = "none"

(* The residual order is for all that is held, while nothing else is open. *)
Fits(total, b, o) ==
  /\ o["residual"].status = "none" => b = total
  /\ o["residual"].status = "late" => b = total /\ o["residual"].left = b
  /\ o["residual"].status = "open" => o["residual"].left = b
  /\ o["residual"].status \in {"late", "open"} => ~o["residual"].dying

Guarded(b, o) ==
  /\ o["residual"].status = "open" /\ o["residual"].side = "SELL"
  /\ o["residual"].left = b /\ ~o["residual"].dying
  /\ Gone(o, OrderIds \ {"residual"})

Resolved(b, o) ==
  Guarded(b, o) \/ (b <= Dust /\ \A i \in OpenOf(o): o[i].side = "SELL")

BeforeArming == {"reconcilingBeforeSell", "submittingSell", "reconcilingSell",
                 "reconcilingResidual"}
Arming == {"armingResidual", "confirmingResidualProtection"}

StandsAt(s, b, o) ==
  /\ s.phase \in BeforeArming \cup {"cancellingProtections"} => Unsent(o)
  /\ s.phase \in BeforeArming \cup Arming => Gone(o, {"bracket", "stray"})
  /\ s.phase \in Arming \cup {"reconcilingResidual"} =>
       Gone(o, OrderIds \ {"residual"}) /\ o["sell"].status = "done"
  /\ s.phase \in Arming => Fits(s.total, b, o)
  /\ s.phase = "completed" => Resolved(b, o)
  /\ s.phase = "safetyCompleted" => b <= Dust /\ OpenOf(o) = {}

NeverLate(o) == o["bracket"].status # "late" /\ o["stray"].status # "late"

(* The checkpoint is the one of the phase whose effect runs; a kill of the *)
(* cycle has none; without one nothing was sent yet.                       *)
CheckpointInForm ==
  /\ outcome = "selling" /\ sell.call # "checkpoint" =>
       /\ checkpoint.phase = sell.phase /\ checkpoint.total = sell.total
       /\ checkpoint # NoSell
  /\ outcome \in {"idle", "killing", "killed", "killFailed"} =>
       checkpoint = NoSell
  /\ outcome = "confirmed" => checkpoint.phase = "completed"
  /\ outcome = "protectionFailed" => checkpoint.phase = "safetyCompleted"
  /\ outcome = "killed" => kill.phase = "completed"
  /\ outcome \in {"idle", "selling", "unknown"} /\ checkpoint = NoSell =>
       Unsent(orders)

ExitInv ==
  /\ CheckpointInForm /\ NeverLate(orders)
  /\ outcome = "selling" => StandsAt(sell, base, orders)
  /\ StandsAt(checkpoint, base, orders)

LEMMA SomeIds == {"bracket", "stray", "sell", "residual"} \subseteq OrderIds
BY DEF OrderIds, ClientIds

(* One order at a time moves at the exchange.                              *)
LEMMA ExchangeMoves ==
  ASSUME AccountInv, NEW i \in OrderIds, Fill(i) \/ Die(i) \/ Arrive(i)
  PROVE  /\ Pending(i) /\ orders[i].status \notin {"none", "done"}
         /\ \A j \in OrderIds \ {i}: orders'[j] = orders[j]
<1>1. orders \in [OrderIds -> OrderRecords]
  BY DEF AccountInv, AccountType
<1>2. \E order: orders' = [orders EXCEPT ![i] = order]
  BY DEF Fill, Die, Arrive
<1> QED BY <1>1, <1>2 DEF Fill, Die, Arrive, OpenIds, Pending

LEMMA FlatStays ==
  ASSUME AccountInv, Exchange, base <= Dust, OpenIds = {}
  PROVE  base' = base /\ OpenIds' = {}
<1> PICK i \in OrderIds: Fill(i) \/ Die(i) \/ Arrive(i)
  BY DEF Exchange
<1>1. Arrive(i)
  BY DEF Fill, Die
<1>2. base' = base /\ orders' = [orders EXCEPT ![i] = NoOrder]
  BY <1>1, ArriveKeeps
<1> QED BY <1>2 DEF OpenIds, NoOrder, AccountInv, AccountType

LEMMA ShrinksWithoutBuys ==
  ASSUME AccountInv, NEW i \in OrderIds, Fill(i) \/ Die(i) \/ Arrive(i),
         \A j \in OpenIds: orders[j].side = "SELL"
  PROVE  base' <= base /\ \A j \in OpenIds': orders'[j].side = "SELL"
<1>1. AccountInv' /\ Quiet
  BY FillKeeps, DieKeeps, ArriveKeeps
<1>2. base' <= base
  <2>1. CASE Fill(i)
    BY <2>1, FillKeeps DEF Fill
  <2>2. CASE Die(i) \/ Arrive(i)
    BY <2>2, DieKeeps, ArriveKeeps, AvailableType
  <2> QED BY <2>1, <2>2
<1>3. ASSUME NEW j \in OrderIds, orders'[j].status = "open"
      PROVE  orders'[j].side = "SELL"
  <2>1. Pending(j) /\ orders'[j].side = orders[j].side
    BY <1>1, <1>3 DEF Quiet
  <2> QED BY <2>1, <1>3 DEF Pending, OpenIds, AccountInv, OrdersInForm
<1> QED BY <1>2, <1>3 DEF OpenIds

LEMMA OnlyOneOpen ==
  ASSUME NEW o, NEW i \in OrderIds, o[i].status = "open",
         Gone(o, OrderIds \ {i})
  PROVE  OpenOf(o) = {i}
BY DEF OpenOf, Gone

(* What one order holds when it is the only one.                           *)
LEMMA OneOrderFills ==
  ASSUME NEW o \in Orders, NEW i \in OrderIds
  PROVE  Cardinality(Increments(o, {i})) = o[i].left
<1>1. Cardinality(Increments(o, {} \cup {i}))
        = Cardinality(Increments(o, {})) + o[i].left
  BY OneOrderMore
<1>2. Increments(o, {}) = {} /\ {} \cup {i} = {i}
  BY DEF Increments
<1>3. o[i].left \in Nat
  BY BaseAssumption DEF Orders, OrderRecords, Quantities
<1> QED BY <1>1, <1>2, <1>3, FS_EmptySet

(* The residual order alone: it fills, and what it protects with it.       *)
LEMMA ResidualMoves ==
  ASSUME AccountInv, Fill("residual"), orders["residual"].side = "SELL",
         orders["residual"].left = base
  PROVE  \/ /\ orders'["residual"].status = "open"
            /\ orders'["residual"].side = "SELL"
            /\ orders'["residual"].left = base'
            /\ orders'["residual"].dying = orders["residual"].dying
         \/ orders'["residual"].status = "done" /\ base' = 0
<1> DEFINE i == "residual"
<1>0. i \in OrderIds /\ orders[i] \in OrderRecords
      /\ orders[i].status = "open"
  BY SomeIds DEF AccountInv, AccountType, Fill, OpenIds
<1> PICK n \in 1..orders[i].left:
      LET filled == [orders[i] EXCEPT !.left = @ - n, !.sold = TRUE] IN
      /\ base' = IF filled.side = "SELL" THEN base - n ELSE base + n
      /\ orders' = [orders EXCEPT
           ![i] = IF filled.left = 0 THEN Ended(filled) ELSE filled]
  BY DEF Fill
<1> DEFINE filled == [orders[i] EXCEPT !.left = @ - n, !.sold = TRUE]
<1>1. /\ filled.left = base - n /\ filled.side = "SELL"
      /\ filled.status = "open" /\ filled.dying = orders[i].dying
  BY <1>0 DEF OrderRecords
<1>2. base' = base - n
  BY <1>1
<1>3. orders'[i] = IF filled.left = 0 THEN Ended(filled) ELSE filled
  BY <1>0 DEF AccountInv, AccountType
<1>4. Ended(filled).status = "done"
  BY DEF Ended, NoOrder
<1> HIDE DEF filled
<1>5. CASE filled.left = 0
  BY <1>1, <1>2, <1>3, <1>4, <1>5
<1>6. CASE filled.left # 0
  BY <1>1, <1>2, <1>3, <1>6
<1> QED BY <1>5, <1>6

(* What the exchange does on its own contradicts no phase.                 *)
LEMMA FitsStays ==
  ASSUME AccountInv, NEW i \in OrderIds, Fill(i) \/ Die(i) \/ Arrive(i),
         Gone(orders, OrderIds \ {"residual"}),
         NEW total \in Quantities, Fits(total, base, orders)
  PROVE  Fits(total, base', orders')
<1>1. i = "residual" /\ i \in OrderIds
  BY ExchangeMoves DEF Pending, Gone
<1>2. /\ orders[i] \in OrderRecords /\ orders[i].side = "SELL"
      /\ base \in Nat /\ base \in Quantities
      /\ (Pending(i) => ~orders[i].dying)
  BY <1>1, AvailableType
     DEF AccountInv, AccountType, OrdersInForm, OrderRecords, Fits, Pending
<1>3. CASE Fill(i)
  <2>1. orders[i].status = "open" /\ orders[i].left = base
    BY <1>1, <1>3 DEF Fill, OpenIds, Fits
  <2> QED BY <1>1, <1>2, <1>3, <2>1, ResidualMoves DEF Fits, Pending
<1>4. CASE Die(i)
  BY <1>1, <1>2, <1>4 DEF Die, OpenIds, Pending
<1>5. CASE Arrive(i)
  <2>1. /\ orders[i].status = "late" /\ base = total /\ orders[i].left = base
    BY <1>1, <1>5 DEF Arrive, Fits
  <2>2. base' = base
    BY <1>5 DEF Arrive
  <2>3. orders'[i] = NoOrder \/ orders'[i] = [orders[i] EXCEPT !.status = "open"]
    BY <1>1, <1>5 DEF Arrive, AccountInv, AccountType
  <2>4. CASE orders'[i] = NoOrder
    BY <1>1, <2>1, <2>2, <2>4 DEF Fits, NoOrder
  <2>5. CASE orders'[i] = [orders[i] EXCEPT !.status = "open"]
    <3>1. /\ orders'[i].status = "open" /\ orders'[i].left = base'
          /\ orders'[i].dying = orders[i].dying
      BY <1>2, <2>1, <2>2, <2>5 DEF OrderRecords
    <3> QED BY <3>1, <1>1, <1>2, <2>1 DEF Fits, Pending
  <2> QED BY <2>3, <2>4, <2>5
<1> QED BY <1>3, <1>4, <1>5

LEMMA ResolvedStays ==
  ASSUME AccountInv, NEW i \in OrderIds, Fill(i) \/ Die(i) \/ Arrive(i),
         Resolved(base, orders)
  PROVE  Resolved(base', orders') /\ base' <= base
<1>1. AccountInv' /\ Quiet
  BY FillKeeps, DieKeeps, ArriveKeeps
<1>2. CASE base <= Dust /\ \A j \in OpenOf(orders): orders[j].side = "SELL"
  <2>1. base' <= base /\ \A j \in OpenIds': orders'[j].side = "SELL"
    BY <1>2, ShrinksWithoutBuys DEF OpenOf, OpenIds
  <2>2. base \in Int /\ base' \in Int
    BY <1>1, BaseAssumption DEF AccountInv, AccountType, Quantities
  <2> QED BY <1>2, <2>1, <2>2, BaseAssumption DEF Resolved, OpenOf, OpenIds
<1>3. CASE Guarded(base, orders)
  <2>1. i = "residual"
    BY <1>3, ExchangeMoves DEF Guarded, Gone, Pending
  <2>2. Fill("residual")
    BY <1>3, <2>1 DEF Guarded, Die, Arrive
  <2>3. orders["residual"].side = "SELL" /\ orders["residual"].left = base
    BY <1>3 DEF Guarded
  <2>4. base' <= base
    BY <2>1, <2>2, <2>3, FillKeeps
  <2>5. Gone(orders', OrderIds \ {"residual"})
    BY <1>3, <2>1, ExchangeMoves DEF Guarded, Gone
  <2>6. CASE /\ orders'["residual"].status = "open"
             /\ orders'["residual"].side = "SELL"
             /\ orders'["residual"].left = base'
             /\ orders'["residual"].dying = orders["residual"].dying
    BY <1>3, <2>4, <2>5, <2>6 DEF Resolved, Guarded
  <2>7. CASE orders'["residual"].status = "done" /\ base' = 0
    <3>1. OpenOf(orders') = {}
      BY <2>5, <2>7 DEF OpenOf, Gone
    <3> QED BY <3>1, <2>4, <2>7, BaseAssumption DEF Resolved
  <2> QED BY <2>2, <2>3, <2>6, <2>7, ResidualMoves
<1> QED BY <1>2, <1>3 DEF Resolved

LEMMA UnsentStays ==
  ASSUME AccountInv, NEW i \in OrderIds, Fill(i) \/ Die(i) \/ Arrive(i),
         Unsent(orders)
  PROVE  Unsent(orders')
<1> SUFFICES ASSUME NEW j \in FlattenIds \cup {"residual"}
             PROVE  orders'[j].status = "none"
  BY DEF Unsent
<1>1. j \in OrderIds /\ orders[j].status = "none"
  BY SomeIds DEF Unsent, OrderIds
<1>2. j # i
  BY <1>1, ExchangeMoves
<1> QED BY <1>1, <1>2, ExchangeMoves

LEMMA StandsStill ==
  ASSUME AccountInv, NEW i \in OrderIds, Fill(i) \/ Die(i) \/ Arrive(i),
         NEW s \in SellRecords, StandsAt(s, base, orders)
  PROVE  StandsAt(s, base', orders')
<1>1. /\ Pending(i) /\ orders[i].status \notin {"none", "done"}
      /\ \A j \in OrderIds \ {i}: orders'[j] = orders[j]
  BY ExchangeMoves
<1>2. Quiet
  BY FillKeeps, DieKeeps, ArriveKeeps
<1>3. Unsent(orders) => Unsent(orders')
  BY UnsentStays
<1>4. \A ids \in SUBSET OrderIds: Gone(orders, ids) => Gone(orders', ids)
  BY <1>2 DEF Gone, Quiet, Pending
<1>5. orders["sell"].status = "done" => orders'["sell"].status = "done"
  BY <1>1, SomeIds
<1>6. s.total \in Quantities
  BY DEF SellRecords
<1>7. s.phase = "safetyCompleted" => base' <= Dust /\ OpenOf(orders') = {}
  BY FlatStays DEF StandsAt, OpenOf, OpenIds, Exchange
<1>8. s.phase = "completed" => Resolved(base', orders')
  BY ResolvedStays DEF StandsAt
<1>9. s.phase \in Arming => Fits(s.total, base', orders')
  BY <1>6, FitsStays DEF StandsAt
<1>10. {"bracket", "stray"} \in SUBSET OrderIds
       /\ OrderIds \ {"residual"} \in SUBSET OrderIds
  BY SomeIds
<1> QED BY <1>3, <1>4, <1>5, <1>7, <1>8, <1>9, <1>10 DEF StandsAt

LEMMA ExchangeExit ==
  ASSUME IInv, IInv', ExitInv, Exchange, UNCHANGED <<kill, sellVars>>
  PROVE  ExitInv'
<1>1. AccountInv /\ sell \in SellRecords /\ checkpoint \in SellRecords
  BY Parts DEF Rest
<1> PICK i \in OrderIds: Fill(i) \/ Die(i) \/ Arrive(i)
  BY DEF Exchange
<1>2. /\ sell' = sell /\ checkpoint' = checkpoint /\ outcome' = outcome
      /\ kill' = kill
  BY DEF sellVars
<1>3. StandsAt(checkpoint, base', orders')
  BY <1>1, StandsStill DEF ExitInv
<1>4. outcome = "selling" => StandsAt(sell, base', orders')
  BY <1>1, StandsStill DEF ExitInv
<1>5. NeverLate(orders')
  <2>1. Quiet
    BY <1>1, FillKeeps, DieKeeps, ArriveKeeps
  <2> QED BY <2>1, SomeIds DEF NeverLate, ExitInv, Quiet
<1>6. Unsent(orders) => Unsent(orders')
  BY <1>1, UnsentStays
<1>7. CheckpointInForm'
  BY <1>2, <1>6 DEF CheckpointInForm, ExitInv
<1> QED BY <1>2, <1>3, <1>4, <1>5, <1>7 DEF ExitInv

(* Where the SELL stands depends on its phase and its total alone.         *)
LEMMA SameStand ==
  ASSUME NEW s, NEW t, NEW b, NEW o, s.phase = t.phase, s.total = t.total,
         StandsAt(s, b, o)
  PROVE  StandsAt(t, b, o)
BY DEF StandsAt

LEMMA NowhereStands ==
  ASSUME NEW s, NEW b, NEW o,
         s.phase \in {"none", "safetyFlattening", "failed"}
  PROVE  StandsAt(s, b, o)
BY DEF StandsAt, BeforeArming, Arming

LEMMA NoSellStands ==
  ASSUME NEW b, NEW o
  PROVE  StandsAt(NoSell, b, o)
<1>1. NoSell.phase = "none"
  BY DEF NoSell
<1> QED BY <1>1, NowhereStands

(* The kill moves only while the SELL says nothing of the account.         *)
LEMMA KillStepExit ==
  ASSUME IInv, ExitInv, Killing, KillStep, UNCHANGED sellVars
  PROVE  ExitInv'
<1>1. /\ AccountInv /\ Owner /\ CheckpointInForm /\ NeverLate(orders)
      /\ outcome # "killed"
  BY Parts DEF KillInForm, Killing, ExitInv, CheckpointInForm
<1>2. /\ sell' = sell /\ checkpoint' = checkpoint /\ outcome' = outcome
  BY DEF sellVars
<1>3. CheckpointInForm'
  BY <1>1, <1>2 DEF CheckpointInForm, Owner, At
<1>4. StandsAt(checkpoint, base', orders')
  <2>1. CASE outcome = "selling"
    <3>1. checkpoint.phase = "safetyFlattening"
      BY <2>1, <1>1 DEF Owner, At, CheckpointInForm
    <3> QED BY <3>1, NowhereStands
  <2>2. CASE outcome # "selling"
    <3>1. checkpoint = NoSell
      BY <2>2, <1>1 DEF Owner, At, CheckpointInForm
    <3> QED BY <3>1, NoSellStands
  <2> QED BY <2>1, <2>2
<1>5. outcome = "selling" => StandsAt(sell, base', orders')
  <2>1. outcome = "selling" => sell.phase = "safetyFlattening"
    BY <1>1 DEF Owner, At
  <2> QED BY <2>1, NowhereStands
<1>6. NeverLate(orders')
  <2>1. CASE Quiet
    BY <2>1, <1>1, SomeIds DEF NeverLate, Quiet
  <2>2. CASE SubmitFlatten
    <3>1. PICK i \in FlattenIds:
            \A j \in OrderIds \ {i}: orders'[j] = orders[j]
      <4> DEFINE i == FreshId
      <4>1. i \in FlattenIds /\ i \in OrderIds
        BY <2>2 DEF SubmitFlatten, FreshId, OrderIds
      <4> HIDE DEF i
      <4>2. \/ orders' = orders \/ orders' = Placed(i, kill.quantity, TRUE)
            \/ orders' \in Lost(i, kill.quantity, TRUE)
        BY <2>2 DEF SubmitFlatten, i
      <4>3. \A j \in OrderIds \ {i}: orders'[j] = orders[j]
        BY <4>1, <4>2, <1>1 DEF Placed, Lost, AccountInv, AccountType
      <4> QED BY <4>1, <4>3
    <3>2. i # "bracket" /\ i # "stray"
      BY BaseAssumption DEF ClientIds
    <3> QED BY <3>1, <3>2, <1>1, SomeIds DEF NeverLate
  <2>3. ~SubmitFlatten => Quiet
    <3>1. CASE CancelOrders
      <4>1. PICK ended: orders' = Cancelled(kill.listed, ended)
                          \/ orders' = orders
        BY <3>1 DEF CancelOrders
      <4>2. base' = base
        BY <3>1 DEF CancelOrders
      <4>3. CASE orders' = orders
        BY <4>2, <4>3, <1>1, AccountRests DEF account
      <4> QED BY <4>1, <4>2, <4>3, <1>1, CancelledKeeps
    <3>2. ~SubmitFlatten /\ ~CancelOrders => UNCHANGED account
      BY DEF KillStep, ListOrders, RetryTimer, ReadAccount, CountOrders,
             LookUpFlatten, Next1, CancellationFails, ReadFails
    <3> QED BY <3>1, <3>2, <1>1, AccountRests
  <2> QED BY <2>1, <2>2, <2>3
<1> QED BY <1>2, <1>3, <1>4, <1>5, <1>6 DEF ExitInv

(* The SELL goes on: its checkpoint stands where the effect began.         *)
LEMMA SendExit ==
  ASSUME ExitInv, outcome = "selling", sell.call # "checkpoint",
         NEW s, Send(s),
         s.call = "checkpoint"
           \/ (s.phase = sell.phase /\ s.total = sell.total),
         StandsAt(s, base', orders'), StandsAt(sell, base', orders'),
         NeverLate(orders')
  PROVE  ExitInv'
<1>1. /\ CheckpointInForm /\ sell' = s /\ checkpoint' = checkpoint
      /\ outcome' = outcome /\ kill' = kill
  BY DEF ExitInv, Send
<1>2. StandsAt(checkpoint, base', orders')
  BY <1>1, SameStand DEF CheckpointInForm
<1>3. CheckpointInForm'
  BY <1>1 DEF CheckpointInForm
<1> QED BY <1>1, <1>2, <1>3 DEF ExitInv

LEMMA UnsafeExit ==
  ASSUME IInv, ExitInv, outcome = "selling", sell.call # "checkpoint",
         Send(Unsafe(sell)), StandsAt(sell, base', orders'), NeverLate(orders')
  PROVE  ExitInv'
<1>1. Unsafe(sell).phase = "safetyFlattening"
      /\ Unsafe(sell).call = "checkpoint"
  <2>1. sell \in SellRecords /\ "safetyFlattening" \in SellPhases
    BY Parts DEF Rest, SellPhases
  <2> QED BY <2>1, ToType DEF Unsafe
<1>2. StandsAt(Unsafe(sell), base', orders')
  BY <1>1, NowhereStands
<1> QED BY <1>1, <1>2, SendExit

LEMMA PersistExit ==
  ASSUME IInv, ExitInv, Persist
  PROVE  ExitInv'
<1>1. /\ sell \in SellRecords /\ OrdersMore(sell) /\ CheckpointInForm
      /\ base' = base /\ orders' = orders /\ kill' = kill
      /\ outcome = "selling" /\ StandsAt(sell, base, orders)
      /\ StandsAt(checkpoint, base, orders) /\ NeverLate(orders)
  BY NoKill DEF Persist, ExitInv, account
<1>2. sell # NoSell
  BY <1>1, BaseAssumption DEF OrdersMore, NoSell
<1>3. CASE /\ checkpoint' = sell /\ sell' = [sell EXCEPT !.call = "first"]
           /\ UNCHANGED <<outcome, mishaps>>
  <2>1. sell'.phase = sell.phase /\ sell'.total = sell.total
    BY <1>1, <1>3 DEF SellRecords
  <2>2. StandsAt(sell', base, orders)
    BY <2>1, <1>1, SameStand
  <2>3. CheckpointInForm'
    BY <2>1, <1>1, <1>2, <1>3 DEF CheckpointInForm
  <2> QED BY <2>2, <2>3, <1>1, <1>3 DEF ExitInv
<1>4. CASE /\ outcome' = "unknown" /\ UNCHANGED checkpoint
  <2>1. CheckpointInForm'
    BY <1>1, <1>4 DEF CheckpointInForm
  <2> QED BY <2>1, <1>1, <1>4 DEF ExitInv
<1> QED BY <1>3, <1>4 DEF Persist

LEMMA ListProtectionsExit ==
  ASSUME IInv, ExitInv, ListProtections
  PROVE  ExitInv'
<1>1. /\ outcome = "selling" /\ sell.call # "checkpoint"
      /\ sell.phase = "cancellingProtections"
  BY DEF ListProtections, At
<1>2. /\ sell \in SellRecords /\ StandsAt(sell, base, orders)
      /\ NeverLate(orders) /\ base' = base /\ orders' = orders
  BY <1>1, NoKill DEF ExitInv, ListProtections, Answered, account
<1>3. CASE OpenIds = {} /\ Answered(To(sell, "reconcilingBeforeSell"))
  <2> DEFINE s == To(sell, "reconcilingBeforeSell")
  <2>1. "reconcilingBeforeSell" \in SellPhases
    BY DEF SellPhases
  <2>2. s.phase = "reconcilingBeforeSell" /\ s.call = "checkpoint"
    BY <2>1, <1>2, ToType
  <2>3. Gone(orders, {"bracket", "stray"}) /\ Unsent(orders)
    BY <1>1, <1>2, <1>3, SomeIds DEF Gone, OpenIds, NeverLate, StandsAt
  <2>4. StandsAt(s, base, orders)
    BY <2>2, <2>3 DEF StandsAt, BeforeArming, Arming
  <2> HIDE DEF s
  <2>5. Send(s)
    BY <1>3 DEF Answered, s
  <2> QED BY <2>2, <2>4, <2>5, <1>1, <1>2, SendExit
<1>4. CASE Answered([sell EXCEPT !.call = "second", !.listed = OpenIds])
  <2> DEFINE s == [sell EXCEPT !.call = "second", !.listed = OpenIds]
  <2>1. s.phase = sell.phase /\ s.total = sell.total
    BY <1>2 DEF SellRecords
  <2> HIDE DEF s
  <2>2. Send(s)
    BY <1>4 DEF Answered, s
  <2>3. StandsAt(s, base, orders)
    BY <2>1, <1>2, SameStand
  <2> QED BY <2>1, <2>2, <2>3, <1>1, <1>2, SendExit
<1>5. CASE Answered(Unsafe(sell))
  BY <1>1, <1>2, <1>5, UnsafeExit DEF Answered
<1> QED BY <1>3, <1>4, <1>5 DEF ListProtections

LEMMA CancelProtectionsExit ==
  ASSUME IInv, ExitInv, CancelProtections
  PROVE  ExitInv'
<1>1. /\ outcome = "selling" /\ sell.phase = "cancellingProtections"
      /\ sell.call # "checkpoint"
  BY DEF CancelProtections, At
<1>2. /\ AccountInv /\ sell \in SellRecords
      /\ StandsAt(sell, base, orders) /\ NeverLate(orders)
  BY <1>1, NoKill DEF ExitInv
<1> PICK ended \in {{}, sell.listed}, received \in BOOLEAN:
      /\ orders' = IF received THEN Cancelled(sell.listed, ended) ELSE orders
      /\ \/ Send([sell EXCEPT !.call = "third"])
         \/ Send(Unsafe(sell))
  BY DEF CancelProtections
<1>3. base' = base
  BY DEF CancelProtections
<1>4. Quiet /\ (Unsent(orders) => Unsent(orders'))
  <2>1. CASE received
    <3>1. \A i \in OrderIds: orders[i].status = "none" => orders'[i] = orders[i]
      BY <2>1 DEF Cancelled, OpenIds
    <3>2. Unsent(orders) => Unsent(orders')
      BY <3>1, SomeIds DEF Unsent, OrderIds
    <3> QED BY <2>1, <3>2, <1>2, <1>3, CancelledKeeps
  <2>2. CASE ~received
    BY <2>2, <1>2, <1>3, AccountRests DEF account
  <2> QED BY <2>1, <2>2
<1>5. NeverLate(orders')
  BY <1>2, <1>4, SomeIds DEF NeverLate, Quiet
<1>6. StandsAt(sell, base', orders')
  BY <1>1, <1>2, <1>4 DEF StandsAt, BeforeArming, Arming
<1>7. CASE Send([sell EXCEPT !.call = "third"])
  <2> DEFINE s == [sell EXCEPT !.call = "third"]
  <2>1. s.phase = sell.phase /\ s.total = sell.total
    BY <1>2 DEF SellRecords
  <2>2. Send(s)
    BY <1>7
  <2> HIDE DEF s
  <2>3. StandsAt(s, base', orders')
    BY <2>1, <1>6, SameStand
  <2> QED BY <2>1, <2>2, <2>3, <1>1, <1>5, <1>6, SendExit
<1>8. CASE Send(Unsafe(sell))
  BY <1>1, <1>5, <1>6, <1>8, UnsafeExit
<1> QED BY <1>7, <1>8

(* Nothing but the stray order buys.                                       *)
LEMMA NothingBuys ==
  ASSUME AccountInv, Gone(orders, {"bracket", "stray"})
  PROVE  \A i \in OpenOf(orders): orders[i].side = "SELL"
BY DEF AccountInv, AccountType, OrdersInForm, OrderRecords, OpenOf, Gone

LEMMA ReconcileAccountExit ==
  ASSUME IInv, ExitInv, ReconcileAccount
  PROVE  ExitInv'
<1>1. /\ outcome = "selling" /\ sell.call # "checkpoint"
      /\ sell.phase \in {"reconcilingBeforeSell", "reconcilingResidual"}
  BY DEF ReconcileAccount, At
<1>2. /\ AccountInv /\ sell \in SellRecords /\ base \in Quantities
      /\ StandsAt(sell, base, orders) /\ NeverLate(orders)
      /\ base' = base /\ orders' = orders
  BY <1>1, NoKill
     DEF ExitInv, AccountInv, AccountType, ReconcileAccount, Answered, account
<1>3. Gone(orders, {"bracket", "stray"}) /\ Unsent(orders)
  BY <1>1, <1>2 DEF StandsAt, BeforeArming
<1>4. ASSUME NEW s \in SellRecords, s.total = base,
             Send(To(s, "completed")), base <= Dust
      PROVE  ExitInv'
  <2>1. "completed" \in SellPhases
    BY DEF SellPhases
  <2>2. /\ To(s, "completed").phase = "completed"
        /\ To(s, "completed").call = "checkpoint"
    BY <2>1, <1>4, ToType
  <2>3. Resolved(base, orders)
    BY <1>2, <1>3, <1>4, NothingBuys DEF Resolved
  <2>4. StandsAt(To(s, "completed"), base, orders)
    BY <2>2, <2>3 DEF StandsAt, BeforeArming, Arming
  <2> QED BY <1>1, <1>2, <1>4, <2>2, <2>4, SendExit
<1>5. CASE Send(Unsafe(sell))
  BY <1>1, <1>2, <1>5, UnsafeExit
<1>6. ASSUME Send(Unsafe([sell EXCEPT !.total = base]))
      PROVE  ExitInv'
  <2> DEFINE t == [sell EXCEPT !.total = base]
  <2>1. t \in SellRecords /\ "safetyFlattening" \in SellPhases
    BY <1>2 DEF SellRecords, SellPhases
  <2>2. Unsafe(t).phase = "safetyFlattening" /\ Unsafe(t).call = "checkpoint"
    BY <2>1, ToType DEF Unsafe
  <2>3. StandsAt(Unsafe(t), base, orders)
    BY <2>2, NowhereStands
  <2>4. Send(Unsafe(t))
    BY <1>6
  <2> HIDE DEF t
  <2> QED BY <1>1, <1>2, <2>2, <2>3, <2>4, SendExit
<1>7. CASE sell.phase = "reconcilingBeforeSell"
           /\ Send(AccountBeforeSell(sell, base, Available))
  <2>1. CASE base <= Dust
    <3> DEFINE t == [sell EXCEPT !.total = base, !.sold = "NO_SELL_NEEDED"]
    <3>1. t \in SellRecords /\ t.total = base
      BY <1>2 DEF SellRecords
    <3>2. Send(To(t, "completed"))
      BY <1>7, <2>1 DEF AccountBeforeSell
    <3> HIDE DEF t
    <3> QED BY <3>1, <3>2, <2>1, <1>4
  <2>2. CASE Send(To([sell EXCEPT !.total = base], "submittingSell"))
    <3> DEFINE t == [sell EXCEPT !.total = base]
    <3>1. t \in SellRecords /\ "submittingSell" \in SellPhases
      BY <1>2 DEF SellRecords, SellPhases
    <3>2. /\ To(t, "submittingSell").phase = "submittingSell"
          /\ To(t, "submittingSell").call = "checkpoint"
      BY <3>1, ToType
    <3>3. StandsAt(To(t, "submittingSell"), base, orders)
      BY <3>2, <1>3 DEF StandsAt, BeforeArming, Arming
    <3>4. Send(To(t, "submittingSell"))
      BY <2>2
    <3> HIDE DEF t
    <3> QED BY <1>1, <1>2, <3>2, <3>3, <3>4, SendExit
  <2>3. CASE Send(Unsafe([sell EXCEPT !.total = base]))
    BY <2>3, <1>6
  <2> QED BY <1>7, <2>1, <2>2, <2>3 DEF AccountBeforeSell
<1>8. CASE sell.phase = "reconcilingResidual"
           /\ Send(AccountAfterSell(sell, base, Available))
  <2>1. CASE base <= Dust
    <3> DEFINE t == [sell EXCEPT !.total = base, !.sold = "SOLD_FLAT"]
    <3>1. t \in SellRecords /\ t.total = base
      BY <1>2 DEF SellRecords
    <3>2. Send(To(t, "completed"))
      BY <1>8, <2>1 DEF AccountAfterSell
    <3> HIDE DEF t
    <3> QED BY <3>1, <3>2, <2>1, <1>4
  <2>2. CASE Send(To([sell EXCEPT !.total = base], "armingResidual"))
    <3> DEFINE t == [sell EXCEPT !.total = base]
               s == To(t, "armingResidual")
    <3>1. t \in SellRecords /\ "armingResidual" \in SellPhases /\ t.total = base
      BY <1>2 DEF SellRecords, SellPhases
    <3> HIDE DEF t
    <3>2. s.phase = "armingResidual" /\ s.call = "checkpoint" /\ s.total = base
      BY <3>1, ToType
    <3>3. /\ Gone(orders, OrderIds \ {"residual"})
          /\ orders["sell"].status = "done"
          /\ orders["residual"].status = "none"
      BY <1>2, <1>3, <1>8 DEF StandsAt, Unsent
    <3>4. Fits(base, base, orders)
      BY <3>3 DEF Fits
    <3>5. StandsAt(s, base, orders)
      BY <3>2, <3>3, <3>4, <1>3 DEF StandsAt, BeforeArming, Arming
    <3>6. Send(s)
      BY <2>2 DEF t
    <3> HIDE DEF s
    <3> QED BY <1>1, <1>2, <3>2, <3>5, <3>6, SendExit
  <2>3. CASE Send(Unsafe([sell EXCEPT !.total = base]))
    BY <2>3, <1>6
  <2> QED BY <1>8, <2>1, <2>2, <2>3 DEF AccountAfterSell
<1> QED BY <1>5, <1>7, <1>8 DEF ReconcileAccount, Answered, At

(* A request names one order.                                              *)
LEMMA RequestMoves ==
  ASSUME orders \in Orders, NEW i \in OrderIds, NEW q, NEW dying,
         \/ orders' = orders \/ orders' = Placed(i, q, dying)
         \/ orders' \in Lost(i, q, dying)
  PROVE  /\ \A j \in OrderIds \ {i}: orders'[j] = orders[j]
         /\ \/ orders'[i] = orders[i]
            \/ ~Known(i) /\ orders'[i] = NewOrder(q, dying)
            \/ ~Known(i)
               /\ orders'[i] = [NewOrder(q, dying) EXCEPT !.status = "late"]
BY DEF Orders, Placed, Lost

Requesting == {"submittingSell", "reconcilingSell"}

LEMMA RequestExit ==
  ASSUME IInv, ExitInv, outcome = "selling", sell.call # "checkpoint",
         sell.phase \in Requesting, NEW s, Send(s), base' = base,
         s.phase \in Requesting \cup {"safetyFlattening"},
         s.call = "checkpoint"
           \/ (s.phase = sell.phase /\ s.total = sell.total),
         \/ orders' = orders
         \/ orders' = Placed("sell", sell.requested, TRUE)
         \/ orders' \in Lost("sell", sell.requested, TRUE)
  PROVE  ExitInv'
<1>1. /\ StandsAt(sell, base, orders) /\ NeverLate(orders)
      /\ orders \in Orders
  BY NoKill DEF ExitInv, Requesting, AccountInv, AccountType, Orders
<1>2. \A j \in OrderIds \ {"sell"}: orders'[j] = orders[j]
  <2>1. \E q, dying: \/ orders' = orders \/ orders' = Placed("sell", q, dying)
                    \/ orders' \in Lost("sell", q, dying)
    OBVIOUS
  <2> QED BY <2>1, <1>1, SomeIds, RequestMoves
<1>3. "sell" \notin FlattenIds
  BY BaseAssumption DEF ClientIds
<1>4. Unsent(orders) => Unsent(orders')
  BY <1>2, <1>3, SomeIds DEF Unsent, OrderIds
<1>5. Gone(orders, {"bracket", "stray"}) => Gone(orders', {"bracket", "stray"})
  BY <1>2, SomeIds DEF Gone
<1>6. NeverLate(orders')
  BY <1>1, <1>2, SomeIds DEF NeverLate
<1>7. StandsAt(sell, base', orders')
  BY <1>1, <1>4, <1>5 DEF StandsAt, Requesting, BeforeArming, Arming
<1>8. StandsAt(s, base', orders')
  BY <1>1, <1>4, <1>5 DEF StandsAt, Requesting, BeforeArming, Arming
<1> QED BY <1>6, <1>7, <1>8, SendExit

LEMMA SubmitSellExit ==
  ASSUME IInv, ExitInv, SubmitSell \/ ReplaySell
  PROVE  ExitInv'
<1>1. /\ outcome = "selling" /\ sell.call # "checkpoint"
      /\ sell.phase \in Requesting
  BY DEF SubmitSell, ReplaySell, At, Requesting
<1>2. sell \in SellRecords
  BY <1>1, NoKill DEF Requesting
<1>3. ASSUME NEW s, NEW t, Submit(s, t), Unsafe(sell) = Unsafe(sell)
      PROVE  /\ base' = base
             /\ Send(s) \/ Send(t) \/ Send(Unsafe(sell))
             /\ \/ orders' = orders
                \/ orders' = Placed("sell", sell.requested, TRUE)
                \/ orders' \in Lost("sell", sell.requested, TRUE)
  BY <1>3 DEF Submit
<1>4. /\ Unsafe(sell).phase = "safetyFlattening"
      /\ Unsafe(sell).call = "checkpoint"
  <2>1. "safetyFlattening" \in SellPhases
    BY DEF SellPhases
  <2> QED BY <2>1, <1>2, ToType DEF Unsafe
<1>5. CASE SubmitSell
  <2> DEFINE known == [sell EXCEPT !.known = TRUE]
             s == To(known, "reconcilingSell")
             t == To(sell, "reconcilingSell")
  <2>1. known \in SellRecords /\ "reconcilingSell" \in SellPhases
    BY <1>2 DEF SellRecords, SellPhases
  <2>2. Submit(s, t)
    BY <1>5 DEF SubmitSell
  <2> HIDE DEF known
  <2>3. /\ s.phase = "reconcilingSell" /\ s.call = "checkpoint"
        /\ t.phase = "reconcilingSell" /\ t.call = "checkpoint"
    BY <2>1, <1>2, ToType
  <2> HIDE DEF s, t
  <2> QED BY <1>1, <1>3, <1>4, <2>2, <2>3, RequestExit DEF Requesting
<1>6. CASE ReplaySell
  <2> DEFINE s == [sell EXCEPT !.call = "second"]
  <2>1. Submit(s, Unsafe(sell))
    BY <1>6 DEF ReplaySell
  <2>2. s.phase = sell.phase /\ s.total = sell.total
    BY <1>2 DEF SellRecords
  <2> HIDE DEF s
  <2> QED BY <1>1, <1>3, <1>4, <2>1, <2>2, RequestExit
<1> QED BY <1>5, <1>6

(* A SELL that has ended leaves nothing but the residual to be protected.  *)
LEMMA LookUpSellExit ==
  ASSUME IInv, ExitInv, LookUpSell
  PROVE  ExitInv'
<1>1. /\ outcome = "selling" /\ sell.call # "checkpoint"
      /\ sell.phase = "reconcilingSell"
  BY DEF LookUpSell, At
<1>2. /\ sell \in SellRecords /\ StandsAt(sell, base, orders)
      /\ NeverLate(orders) /\ base' = base /\ orders' = orders
  BY <1>1, NoKill DEF ExitInv, LookUpSell, Answered, account
<1>3. Gone(orders, {"bracket", "stray"}) /\ Unsent(orders)
  BY <1>1, <1>2 DEF StandsAt, BeforeArming
<1>4. CASE /\ orders["sell"].status = "done"
           /\ Answered(To([sell EXCEPT !.known = TRUE], "reconcilingResidual"))
  <2> DEFINE known == [sell EXCEPT !.known = TRUE]
             s == To(known, "reconcilingResidual")
  <2>1. known \in SellRecords /\ "reconcilingResidual" \in SellPhases
    BY <1>2 DEF SellRecords, SellPhases
  <2>2. Send(s)
    BY <1>4 DEF Answered
  <2> HIDE DEF known
  <2>3. s.phase = "reconcilingResidual" /\ s.call = "checkpoint"
    BY <2>1, ToType
  <2> HIDE DEF s
  <2>4. Gone(orders, OrderIds \ {"residual"})
    BY <1>3, <1>4 DEF Gone, Unsent, OrderIds, ClientIds
  <2>5. StandsAt(s, base, orders)
    BY <2>3, <2>4, <1>3, <1>4 DEF StandsAt, BeforeArming, Arming
  <2> QED BY <2>2, <2>3, <2>5, <1>1, <1>2, SendExit
<1>5. CASE Answered(Unsafe(sell))
  BY <1>1, <1>2, <1>5, UnsafeExit DEF Answered
<1> QED BY <1>4, <1>5 DEF LookUpSell

(* The residual order is placed for all that is held.                      *)
LEMMA ArmResidualExit ==
  ASSUME IInv, ExitInv, ArmResidual
  PROVE  ExitInv'
<1>1. /\ outcome = "selling" /\ sell.call # "checkpoint"
      /\ sell.phase = "armingResidual" /\ base' = base
  BY DEF ArmResidual, At
<1>2. /\ sell \in SellRecords /\ StandsAt(sell, base, orders)
      /\ NeverLate(orders) /\ orders \in Orders /\ sell.total \in Quantities
  BY <1>1, NoKill DEF ExitInv, AccountInv, AccountType, Orders
<1>3. /\ Gone(orders, {"bracket", "stray"})
      /\ Gone(orders, OrderIds \ {"residual"})
      /\ orders["sell"].status = "done" /\ Fits(sell.total, base, orders)
  BY <1>1, <1>2 DEF StandsAt, Arming
<1>4. /\ \/ orders' = orders
         \/ orders' = Placed("residual", sell.total, FALSE)
         \/ orders' \in Lost("residual", sell.total, FALSE)
      /\ \/ Send(To(sell, "confirmingResidualProtection"))
         \/ Send(Unsafe(sell))
  BY DEF ArmResidual, SubmitProtection
<1>5. /\ \A j \in OrderIds \ {"residual"}: orders'[j] = orders[j]
      /\ \/ orders'["residual"] = orders["residual"]
         \/ ~Known("residual")
            /\ orders'["residual"] = NewOrder(sell.total, FALSE)
         \/ ~Known("residual")
            /\ orders'["residual"]
                 = [NewOrder(sell.total, FALSE) EXCEPT !.status = "late"]
  BY <1>2, <1>4, SomeIds, RequestMoves
<1>6. ~Known("residual") => base = sell.total
  <2>1. orders["residual"].status \in {"none", "late", "open", "done"}
    BY <1>2, SomeIds DEF Orders, OrderRecords
  <2> QED BY <2>1, <1>3 DEF Known, Fits
<1>7. Fits(sell.total, base', orders')
  <2>1. CASE orders'["residual"] = orders["residual"]
    BY <2>1, <1>1, <1>3 DEF Fits
  <2>2. CASE ~Known("residual")
             /\ orders'["residual"] = NewOrder(sell.total, FALSE)
    <3>1. /\ orders'["residual"].status = "open"
          /\ orders'["residual"].left = sell.total
          /\ orders'["residual"].dying = FALSE
      BY <2>2 DEF NewOrder, NoOrder
    <3> QED BY <3>1, <2>2, <1>1, <1>6 DEF Fits
  <2>3. CASE ~Known("residual")
             /\ orders'["residual"]
                  = [NewOrder(sell.total, FALSE) EXCEPT !.status = "late"]
    <3>1. /\ orders'["residual"].status = "late"
          /\ orders'["residual"].left = sell.total
          /\ orders'["residual"].dying = FALSE
      BY <2>3 DEF NewOrder, NoOrder
    <3> QED BY <3>1, <2>3, <1>1, <1>6 DEF Fits
  <2> QED BY <1>5, <2>1, <2>2, <2>3
<1>8. /\ Gone(orders', {"bracket", "stray"})
      /\ Gone(orders', OrderIds \ {"residual"})
      /\ orders'["sell"].status = "done" /\ NeverLate(orders')
  BY <1>2, <1>3, <1>5, SomeIds DEF Gone, NeverLate
<1>9. StandsAt(sell, base', orders')
  BY <1>1, <1>7, <1>8 DEF StandsAt, BeforeArming, Arming
<1>10. CASE Send(To(sell, "confirmingResidualProtection"))
  <2> DEFINE s == To(sell, "confirmingResidualProtection")
  <2>1. "confirmingResidualProtection" \in SellPhases
    BY DEF SellPhases
  <2>2. /\ s.phase = "confirmingResidualProtection" /\ s.call = "checkpoint"
        /\ s.total = sell.total
    BY <2>1, <1>2, ToType
  <2> HIDE DEF s
  <2>3. StandsAt(s, base', orders')
    BY <2>2, <1>7, <1>8 DEF StandsAt, BeforeArming, Arming
  <2> QED BY <2>2, <2>3, <1>1, <1>8, <1>9, <1>10, SendExit DEF s
<1>11. CASE Send(Unsafe(sell))
  BY <1>1, <1>8, <1>9, <1>11, UnsafeExit
<1> QED BY <1>4, <1>10, <1>11

(* An open order of the whole residual guards it.                          *)
LEMMA ConfirmResidualExit ==
  ASSUME IInv, ExitInv, ConfirmResidual
  PROVE  ExitInv'
<1>1. /\ outcome = "selling" /\ sell.call # "checkpoint"
      /\ sell.phase = "confirmingResidualProtection"
  BY DEF ConfirmResidual, At
<1>2. /\ AccountInv /\ sell \in SellRecords /\ StandsAt(sell, base, orders)
      /\ NeverLate(orders) /\ base' = base /\ orders' = orders
  BY <1>1, NoKill DEF ExitInv, ConfirmResidual, Answered, account
<1>3. CASE /\ orders["residual"].status = "open"
           /\ Answered(To([sell EXCEPT !.sold = "SOLD_REPROTECTED"],
                          "completed"))
  <2> DEFINE sold == [sell EXCEPT !.sold = "SOLD_REPROTECTED"]
             s == To(sold, "completed")
  <2>1. sold \in SellRecords /\ "completed" \in SellPhases
    BY <1>2 DEF SellRecords, SellPhases
  <2>2. Send(s)
    BY <1>3 DEF Answered
  <2> HIDE DEF sold
  <2>3. s.phase = "completed" /\ s.call = "checkpoint"
    BY <2>1, ToType
  <2> HIDE DEF s
  <2>4. /\ Gone(orders, OrderIds \ {"residual"})
        /\ orders["residual"].left = base /\ ~orders["residual"].dying
    BY <1>1, <1>2, <1>3 DEF StandsAt, Arming, Fits
  <2>5. orders["residual"].side = "SELL"
    BY <1>2, SomeIds
       DEF AccountInv, AccountType, OrdersInForm, OrderRecords
  <2>6. Resolved(base, orders)
    BY <2>4, <2>5, <1>3 DEF Resolved, Guarded
  <2>7. StandsAt(s, base, orders)
    BY <2>3, <2>6 DEF StandsAt, BeforeArming, Arming
  <2> QED BY <2>2, <2>3, <2>7, <1>1, <1>2, SendExit
<1>4. CASE Answered(Unsafe(sell))
  BY <1>1, <1>2, <1>4, UnsafeExit DEF Answered
<1> QED BY <1>3, <1>4 DEF ConfirmResidual

LEMMA SafetyKillExit ==
  ASSUME IInv, ExitInv, BeginSafetyKill \/ EndSafetyKill
  PROVE  ExitInv'
<1>1. /\ outcome = "selling" /\ sell.call = "first"
      /\ base' = base /\ orders' = orders /\ outcome' = outcome
      /\ checkpoint' = checkpoint
  BY DEF BeginSafetyKill, EndSafetyKill, At, account, sellVars
<1>2. /\ sell \in SellRecords /\ CheckpointInForm /\ NeverLate(orders)
      /\ StandsAt(sell, base, orders) /\ StandsAt(checkpoint, base, orders)
      /\ (kill.phase = "completed" => base <= Dust /\ OpenIds = {})
  BY <1>1, Parts DEF ExitInv, Rest, KillInForm
<1>3. CASE BeginSafetyKill
  <2>1. sell' = sell
    BY <1>3 DEF BeginSafetyKill, sellVars
  <2>2. CheckpointInForm'
    BY <2>1, <1>1, <1>2 DEF CheckpointInForm
  <2> QED BY <2>1, <2>2, <1>1, <1>2 DEF ExitInv
<1>4. CASE EndSafetyKill
  <2>1. PICK phase \in {"safetyCompleted", "failed"}:
          /\ sell' = To(sell, phase)
          /\ phase = "safetyCompleted" => kill.phase = "completed"
    BY <1>4 DEF EndSafetyKill
  <2>2. phase \in SellPhases
    BY DEF SellPhases
  <2>3. sell'.phase = phase /\ sell'.call = "checkpoint"
    BY <2>1, <2>2, <1>2, ToType
  <2>4. phase = "safetyCompleted" => base <= Dust /\ OpenOf(orders) = {}
    BY <2>1, <1>2 DEF OpenOf, OpenIds
  <2>5. StandsAt(sell', base, orders)
    BY <2>3, <2>4 DEF StandsAt, BeforeArming, Arming
  <2>6. CheckpointInForm'
    BY <2>3, <1>1, <1>2 DEF CheckpointInForm
  <2> QED BY <2>5, <2>6, <1>1, <1>2 DEF ExitInv
<1> QED BY <1>3, <1>4

(* How the SELL ended is the phase of its checkpoint.                      *)
LEMMA FinishExit ==
  ASSUME ExitInv, Finish
  PROVE  ExitInv'
<1>1. /\ outcome = "selling" /\ sell.call = "first"
      /\ base' = base /\ orders' = orders /\ checkpoint' = checkpoint
      /\ kill' = kill
      /\ outcome' \in {"confirmed", "protectionFailed", "failed"}
      /\ outcome' = "confirmed" => sell.phase = "completed"
      /\ outcome' = "protectionFailed" => sell.phase = "safetyCompleted"
  BY DEF Finish, account
<1>2. /\ checkpoint.phase = sell.phase /\ NeverLate(orders)
      /\ StandsAt(checkpoint, base, orders)
  BY <1>1 DEF ExitInv, CheckpointInForm
<1>3. CheckpointInForm'
  BY <1>1, <1>2 DEF CheckpointInForm
<1> QED BY <1>1, <1>2, <1>3 DEF ExitInv

(* The cycle starts a SELL while nothing was sent, and goes on where the   *)
(* checkpoint says.                                                        *)
LEMMA SubmitLiveSellExit ==
  ASSUME ExitInv, SubmitLiveSell
  PROVE  ExitInv'
<1>1. /\ outcome = "idle" /\ outcome' = "selling"
      /\ base' = base /\ orders' = orders /\ checkpoint' = checkpoint
      /\ kill' = kill
  BY DEF SubmitLiveSell, account
<1>2. /\ checkpoint = NoSell /\ Unsent(orders) /\ NeverLate(orders)
      /\ StandsAt(checkpoint, base, orders)
  BY <1>1 DEF ExitInv, CheckpointInForm
<1>3. sell'.phase = "cancellingProtections" /\ sell'.call = "checkpoint"
  BY DEF SubmitLiveSell, To, NoSell
<1>4. StandsAt(sell', base, orders)
  BY <1>2, <1>3 DEF StandsAt, BeforeArming, Arming
<1>5. CheckpointInForm'
  BY <1>1, <1>2, <1>3 DEF CheckpointInForm
<1> QED BY <1>1, <1>2, <1>4, <1>5 DEF ExitInv

LEMMA ResumeSellExit ==
  ASSUME IInv, ExitInv, ResumeSell
  PROVE  ExitInv'
<1>1. /\ outcome = "unknown" /\ outcome' = "selling"
      /\ base' = base /\ orders' = orders /\ checkpoint' = checkpoint
      /\ kill' = kill
  BY DEF ResumeSell, account
<1>2. /\ CheckpointInForm /\ NeverLate(orders)
      /\ sell \in SellRecords /\ checkpoint \in SellRecords
      /\ checkpoint.phase \in SellPhases
      /\ StandsAt(checkpoint, base, orders)
  BY Parts DEF ExitInv, Rest, SellRecords
<1>3. StandsAt(sell', base, orders) /\ sell'.call = "checkpoint"
  <2>1. CASE checkpoint # NoSell
    <3> DEFINE s == To(checkpoint, checkpoint.phase)
    <3>1. /\ s.phase = checkpoint.phase /\ s.total = checkpoint.total
          /\ s.call = "checkpoint"
      BY <1>2, ToType
    <3>2. sell' = s
      BY <2>1 DEF ResumeSell
    <3> HIDE DEF s
    <3> QED BY <3>1, <3>2, <1>2, SameStand
  <2>2. CASE checkpoint = NoSell
    <3>1. sell' = To(sell, "cancellingProtections")
      BY <2>2 DEF ResumeSell
    <3>2. "cancellingProtections" \in SellPhases
      BY DEF SellPhases
    <3>3. sell'.phase = "cancellingProtections" /\ sell'.call = "checkpoint"
      BY <3>1, <3>2, <1>2, ToType
    <3>4. Unsent(orders)
      BY <2>2, <1>1, <1>2 DEF CheckpointInForm
    <3> QED BY <3>3, <3>4 DEF StandsAt, BeforeArming, Arming
  <2> QED BY <2>1, <2>2
<1>4. CheckpointInForm'
  BY <1>1, <1>2, <1>3 DEF CheckpointInForm
<1> QED BY <1>1, <1>2, <1>3, <1>4 DEF ExitInv

(* A kill of the cycle and an eviction leave the checkpoint alone.         *)
LEMMA CycleKillExit ==
  ASSUME ExitInv, BeginKill \/ EndKill \/ Crash
  PROVE  ExitInv'
<1>1. /\ base' = base /\ orders' = orders /\ checkpoint' = checkpoint
      /\ outcome' # "selling"
  BY DEF BeginKill, EndKill, Crash, account
<1>2. CheckpointInForm'
  <2>1. CASE BeginKill
    BY <2>1, <1>1 DEF BeginKill, ExitInv, CheckpointInForm
  <2>2. CASE EndKill
    BY <2>2, <1>1 DEF EndKill, ExitInv, CheckpointInForm
  <2>3. CASE Crash
    BY <2>3, <1>1 DEF Crash, ExitInv, CheckpointInForm
  <2> QED BY <2>1, <2>2, <2>3
<1> QED BY <1>1, <1>2 DEF ExitInv

LEMMA NextExit ==
  ASSUME IInv, IInv', ExitInv, [Next]_vars
  PROVE  ExitInv'
<1>1. CASE UNCHANGED vars
  <2>1. /\ base' = base /\ orders' = orders /\ checkpoint' = checkpoint
        /\ sell' = sell /\ outcome' = outcome /\ kill' = kill
    BY <1>1 DEF vars, account, sellVars
  <2>2. CheckpointInForm'
    BY <2>1 DEF ExitInv, CheckpointInForm
  <2> QED BY <2>1, <2>2 DEF ExitInv
<1>2. CASE SellStep
  BY <1>2, PersistExit, ListProtectionsExit, CancelProtectionsExit,
     ReconcileAccountExit, SubmitSellExit, LookUpSellExit, ArmResidualExit,
     ConfirmResidualExit, SafetyKillExit, FinishExit DEF SellStep
<1> QED BY <1>1, <1>2, KillStepExit, SubmitLiveSellExit, ResumeSellExit,
           CycleKillExit, ExchangeExit DEF Next

(* At first only the bracket may be open beside a stray order.             *)
LEMMA InitOrders ==
  ASSUME Init
  PROVE  \A i \in OrderIds:
           /\ orders[i].status \in {"none", "open"}
           /\ orders[i].status = "open" => i \in {"bracket", "stray"}
           /\ i = "bracket" => orders[i].left = base
<1>0. PICK stray \in {NoOrder} \cup
         {[NewOrder(n, TRUE) EXCEPT !.side = "BUY"]: n \in 1..(MaxBase - base)}:
      orders = [i \in OrderIds |->
                  CASE i = "bracket" /\ base > 0 -> NewOrder(base, FALSE)
                    [] i = "stray" -> stray
                    [] OTHER -> NoOrder]
  BY DEF Init
<1>1. base \in Nat
  BY SellAssumption, BaseAssumption DEF Init
<1>2. /\ NoOrder.status = "none" /\ NoOrder.left = 0
      /\ NewOrder(base, FALSE).status = "open"
      /\ NewOrder(base, FALSE).left = base
  BY DEF NoOrder, NewOrder
<1>3. stray.status \in {"none", "open"}
  BY <1>2 DEF NewOrder, NoOrder
<1>4. ASSUME NEW i \in OrderIds
      PROVE  /\ orders[i].status \in {"none", "open"}
             /\ orders[i].status = "open" => i \in {"bracket", "stray"}
             /\ i = "bracket" => orders[i].left = base
  <2>1. CASE i = "bracket" /\ base > 0
    <3>1. orders[i] = NewOrder(base, FALSE)
      BY <1>0, <2>1
    <3> QED BY <3>1, <2>1, <1>2
  <2>2. CASE i = "stray"
    <3>1. orders[i] = stray
      BY <1>0, <2>2
    <3> QED BY <3>1, <2>2, <1>3
  <2>3. CASE i # "stray" /\ ~(i = "bracket" /\ base > 0)
    <3>1. orders[i] = NoOrder
      BY <1>0, <2>3
    <3> QED BY <3>1, <2>3, <1>1, <1>2
  <2> QED BY <2>1, <2>2, <2>3
<1> QED BY <1>4

LEMMA InitExit ==
  ASSUME Init
  PROVE  ExitInv
<1>1. Unsent(orders) /\ NeverLate(orders)
  BY InitOrders, SomeIds, BaseAssumption
     DEF Unsent, NeverLate, OrderIds, ClientIds
<1>2. /\ checkpoint = NoSell /\ outcome = "idle"
  BY DEF Init
<1> QED BY <1>1, <1>2, NoSellStands DEF ExitInv, CheckpointInForm

THEOREM ExitInForm == Spec => []ExitInv
<1>1. Init => ExitInv
  BY InitExit
<1>2. IInv /\ IInv' /\ ExitInv /\ [Next]_vars => ExitInv'
  BY NextExit
<1> QED BY <1>1, <1>2, Soundness, PTL DEF Spec

-----------------------------------------------------------------------------
(* What the protective orders cover, as AccountExit sees it.               *)
CoveredBy(o) ==
  Cardinality(Increments(o, OpenOf(o) \cap {"bracket", "residual"}))

LEMMA CoveredIs == Covered = CoveredBy(orders) /\ Covered' = CoveredBy(orders')
<1>1. Covered = CoveredBy(orders)
  BY DEF Covered, ToFill, CoveredBy, Increments, OpenIds, OpenOf
<1>2. Covered' = CoveredBy(orders')
  BY DEF Covered, ToFill, CoveredBy, Increments, OpenIds, OpenOf
<1> QED BY <1>1, <1>2

LEMMA CoveredNat ==
  ASSUME NEW o \in Orders
  PROVE  CoveredBy(o) \in Nat
<1>1. OpenOf(o) \cap {"bracket", "residual"} \in SUBSET OrderIds
  BY DEF OpenOf
<1> QED BY <1>1, FiniteIncrements, FS_CardinalityType DEF CoveredBy

LEMMA NothingCovered ==
  ASSUME NEW o, OpenOf(o) \cap {"bracket", "residual"} = {}
  PROVE  CoveredBy(o) = 0
<1>1. Increments(o, {}) = {}
  BY DEF Increments
<1> QED BY <1>1, FS_EmptySet DEF CoveredBy

LEMMA OneCovers ==
  ASSUME NEW o \in Orders, NEW i \in {"bracket", "residual"},
         o[i].status = "open",
         \A j \in {"bracket", "residual"} \ {i}: o[j].status # "open"
  PROVE  CoveredBy(o) = o[i].left
<1>1. OpenOf(o) \cap {"bracket", "residual"} = {i} /\ i \in OrderIds
  BY SomeIds DEF OpenOf
<1> QED BY <1>1, OneOrderFills DEF CoveredBy

LEMMA ResolvedIsProtected ==
  ASSUME NEW b, NEW o \in Orders, Resolved(b, o)
  PROVE  b <= Dust \/ CoveredBy(o) = b
<1>1. CASE Guarded(b, o)
  <2>1. o["bracket"].status # "open" /\ o["residual"].status = "open"
        /\ o["residual"].left = b
    BY <1>1, SomeIds DEF Guarded, Gone
  <2> QED BY <2>1, OneCovers
<1> QED BY <1>1 DEF Resolved

(* Each state of the exit, seen as one of AccountExit.                     *)
LEMMA Statuses ==
  ASSUME IInv, IInv'
  PROVE  /\ base \in Nat /\ base' \in Nat
         /\ orders \in Orders /\ orders' \in Orders
         /\ Covered \in Nat /\ Covered' \in Nat
         /\ (UNCHANGED account => Covered' = Covered)
<1>1. AccountInv /\ AccountInv'
  BY Parts
<1>2. orders \in Orders /\ orders' \in Orders
  BY <1>1 DEF AccountInv, AccountType, Orders
<1>3. base \in Nat /\ base' \in Nat
  BY <1>1, BaseAssumption DEF AccountInv, AccountType, Quantities
<1> QED BY <1>2, <1>3, CoveredIs, CoveredNat DEF account

LEMMA InitExits ==
  ASSUME Init
  PROVE  Exit!Init
<1>1. orders \in Orders /\ base \in Nat
  BY InitInForm, BaseAssumption
     DEF IInv, TypeOK, AccountType, Orders, Quantities
<1>2. Covered \in 0..base
  <2>1. orders["residual"].status # "open"
        /\ orders["bracket"].left = base
    BY InitOrders, SomeIds
  <2>2. CASE orders["bracket"].status = "open"
    BY <2>1, <2>2, <1>1, OneCovers, CoveredIs
  <2>3. CASE orders["bracket"].status # "open"
    BY <2>1, <2>3, <1>1, NothingCovered, CoveredIs DEF OpenOf
  <2> QED BY <2>2, <2>3
<1>3. ExitStatus = "held"
  BY DEF Init, ExitStatus
<1> QED BY <1>1, <1>2, <1>3 DEF Exit!Init

LEMMA FinishExits ==
  ASSUME IInv, IInv', ExitInv, Finish
  PROVE  Exit!End
<1>1. /\ outcome = "selling" /\ ExitStatus = "exiting"
      /\ StandsAt(sell, base, orders)
      /\ base' = base /\ Covered' = Covered /\ orders \in Orders
  BY Statuses DEF Finish, ExitStatus, ExitInv, account
<1>2. CASE outcome' = "confirmed" /\ sell.phase = "completed"
  <2>1. base <= Dust \/ Covered = base
    BY <1>1, <1>2, CoveredIs, ResolvedIsProtected DEF StandsAt
  <2>2. ExitStatus' = "protected"
    BY <1>2 DEF ExitStatus
  <2> QED BY <1>1, <2>1, <2>2 DEF Exit!End, Exit!Protected, Exit!Flat
<1>3. CASE outcome' = "protectionFailed" /\ sell.phase = "safetyCompleted"
  <2>1. base <= Dust /\ Covered = 0
    BY <1>1, <1>3, CoveredIs, NothingCovered DEF StandsAt
  <2>2. ExitStatus' = "flat"
    BY <1>3 DEF ExitStatus
  <2> QED BY <1>1, <2>1, <2>2 DEF Exit!End, Exit!Flat
<1>4. CASE outcome' = "failed"
  <2>1. ExitStatus' = "failed"
    BY <1>4 DEF ExitStatus
  <2> QED BY <1>1, <2>1 DEF Exit!End
<1> QED BY <1>2, <1>3, <1>4 DEF Finish

LEMMA EndKillExits ==
  ASSUME IInv, IInv', EndKill
  PROVE  Exit!End
<1>1. /\ ExitStatus = "exiting" /\ base' = base /\ Covered' = Covered
  BY Statuses DEF EndKill, ExitStatus, account
<1>2. CASE outcome' = "killed" /\ kill.phase = "completed"
  <2>1. base <= Dust /\ OpenOf(orders) = {}
    BY <1>2, Parts DEF KillInForm, OpenIds, OpenOf
  <2>2. Covered = 0
    BY <2>1, CoveredIs, NothingCovered
  <2>3. ExitStatus' = "flat"
    BY <1>2 DEF ExitStatus
  <2> QED BY <1>1, <2>1, <2>2, <2>3 DEF Exit!End, Exit!Flat
<1>3. CASE outcome' = "killFailed"
  <2>1. ExitStatus' = "failed"
    BY <1>3 DEF ExitStatus
  <2> QED BY <1>1, <2>1 DEF Exit!End
<1> QED BY <1>2, <1>3 DEF EndKill

(* What the exchange does afterwards.                                      *)
LEMMA ExchangeExits ==
  ASSUME IInv, IInv', ExitInv, Exchange, UNCHANGED <<kill, sellVars>>
  PROVE  Exit!Move \/ Exit!Drain \/ UNCHANGED Exit!vars
<1>1. /\ AccountInv /\ CheckpointInForm /\ StandsAt(checkpoint, base, orders)
      /\ ExitStatus' = ExitStatus /\ KillInForm /\ outcome \in Outcomes
  BY Parts DEF ExitInv, sellVars, ExitStatus, Rest
<1>2. CASE ExitStatus \in {"held", "exiting", "failed"}
  BY <1>1, <1>2, Statuses DEF Exit!Move
<1>3. CASE outcome = "confirmed"
  <2>1. Resolved(base, orders)
    BY <1>1, <1>3 DEF CheckpointInForm, StandsAt
  <2>2. Resolved(base', orders') /\ base' <= base
    BY <2>1, <1>1, ResolvedStays DEF Exchange
  <2>3. base' <= Dust \/ Covered' = base'
    BY <2>2, Statuses, CoveredIs, ResolvedIsProtected
  <2>4. ExitStatus = "protected"
    BY <1>3 DEF ExitStatus
  <2> QED BY <2>2, <2>3, <2>4, <1>1, Statuses
          DEF Exit!Drain, Exit!Protected, Exit!Flat
<1>4. CASE outcome \in {"protectionFailed", "killed"}
  <2>1. base <= Dust /\ OpenIds = {}
    BY <1>1, <1>4 DEF CheckpointInForm, StandsAt, KillInForm, OpenIds, OpenOf
  <2>2. base' = base /\ OpenIds' = {}
    BY <2>1, <1>1, FlatStays
  <2>3. Covered = 0 /\ Covered' = 0
    BY <2>1, <2>2, CoveredIs, NothingCovered DEF OpenIds, OpenOf
  <2> QED BY <2>2, <2>3, <1>1 DEF Exit!vars
<1> QED BY <1>1, <1>2, <1>3, <1>4 DEF ExitStatus, Outcomes

(* Every step is one of AccountExit or changes nothing it sees.            *)
LEMMA NextExits ==
  ASSUME IInv, IInv', ExitInv, [Next]_vars
  PROVE  [Exit!Next]_(Exit!vars)
<1>1. /\ CheckpointInForm /\ KillInForm
  BY Parts DEF ExitInv
<1>2. CASE /\ ExitStatus \in {"exiting", "failed"}
           /\ ExitStatus' = ExitStatus
  BY <1>2, Statuses DEF Exit!Next, Exit!Move
<1>3. CASE UNCHANGED vars
  <2>1. base' = base /\ ExitStatus' = ExitStatus /\ Covered' = Covered
    BY <1>3, Statuses DEF vars, sellVars, ExitStatus, account
  <2> QED BY <2>1 DEF Exit!vars
<1>4. CASE Killing /\ KillStep /\ UNCHANGED sellVars
  <2>1. outcome \in {"selling", "killing", "killFailed"}
    BY <1>1, <1>4 DEF KillInForm, Owner, At, Killing, CheckpointInForm
  <2>2. ExitStatus \in {"exiting", "failed"} /\ ExitStatus' = ExitStatus
    BY <2>1, <1>4 DEF ExitStatus, sellVars
  <2> QED BY <2>2, <1>2
<1>5. CASE SellStep
  <2>1. CASE Finish
    BY <2>1, FinishExits DEF Exit!Next
  <2>2. ~Finish => outcome = "selling" /\ outcome' \in {"selling", "unknown"}
    BY <1>5 DEF SellStep, Persist, ListProtections, CancelProtections,
       ReconcileAccount, SubmitSell, ReplaySell, LookUpSell, ArmResidual,
       ConfirmResidual, BeginSafetyKill, EndSafetyKill, At, Submit,
       SubmitProtection, Answered, Send, sellVars
  <2>3. ~Finish => ExitStatus = "exiting" /\ ExitStatus' = ExitStatus
    BY <2>2 DEF ExitStatus
  <2> QED BY <2>1, <2>3, <1>2
<1>6. CASE SubmitLiveSell \/ BeginKill
  <2>1. base' = base /\ Covered' = Covered /\ ExitStatus' = "exiting"
        /\ ExitStatus \in {"held", "exiting"}
    BY <1>6, Statuses DEF SubmitLiveSell, BeginKill, ExitStatus, account
  <2> QED BY <2>1 DEF Exit!Next, Exit!Begin, Exit!vars
<1>7. CASE ResumeSell \/ Crash
  <2>1. ExitStatus = "exiting" /\ ExitStatus' = ExitStatus
    BY <1>7 DEF ResumeSell, Crash, ExitStatus
  <2> QED BY <2>1, <1>2
<1>8. CASE EndKill
  BY <1>8, EndKillExits DEF Exit!Next
<1>9. CASE Exchange /\ UNCHANGED <<kill, sellVars>>
  BY <1>9, ExchangeExits DEF Exit!Next
<1> QED BY <1>3, <1>4, <1>5, <1>6, <1>7, <1>8, <1>9 DEF Next

(* Leaving a position implements AccountExit: for every limit, quantity    *)
(* and number of evictions no normal end comes without flatness or full    *)
(* protection, and nothing undoes it (executeCoinbaseProtectedSell,        *)
(* models/live-account-control.md, invariants 4, 8 and 12).                *)
THEOREM ExitSafety == Spec => ExitIsSafe
<1>1. Init => Exit!Init
  BY InitExits
<1>2. IInv /\ IInv' /\ ExitInv /\ [Next]_vars => [Exit!Next]_(Exit!vars)
  BY NextExits
<1> QED BY <1>1, <1>2, Soundness, ExitInForm, PTL
        DEF Spec, ExitIsSafe, Exit!Spec
=============================================================================
