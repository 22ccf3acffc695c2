--------------------------- MODULE PerpOrders_proofs ---------------------------
(***************************************************************************)
(* Proofs about PerpOrders, for every set of orders, every cap on the gaps *)
(* of a recovery and any number of lost answers, refused writes and        *)
(* evictions.                                                              *)
(***************************************************************************)
EXTENDS PerpOrders, SequenceTheorems, TLAPS

(***************************************************************************)
(* The inductive invariant.  An order is at the venue only if runOrder     *)
(* recorded its intent and signed it, so that one without a row, or being  *)
(* signed, is not there.                                                   *)
(***************************************************************************)
Placed(o) == venue[o] \in {"filled", "unfilled"}

RunIsRecorded ==
  \A o \in Orders:
    /\ row[o] = "none" => venue[o] = "none"
    /\ run[o] = "signing" => venue[o] = "none"
    /\ run[o] = "idle" /\ told[o] = "nothing" => row[o] = "none"
    /\ run[o] # "idle" => told[o] = "nothing" /\ row[o] # "none"
    /\ run[o] = "fills" => Placed(o)

(* What a recovery works on has a row, and what it reads the fills of was  *)
(* accepted; it answers somebody who was told that the order is unknown.   *)
WorkOf(w) ==
  /\ \A i \in DOMAIN worker[w].todo: row[worker[w].todo[i]] # "none"
  /\ worker[w].phase = "fills" =>
       worker[w].todo # <<>> /\ Placed(Head(worker[w].todo))
  /\ \A o \in Orders: worker[w].for = o => told[o] # "nothing"

WorkIsRecorded == \A w \in Workers: WorkOf(w)

(* An order is recorded as rejected when it is not at the venue, nor on    *)
(* its way, unless a recovery contests it.                                 *)
RejectedIsGone ==
  \A o \in Orders:
    row[o] = "REJECTED" /\ o \notin contested => venue[o] # "filled" /\ ~OnItsWay(o)

(* The rows in the order of their times name each order once.              *)
RowsInOrder ==
  \A o \in Orders:
    /\ row[o] = "none" => \A i \in DOMAIN created: created[i] # o
    /\ row[o] \notin Outcomes => \A i \in DOMAIN settled: settled[i] # o

IInv ==
  /\ TypeOK /\ RowsInOrder /\ RowsAreTrue
  /\ RunIsRecorded /\ WorkIsRecorded /\ RejectedIsGone

-----------------------------------------------------------------------------
(* Sequences of orders.                                                    *)

(* A new order is added at the end of an order of rows.                    *)
LEMMA AppendNew ==
  ASSUME NEW S, NEW s \in Seq(S), IsInjective(s), NEW o \in S,
         \A i \in DOMAIN s: s[i] # o
  PROVE  /\ Append(s, o) \in Seq(S) /\ IsInjective(Append(s, o))
         /\ \A i \in DOMAIN Append(s, o): Append(s, o)[i] = o \/
              \E j \in DOMAIN s: Append(s, o)[i] = s[j]
<1>1. /\ Append(s, o) \in Seq(S)
      /\ Len(Append(s, o)) = Len(s) + 1
      /\ \A i \in 1..Len(s): Append(s, o)[i] = s[i]
      /\ Append(s, o)[Len(s) + 1] = o
  BY AppendProperties
<1>2. DOMAIN s = 1..Len(s) /\ DOMAIN Append(s, o) = 1..(Len(s) + 1)
      /\ Len(s) \in Nat
  BY <1>1, LenProperties
<1>3. \A i \in DOMAIN Append(s, o): i \in DOMAIN s \/ i = Len(s) + 1
  BY <1>2
<1>4. IsInjective(Append(s, o))
  BY <1>1, <1>2, <1>3 DEF IsInjective
<1>5. \A i \in DOMAIN Append(s, o):
        Append(s, o)[i] = o \/ \E j \in DOMAIN s: Append(s, o)[i] = s[j]
  <2> TAKE i \in DOMAIN Append(s, o)
  <2>1. CASE i = Len(s) + 1
    BY <2>1, <1>1
  <2>2. CASE i \in DOMAIN s
    BY <2>2, <1>1, <1>2
  <2> QED  BY <1>3, <2>1, <2>2
<1> QED  BY <1>1, <1>4, <1>5

(* What is left of a work list was in it.                                  *)
LEMMA WorkLeft ==
  ASSUME NEW S, NEW s \in Seq(S), s # <<>>
  PROVE  /\ Head(s) \in S /\ Tail(s) \in Seq(S)
         /\ \E i \in DOMAIN s: Head(s) = s[i]
         /\ \A i \in DOMAIN Tail(s): \E j \in DOMAIN s: Tail(s)[i] = s[j]
<1>1. /\ Head(s) \in S /\ Tail(s) \in Seq(S)
      /\ Len(Tail(s)) = Len(s) - 1
      /\ \A i \in 1..Len(Tail(s)): Tail(s)[i] = s[i + 1]
  BY HeadTailProperties
<1>2. DOMAIN s = 1..Len(s) /\ DOMAIN Tail(s) = 1..Len(Tail(s))
      /\ Len(s) \in Nat \ {0}
  BY <1>1, LenProperties, EmptySeq
<1>3. Head(s) = s[1]
  OBVIOUS
<1>4. \A i \in DOMAIN Tail(s): i + 1 \in DOMAIN s /\ Tail(s)[i] = s[i + 1]
  BY <1>1, <1>2
<1>5. 1 \in DOMAIN s
  BY <1>2
<1> QED  BY <1>1, <1>3, <1>4, <1>5

(* Newest gives the orders of the set.                                     *)
LEMMA NewestOf ==
  ASSUME NEW S, NEW rows \in Seq(Orders), NEW s \in Newest(S, rows)
  PROVE  s \in Seq(S) /\ \A i \in DOMAIN s: s[i] \in S
<1>1. Len(rows) \in Nat
  BY LenProperties
<1>2. PICK m \in 0..Len(rows): s \in [1..m -> S]
  BY <1>1 DEF Newest, SeqOf
<1> QED  BY <1>1, <1>2, SeqDef

(* A recovery works on orders with a row: those without an outcome, and    *)
(* accepted ones without fills.                                            *)
LEMMA WorkListed ==
  ASSUME TypeOK, NEW todo \in Pending \cup Gaps
  PROVE  /\ todo \in Seq(Orders)
         /\ \A i \in DOMAIN todo: row[todo[i]] # "none"
<1> DEFINE Open == {o \in Orders: row[o] = "open"}
           Bare == {o \in Orders: row[o] = "ACCEPTED" /\ o \notin fills}
<1>1. CASE todo \in Pending
  <2>1. todo \in Seq(Open) /\ \A i \in DOMAIN todo: todo[i] \in Open
    BY <1>1, NewestOf DEF TypeOK, Pending
  <2> QED  BY <2>1, SeqMonotonic
<1>2. CASE todo \in Gaps
  <2>1. PICK open \in Newest(Bare, settled):
          todo = SubSeq(open, 1, IF Len(open) < MaxGaps THEN Len(open)
                                                        ELSE MaxGaps)
    BY <1>2 DEF Gaps
  <2>2. open \in Seq(Bare)
    BY NewestOf DEF TypeOK
  <2>3. \A i \in 1..Len(open): open[i] \in Bare
    BY <2>2, ElementOfSeq
  <2>4. PICK n \in Int: n <= Len(open) /\ todo = SubSeq(open, 1, n)
    BY <2>1, <2>2, LenProperties, PerpAssumption
  <2>5. \A i \in 1..n: open[i] \in Bare
    BY <2>2, <2>3, <2>4, LenProperties
  <2>6. todo \in Seq(Bare)
    BY <2>4, <2>5, SubSeqProperties
  <2>7. \A i \in DOMAIN todo: todo[i] \in Bare
    BY <2>6, LenProperties, ElementOfSeq
  <2> QED  BY <2>6, <2>7, SeqMonotonic
<1> QED  BY <1>1, <1>2
-----------------------------------------------------------------------------
(* The pieces that the actions share.                                      *)

LEMMA MishapsCounted ==
  ASSUME TypeOK, NEW n \in Nat, Failing(n)
  PROVE  mishaps' \in 0..MaxMishaps
BY PerpAssumption DEF TypeOK, Failing

LEMMA CountType ==
  ASSUME NEW a \in BOOLEAN, NEW b \in BOOLEAN
  PROVE  Count(a) \in Nat /\ Count(a) + Count(b) \in Nat
BY DEF Count

(* An outcome is written over an open row alone.                           *)
LEMMA OutcomeWritten ==
  ASSUME TypeOK, RowsInOrder, NEW o \in Orders, NEW outcome \in Outcomes,
         NEW succeeds \in BOOLEAN, Write(o, outcome, succeeds),
         UNCHANGED created
  PROVE  /\ row' \in [Orders -> {"none", "open"} \cup Outcomes]
         /\ settled' \in Seq(Orders) /\ IsInjective(settled')
         /\ RowsInOrder'
         /\ \A p \in Orders: \/ row'[p] = row[p]
                             \/ p = o /\ row[p] = "open" /\ row'[p] = outcome
<1>1. CASE succeeds /\ row[o] = "open"
  <2>1. row' = [row EXCEPT ![o] = outcome] /\ settled' = Append(settled, o)
    BY <1>1 DEF Write
  <2>2. \A i \in DOMAIN settled: settled[i] # o
    BY <1>1 DEF RowsInOrder, Outcomes
  <2>3. /\ settled' \in Seq(Orders) /\ IsInjective(settled')
        /\ \A i \in DOMAIN settled': settled'[i] = o \/
             \E j \in DOMAIN settled: settled'[i] = settled[j]
    BY <2>1, <2>2, AppendNew DEF TypeOK
  <2>4. row' \in [Orders -> {"none", "open"} \cup Outcomes]
    BY <2>1 DEF TypeOK
  <2>5. \A p \in Orders: row'[p] = IF p = o THEN outcome ELSE row[p]
    BY <2>1 DEF TypeOK
  <2>6. RowsInOrder'
    BY <1>1, <2>3, <2>5 DEF RowsInOrder, Outcomes
  <2> QED  BY <1>1, <2>3, <2>4, <2>5, <2>6
<1>2. CASE ~(succeeds /\ row[o] = "open")
  <2>1. UNCHANGED <<row, settled, created>>
    BY <1>2 DEF Write
  <2> QED  BY <2>1 DEF TypeOK, RowsInOrder
<1> QED  BY <1>1, <1>2

(* Fills are recorded of an order that the venue filled.                   *)
LEMMA FillsRead ==
  ASSUME NEW o \in Orders, NEW read \in BOOLEAN, TypeOK,
         fills' = Fills(o, read)
  PROVE  /\ fills' \subseteq Orders
         /\ \A p \in Orders: p \in fills' => p \in fills \/ (p = o /\ venue[p] = "filled")
BY DEF Fills, TypeOK

(* What is contested stays so.                                             *)
LEMMA Contested ==
  ASSUME NEW o \in Orders, TypeOK, Contest(o)
  PROVE  /\ contested' \subseteq Orders /\ contested \subseteq contested'
         /\ OnItsWay(o) => o \in contested'
BY DEF Contest, TypeOK

-----------------------------------------------------------------------------
(* The end of runOrder with an outcome, from a phase after the signature.  *)
LEMMA FinishKeeps ==
  ASSUME IInv, NEW o \in Orders, NEW outcome \in Outcomes, NEW read \in BOOLEAN,
         Finish(o, outcome, read),
         run[o] \in {"submitting", "reconciling", "fills"},
         outcome = "ACCEPTED" => Placed(o),
         outcome = "REJECTED" => venue[o] # "filled" /\ (OnItsWay(o) => o \in contested'),
         fills' \subseteq Orders,
         \A p \in Orders: p \in fills' => p \in fills \/ (p = o /\ venue[p] = "filled"),
         contested' \subseteq Orders, contested \subseteq contested'
  PROVE  IInv'
<1> USE DEF IInv
<1>1. PICK write \in BOOLEAN:
        /\ Failing(Count(write) + Count(read)) /\ Write(o, outcome, write)
        /\ At(o, "idle")
        /\ Told(o, CASE ~write -> "UNKNOWN"
                     [] outcome = "ACCEPTED" -> "CONFIRMED"
                     [] OTHER -> "REJECTED")
        /\ UNCHANGED <<venue, created, worker>>
  BY DEF Finish
<1>2. /\ row' \in [Orders -> {"none", "open"} \cup Outcomes]
      /\ settled' \in Seq(Orders) /\ IsInjective(settled')
      /\ RowsInOrder'
      /\ \A p \in Orders: \/ row'[p] = row[p]
                          \/ p = o /\ row[p] = "open" /\ row'[p] = outcome
  BY <1>1, OutcomeWritten
<1>3. mishaps' \in 0..MaxMishaps
  BY <1>1, CountType, MishapsCounted
<1>4. PICK answer \in {"UNKNOWN", "CONFIRMED", "REJECTED"}:
        told' = [told EXCEPT ![o] = answer]
  <2> DEFINE answer == CASE ~write -> "UNKNOWN"
                         [] outcome = "ACCEPTED" -> "CONFIRMED"
                         [] OTHER -> "REJECTED"
  <2>1. answer \in {"UNKNOWN", "CONFIRMED", "REJECTED"}
    OBVIOUS
  <2>2. told' = [told EXCEPT ![o] = answer]
    BY <1>1 DEF Told
  <2> QED  BY <2>1, <2>2
<1>5. run' = [run EXCEPT ![o] = "idle"] /\ UNCHANGED <<venue, created, worker>>
  BY <1>1 DEF At
<1>6. TypeOK'
  BY <1>2, <1>3, <1>4, <1>5 DEF TypeOK
<1>7. RowsAreTrue'
  BY <1>2, <1>5 DEF RowsAreTrue, TypeOK, Placed, RunIsRecorded, Outcomes
<1>8. RunIsRecorded'
  BY <1>2, <1>4, <1>5 DEF TypeOK, Placed, RunIsRecorded, Outcomes
<1>9. WorkIsRecorded'
  BY <1>2, <1>4, <1>5 DEF TypeOK, Placed, WorkIsRecorded, WorkOf, Outcomes, Workers
<1>10. RejectedIsGone'
  BY <1>2, <1>5 DEF TypeOK, RejectedIsGone, OnItsWay, Outcomes
<1> QED  BY <1>2, <1>6, <1>7, <1>8, <1>9, <1>10

-----------------------------------------------------------------------------
(* One lemma per action of a runOrder.                                     *)

LEMMA StartKeeps == ASSUME IInv, NEW o \in Orders, Start(o) PROVE IInv'
<1> USE DEF IInv
<1>1. UNCHANGED <<venue, settled, fills, worker, contested>>
  BY DEF Start
<1>2. CASE Insert(o) /\ At(o, "signing") /\ UNCHANGED <<told, mishaps>>
  <2>1. row[o] = "none" /\ run[o] = "idle" /\ told[o] = "nothing"
    BY DEF Start, RunIsRecorded
  <2>2. /\ row' = [row EXCEPT ![o] = "open"] /\ created' = Append(created, o)
        /\ run' = [run EXCEPT ![o] = "signing"]
    BY <1>2, <2>1 DEF Insert, At, TypeOK
  <2>3. /\ created' \in Seq(Orders) /\ IsInjective(created')
        /\ \A i \in DOMAIN created': created'[i] = o \/
             \E j \in DOMAIN created: created'[i] = created[j]
    BY <2>1, <2>2, AppendNew DEF TypeOK, RowsInOrder
  <2>4. TypeOK'
    BY <1>1, <1>2, <2>2, <2>3 DEF TypeOK
  <2>5. RowsInOrder'
    BY <1>1, <2>1, <2>2, <2>3 DEF TypeOK, RowsInOrder, Outcomes
  <2>6. RowsAreTrue' /\ RunIsRecorded'
    BY <1>1, <1>2, <2>1, <2>2 DEF TypeOK, RowsAreTrue, RunIsRecorded, Placed
  <2>7. WorkIsRecorded' /\ RejectedIsGone'
    BY <1>1, <1>2, <2>1, <2>2
    DEF TypeOK, WorkIsRecorded, WorkOf, RejectedIsGone, OnItsWay, Placed
  <2> QED  BY <2>4, <2>5, <2>6, <2>7
<1>3. CASE /\ \/ Told(o, "REJECTED") /\ UNCHANGED mishaps
              \/ Failing(1) /\ Told(o, "UNKNOWN")
           /\ UNCHANGED <<row, created, run>>
  <2>1. mishaps' \in 0..MaxMishaps
    BY <1>3, MishapsCounted DEF TypeOK
  <2>2. PICK answer \in {"UNKNOWN", "REJECTED"}:
          told' = [told EXCEPT ![o] = answer]
    BY <1>3 DEF Told
  <2>3. TypeOK'
    BY <1>1, <1>3, <2>1, <2>2 DEF TypeOK
  <2>4. RowsInOrder' /\ RowsAreTrue'
    BY <1>1, <1>3 DEF RowsInOrder, RowsAreTrue
  <2>5. RunIsRecorded'
    BY <1>1, <1>3, <2>2 DEF TypeOK, RunIsRecorded, Placed, Start
  <2>6. WorkIsRecorded' /\ RejectedIsGone'
    BY <1>1, <1>3, <2>2
    DEF TypeOK, WorkIsRecorded, WorkOf, RejectedIsGone, OnItsWay, Placed
  <2> QED  BY <2>3, <2>4, <2>5, <2>6
<1> QED  BY <1>2, <1>3 DEF Start

LEMMA SignKeeps == ASSUME IInv, NEW o \in Orders, Sign(o) PROVE IInv'
<1> USE DEF IInv
<1>1. UNCHANGED <<row, created, settled, fills, worker, contested>>
  BY DEF Sign, stored
<1>2. venue[o] = "none" /\ run[o] = "signing" /\ told[o] = "nothing"
      /\ row[o] # "none"
  BY DEF Sign, RunIsRecorded, TypeOK
<1>3. RowsInOrder'
  BY <1>1 DEF RowsInOrder
<1>4. CASE /\ run' = [run EXCEPT ![o] = "submitting"]
           /\ venue' = [venue EXCEPT ![o] = "sent"] /\ UNCHANGED <<told, mishaps>>
  <2>1. TypeOK'
    BY <1>1, <1>4 DEF TypeOK
  <2>2. RowsAreTrue' /\ RunIsRecorded'
    BY <1>1, <1>2, <1>4 DEF TypeOK, RowsAreTrue, RunIsRecorded, Placed
  <2>3. WorkIsRecorded'
    <3> SUFFICES ASSUME NEW w \in Workers PROVE WorkOf(w)'
      BY DEF WorkIsRecorded, Workers
    <3>1. /\ \A i \in DOMAIN worker[w].todo: row[worker[w].todo[i]] # "none"
          /\ \A p \in Orders: worker[w].for = p => told[p] # "nothing"
      BY DEF WorkIsRecorded, WorkOf
    <3>2. ASSUME worker[w].phase = "fills"
          PROVE  worker[w].todo # <<>> /\ Placed(Head(worker[w].todo))'
      <4>1. worker[w].todo # <<>> /\ Placed(Head(worker[w].todo))
        BY <3>2 DEF WorkIsRecorded, WorkOf
      <4>2. Head(worker[w].todo) \in Orders
        BY <4>1, WorkLeft DEF TypeOK
      <4> QED  BY <1>1, <1>2, <1>4, <4>1, <4>2 DEF Placed, TypeOK
    <3> QED  BY <1>1, <1>4, <3>1, <3>2 DEF WorkOf
  <2>4. RejectedIsGone'
    BY <1>1, <1>2, <1>4 DEF TypeOK, RejectedIsGone, OnItsWay
  <2> QED  BY <1>3, <2>1, <2>2, <2>3, <2>4
<1>5. CASE /\ Failing(1) /\ run' = [run EXCEPT ![o] = "idle"]
           /\ told' = [told EXCEPT ![o] = "UNKNOWN"] /\ UNCHANGED venue
  <2>1. TypeOK'
    BY <1>1, <1>5, MishapsCounted DEF TypeOK
  <2>2. RowsAreTrue' /\ RunIsRecorded'
    BY <1>1, <1>2, <1>5 DEF TypeOK, RowsAreTrue, RunIsRecorded, Placed
  <2>3. WorkIsRecorded'
    BY <1>1, <1>2, <1>5 DEF TypeOK, WorkIsRecorded, WorkOf, Placed
  <2>4. RejectedIsGone'
    BY <1>1, <1>2, <1>5 DEF TypeOK, RejectedIsGone, OnItsWay
  <2> QED  BY <1>3, <2>1, <2>2, <2>3, <2>4
<1> QED  BY <1>4, <1>5 DEF Sign, At, Told

(* The fills of an order placed at the venue are to be read.               *)
LEMMA FillsNext ==
  ASSUME IInv, NEW o \in Orders, run[o] \in {"submitting", "reconciling"},
         Placed(o), At(o, "fills"),
         UNCHANGED <<venue, stored, worker, told, contested, mishaps>>
  PROVE  IInv'
<1> USE DEF IInv
<1>1. /\ run' = [run EXCEPT ![o] = "fills"]
      /\ UNCHANGED <<venue, row, created, settled, fills, worker, told,
                     contested, mishaps>>
  BY DEF At, stored
<1>2. TypeOK' /\ RowsInOrder' /\ RowsAreTrue'
  BY <1>1 DEF TypeOK, RowsInOrder, RowsAreTrue
<1>3. RunIsRecorded'
  BY <1>1 DEF TypeOK, RunIsRecorded, Placed
<1>4. WorkIsRecorded' /\ RejectedIsGone'
  BY <1>1 DEF TypeOK, WorkIsRecorded, WorkOf, RejectedIsGone, OnItsWay, Placed
<1> QED  BY <1>2, <1>3, <1>4

(* A request without an answer changes the run and what is told alone.     *)
LEMMA UnansweredKeeps ==
  ASSUME IInv, NEW o \in Orders, NEW phase \in {"idle", "reconciling"},
         run[o] \in {"submitting", "reconciling"}, Unanswered(o, phase)
  PROVE  IInv'
<1> USE DEF IInv
<1>1. /\ Failing(1) /\ run' = [run EXCEPT ![o] = phase]
      /\ UNCHANGED <<venue, row, created, settled, fills, worker, contested>>
  BY DEF Unanswered, At, stored
<1>2. \/ phase = "idle" /\ told' = [told EXCEPT ![o] = "UNKNOWN"]
      \/ phase = "reconciling" /\ told' = told
  BY DEF Unanswered
<1>3. TypeOK'
  BY <1>1, <1>2, MishapsCounted DEF TypeOK
<1>4. RowsInOrder' /\ RowsAreTrue'
  BY <1>1 DEF RowsInOrder, RowsAreTrue
<1>5. RunIsRecorded'
  BY <1>1, <1>2 DEF TypeOK, RunIsRecorded, Placed
<1>6. WorkIsRecorded' /\ RejectedIsGone'
  BY <1>1, <1>2 DEF TypeOK, WorkIsRecorded, WorkOf, RejectedIsGone, OnItsWay, Placed
<1> QED  BY <1>3, <1>4, <1>5, <1>6

LEMMA SubmitAnsweredKeeps ==
  ASSUME IInv, NEW o \in Orders, SubmitAnswered(o) PROVE IInv'
<1>1. run[o] = "submitting"
  BY DEF SubmitAnswered
<1>2. CASE /\ SubmitIssue(o) = "ACCEPTED" /\ At(o, "fills")
           /\ UNCHANGED <<venue, stored, worker, told, contested, mishaps>>
  BY <1>1, <1>2, FillsNext DEF SubmitIssue, Placed
<1>3. CASE /\ SubmitIssue(o) = "REJECTED" /\ Finish(o, "REJECTED", TRUE)
           /\ UNCHANGED <<fills, contested>>
  <2>1. venue[o] # "filled" /\ ~OnItsWay(o)
    BY <1>1, <1>3 DEF SubmitIssue, OnItsWay
  <2> QED  BY <1>1, <1>3, <2>1, FinishKeeps DEF IInv, TypeOK, Outcomes
<1>4. CASE Unanswered(o, "reconciling")
  BY <1>1, <1>4, UnansweredKeeps
<1> QED  BY <1>2, <1>3, <1>4 DEF SubmitAnswered

LEMMA ReconcileKeeps ==
  ASSUME IInv, NEW o \in Orders, Reconcile(o) PROVE IInv'
<1>1. run[o] = "reconciling"
  BY DEF Reconcile
<1>2. CASE /\ OrderStatus(o) = "ACCEPTED" /\ At(o, "fills")
           /\ UNCHANGED <<venue, stored, worker, told, contested, mishaps>>
  BY <1>1, <1>2, FillsNext DEF OrderStatus, Placed
<1>3. CASE /\ OrderStatus(o) = "REJECTED" /\ Finish(o, "REJECTED", TRUE)
           /\ Contest(o) /\ UNCHANGED fills
  <2>1. venue[o] # "filled"
    BY <1>3 DEF OrderStatus
  <2>2. /\ contested' \subseteq Orders /\ contested \subseteq contested'
        /\ OnItsWay(o) => o \in contested'
    BY <1>3, Contested DEF IInv
  <2> QED  BY <1>1, <1>3, <2>1, <2>2, FinishKeeps DEF IInv, TypeOK, Outcomes
<1>4. CASE Unanswered(o, "idle")
  BY <1>1, <1>4, UnansweredKeeps
<1> QED  BY <1>2, <1>3, <1>4 DEF Reconcile

LEMMA ReadFillsKeeps ==
  ASSUME IInv, NEW o \in Orders, ReadFills(o) PROVE IInv'
<1>1. PICK read \in BOOLEAN:
        /\ fills' = Fills(o, read) /\ Finish(o, "ACCEPTED", read)
        /\ UNCHANGED contested
  BY DEF ReadFills
<1>2. run[o] = "fills" /\ Placed(o)
  BY DEF ReadFills, IInv, RunIsRecorded
<1>3. /\ fills' \subseteq Orders
      /\ \A p \in Orders: p \in fills' => p \in fills \/ (p = o /\ venue[p] = "filled")
  BY <1>1, FillsRead DEF IInv
<1> QED  BY <1>1, <1>2, <1>3, FinishKeeps DEF IInv, TypeOK, Outcomes

-----------------------------------------------------------------------------
(* One lemma per action of a recovery.                                     *)

WorkerType == [phase: {"idle", "pending", "fills", "backfill"},
               todo: Seq(Orders), for: Orders \cup {NoOne}]

(* A recovery that moves alone keeps the invariant, when what it goes on   *)
(* with is sound.                                                          *)
LEMMA WorkerMoves ==
  ASSUME IInv, NEW w \in Workers, worker'[w] \in WorkerType,
         worker' = [worker EXCEPT ![w] = worker'[w]],
         UNCHANGED <<venue, row, created, settled, fills, run, told>>,
         mishaps' \in 0..MaxMishaps,
         contested' \subseteq Orders, contested \subseteq contested',
         WorkOf(w)'
  PROVE  IInv'
<1> USE DEF IInv
<1>1. TypeOK'
  BY DEF TypeOK, WorkerType
<1>2. RowsInOrder' /\ RowsAreTrue' /\ RunIsRecorded' /\ RejectedIsGone'
  BY DEF RowsInOrder, RowsAreTrue, RunIsRecorded, RejectedIsGone, OnItsWay, Placed
<1>3. \A v \in Workers: v # w => worker'[v] = worker[v]
  BY DEF TypeOK
<1>4. \A v \in Workers: v # w => WorkOf(v)'
  BY <1>3 DEF WorkIsRecorded, WorkOf, Placed
<1> QED  BY <1>1, <1>2, <1>4 DEF WorkIsRecorded, Workers

LEMMA RecoverKeeps ==
  ASSUME IInv, NEW w \in Workers, NEW for \in Orders \cup {NoOne},
         Recover(w, for), \A o \in Orders: for = o => told[o] # "nothing"
  PROVE  IInv'
<1>1. PICK todo \in Pending:
        worker' = [worker EXCEPT ![w] = [phase |-> "pending", todo |-> todo,
                                         for |-> for]]
  BY DEF Recover
<1>2. UNCHANGED <<venue, row, created, settled, fills, run, told, contested,
                  mishaps>>
  BY DEF Recover, stored
<1>3. /\ todo \in Seq(Orders)
      /\ \A i \in DOMAIN todo: row[todo[i]] # "none"
  BY WorkListed DEF IInv
<1>4. worker'[w] = [phase |-> "pending", todo |-> todo, for |-> for]
  BY <1>1 DEF IInv, TypeOK
<1>5. WorkOf(w)'
  BY <1>2, <1>3, <1>4 DEF WorkOf
<1>6. worker'[w] \in WorkerType
  BY <1>3, <1>4 DEF WorkerType
<1> QED  BY <1>1, <1>2, <1>4, <1>5, <1>6, WorkerMoves DEF IInv, TypeOK

(* The first order of the list is settled.                                 *)
LEMMA SettlingKeeps ==
  ASSUME IInv, NEW w \in Workers, worker[w].todo # <<>>, NEW o \in Orders,
         NEW outcome \in Outcomes, NEW read \in BOOLEAN,
         Settling(w, o, outcome, read),
         outcome = "ACCEPTED" => Placed(o),
         outcome = "REJECTED" => venue[o] # "filled" /\ (OnItsWay(o) => o \in contested'),
         row[o] # "none", fills' \subseteq Orders,
         \A p \in Orders: p \in fills' => p \in fills \/ (p = o /\ venue[p] = "filled"),
         contested' \subseteq Orders, contested \subseteq contested'
  PROVE  IInv'
<1> USE DEF IInv
<1>1. PICK write \in BOOLEAN:
        /\ Failing(Count(write) + Count(read)) /\ Write(o, outcome, write)
        /\ Now(w, "pending", Tail(worker[w].todo))
        /\ UNCHANGED <<venue, created, run, told>>
  BY DEF Settling
<1>2. /\ row' \in [Orders -> {"none", "open"} \cup Outcomes]
      /\ settled' \in Seq(Orders) /\ IsInjective(settled')
      /\ RowsInOrder'
      /\ \A p \in Orders: \/ row'[p] = row[p]
                          \/ p = o /\ row[p] = "open" /\ row'[p] = outcome
  BY <1>1, OutcomeWritten
<1>3. mishaps' \in 0..MaxMishaps
  BY <1>1, CountType, MishapsCounted
<1>4. /\ worker[w] \in WorkerType
      /\ worker' = [worker EXCEPT ![w].phase = "pending",
                                  ![w].todo = Tail(worker[w].todo)]
  BY <1>1 DEF Now, TypeOK, WorkerType
<1>5. /\ Tail(worker[w].todo) \in Seq(Orders)
      /\ \A i \in DOMAIN Tail(worker[w].todo): \E j \in DOMAIN worker[w].todo:
           Tail(worker[w].todo)[i] = worker[w].todo[j]
  BY <1>4, WorkLeft DEF WorkerType
<1>6. TypeOK'
  BY <1>1, <1>2, <1>3, <1>4, <1>5 DEF TypeOK, WorkerType
<1>7. RowsAreTrue'
  BY <1>1, <1>2 DEF RowsAreTrue, TypeOK, Placed, Outcomes
<1>8. RunIsRecorded'
  BY <1>1, <1>2 DEF TypeOK, Placed, RunIsRecorded, Outcomes
<1>9. \A v \in Workers: \A i \in DOMAIN worker[v].todo:
        worker[v].todo[i] \in Orders /\ row'[worker[v].todo[i]] # "none"
  <2>1. \A v \in Workers: \A i \in DOMAIN worker[v].todo: worker[v].todo[i] \in Orders
    BY LenProperties, ElementOfSeq DEF TypeOK
  <2> QED  BY <1>2, <2>1 DEF WorkIsRecorded, WorkOf, Outcomes
<1>10. ASSUME NEW v \in Workers PROVE WorkOf(v)'
  <2>1. CASE v = w
    BY <1>1, <1>4, <1>5, <1>9, <2>1 DEF WorkIsRecorded, WorkOf, TypeOK
  <2>2. CASE v # w
    <3>1. worker'[v] = worker[v]
      BY <1>4, <2>2 DEF TypeOK
    <3> QED  BY <1>1, <1>9, <3>1 DEF WorkIsRecorded, WorkOf, Placed
  <2> QED  BY <2>1, <2>2
<1>11. RejectedIsGone'
  BY <1>1, <1>2 DEF TypeOK, RejectedIsGone, OnItsWay, Outcomes
<1> QED  BY <1>2, <1>6, <1>7, <1>8, <1>10, <1>11 DEF WorkIsRecorded, Workers

(* The order that a recovery is at.                                        *)
LEMMA AtWork ==
  ASSUME IInv, NEW w \in Workers, worker[w].todo # <<>>
  PROVE  /\ Head(worker[w].todo) \in Orders /\ row[Head(worker[w].todo)] # "none"
         /\ Tail(worker[w].todo) \in Seq(Orders)
         /\ \A i \in DOMAIN Tail(worker[w].todo): row[Tail(worker[w].todo)[i]] # "none"
BY WorkLeft DEF IInv, TypeOK, WorkIsRecorded, WorkOf

(* The list alone moves on.                                                *)
LEMMA NowKeeps ==
  ASSUME IInv, NEW w \in Workers, NEW phase \in {"pending", "fills", "backfill"},
         NEW todo \in Seq(Orders), Now(w, phase, todo),
         \A i \in DOMAIN todo: row[todo[i]] # "none",
         phase = "fills" => todo # <<>> /\ Placed(Head(todo)),
         UNCHANGED <<venue, row, created, settled, fills, run, told, contested>>,
         mishaps' \in 0..MaxMishaps
  PROVE  IInv'
<1>1. worker[w] \in WorkerType
  BY DEF IInv, TypeOK, WorkerType
<1>2. /\ worker' = [worker EXCEPT ![w] = worker'[w]]
      /\ worker'[w] = [worker[w] EXCEPT !.phase = phase, !.todo = todo]
  BY <1>1 DEF Now, IInv, TypeOK
<1>3. worker'[w] \in WorkerType
  BY <1>1, <1>2 DEF WorkerType
<1>4. /\ worker'[w].phase = phase /\ worker'[w].todo = todo
      /\ worker'[w].for = worker[w].for
  BY <1>1, <1>2 DEF WorkerType
<1>5. WorkOf(w)'
  BY <1>4 DEF WorkOf, IInv, WorkIsRecorded, Placed
<1> QED  BY <1>2, <1>3, <1>5, WorkerMoves DEF IInv, TypeOK

LEMMA AskStatusKeeps ==
  ASSUME IInv, NEW w \in Workers, AskStatus(w) PROVE IInv'
<1> DEFINE o == Head(worker[w].todo)
<1>1. worker[w].todo # <<>>
  BY DEF AskStatus
<1>2. /\ o \in Orders /\ row[o] # "none" /\ Tail(worker[w].todo) \in Seq(Orders)
      /\ \A i \in DOMAIN Tail(worker[w].todo): row[Tail(worker[w].todo)[i]] # "none"
  BY <1>1, AtWork
<1>3. CASE /\ OrderStatus(o) = "ACCEPTED" /\ Now(w, "fills", worker[w].todo)
           /\ UNCHANGED <<venue, stored, run, told, contested, mishaps>>
  <2>1. /\ worker[w].todo \in Seq(Orders)
        /\ \A i \in DOMAIN worker[w].todo: row[worker[w].todo[i]] # "none"
    BY DEF IInv, TypeOK, WorkIsRecorded, WorkOf
  <2>2. Placed(o)
    BY <1>3 DEF OrderStatus, Placed
  <2> QED  BY <1>1, <1>3, <2>1, <2>2, NowKeeps DEF stored, IInv, TypeOK
<1>4. CASE /\ OrderStatus(o) = "REJECTED" /\ Settling(w, o, "REJECTED", TRUE)
           /\ Contest(o) /\ UNCHANGED fills
  <2>1. venue[o] # "filled"
    BY <1>4 DEF OrderStatus
  <2>2. /\ contested' \subseteq Orders /\ contested \subseteq contested'
        /\ OnItsWay(o) => o \in contested'
    BY <1>2, <1>4, Contested DEF IInv
  <2> HIDE DEF o
  <2> QED  BY <1>1, <1>2, <1>4, <2>1, <2>2, SettlingKeeps
           DEF IInv, TypeOK, Outcomes
<1>5. CASE /\ Failing(1) /\ Now(w, "pending", Tail(worker[w].todo))
           /\ UNCHANGED <<venue, stored, run, told, contested>>
  <2>1. mishaps' \in 0..MaxMishaps
    BY <1>5, MishapsCounted DEF IInv
  <2> QED  BY <1>2, <1>5, <2>1, NowKeeps DEF stored
<1> QED  BY <1>3, <1>4, <1>5 DEF AskStatus

LEMMA RecoverFillsKeeps ==
  ASSUME IInv, NEW w \in Workers, RecoverFills(w) PROVE IInv'
<1> DEFINE o == Head(worker[w].todo)
<1>1. PICK read \in BOOLEAN:
        /\ fills' = Fills(o, read) /\ Settling(w, o, "ACCEPTED", read)
        /\ UNCHANGED contested
  BY DEF RecoverFills
<1>2. worker[w].todo # <<>> /\ Placed(o)
  BY DEF RecoverFills, IInv, WorkIsRecorded, WorkOf
<1>3. o \in Orders /\ row[o] # "none"
  BY <1>2, AtWork
<1> HIDE DEF o
<1>4. /\ fills' \subseteq Orders
      /\ \A p \in Orders: p \in fills' => p \in fills \/ (p = o /\ venue[p] = "filled")
  BY <1>1, <1>3, FillsRead DEF IInv
<1>5. "ACCEPTED" \in Outcomes /\ Settling(w, o, "ACCEPTED", read)
  BY <1>1 DEF Outcomes
<1>6. contested' \subseteq Orders /\ contested \subseteq contested'
  BY <1>1 DEF IInv, TypeOK
<1> QED  BY <1>2, <1>3, <1>4, <1>5, <1>6, SettlingKeeps

LEMMA DetectGapsKeeps ==
  ASSUME IInv, NEW w \in Workers, DetectGaps(w) PROVE IInv'
<1>1. UNCHANGED <<venue, row, created, settled, fills, run, told, contested>>
  BY DEF DetectGaps, stored
<1>2. CASE \E open \in Gaps: Now(w, "backfill", open) /\ UNCHANGED mishaps
  BY <1>1, <1>2, WorkListed, NowKeeps DEF IInv, TypeOK
<1>3. CASE Failing(1) /\ Now(w, "backfill", <<>>)
  <2>1. mishaps' \in 0..MaxMishaps
    BY <1>3, MishapsCounted DEF IInv
  <2>2. <<>> \in Seq(Orders) /\ \A i \in DOMAIN <<>>: row[<<>>[i]] # "none"
    BY EmptySeq, LenProperties
  <2> QED  BY <1>1, <1>3, <2>1, <2>2, NowKeeps
<1> QED  BY <1>2, <1>3 DEF DetectGaps

LEMMA BackfillKeeps ==
  ASSUME IInv, NEW w \in Workers, Backfill(w) PROVE IInv'
<1> DEFINE o == Head(worker[w].todo)
<1>1. worker[w].todo # <<>>
  BY DEF Backfill
<1>2. /\ o \in Orders /\ row[o] # "none" /\ Tail(worker[w].todo) \in Seq(Orders)
      /\ \A i \in DOMAIN Tail(worker[w].todo): row[Tail(worker[w].todo)[i]] # "none"
  BY <1>1, AtWork
<1>3. PICK read \in BOOLEAN: Failing(Count(read)) /\ fills' = Fills(o, read)
  BY DEF Backfill
<1>4. /\ Now(w, "backfill", Tail(worker[w].todo))
      /\ UNCHANGED <<venue, row, created, settled, run, told, contested>>
  BY DEF Backfill
<1> HIDE DEF o
<1>5. mishaps' \in 0..MaxMishaps
  BY <1>3, CountType, MishapsCounted DEF IInv
<1>6. /\ fills' \subseteq Orders
      /\ \A p \in Orders: p \in fills' => p \in fills \/ (p = o /\ venue[p] = "filled")
  BY <1>2, <1>3, FillsRead DEF IInv
<1>7. TypeOK'
  BY <1>2, <1>4, <1>5, <1>6 DEF IInv, TypeOK, Now
<1>8. RowsInOrder' /\ RowsAreTrue' /\ RunIsRecorded' /\ RejectedIsGone'
  BY <1>2, <1>4, <1>6 DEF IInv, RowsInOrder, RowsAreTrue, RunIsRecorded,
     RejectedIsGone, OnItsWay, Placed
<1>9. ASSUME NEW v \in Workers PROVE WorkOf(v)'
  <2>1. CASE v = w
    BY <1>2, <1>4, <2>1 DEF IInv, TypeOK, Now, WorkIsRecorded, WorkOf
  <2>2. CASE v # w
    <3>1. worker'[v] = worker[v]
      BY <1>4, <2>2 DEF IInv, TypeOK, Now
    <3> QED  BY <1>4, <3>1 DEF IInv, WorkIsRecorded, WorkOf, Placed
  <2> QED  BY <2>1, <2>2
<1> QED  BY <1>7, <1>8, <1>9 DEF IInv, WorkIsRecorded, Workers

LEMMA EndRecoveryKeeps ==
  ASSUME IInv, NEW w \in Workers, EndRecovery(w) PROVE IInv'
<1> USE DEF IInv
<1>1. /\ worker' = [worker EXCEPT ![w] = Idle]
      /\ told' = [p \in Orders |-> IF worker[w].for = p THEN "CONFIRMED" ELSE told[p]]
      /\ UNCHANGED <<venue, row, created, settled, fills, run, contested, mishaps>>
  BY DEF EndRecovery, stored
<1>2. \A p \in Orders: told[p] = "nothing" <=> told'[p] = "nothing"
  BY <1>1 DEF WorkIsRecorded, WorkOf
<1>3. <<>> \in Seq(Orders)
  BY EmptySeq
<1>4. TypeOK'
  BY <1>1, <1>3 DEF TypeOK, Idle
<1>5. RowsInOrder' /\ RowsAreTrue' /\ RunIsRecorded' /\ RejectedIsGone'
  BY <1>1, <1>2 DEF RowsInOrder, RowsAreTrue, RunIsRecorded, RejectedIsGone,
     OnItsWay, Placed
<1>6. ASSUME NEW v \in Workers PROVE WorkOf(v)'
  <2>1. CASE v = w
    <3>1. worker'[v] = Idle
      BY <1>1, <2>1 DEF TypeOK
    <3> QED  BY <3>1, PerpAssumption DEF WorkOf, Idle
  <2>2. CASE v # w
    <3>1. worker'[v] = worker[v]
      BY <1>1, <2>2 DEF TypeOK
    <3> QED  BY <1>1, <1>2, <3>1 DEF WorkIsRecorded, WorkOf, Placed
  <2> QED  BY <2>1, <2>2
<1> QED  BY <1>4, <1>5, <1>6 DEF WorkIsRecorded, Workers

-----------------------------------------------------------------------------
(* The venue and evictions.                                                *)

LEMMA ArriveKeeps == ASSUME IInv, NEW o \in Orders, Arrive(o) PROVE IInv'
<1> USE DEF IInv
<1>1. PICK fate \in {"filled", "unfilled", "refused", "none"}:
        venue' = [venue EXCEPT ![o] = fate]
  BY DEF Arrive
<1>2. /\ venue[o] = "sent"
      /\ UNCHANGED <<row, created, settled, fills, run, worker, told, contested,
                     mishaps>>
  BY DEF Arrive, stored
<1>3. TypeOK' /\ RowsInOrder'
  BY <1>1, <1>2 DEF TypeOK, RowsInOrder
<1>4. RowsAreTrue'
  BY <1>1, <1>2 DEF TypeOK, RowsAreTrue
<1>5. RunIsRecorded'
  BY <1>1, <1>2 DEF TypeOK, RunIsRecorded, Placed
<1>6. WorkIsRecorded'
  <2> SUFFICES ASSUME NEW w \in Workers PROVE WorkOf(w)'
    BY DEF WorkIsRecorded, Workers
  <2>1. WorkOf(w)
    BY DEF WorkIsRecorded
  <2>2. worker[w].todo # <<>> => Head(worker[w].todo) \in Orders
    BY AtWork
  <2> QED  BY <1>1, <1>2, <2>1, <2>2 DEF WorkOf, Placed, TypeOK
<1>7. RejectedIsGone'
  BY <1>1, <1>2 DEF TypeOK, RejectedIsGone, OnItsWay
<1> QED  BY <1>3, <1>4, <1>5, <1>6, <1>7

LEMMA CrashKeeps == ASSUME IInv, Crash PROVE IInv'
<1> USE DEF IInv
<1>1. /\ told' = [o \in Orders |-> IF run[o] = "idle" THEN told[o] ELSE "UNKNOWN"]
      /\ run' = [o \in Orders |-> "idle"] /\ worker' = [w \in Workers |-> Idle]
      /\ UNCHANGED <<venue, row, created, settled, fills, contested>>
  BY DEF Crash, stored
<1>2. mishaps' \in 0..MaxMishaps
  BY MishapsCounted DEF Crash
<1>3. TypeOK'
  BY <1>1, <1>2, EmptySeq DEF TypeOK, Idle
<1>4. RowsInOrder' /\ RowsAreTrue'
  BY <1>1 DEF RowsInOrder, RowsAreTrue
<1>5. RunIsRecorded' /\ RejectedIsGone'
  BY <1>1 DEF RunIsRecorded, RejectedIsGone, OnItsWay, Placed
<1>6. \A w \in Workers: worker'[w] = Idle /\ \A o \in Orders: Idle.for # o
  BY <1>1, PerpAssumption DEF Idle
<1>7. Idle.todo = <<>> /\ Idle.phase = "idle"
  BY DEF Idle
<1>8. \A w \in Workers: WorkOf(w)'
  BY <1>6, <1>7, EmptySeq, LenProperties DEF WorkOf
<1> QED  BY <1>3, <1>4, <1>5, <1>8 DEF WorkIsRecorded, Workers

-----------------------------------------------------------------------------
(* The inductive invariant holds, whatever interleaving, lost answer,      *)
(* refused write and eviction.                                             *)
THEOREM Soundness == Spec => []IInv
<1>1. Init => IInv
  <2> SUFFICES ASSUME Init PROVE IInv
    OBVIOUS
  <2> USE DEF Init
  <2>1. <<>> \in Seq(Orders) /\ IsInjective(<<>>) /\ DOMAIN <<>> = {}
    BY EmptySeq, LenProperties DEF IsInjective
  <2>2. TypeOK
    BY <2>1, PerpAssumption DEF TypeOK, Idle
  <2>3. RowsInOrder /\ RowsAreTrue /\ RunIsRecorded /\ RejectedIsGone
    BY <2>1 DEF RowsInOrder, RowsAreTrue, RunIsRecorded, RejectedIsGone,
       OnItsWay, Placed
  <2>4. WorkIsRecorded
    BY <2>1, PerpAssumption DEF WorkIsRecorded, WorkOf, Idle
  <2> QED  BY <2>2, <2>3, <2>4 DEF IInv
<1>2. IInv /\ [Next]_vars => IInv'
  <2> SUFFICES ASSUME IInv, [Next]_vars PROVE IInv'
    OBVIOUS
  <2>1. CASE UNCHANGED vars
    BY <2>1 DEF vars, stored, IInv, TypeOK, RowsInOrder, RowsAreTrue, RunIsRecorded,
       WorkIsRecorded, WorkOf, RejectedIsGone, OnItsWay, Placed
  <2>2. ASSUME NEW o \in Orders, Start(o) \/ RunStep(o) \/ Arrive(o) PROVE IInv'
    BY <2>2, StartKeeps, SignKeeps, SubmitAnsweredKeeps, ReconcileKeeps,
       ReadFillsKeeps, ArriveKeeps DEF RunStep
  <2>3. ASSUME NEW o \in Orders, ReconcileSignal(o) PROVE IInv'
    <3>1. Recover("cycle", o) /\ told[o] = "UNKNOWN" /\ "cycle" \in Workers
      BY <2>3 DEF ReconcileSignal, Workers
    <3> QED  BY <3>1, RecoverKeeps
  <2>4. ASSUME NEW w \in Workers, WorkerStep(w) PROVE IInv'
    BY <2>4, AskStatusKeeps, RecoverFillsKeeps, DetectGapsKeeps, BackfillKeeps,
       EndRecoveryKeeps DEF WorkerStep
  <2>5. CASE Tick
    <3>1. Recover("tick", NoOne) /\ "tick" \in Workers
      BY <2>5 DEF Tick, Workers
    <3> QED  BY <3>1, RecoverKeeps, PerpAssumption
  <2>6. CASE Crash
    BY <2>6, CrashKeeps
  <2> QED  BY <2>1, <2>2, <2>3, <2>4, <2>5, <2>6 DEF Next
<1> QED  BY <1>1, <1>2, PTL DEF Spec

(* Type correctness; no order has two rows in the order of their times.    *)
THEOREM TypeCorrectness == Spec => []TypeOK
<1>1. IInv => TypeOK
  BY DEF IInv
<1> QED  BY <1>1, Soundness, PTL

(* A row says accepted, and fills are recorded, only of what the venue has.*)
THEOREM TrueRows == Spec => []RowsAreTrue
<1>1. IInv => RowsAreTrue
  BY DEF IInv
<1> QED  BY <1>1, Soundness, PTL

(* An order that the venue filled is not forgotten: its row is open, to be *)
(* recovered, or accepted.                                                 *)
THEOREM NothingForgotten == Spec => []NothingIsForgotten
<1>1. IInv => NothingIsForgotten
  BY DEF IInv, TypeOK, RunIsRecorded, RejectedIsGone, NothingIsForgotten, Outcomes
<1> QED  BY <1>1, Soundness, PTL
=============================================================================
