--------------------------- MODULE Portfolio_proofs ---------------------------
(***************************************************************************)
(* What holds of a portfolio for every number of products, caps and        *)
(* concurrent requests, and for every number of commands and mishaps.      *)
(***************************************************************************)
EXTENDS Portfolio, FiniteSetTheorems, TLAPS

ProductStates ==
  [phase: ProductPhases, shutdown: {"none", "stop", "kill"},
   target: NoTarget..ProductCap, position: 0..ProductCap]

RunStates ==
  [at: {"idle", "control", "next", "stagger", "cycle", "fetch", "publish"},
   trigger: BOOLEAN, stagger: BOOLEAN, control: {"none", "stop", "kill"},
   todo: Seq(Products), executed: BOOLEAN, pending: BOOLEAN,
   own: ProductStates]

Orchestrators ==
  [phase: {"idle", "running", "draining", "complete", "halted"},
   statuses: [Products -> {"none", "running"} \cup Terminal],
   exposure: [Products -> 0..ProductCap],
   killSwitch: BOOLEAN, last: ({0} \cup Products) \X BOOLEAN]

Typed ==
  /\ orchestrator \in Orchestrators
  /\ product \in [Products -> ProductStates]
  /\ run \in [Runs -> RunStates]
  /\ schedule \in BOOLEAN /\ retryAlarm \in [Products -> BOOLEAN]
  /\ current \in Runs \cup {None} /\ up \in BOOLEAN
  /\ overlap \in BOOLEAN /\ undecided \in BOOLEAN /\ evicted \in BOOLEAN
  /\ commands \in 0..MaxCommands /\ mishaps \in 0..MaxMishaps

(* One run holds the thread, and none outlives the object; a run that      *)
(* works on a product has it at the head of what it has to do.             *)
Held == {"control", "next", "cycle", "publish"}
Works(v) == v.at \in {"cycle", "fetch", "publish"}

ThreadIsHeld ==
  /\ \A r \in Runs: run[r].at \in Held <=> current = r
  /\ ~up => \A r \in Runs: run[r].at = "idle"
  /\ \A r \in Runs: Works(run[r]) \/ run[r].at = "stagger" => run[r].todo # <<>>

(* An order has a target; a cycle that is published has come to rest.      *)
Targeted(m) == m.phase = "ordering" => m.target # NoTarget

PhasesFit ==
  /\ \A p \in Products: Targeted(product[p])
  /\ \A r \in Runs:
       /\ Targeted(run[r].own)
       /\ run[r].at = "fetch" => run[r].own.phase = "fetching"
       /\ run[r].at = "publish" =>
            run[r].own.phase \in Terminal \cup {"waiting", "retrying"}

(* As long as no product was touched with its cycle in flight, the copy of *)
(* a run is the product, but for the position it is about to publish.      *)
InSync ==
  ~overlap =>
    /\ \A r \in Runs:
         /\ Works(run[r]) =>
              /\ product[This(r)].phase = run[r].own.phase
              /\ run[r].at # "publish" =>
                   product[This(r)].position = run[r].own.position
         /\ run[r].at = "control" => \A q \in Runs: run[q].at # "fetch"
    /\ \A r, q \in Runs:
         run[r].at = "fetch" /\ run[q].at = "fetch" /\ r # q =>
           This(r) # This(q)

(* The run r is about to change the position of p.                         *)
Ordering(r) == run[r].at = "cycle" /\ run[r].own.phase = "ordering"
Settles(r, p) == (Ordering(r) \/ run[r].at = "publish") /\ This(r) = p

Positions == [p \in Products |-> product[p].position]

OrdersAreAdmitted ==
  Undisturbed =>
    /\ \A p \in Products:
         product[p].phase = "ordering" => \E r \in Runs: Ordering(r) /\ This(r) = p
    /\ Sum(Positions) <= Cap
    /\ \A r \in Runs:
         /\ Ordering(r) =>
              Sum([Positions EXCEPT ![This(r)] = run[r].own.target]) <= Cap
         /\ run[r].at = "publish" =>
              Sum([Positions EXCEPT ![This(r)] = run[r].own.position]) <= Cap
    /\ Active(orchestrator) =>
         \A p \in Products:
           /\ \/ orchestrator.exposure[p] = product[p].position
              \/ \E r \in Runs: Settles(r, p)
           /\ orchestrator.statuses[p] \in Terminal => product[p].phase \in Terminal
    /\ ~Active(orchestrator) => \A p \in Products: product[p].phase \in Terminal

(* Without the shared alarm every enabled product is ahead of a run, and   *)
(* has not come to rest since.                                             *)
Ahead(v) ==
  IF v.at = "control" THEN Products
  ELSE IF v.at = "idle" THEN {} ELSE {v.todo[i]: i \in 1..Len(v.todo)}

AlarmIsDue ==
  up /\ ~overlap /\ ~schedule =>
    \A p \in Products:
      IsEnabled(product[p]) =>
        /\ product[p].phase \in {"scheduling", "cancelling"}
        /\ \E r \in Runs: p \in Ahead(run[r])

IInv ==
  /\ Typed /\ ThreadIsHeld /\ PhasesFit /\ InSync /\ OrdersAreAdmitted
  /\ AlarmIsDue

-----------------------------------------------------------------------------
LEMMA Numbers ==
  /\ NumProducts \in Nat /\ NumProducts >= 2 /\ Products = 1..NumProducts
  /\ ProductCap \in Nat /\ ProductCap > 0 /\ Cap \in Nat /\ Cap > 0
  /\ MaxCommands \in Nat /\ MaxMishaps \in Nat
  /\ Alarm \in Runs /\ None \notin Runs /\ Requests \subseteq Runs
  /\ NoTarget = -1
BY PortfolioAssumption DEF Products, Runs, NoTarget

LEMMA Terminals ==
  /\ Terminal \subseteq ProductPhases
  /\ \A m: IsEnabled(m) <=> m.phase \notin Terminal
  /\ {"scheduling", "waiting", "fetching", "retrying", "ordering",
      "cancelling"} \subseteq ProductPhases \ Terminal
BY DEF Terminal, ProductPhases, IsEnabled

LEMMA FirstStates ==
  /\ NewProduct \in ProductStates /\ NewProduct.phase = "stopped"
  /\ NewProduct.position = 0 /\ NewProduct.target = NoTarget
  /\ Started \in ProductStates /\ Started.phase = "scheduling"
  /\ Started.position = 0 /\ Started.target = NoTarget
  /\ IdleRun \in RunStates /\ IdleRun.at = "idle" /\ IdleRun.own = NewProduct
  /\ IdleRun.trigger = FALSE
<1>1. /\ NewProduct \in ProductStates /\ NewProduct.phase = "stopped"
      /\ NewProduct.position = 0 /\ NewProduct.target = NoTarget
  BY Numbers DEF NewProduct, ProductStates, ProductPhases, Terminal
<1>2. /\ Started \in ProductStates /\ Started.phase = "scheduling"
      /\ Started.position = 0 /\ Started.target = NoTarget
  BY <1>1, Terminals DEF Started, ProductStates
<1>3. /\ IdleRun \in RunStates /\ IdleRun.at = "idle"
      /\ IdleRun.own = NewProduct /\ IdleRun.trigger = FALSE
  BY <1>1 DEF IdleRun, RunStates
<1> QED BY <1>1, <1>2, <1>3

LEMMA AllFacts ==
  /\ AllProducts \in Seq(Products) /\ AllProducts # <<>>
  /\ {AllProducts[i]: i \in 1..Len(AllProducts)} = Products
<1>1. AllProducts = [i \in 1..NumProducts |-> i]
  BY Numbers DEF AllProducts
<1>2. AllProducts \in Seq(Products) /\ Len(AllProducts) = NumProducts
  BY <1>1, Numbers
<1>3. AllProducts # <<>>
  BY <1>2, Numbers
<1> QED BY <1>1, <1>2, <1>3, Numbers

LEMMA WalkFacts ==
  ASSUME NEW todo \in Seq(Products)
  PROVE  /\ Walk(todo) \in RunStates /\ Walk(todo).at = "next"
         /\ Walk(todo).todo = todo /\ Walk(todo).own = NewProduct
BY FirstStates DEF Walk, RunStates

(* The product at the head of what a run has to do, and what is left.      *)
LEMMA TailFacts ==
  ASSUME NEW todo \in Seq(Products), todo # <<>>
  PROVE  /\ Head(todo) \in Products /\ Tail(todo) \in Seq(Products)
         /\ {todo[i]: i \in 1..Len(todo)}
              = {Head(todo)} \cup {Tail(todo)[i]: i \in 1..Len(Tail(todo))}
<1>1. /\ Len(todo) \in Nat /\ Len(todo) >= 1 /\ Head(todo) = todo[1]
      /\ Tail(todo) \in Seq(Products) /\ Len(Tail(todo)) = Len(todo) - 1
      /\ \A i \in 1..Len(Tail(todo)): Tail(todo)[i] = todo[i + 1]
  OBVIOUS
<1>2. Head(todo) \in Products
  BY <1>1
<1>3. ASSUME NEW i \in 1..Len(todo)
      PROVE  todo[i] \in {Head(todo)} \cup {Tail(todo)[k]: k \in 1..Len(Tail(todo))}
  <2>1. CASE i = 1
    BY <2>1, <1>1
  <2>2. CASE i # 1
    <3>1. i - 1 \in 1..Len(Tail(todo)) /\ Tail(todo)[i - 1] = todo[i]
      BY <2>2, <1>1
    <3> QED BY <3>1
  <2> QED BY <2>1, <2>2
<1>4. ASSUME NEW k \in 1..Len(Tail(todo))
      PROVE  Tail(todo)[k] \in {todo[i]: i \in 1..Len(todo)}
  <2>1. k + 1 \in 1..Len(todo) /\ Tail(todo)[k] = todo[k + 1]
    BY <1>1
  <2> QED BY <2>1
<1>5. Head(todo) \in {todo[i]: i \in 1..Len(todo)}
  <2>1. 1 \in 1..Len(todo)
    BY <1>1
  <2> QED BY <1>1, <2>1
<1> QED BY <1>1, <1>2, <1>3, <1>4, <1>5

LEMMA SetFacts ==
  ASSUME run \in [Runs -> RunStates], NEW r \in Runs, NEW v \in RunStates,
         Set(r, v)
  PROVE  /\ run' \in [Runs -> RunStates] /\ run'[r] = v
         /\ \A q \in Runs \ {r}: run'[q] = run[q]
BY DEF Set

(* No exposure at all is none together.                                    *)
LEMMA SumOfNothing == Sum([p \in Products |-> 0]) = 0
<1> DEFINE units == {u \in Products \X (1..ProductCap):
                       u[2] <= [p \in Products |-> 0][u[1]]}
<1>1. units = {}
  BY Numbers
<1>2. Sum([p \in Products |-> 0]) = Cardinality(units)
  BY DEF Sum
<1> HIDE DEF units
<1> QED BY <1>1, <1>2, FS_EmptySet

-----------------------------------------------------------------------------
(* A cycle goes on.                                                        *)
LEMMA MoveFacts ==
  ASSUME Typed, NEW r \in Runs, run[r].todo # <<>>, NEW m \in ProductStates,
         NEW at \in {"cycle", "fetch", "publish"}, Move(r, at, m)
  PROVE  /\ This(r) \in Products /\ This(r)' = This(r)
         /\ run' \in [Runs -> RunStates]
         /\ run'[r].at = at /\ run'[r].own = m /\ run'[r].todo = run[r].todo
         /\ \A q \in Runs \ {r}: run'[q] = run[q] /\ This(q)' = This(q)
         /\ product' \in [Products -> ProductStates]
         /\ product'[This(r)].phase = m.phase
         /\ product'[This(r)].target = m.target
         /\ \A p \in Products: product'[p].position = product[p].position
         /\ \A p \in Products \ {This(r)}: product'[p] = product[p]
         /\ Positions' = Positions
<1> DEFINE v == [run[r] EXCEPT !.at = at, !.own = m]
           p == This(r)
           n == [product[p] EXCEPT !.phase = m.phase, !.shutdown = m.shutdown,
                                   !.target = m.target]
<1>1. /\ run \in [Runs -> RunStates] /\ product \in [Products -> ProductStates]
      /\ run[r] \in RunStates
  BY DEF Typed
<1>2. p \in Products
  BY <1>1, TailFacts DEF This, RunStates
<1>3. /\ v \in RunStates /\ v.at = at /\ v.own = m /\ v.todo = run[r].todo
  BY <1>1 DEF RunStates
<1>4. /\ n \in ProductStates /\ n.phase = m.phase /\ n.target = m.target
      /\ n.position = product[p].position
  BY <1>1, <1>2 DEF ProductStates
<1>5. Set(r, v) /\ product' = [product EXCEPT ![p] = n]
  BY DEF Move, Persist
<1> HIDE DEF v, n
<1>6. /\ run' \in [Runs -> RunStates] /\ run'[r] = v
      /\ \A q \in Runs \ {r}: run'[q] = run[q]
  BY <1>1, <1>3, <1>5, SetFacts
<1>7. /\ product' \in [Products -> ProductStates] /\ product'[p] = n
      /\ \A i \in Products \ {p}: product'[i] = product[i]
  BY <1>1, <1>2, <1>4, <1>5
<1>8. \A i \in Products: product'[i].position = product[i].position
  BY <1>4, <1>7
<1>9. Positions' = Positions
  BY <1>8 DEF Positions
<1>10. This(r)' = This(r) /\ \A q \in Runs \ {r}: This(q)' = This(q)
  BY <1>3, <1>6 DEF This
<1> QED BY <1>2, <1>3, <1>4, <1>6, <1>7, <1>8, <1>9, <1>10

(* Where it may go on: at a step of its own, or when its market answers.   *)
GoesOn(r) ==
  /\ \/ current = r /\ run[r].at = "cycle" /\ run[r].own.phase # "fetching"
     \/ current = None /\ run[r].at = "fetch"
  /\ up /\ IsEnabled(run[r].own)

LEMMA MoveKeepsSync ==
  ASSUME IInv, NEW r \in Runs, GoesOn(r), current' = r,
         NEW m \in ProductStates, NEW at \in {"cycle", "publish"},
         Move(r, at, m), UNCHANGED <<up, overlap>>, Targeted(m),
         at = "publish" => m.phase \in Terminal \cup {"waiting", "retrying"},
         at = "cycle" => m.position = run[r].own.position
  PROVE  ThreadIsHeld' /\ PhasesFit' /\ InSync'
<1>1. Typed /\ ThreadIsHeld /\ PhasesFit /\ InSync /\ up
  BY DEF IInv, GoesOn
<1>2. run[r].todo # <<>>
  BY <1>1 DEF GoesOn, ThreadIsHeld, Works
<1>3. /\ This(r) \in Products /\ This(r)' = This(r)
      /\ run' \in [Runs -> RunStates]
      /\ run'[r].at = at /\ run'[r].own = m /\ run'[r].todo = run[r].todo
      /\ \A q \in Runs \ {r}: run'[q] = run[q] /\ This(q)' = This(q)
      /\ product' \in [Products -> ProductStates]
      /\ product'[This(r)].phase = m.phase
      /\ product'[This(r)].target = m.target
      /\ \A p \in Products: product'[p].position = product[p].position
      /\ \A p \in Products \ {This(r)}: product'[p] = product[p]
  BY <1>1, <1>2, MoveFacts
<1>4. \A q \in Runs \ {r}: run[q].at \notin Held
  BY <1>1, Numbers DEF GoesOn, ThreadIsHeld, Held
<1>5. ThreadIsHeld'
  BY <1>1, <1>2, <1>3, <1>4, Numbers DEF ThreadIsHeld, Held, Works
<1>6. PhasesFit'
  BY <1>1, <1>3, <1>4 DEF PhasesFit, Targeted, Held
<1>7. InSync'
  <2> SUFFICES ASSUME ~overlap
               PROVE  /\ \A q \in Runs:
                           /\ Works(run'[q]) =>
                                /\ product'[This(q)'].phase = run'[q].own.phase
                                /\ run'[q].at # "publish" =>
                                     product'[This(q)'].position
                                       = run'[q].own.position
                           /\ run'[q].at # "control"
                      /\ \A q, o \in Runs:
                           run'[q].at = "fetch" /\ run'[o].at = "fetch" /\ q # o =>
                             This(q)' # This(o)'
    BY DEF InSync
  <2>1. ASSUME NEW q \in Runs \ {r}, Works(run[q])
        PROVE  run[q].at = "fetch" /\ This(q) # This(r) /\ This(q) \in Products
    <3>1. run[q].at = "fetch" /\ run[q].own.phase = "fetching"
      BY <1>1, <1>4, <2>1 DEF Works, Held, PhasesFit
    <3>2. This(q) # This(r)
      BY <1>1, <2>1, <3>1 DEF InSync, GoesOn, Works
    <3>3. This(q) \in Products
      BY <1>1, <2>1, TailFacts DEF This, Typed, RunStates, ThreadIsHeld
    <3> QED BY <3>1, <3>2, <3>3
  <2>2. \A q \in Runs \ {r}: run[q].at # "control"
    BY <1>4 DEF Held
  <2>3. product[This(r)].position = run[r].own.position
    BY <1>1 DEF InSync, GoesOn, Works
  <2>4. ASSUME NEW q \in Runs, Works(run'[q])
        PROVE  /\ product'[This(q)'].phase = run'[q].own.phase
               /\ run'[q].at # "publish" =>
                    product'[This(q)'].position = run'[q].own.position
    <3>1. CASE q = r
      BY <1>3, <2>3, <3>1
    <3>2. CASE q # r
      BY <1>1, <1>3, <2>1, <2>4, <3>2 DEF InSync
    <3> QED BY <3>1, <3>2
  <2>5. \A q \in Runs: run'[q].at # "control"
    BY <1>3, <2>2
  <2>6. \A q, o \in Runs:
          run'[q].at = "fetch" /\ run'[o].at = "fetch" /\ q # o =>
            This(q)' # This(o)'
    BY <1>1, <1>3 DEF InSync
  <2> QED BY <2>4, <2>5, <2>6
<1> QED BY <1>5, <1>6, <1>7

(* What the orchestrator knows of the positions has not changed.           *)
Knows(o, n) ==
  /\ n \in Orchestrators /\ n.phase = o.phase /\ n.exposure = o.exposure
  /\ n.statuses = o.statuses

LEMMA MoveKeepsOrders ==
  ASSUME IInv, NEW r \in Runs, GoesOn(r), current' = r,
         NEW m \in ProductStates, Move(r, "publish", m),
         UNCHANGED <<up, overlap, evicted>>, Knows(orchestrator, orchestrator'),
         m.phase \in Terminal \cup {"waiting", "retrying"},
         Undisturbed => Sum([Positions EXCEPT ![This(r)] = m.position]) <= Cap
  PROVE  OrdersAreAdmitted'
<1>1. /\ Typed /\ ThreadIsHeld /\ PhasesFit /\ InSync /\ OrdersAreAdmitted /\ up
      /\ (Undisturbed' <=> Undisturbed)
  BY DEF IInv, GoesOn, Undisturbed
<1>2. run[r].todo # <<>> /\ (run[r].at = "cycle" \/ run[r].at = "fetch")
  BY <1>1 DEF GoesOn, ThreadIsHeld, Works
<1>3. /\ This(r) \in Products /\ This(r)' = This(r)
      /\ run' \in [Runs -> RunStates]
      /\ run'[r].at = "publish" /\ run'[r].own = m
      /\ \A q \in Runs \ {r}: run'[q] = run[q] /\ This(q)' = This(q)
      /\ product' \in [Products -> ProductStates]
      /\ product'[This(r)].phase = m.phase
      /\ \A p \in Products: product'[p].position = product[p].position
      /\ \A p \in Products \ {This(r)}: product'[p] = product[p]
      /\ Positions' = Positions
  BY <1>1, <1>2, MoveFacts
<1>4. \A q \in Runs \ {r}: run[q].at \notin Held
  BY <1>1, Numbers DEF GoesOn, ThreadIsHeld, Held
<1> SUFFICES ASSUME Undisturbed
             PROVE  OrdersAreAdmitted'
  BY <1>1 DEF OrdersAreAdmitted
<1>5. product[This(r)].phase = run[r].own.phase /\ ~overlap
  BY <1>1, <1>2 DEF InSync, Works, Undisturbed
<1>6. product[This(r)].phase \notin Terminal
  BY <1>5, Terminals DEF GoesOn
<1>7. m.phase # "ordering"
  BY Terminals
<1>8. ASSUME NEW p \in Products, product'[p].phase = "ordering"
      PROVE  \E q \in Runs: Ordering(q)' /\ This(q)' = p
  <2>1. p # This(r) /\ product[p].phase = "ordering"
    BY <1>3, <1>7, <1>8
  <2>2. PICK q \in Runs: Ordering(q) /\ This(q) = p
    BY <1>1, <2>1 DEF OrdersAreAdmitted
  <2> QED BY <1>3, <2>1, <2>2 DEF Ordering
<1>9. Sum(Positions') <= Cap
  BY <1>1, <1>3 DEF OrdersAreAdmitted
<1>10. ASSUME NEW q \in Runs
       PROVE  /\ Ordering(q)' =>
                   Sum([Positions' EXCEPT ![This(q)'] = run'[q].own.target])
                     <= Cap
              /\ run'[q].at = "publish" =>
                   Sum([Positions' EXCEPT ![This(q)'] = run'[q].own.position])
                     <= Cap
  <2>1. CASE q = r
    <3>1. ~Ordering(q)'
      BY <2>1, <1>3 DEF Ordering
    <3>2. [Positions' EXCEPT ![This(q)'] = run'[q].own.position]
            = [Positions EXCEPT ![This(r)] = m.position]
      BY <2>1, <1>3
    <3> QED BY <3>1, <3>2
  <2>2. CASE q # r
    BY <2>2, <1>3, <1>4 DEF Ordering, Held
  <2> QED BY <2>1, <2>2
<1>11. /\ orchestrator'.phase = orchestrator.phase
       /\ orchestrator'.exposure = orchestrator.exposure
       /\ orchestrator'.statuses = orchestrator.statuses
       /\ (Active(orchestrator') <=> Active(orchestrator))
  BY DEF Knows, Active
<1>12. ASSUME NEW p \in Products, Active(orchestrator)
       PROVE  /\ \/ orchestrator'.exposure[p] = product'[p].position
                 \/ \E q \in Runs: Settles(q, p)'
              /\ orchestrator'.statuses[p] \in Terminal =>
                   product'[p].phase \in Terminal
  <2>1. CASE p = This(r)
    BY <2>1, <1>1, <1>3, <1>6, <1>11, <1>12 DEF Settles, OrdersAreAdmitted
  <2>2. CASE p # This(r)
    <3>1. \A q \in Runs: ~Settles(q, p)
      BY <2>2, <1>4 DEF Settles, Ordering, Held
    <3>2. /\ orchestrator.exposure[p] = product[p].position
          /\ orchestrator.statuses[p] \in Terminal => product[p].phase \in Terminal
      BY <1>1, <1>12, <3>1 DEF OrdersAreAdmitted
    <3> QED BY <2>2, <3>2, <1>3, <1>11
  <2> QED BY <2>1, <2>2
<1>13. Active(orchestrator)
  BY <1>1, <1>3, <1>6 DEF OrdersAreAdmitted
<1> QED BY <1>1, <1>8, <1>9, <1>10, <1>11, <1>12, <1>13 DEF OrdersAreAdmitted

(* The alarm: what ends no longer needs it, what waits has it armed.       *)
LEMMA MoveKeepsAlarm ==
  ASSUME IInv, NEW r \in Runs, GoesOn(r),
         NEW m \in ProductStates, NEW at \in {"cycle", "publish"},
         Move(r, at, m), UNCHANGED <<up, overlap>>, schedule' \in BOOLEAN,
         schedule => schedule',
         \/ m.phase \in Terminal
         \/ m.phase = "waiting" /\ schedule'
         \/ run[r].own.phase \notin {"scheduling", "cancelling"}
  PROVE  AlarmIsDue'
<1>1. /\ Typed /\ ThreadIsHeld /\ InSync /\ AlarmIsDue /\ up
  BY DEF IInv, GoesOn
<1>2. run[r].todo # <<>> /\ Works(run[r])
  BY <1>1 DEF GoesOn, ThreadIsHeld, Works
<1>3. /\ This(r) \in Products
      /\ run' \in [Runs -> RunStates]
      /\ run'[r].at = at /\ run'[r].todo = run[r].todo
      /\ \A q \in Runs \ {r}: run'[q] = run[q]
      /\ product'[This(r)].phase = m.phase
      /\ \A p \in Products \ {This(r)}: product'[p] = product[p]
  BY <1>1, <1>2, MoveFacts
<1>4. \A q \in Runs: Ahead(run'[q]) = Ahead(run[q])
  <2>1. Ahead(run'[r]) = Ahead(run[r])
    BY <1>2, <1>3 DEF Ahead, Works
  <2> QED BY <1>3, <2>1
<1> SUFFICES ASSUME ~overlap, ~schedule, ~schedule', NEW p \in Products,
                    IsEnabled(product'[p])
             PROVE  /\ product'[p].phase \in {"scheduling", "cancelling"}
                    /\ \E q \in Runs: p \in Ahead(run'[q])
  BY <1>1 DEF AlarmIsDue
<1>5. product[This(r)].phase = run[r].own.phase
  BY <1>1, <1>2 DEF InSync
<1>6. CASE p = This(r)
  <2>1. m.phase \notin Terminal
    BY <1>3, <1>6, Terminals
  <2>2. run[r].own.phase \in {"scheduling", "cancelling"}
    BY <1>1, <1>3, <1>5, Terminals DEF AlarmIsDue, GoesOn
  <2> QED BY <2>1, <2>2
<1>7. CASE p # This(r)
  BY <1>1, <1>3, <1>4, <1>7 DEF AlarmIsDue
<1> QED BY <1>6, <1>7

LEMMA MoveGood ==
  ASSUME IInv, NEW r \in Runs, GoesOn(r), current' = r,
         NEW m \in ProductStates, Move(r, "publish", m),
         UNCHANGED <<up, overlap, evicted>>, Knows(orchestrator, orchestrator'),
         m.phase \in Terminal \cup {"waiting", "retrying"},
         Undisturbed => Sum([Positions EXCEPT ![This(r)] = m.position]) <= Cap,
         schedule' \in BOOLEAN, schedule => schedule',
         \/ m.phase \in Terminal
         \/ m.phase = "waiting" /\ schedule'
         \/ run[r].own.phase \notin {"scheduling", "cancelling"},
         retryAlarm' \in [Products -> BOOLEAN], undecided' \in BOOLEAN,
         commands' = commands, mishaps' \in 0..MaxMishaps
  PROVE  IInv'
<1>1. Typed /\ ThreadIsHeld
  BY DEF IInv
<1>2. Targeted(m)
  BY Terminals DEF Targeted
<1>3. ThreadIsHeld' /\ PhasesFit' /\ InSync'
  BY <1>2, MoveKeepsSync
<1>4. OrdersAreAdmitted' /\ AlarmIsDue'
  BY MoveKeepsOrders, MoveKeepsAlarm
<1>5. Typed'
  <2>1. run[r].todo # <<>>
    BY <1>1 DEF GoesOn, ThreadIsHeld, Works
  <2>2. run' \in [Runs -> RunStates] /\ product' \in [Products -> ProductStates]
    BY <1>1, <2>1, MoveFacts
  <2> QED BY <1>1, <2>2 DEF Typed, Knows
<1> QED BY <1>3, <1>4, <1>5 DEF IInv

-----------------------------------------------------------------------------
(* The steps of a cycle that end it.                                       *)
LEMMA RestFacts ==
  ASSUME NEW m \in ProductStates
  PROVE  /\ Rest(m) \in ProductStates
         /\ Rest(m).phase \in {"stopped", "halted", "waiting"}
         /\ Rest(m).phase = "waiting" \/ Rest(m).phase \in Terminal
         /\ Rest(m).position = m.position /\ Rest(m).target = m.target
<1> DEFINE phase == CASE m.shutdown = "stop" -> "stopped"
                      [] m.shutdown = "kill" -> "halted"
                      [] OTHER -> "waiting"
<1>1. phase \in {"stopped", "halted", "waiting"}
  <2>1. CASE m.shutdown = "stop"
    BY <2>1
  <2>2. CASE m.shutdown = "kill"
    BY <2>2
  <2>3. CASE m.shutdown \notin {"stop", "kill"}
    BY <2>3
  <2> QED BY <2>1, <2>2, <2>3
<1>2. Rest(m) = [m EXCEPT !.phase = phase]
  BY DEF Rest
<1> HIDE DEF phase
<1> QED BY <1>1, <1>2 DEF ProductStates, ProductPhases, Terminal

(* A cycle that leaves the position alone leaves the sum alone.            *)
LEMMA SamePosition ==
  ASSUME IInv, NEW r \in Runs, run[r].at \in {"cycle", "fetch"}, Undisturbed
  PROVE  Sum([Positions EXCEPT ![This(r)] = run[r].own.position]) <= Cap
<1>1. product[This(r)].position = run[r].own.position
  BY DEF IInv, InSync, Works, Undisturbed
<1>2. This(r) \in Products
  BY TailFacts DEF IInv, Typed, ThreadIsHeld, Works, This, RunStates
<1>3. [Positions EXCEPT ![This(r)] = run[r].own.position] = Positions
  BY <1>1, <1>2 DEF Positions
<1>4. Sum(Positions) <= Cap
  BY DEF IInv, OrdersAreAdmitted
<1> QED BY <1>3, <1>4

LEMMA OwnFacts ==
  ASSUME IInv, NEW r \in Runs
  PROVE  /\ run[r].own \in ProductStates
         /\ retryAlarm \in [Products -> BOOLEAN] /\ undecided \in BOOLEAN
         /\ schedule \in BOOLEAN /\ mishaps \in 0..MaxMishaps
         /\ Knows(orchestrator, orchestrator)
         /\ run[r].at \in Held <=> current = r
         /\ run[r].at # "idle" => up
         /\ run[r].at = "fetch" => run[r].own.phase = "fetching"
         /\ Works(run[r]) => This(r) \in Products
<1>1. Typed /\ ThreadIsHeld /\ PhasesFit
  BY DEF IInv
<1>2. run[r] \in RunStates
  BY <1>1 DEF Typed
<1>3. run[r].own \in ProductStates
  BY <1>2 DEF RunStates
<1>4. Works(run[r]) => This(r) \in Products
  BY <1>1, <1>2, TailFacts DEF This, ThreadIsHeld, RunStates
<1> QED BY <1>1, <1>3, <1>4 DEF Typed, Knows, ThreadIsHeld, PhasesFit

LEMMA EndGood ==
  ASSUME IInv, NEW r \in Runs, GoesOn(r), current' = r,
         NEW m \in ProductStates, End(r, m),
         UNCHANGED <<up, overlap, evicted, commands, mishaps>>,
         m.phase \in Terminal \cup {"waiting"},
         Knows(orchestrator, orchestrator'),
         Undisturbed => Sum([Positions EXCEPT ![This(r)] = m.position]) <= Cap,
         UNCHANGED <<retryAlarm, undecided>>
  PROVE  IInv'
<1>1. /\ Move(r, "publish", m) /\ schedule' = (schedule \/ m.phase = "waiting")
      /\ schedule \in BOOLEAN /\ mishaps' \in 0..MaxMishaps
      /\ retryAlarm' \in [Products -> BOOLEAN] /\ undecided' \in BOOLEAN
  BY OwnFacts DEF End
<1>2. /\ schedule' \in BOOLEAN /\ (schedule => schedule')
      /\ m.phase \in Terminal \/ (m.phase = "waiting" /\ schedule')
  BY <1>1
<1> QED BY <1>1, <1>2, MoveGood

LEMMA SettleGood ==
  ASSUME IInv, NEW r \in Runs, Settle(r)
  PROVE  IInv'
<1> DEFINE m == Rest(run[r].own)
<1>1. /\ current = r /\ run[r].at = "cycle" /\ current' = r
      /\ run[r].own.phase \in {"scheduling", "cancelling"} /\ End(r, m)
      /\ UNCHANGED <<up, overlap, evicted, commands, mishaps, orchestrator,
                     retryAlarm, undecided>>
  BY DEF Settle, Holds, shell
<1>2. GoesOn(r)
  BY <1>1, OwnFacts, Terminals DEF GoesOn
<1>3. /\ m \in ProductStates /\ m.phase \in Terminal \cup {"waiting"}
      /\ m.position = run[r].own.position
  BY OwnFacts, RestFacts
<1>4. Knows(orchestrator, orchestrator')
  BY <1>1, OwnFacts
<1>5. Undisturbed => Sum([Positions EXCEPT ![This(r)] = m.position]) <= Cap
  BY <1>1, <1>3, SamePosition
<1> QED BY <1>1, <1>2, <1>3, <1>4, <1>5, EndGood

LEMMA FailGood ==
  ASSUME IInv, NEW r \in Runs, Fail(r)
  PROVE  IInv'
<1> DEFINE m == [run[r].own EXCEPT !.phase = "failed", !.target = NoTarget]
<1>1. /\ current = r /\ run[r].at = "cycle" /\ current' = r /\ mishaps < MaxMishaps
      /\ run[r].own.phase \in {"scheduling", "cancelling", "ordering"}
      /\ Move(r, "publish", m) /\ mishaps' = mishaps + 1
      /\ UNCHANGED <<up, overlap, evicted, commands, orchestrator, schedule,
                     retryAlarm, undecided>>
  BY DEF Fail, Holds, Mishap
<1>2. GoesOn(r)
  BY <1>1, OwnFacts, Terminals DEF GoesOn
<1>3. /\ m \in ProductStates /\ m.phase = "failed" /\ m.phase \in Terminal
      /\ m.position = run[r].own.position
  <2>1. "failed" \in Terminal /\ "failed" \in ProductPhases
    BY DEF Terminal, ProductPhases
  <2>2. NoTarget \in NoTarget..ProductCap
    BY Numbers
  <2> QED BY <2>1, <2>2, OwnFacts DEF ProductStates
<1>4. Undisturbed => Sum([Positions EXCEPT ![This(r)] = m.position]) <= Cap
  BY <1>1, <1>3, SamePosition
<1>5. mishaps' \in 0..MaxMishaps
  BY <1>1, OwnFacts, Numbers
<1>6. /\ Knows(orchestrator, orchestrator') /\ schedule' \in BOOLEAN
      /\ retryAlarm' \in [Products -> BOOLEAN] /\ undecided' \in BOOLEAN
  BY <1>1, OwnFacts
<1> HIDE DEF m
<1> QED BY <1>1, <1>2, <1>3, <1>4, <1>5, <1>6, MoveGood

LEMMA AnsweredFacts ==
  ASSUME IInv, NEW r \in Runs, Answered(r)
  PROVE  /\ GoesOn(r) /\ current' = r /\ current = None /\ run[r].at = "fetch"
         /\ run[r].own.phase = "fetching"
BY OwnFacts, Terminals DEF Answered, GoesOn

LEMMA NoOrderGood ==
  ASSUME IInv, NEW r \in Runs, Answered(r), End(r, Rest(run[r].own)),
         UNCHANGED <<retryAlarm, shell, overlap, undecided>>,
         Knows(orchestrator, orchestrator')
  PROVE  IInv'
<1> DEFINE m == Rest(run[r].own)
<1>1. UNCHANGED <<up, overlap, evicted, commands, mishaps>>
  BY DEF shell
<1>2. /\ m \in ProductStates /\ m.phase \in Terminal \cup {"waiting"}
      /\ m.position = run[r].own.position
  BY OwnFacts, RestFacts
<1>3. Undisturbed => Sum([Positions EXCEPT ![This(r)] = m.position]) <= Cap
  BY <1>2, AnsweredFacts, SamePosition
<1> HIDE DEF m
<1> QED BY <1>1, <1>2, <1>3, AnsweredFacts, EndGood DEF m

LEMMA PlanRetryGood ==
  ASSUME IInv, NEW r \in Runs, PlanRetry(r)
  PROVE  IInv'
<1> DEFINE m == [run[r].own EXCEPT !.phase = "retrying"]
<1>1. /\ GoesOn(r) /\ current' = r /\ run[r].at = "fetch"
      /\ run[r].own.phase = "fetching"
      /\ Move(r, "publish", m)
      /\ retryAlarm' = [retryAlarm EXCEPT ![This(r)] = TRUE]
      /\ UNCHANGED <<up, overlap, evicted, commands, mishaps, orchestrator,
                     schedule, undecided>>
  BY AnsweredFacts DEF PlanRetry, shell
<1>2. /\ m \in ProductStates /\ m.phase = "retrying"
      /\ m.position = run[r].own.position
  BY OwnFacts, Terminals DEF ProductStates
<1>3. Undisturbed => Sum([Positions EXCEPT ![This(r)] = m.position]) <= Cap
  BY <1>1, <1>2, SamePosition
<1>4. /\ Knows(orchestrator, orchestrator') /\ schedule' \in BOOLEAN
      /\ retryAlarm' \in [Products -> BOOLEAN] /\ undecided' \in BOOLEAN
      /\ mishaps' \in 0..MaxMishaps
  BY <1>1, OwnFacts
<1> HIDE DEF m
<1> QED BY <1>1, <1>2, <1>3, <1>4, MoveGood

LEMMA ExecuteGood ==
  ASSUME IInv, NEW r \in Runs, Execute(r)
  PROVE  IInv'
<1> PICK done \in {TRUE, run[r].own.shutdown = "none"}:
      End(r, [Rest(run[r].own) EXCEPT
                !.target = NoTarget,
                !.position = IF done THEN Filled(run[r].own) ELSE @])
  BY DEF Execute
<1> DEFINE rest == Rest(run[r].own)
           position == IF done THEN run[r].own.target ELSE rest.position
           m == [rest EXCEPT !.target = NoTarget, !.position = position]
<1>1. /\ current = r /\ run[r].at = "cycle" /\ current' = r
      /\ run[r].own.phase = "ordering"
      /\ UNCHANGED <<up, overlap, evicted, commands, mishaps, orchestrator,
                     retryAlarm, undecided>>
  BY DEF Execute, Holds, shell
<1>2. GoesOn(r)
  BY <1>1, OwnFacts, Terminals DEF GoesOn
<1>3. run[r].own.target \in 0..ProductCap
  <2>1. run[r].own.target # NoTarget
    BY <1>1 DEF IInv, PhasesFit, Targeted
  <2>2. run[r].own.target \in NoTarget..ProductCap
    BY OwnFacts DEF ProductStates
  <2> QED BY <2>1, <2>2, Numbers
<1>4. /\ rest \in ProductStates /\ rest.phase \in Terminal \cup {"waiting"}
      /\ rest.position = run[r].own.position /\ rest.position \in 0..ProductCap
  <2>1. /\ rest \in ProductStates /\ rest.phase \in Terminal \cup {"waiting"}
        /\ rest.position = run[r].own.position
    BY OwnFacts, RestFacts
  <2> QED BY <2>1 DEF ProductStates
<1> HIDE DEF rest
<1>5. position \in 0..ProductCap
  BY <1>3, <1>4
<1>6. End(r, m)
  <2>1. m = [rest EXCEPT !.target = NoTarget,
                         !.position = IF done THEN Filled(run[r].own) ELSE @]
    BY <1>4 DEF Filled, ProductStates
  <2> QED BY <2>1 DEF rest
<1> HIDE DEF position
<1>7. /\ m \in ProductStates /\ m.phase \in Terminal \cup {"waiting"}
      /\ m.position = position
  <2>1. NoTarget \in NoTarget..ProductCap
    BY Numbers
  <2> QED BY <2>1, <1>4, <1>5 DEF ProductStates
<1> HIDE DEF m
<1>8. Undisturbed => Sum([Positions EXCEPT ![This(r)] = m.position]) <= Cap
  <2>1. CASE done
    <3>1. m.position = run[r].own.target
      BY <1>7, <2>1 DEF position
    <3>2. Ordering(r)
      BY <1>1 DEF Ordering
    <3> QED BY <3>1, <3>2 DEF IInv, OrdersAreAdmitted
  <2>2. CASE ~done
    <3>1. m.position = run[r].own.position
      BY <1>4, <1>7, <2>2 DEF position
    <3> QED BY <3>1, <1>1, SamePosition
  <2> QED BY <2>1, <2>2
<1>9. Knows(orchestrator, orchestrator')
  BY <1>1, OwnFacts
<1> QED BY <1>1, <1>2, <1>6, <1>7, <1>8, <1>9, EndGood

(* What the orchestrator answers to a proposal.                            *)
LEMMA RiskFacts ==
  ASSUME NEW o \in Orchestrators, NEW p \in Products, NEW target \in 0..ProductCap
  PROVE  LET n == RiskProposed(o, p, target) IN
         /\ n \in Orchestrators
         /\ \/ /\ o.phase = "running" /\ Admissible(o, p, target)
               /\ n.phase = o.phase /\ n.statuses = o.statuses
               /\ n.exposure = [o.exposure EXCEPT ![p] = target]
               /\ Approved(n, p)
            \/ Active(o) /\ Knows(o, n) /\ ~Approved(n, p)
            \/ ~Active(o) /\ n = o
<1> DEFINE n == RiskProposed(o, p, target)
<1>1. CASE o.phase = "running" /\ Admissible(o, p, target)
  <2>1. n = [o EXCEPT !.exposure[p] = target, !.last = <<p, TRUE>>]
    BY <1>1 DEF RiskProposed
  <2> HIDE DEF n
  <2>2. /\ n \in Orchestrators
        /\ n.phase = o.phase /\ n.statuses = o.statuses
        /\ n.exposure = [o.exposure EXCEPT ![p] = target]
        /\ n.last = <<p, TRUE>>
    BY <2>1 DEF Orchestrators
  <2> QED BY <1>1, <2>2 DEF Approved, n
<1>2. CASE ~(o.phase = "running" /\ Admissible(o, p, target)) /\ Active(o)
  <2>1. n = [o EXCEPT !.last = <<p, FALSE>>]
    BY <1>2 DEF RiskProposed, Active
  <2> HIDE DEF n
  <2>2. /\ n \in Orchestrators
        /\ n.phase = o.phase /\ n.statuses = o.statuses
        /\ n.exposure = o.exposure /\ n.last = <<p, FALSE>>
    BY <2>1 DEF Orchestrators
  <2> QED BY <1>2, <2>2 DEF Approved, Knows, n
<1>3. CASE ~Active(o)
  <2>1. n = o
    BY <1>3 DEF RiskProposed, Active
  <2> QED BY <1>3, <2>1
<1> QED BY <1>1, <1>2, <1>3 DEF Active

LEMMA AdmittedGood ==
  ASSUME IInv, NEW r \in Runs, Answered(r), NEW target \in 0..ProductCap,
         orchestrator' = RiskProposed(orchestrator, This(r), target),
         Approved(orchestrator', This(r)),
         Move(r, "cycle",
              [run[r].own EXCEPT !.phase = "ordering", !.target = target]),
         UNCHANGED <<schedule, retryAlarm, shell, overlap>>, undecided' \in BOOLEAN
  PROVE  IInv'
<1> DEFINE m == [run[r].own EXCEPT !.phase = "ordering", !.target = target]
           p == This(r)
<1>1. /\ GoesOn(r) /\ current' = r /\ current = None /\ run[r].at = "fetch"
      /\ run[r].own.phase = "fetching" /\ Works(run[r]) /\ p \in Products
      /\ UNCHANGED <<up, overlap, evicted, commands, mishaps>>
  BY AnsweredFacts, OwnFacts DEF shell, Works
<1>2. /\ m \in ProductStates /\ m.phase = "ordering" /\ m.target = target
      /\ m.position = run[r].own.position
  <2>1. target \in NoTarget..ProductCap
    BY Numbers
  <2>2. run[r].own \in ProductStates /\ "ordering" \in ProductPhases
    BY OwnFacts DEF ProductPhases
  <2> QED BY <2>1, <2>2 DEF ProductStates
<1>3. Targeted(m)
  BY <1>2, Numbers DEF Targeted
<1> HIDE DEF m
<1>4. Move(r, "cycle", m)
  BY DEF m
<1>5. ThreadIsHeld' /\ PhasesFit' /\ InSync'
  BY <1>1, <1>2, <1>3, <1>4, MoveKeepsSync
<1>6. AlarmIsDue'
  BY <1>1, <1>2, <1>4, OwnFacts, MoveKeepsAlarm
<1>7. /\ Typed /\ ThreadIsHeld /\ InSync /\ OrdersAreAdmitted
      /\ orchestrator \in Orchestrators /\ run[r].todo # <<>>
  BY <1>1 DEF IInv, Typed, ThreadIsHeld
<1>8. /\ This(r)' = p
      /\ run' \in [Runs -> RunStates]
      /\ run'[r].at = "cycle" /\ run'[r].own = m
      /\ \A q \in Runs \ {r}: run'[q] = run[q] /\ This(q)' = This(q)
      /\ product' \in [Products -> ProductStates]
      /\ product'[p].phase = m.phase
      /\ \A i \in Products: product'[i].position = product[i].position
      /\ \A i \in Products \ {p}: product'[i] = product[i]
      /\ Positions' = Positions
  BY <1>2, <1>4, <1>7, MoveFacts
<1>9. \A q \in Runs \ {r}: run[q].at \notin Held
  BY <1>1, <1>7, Numbers DEF ThreadIsHeld, Held
<1>10. Typed'
  <2>1. orchestrator' \in Orchestrators
    BY <1>1, <1>7, RiskFacts
  <2> QED BY <1>1, <1>7, <1>8, <2>1 DEF Typed
<1>11. OrdersAreAdmitted'
  <2> SUFFICES ASSUME Undisturbed
               PROVE  OrdersAreAdmitted'
    BY <1>1 DEF OrdersAreAdmitted, Undisturbed
  <2>1. Active(orchestrator)
    BY <1>1, <1>7, Terminals
       DEF OrdersAreAdmitted, InSync, Undisturbed
  <2>2. /\ orchestrator.phase = "running" /\ Admissible(orchestrator, p, target)
        /\ orchestrator'.phase = orchestrator.phase
        /\ orchestrator'.statuses = orchestrator.statuses
        /\ orchestrator'.exposure = [orchestrator.exposure EXCEPT ![p] = target]
    BY <1>1, <1>7, <2>1, RiskFacts
  <2>3. \A q \in Runs, i \in Products: ~Settles(q, i)
    BY <1>1, <1>9 DEF Settles, Ordering, Held
  <2>4. \A i \in Products: orchestrator.exposure[i] = product[i].position
    BY <1>7, <2>1, <2>3 DEF OrdersAreAdmitted
  <2>5. orchestrator.exposure = Positions
    BY <1>7, <2>4 DEF Orchestrators, Positions
  <2>6. Sum([Positions EXCEPT ![p] = target]) <= Cap
    BY <2>2, <2>5 DEF Admissible
  <2>7. ASSUME NEW i \in Products, product'[i].phase = "ordering"
        PROVE  \E q \in Runs: Ordering(q)' /\ This(q)' = i
    <3>1. CASE i = p
      BY <3>1, <1>2, <1>8 DEF Ordering
    <3>2. CASE i # p
      BY <3>2, <2>7, <1>1, <1>7, <1>8 DEF Ordering, OrdersAreAdmitted
    <3> QED BY <3>1, <3>2
  <2>8. ASSUME NEW q \in Runs
        PROVE  /\ Ordering(q)' =>
                    Sum([Positions' EXCEPT ![This(q)'] = run'[q].own.target])
                      <= Cap
               /\ run'[q].at # "publish"
    <3>1. CASE q = r
      <4>1. [Positions' EXCEPT ![This(q)'] = run'[q].own.target]
              = [Positions EXCEPT ![p] = target]
        BY <3>1, <1>2, <1>8
      <4> QED BY <3>1, <4>1, <1>8, <2>6
    <3>2. CASE q # r
      BY <3>2, <1>8, <1>9 DEF Ordering, Held
    <3> QED BY <3>1, <3>2
  <2>9. ASSUME NEW i \in Products
        PROVE  /\ \/ orchestrator'.exposure[i] = product'[i].position
                  \/ \E q \in Runs: Settles(q, i)'
               /\ orchestrator'.statuses[i] \in Terminal =>
                    product'[i].phase \in Terminal
    <3>1. CASE i = p
      <4>1. Settles(r, i)'
        BY <3>1, <1>2, <1>8 DEF Settles, Ordering
      <4>2. orchestrator'.statuses[i] \notin Terminal
        BY <3>1, <2>2 DEF Admissible, Terminal
      <4> QED BY <4>1, <4>2
    <3>2. CASE i # p
      BY <3>2, <1>7, <1>8, <2>1, <2>2, <2>4
         DEF Orchestrators, OrdersAreAdmitted
    <3> QED BY <3>1, <3>2
  <2>10. Active(orchestrator')
    BY <2>1, <2>2 DEF Active
  <2>11. Sum(Positions') <= Cap
    BY <1>7, <1>8 DEF OrdersAreAdmitted
  <2> QED BY <2>7, <2>8, <2>9, <2>10, <2>11 DEF OrdersAreAdmitted
<1> QED BY <1>5, <1>6, <1>10, <1>11 DEF IInv

LEMMA ProposeGood ==
  ASSUME IInv, NEW r \in Runs, Propose(r)
  PROVE  IInv'
<1>1. Answered(r) /\ UNCHANGED <<retryAlarm, shell, overlap>>
  BY DEF Propose
<1>2. PICK target \in 0..ProductCap \ {run[r].own.position}:
        /\ orchestrator' = RiskProposed(orchestrator, This(r), target)
        /\ IF Approved(orchestrator', This(r))
           THEN /\ Move(r, "cycle", [run[r].own EXCEPT !.phase = "ordering",
                                                       !.target = target])
                /\ UNCHANGED schedule
                /\ undecided' = (undecided \/ ~Active(orchestrator))
           ELSE End(r, Rest(run[r].own)) /\ UNCHANGED undecided
  BY DEF Propose
<1>3. target \in 0..ProductCap /\ undecided \in BOOLEAN /\ This(r) \in Products
      /\ orchestrator \in Orchestrators
  BY <1>1, AnsweredFacts, OwnFacts DEF Works, IInv, Typed
<1>4. CASE Approved(orchestrator', This(r))
  <2>1. undecided' \in BOOLEAN
    BY <1>2, <1>3, <1>4
  <2> QED BY <1>1, <1>2, <1>3, <1>4, <2>1, AdmittedGood
<1>5. CASE ~Approved(orchestrator', This(r))
  <2>1. Knows(orchestrator, orchestrator')
    BY <1>2, <1>3, <1>5, RiskFacts DEF Knows
  <2> QED BY <1>1, <1>2, <1>5, <2>1, NoOrderGood
<1> QED BY <1>4, <1>5

(* The market is awaited: a cycle of the same product that already awaits  *)
(* it makes the two overlap.                                               *)
LEMMA FetchGood ==
  ASSUME IInv, NEW r \in Runs, Fetch(r)
  PROVE  IInv'
<1> DEFINE m == [run[r].own EXCEPT !.phase = "fetching"]
           p == This(r)
<1>1. /\ current = r /\ run[r].at = "cycle" /\ Works(run[r]) /\ p \in Products
      /\ run[r].own.phase \in {"waiting", "fetching", "retrying"}
      /\ Move(r, "fetch", m) /\ current' = None
      /\ overlap' = (overlap \/ InFlight(p))
      /\ UNCHANGED <<orchestrator, schedule, retryAlarm, undecided, up, evicted,
                     commands, mishaps>>
  BY OwnFacts DEF Fetch, Holds, Fires, shell, Works
<1>2. /\ m \in ProductStates /\ m.phase = "fetching"
      /\ m.position = run[r].own.position
  BY OwnFacts, Terminals DEF ProductStates
<1> HIDE DEF m
<1>3. /\ Typed /\ ThreadIsHeld /\ PhasesFit /\ InSync /\ OrdersAreAdmitted
      /\ AlarmIsDue /\ run[r].todo # <<>> /\ up /\ overlap \in BOOLEAN
  BY <1>1, OwnFacts DEF IInv, Typed, ThreadIsHeld
<1>4. /\ This(r)' = p
      /\ run' \in [Runs -> RunStates]
      /\ run'[r].at = "fetch" /\ run'[r].own = m /\ run'[r].todo = run[r].todo
      /\ \A q \in Runs \ {r}: run'[q] = run[q] /\ This(q)' = This(q)
      /\ product' \in [Products -> ProductStates]
      /\ product'[p].phase = m.phase /\ product'[p].target = m.target
      /\ \A i \in Products: product'[i].position = product[i].position
      /\ \A i \in Products \ {p}: product'[i] = product[i]
      /\ Positions' = Positions
  BY <1>1, <1>2, <1>3, MoveFacts
<1>5. \A q \in Runs \ {r}: run[q].at \notin Held
  BY <1>1, <1>3 DEF ThreadIsHeld
<1>6. Typed'
  <2>1. overlap' \in BOOLEAN
    BY <1>1, <1>3
  <2> QED BY <1>1, <1>3, <1>4, <2>1 DEF Typed
<1>7. ThreadIsHeld'
  BY <1>1, <1>3, <1>4, <1>5, Numbers DEF ThreadIsHeld, Held, Works
<1>8. PhasesFit'
  BY <1>2, <1>3, <1>4 DEF PhasesFit, Targeted
<1>9. ASSUME ~overlap'
      PROVE  /\ ~overlap /\ product[p].phase = run[r].own.phase
             /\ product[p].position = run[r].own.position
             /\ \A q \in Runs \ {r}: Works(run[q]) =>
                  run[q].at = "fetch" /\ This(q) # p /\ This(q) \in Products
  <2>1. ~overlap /\ \A q \in Runs: run[q].at = "fetch" => This(q) # p
    BY <1>1, <1>3, <1>9 DEF InFlight
  <2>2. \A q \in Runs \ {r}: Works(run[q]) => run[q].at = "fetch"
    BY <1>5 DEF Works, Held
  <2>3. \A q \in Runs: Works(run[q]) => This(q) \in Products
    BY OwnFacts
  <2> QED BY <1>1, <1>3, <2>1, <2>2, <2>3 DEF InSync
<1>10. InSync'
  <2> SUFFICES ASSUME ~overlap'
               PROVE  InSync'
    BY DEF InSync
  <2>1. ASSUME NEW q \in Runs, Works(run'[q])
        PROVE  /\ product'[This(q)'].phase = run'[q].own.phase
               /\ product'[This(q)'].position = run'[q].own.position
    <3>1. CASE q = r
      BY <3>1, <1>1, <1>2, <1>4, <1>9
    <3>2. CASE q # r
      BY <3>2, <2>1, <1>3, <1>4, <1>9 DEF InSync
    <3> QED BY <3>1, <3>2
  <2>2. \A q \in Runs: run'[q].at # "control"
    BY <1>4, <1>5 DEF Held
  <2>3. ASSUME NEW q \in Runs, NEW o \in Runs, run'[q].at = "fetch",
               run'[o].at = "fetch", q # o
        PROVE  This(q)' # This(o)'
    <3>1. CASE q = r \/ o = r
      BY <3>1, <2>3, <1>4, <1>9 DEF Works
    <3>2. CASE q # r /\ o # r
      BY <3>2, <2>3, <1>3, <1>4, <1>9 DEF InSync
    <3> QED BY <3>1, <3>2
  <2> QED BY <2>1, <2>2, <2>3 DEF InSync
<1>11. OrdersAreAdmitted'
  <2> SUFFICES ASSUME Undisturbed'
               PROVE  OrdersAreAdmitted'
    BY DEF OrdersAreAdmitted
  <2>1. Undisturbed /\ ~overlap'
    BY <1>1, <1>9 DEF Undisturbed
  <2>2. product[p].phase \in {"waiting", "fetching", "retrying"}
    BY <1>1, <1>9, <2>1
  <2>3. ASSUME NEW i \in Products, product'[i].phase = "ordering"
        PROVE  \E q \in Runs: Ordering(q)' /\ This(q)' = i
    <3>1. i # p /\ product[i].phase = "ordering"
      BY <2>3, <1>2, <1>4
    <3>2. PICK q \in Runs: Ordering(q) /\ This(q) = i
      BY <1>3, <2>1, <3>1 DEF OrdersAreAdmitted
    <3> QED BY <3>1, <3>2, <1>4 DEF Ordering
  <2>4. \A q \in Runs: ~Ordering(q)' /\ run'[q].at # "publish"
    BY <1>4, <1>5 DEF Ordering, Held
  <2>5. \A q \in Runs, i \in Products: ~Settles(q, i)
    BY <1>1, <1>5 DEF Settles, Ordering, Held
  <2>6. /\ Active(orchestrator) =>
             \A i \in Products:
               /\ orchestrator.exposure[i] = product'[i].position
               /\ orchestrator.statuses[i] \in Terminal =>
                    product'[i].phase \in Terminal
        /\ ~Active(orchestrator) => \A i \in Products: product'[i].phase \in Terminal
    BY <1>1, <1>3, <1>4, <2>1, <2>2, <2>5 DEF OrdersAreAdmitted, Terminal
  <2>7. Sum(Positions') <= Cap
    BY <1>3, <1>4, <2>1 DEF OrdersAreAdmitted
  <2> QED BY <1>1, <2>3, <2>4, <2>6, <2>7 DEF OrdersAreAdmitted
<1>12. AlarmIsDue'
  <2> SUFFICES ASSUME ~overlap', ~schedule, NEW i \in Products,
                      IsEnabled(product'[i])
               PROVE  /\ product'[i].phase \in {"scheduling", "cancelling"}
                      /\ \E q \in Runs: i \in Ahead(run'[q])
    BY <1>1 DEF AlarmIsDue
  <2>1. i # p
    BY <1>1, <1>3, <1>9, Terminals DEF AlarmIsDue
  <2>2. \A q \in Runs: Ahead(run'[q]) = Ahead(run[q])
    <3>1. Ahead(run'[r]) = Ahead(run[r])
      BY <1>1, <1>4 DEF Ahead
    <3> QED BY <1>4, <3>1
  <2> QED BY <1>3, <1>4, <1>9, <2>1, <2>2 DEF AlarmIsDue
<1> QED BY <1>6, <1>7, <1>8, <1>10, <1>11, <1>12 DEF IInv

(* A run that only turns to something else: the product stays as it is.    *)
LEMMA PauseGood ==
  ASSUME IInv, NEW r \in Runs, Pause(r)
  PROVE  IInv'
<1> DEFINE v == [run[r] EXCEPT !.at = "publish"]
           p == This(r)
<1>1. /\ current = r /\ run[r].at = "cycle" /\ Works(run[r]) /\ p \in Products
      /\ run[r].own.phase \in Terminal \cup {"waiting", "retrying"}
      /\ Set(r, v)
      /\ UNCHANGED <<orchestrator, product, schedule, retryAlarm, current, up,
                     evicted, commands, mishaps, overlap, undecided>>
  BY OwnFacts, Terminals DEF Pause, Holds, shell, Works
<1>2. /\ Typed /\ ThreadIsHeld /\ PhasesFit /\ InSync /\ OrdersAreAdmitted
      /\ AlarmIsDue /\ run[r].todo # <<>> /\ up
  BY <1>1, OwnFacts DEF IInv, ThreadIsHeld
<1>3. /\ v \in RunStates /\ v.at = "publish" /\ v.own = run[r].own
      /\ v.todo = run[r].todo
  BY <1>2 DEF Typed, RunStates
<1> HIDE DEF v
<1>4. /\ run' \in [Runs -> RunStates] /\ run'[r] = v
      /\ \A q \in Runs \ {r}: run'[q] = run[q]
  BY <1>1, <1>2, <1>3, SetFacts DEF Typed
<1>5. \A q \in Runs: This(q)' = This(q)
  BY <1>3, <1>4 DEF This
<1>6. Typed' /\ ThreadIsHeld' /\ PhasesFit'
  BY <1>1, <1>2, <1>3, <1>4 DEF Typed, ThreadIsHeld, Held, Works, PhasesFit
<1>7. InSync'
  BY <1>1, <1>2, <1>3, <1>4, <1>5 DEF InSync, Works
<1>8. OrdersAreAdmitted'
  <2> SUFFICES ASSUME Undisturbed
               PROVE  OrdersAreAdmitted'
    BY <1>1 DEF OrdersAreAdmitted, Undisturbed
  <2>1. Positions' = Positions
    BY <1>1 DEF Positions
  <2>2. Sum([Positions EXCEPT ![p] = run[r].own.position]) <= Cap
    BY <1>1, SamePosition
  <2>3. ~Ordering(r) /\ ~Ordering(r)'
    BY <1>1, <1>3, <1>4 DEF Ordering, Terminal
  <2>4. \A q \in Runs \ {r}: Ordering(q)' <=> Ordering(q)
    BY <1>4 DEF Ordering
  <2>5. \A q \in Runs, i \in Products: Settles(q, i) => Settles(q, i)'
    BY <1>3, <1>4, <1>5, <2>3, <2>4 DEF Settles
  <2>6. /\ \A i \in Products: product'[i].phase = "ordering" =>
             \E q \in Runs: Ordering(q)' /\ This(q)' = i
        /\ Sum(Positions') <= Cap
    BY <1>1, <1>2, <1>5, <2>1, <2>3, <2>4 DEF OrdersAreAdmitted
  <2>7. \A q \in Runs:
          /\ Ordering(q)' =>
               Sum([Positions' EXCEPT ![This(q)'] = run'[q].own.target]) <= Cap
          /\ run'[q].at = "publish" =>
               Sum([Positions' EXCEPT ![This(q)'] = run'[q].own.position])
                 <= Cap
    BY <1>2, <1>3, <1>4, <1>5, <2>1, <2>2, <2>3, <2>4 DEF OrdersAreAdmitted
  <2>8. /\ Active(orchestrator') =>
             \A i \in Products:
               /\ \/ orchestrator'.exposure[i] = product'[i].position
                  \/ \E q \in Runs: Settles(q, i)'
               /\ orchestrator'.statuses[i] \in Terminal =>
                    product'[i].phase \in Terminal
        /\ ~Active(orchestrator') =>
             \A i \in Products: product'[i].phase \in Terminal
    BY <1>1, <1>2, <2>5 DEF OrdersAreAdmitted
  <2> QED BY <2>6, <2>7, <2>8 DEF OrdersAreAdmitted
<1>9. AlarmIsDue'
  <2>1. \A q \in Runs: Ahead(run'[q]) = Ahead(run[q])
    <3>1. Ahead(run'[r]) = Ahead(run[r])
      BY <1>1, <1>3, <1>4 DEF Ahead
    <3> QED BY <1>4, <3>1
  <2> QED BY <1>1, <1>2, <2>1 DEF AlarmIsDue
<1> QED BY <1>6, <1>7, <1>8, <1>9 DEF IInv

(* What a publication tells the orchestrator.                              *)
LEMMA EndedFacts ==
  ASSUME NEW o \in Orchestrators, NEW p \in Products, NEW m \in ProductStates
  PROVE  LET n == ProductEnded(ExposureReported(o, p, m), p, m) IN
         /\ n \in Orchestrators
         /\ ~Active(o) => n = o
         /\ Active(o) =>
              /\ n.exposure = [o.exposure EXCEPT ![p] = m.position]
              /\ n.statuses = IF m.phase \in Terminal
                              THEN [o.statuses EXCEPT ![p] = m.phase]
                              ELSE o.statuses
              /\ Active(n) \/ \A i \in Products: n.statuses[i] \in Terminal
<1> DEFINE e == ExposureReported(o, p, m)
           t == [e EXCEPT !.statuses[p] = m.phase]
           n == ProductEnded(e, p, m)
<1>1. CASE ~Active(o)
  <2>1. e = o
    BY <1>1 DEF ExposureReported
  <2> HIDE DEF e
  <2>2. n = o
    BY <1>1, <2>1 DEF ProductEnded
  <2> HIDE DEF n
  <2> QED BY <1>1, <2>2 DEF n, e
<1>2. CASE Active(o)
  <2>1. e = [o EXCEPT !.exposure[p] = m.position]
    BY <1>2 DEF ExposureReported
  <2> HIDE DEF e
  <2>2. /\ e \in Orchestrators /\ e.phase = o.phase /\ e.statuses = o.statuses
        /\ e.exposure = [o.exposure EXCEPT ![p] = m.position]
    BY <2>1 DEF Orchestrators, ProductStates
  <2>3. Active(e)
    BY <1>2, <2>2 DEF Active
  <2>4. CASE m.phase \notin Terminal
    <3>1. n = e
      BY <2>4 DEF ProductEnded
    <3> HIDE DEF n
    <3> QED BY <1>2, <2>2, <2>3, <2>4, <3>1 DEF n, e
  <2>5. CASE m.phase \in Terminal
    <3>1. /\ t \in Orchestrators /\ t.phase = e.phase /\ t.exposure = e.exposure
          /\ t.statuses = [e.statuses EXCEPT ![p] = m.phase]
      BY <2>2, <2>5 DEF Orchestrators
    <3>2. n = Quiesce(t)
      BY <2>3, <2>5 DEF ProductEnded
    <3> HIDE DEF t
    <3>3. /\ Quiesce(t) \in Orchestrators
          /\ Quiesce(t).exposure = t.exposure /\ Quiesce(t).statuses = t.statuses
          /\ \/ Quiesce(t) = t
             \/ \A i \in Products: t.statuses[i] \in Terminal
      BY <3>1 DEF Quiesce, Orchestrators
    <3>4. Active(t)
      BY <2>3, <3>1 DEF Active
    <3> HIDE DEF n
    <3>5. n.exposure = [o.exposure EXCEPT ![p] = m.position]
      BY <2>2, <3>1, <3>2, <3>3
    <3>6. n.statuses = [o.statuses EXCEPT ![p] = m.phase]
      BY <2>2, <3>1, <3>2, <3>3
    <3>7. Active(n) \/ \A i \in Products: n.statuses[i] \in Terminal
      BY <3>2, <3>3, <3>4
    <3> QED BY <1>2, <2>5, <3>2, <3>3, <3>5, <3>6, <3>7 DEF n, e
  <2> QED BY <2>4, <2>5
<1> QED BY <1>1, <1>2

LEMMA PublishGood ==
  ASSUME IInv, NEW r \in Runs, Publish(r)
  PROVE  IInv'
<1> DEFINE m == run[r].own
           p == This(r)
           goes == [run[r] EXCEPT !.at = "cycle", !.pending = FALSE]
           ends == [run[r] EXCEPT !.at = "next", !.todo = Tail(@),
                                  !.pending = FALSE, !.own = NewProduct]
           v == IF run[r].pending /\ m.phase = "waiting" THEN goes ELSE ends
<1>1. /\ current = r /\ run[r].at = "publish" /\ Works(run[r]) /\ p \in Products
      /\ product' = [product EXCEPT ![p] = m]
      /\ orchestrator' = ProductEnded(ExposureReported(orchestrator, p, m), p, m)
      /\ Set(r, v)
      /\ UNCHANGED <<schedule, retryAlarm, current, up, evicted, commands,
                     mishaps, overlap, undecided>>
  BY OwnFacts DEF Publish, Holds, shell, Works
<1>2. /\ Typed /\ ThreadIsHeld /\ PhasesFit /\ InSync /\ OrdersAreAdmitted
      /\ AlarmIsDue /\ run[r].todo # <<>> /\ up
      /\ m \in ProductStates /\ orchestrator \in Orchestrators
      /\ m.phase \in Terminal \cup {"waiting", "retrying"} /\ Targeted(m)
      /\ run[r] \in RunStates
  BY <1>1, OwnFacts DEF IInv, ThreadIsHeld, PhasesFit, Typed
<1>3. /\ Head(run[r].todo) \in Products /\ Tail(run[r].todo) \in Seq(Products)
      /\ {run[r].todo[i]: i \in 1..Len(run[r].todo)}
           = {p} \cup {Tail(run[r].todo)[i]: i \in 1..Len(Tail(run[r].todo))}
  BY <1>2, TailFacts DEF RunStates, This
<1>4. /\ v \in RunStates
      /\ \/ v.at = "cycle" /\ v.own = m /\ v.todo = run[r].todo /\ m.phase = "waiting"
         \/ v.at = "next" /\ v.own = NewProduct /\ v.todo = Tail(run[r].todo)
  <2>1. /\ goes \in RunStates /\ goes.at = "cycle" /\ goes.own = m
        /\ goes.todo = run[r].todo
    BY <1>2 DEF RunStates
  <2>2. /\ ends \in RunStates /\ ends.at = "next" /\ ends.own = NewProduct
        /\ ends.todo = Tail(run[r].todo)
    BY <1>2, <1>3, FirstStates DEF RunStates
  <2> QED BY <2>1, <2>2
<1> HIDE DEF v
<1>5. /\ run' \in [Runs -> RunStates] /\ run'[r] = v
      /\ \A q \in Runs \ {r}: run'[q] = run[q] /\ This(q)' = This(q)
  BY <1>1, <1>2, <1>4, SetFacts DEF Typed, This
<1>6. v.at = "cycle" => This(r)' = p
  BY <1>4, <1>5 DEF This
<1>7. /\ product' \in [Products -> ProductStates] /\ product'[p] = m
      /\ \A i \in Products \ {p}: product'[i] = product[i]
  BY <1>1, <1>2 DEF Typed
<1>8. \A q \in Runs \ {r}: run[q].at \notin Held
  BY <1>1, <1>2 DEF ThreadIsHeld
<1>9. Typed'
  <2>1. orchestrator' \in Orchestrators
    BY <1>1, <1>2, EndedFacts
  <2> QED BY <1>1, <1>2, <1>5, <1>7, <2>1 DEF Typed
<1>10. ThreadIsHeld' /\ PhasesFit'
  <2>1. ThreadIsHeld'
    BY <1>1, <1>2, <1>4, <1>5 DEF ThreadIsHeld, Held, Works
  <2>2. Targeted(NewProduct)
    BY FirstStates DEF Targeted
  <2>3. PhasesFit'
    BY <1>2, <1>4, <1>5, <1>7, <2>2 DEF PhasesFit
  <2> QED BY <2>1, <2>3
<1>11. ASSUME ~overlap
       PROVE  /\ product[p].phase = m.phase
              /\ \A q \in Runs \ {r}: Works(run[q]) =>
                   run[q].at = "fetch" /\ This(q) # p /\ This(q) \in Products
  <2>1. product[p].phase = m.phase
    BY <1>1, <1>2, <1>11 DEF InSync
  <2>2. ASSUME NEW q \in Runs \ {r}, Works(run[q])
        PROVE  run[q].at = "fetch" /\ This(q) # p /\ This(q) \in Products
    <3>1. run[q].at = "fetch" /\ run[q].own.phase = "fetching"
      BY <1>2, <1>8, <2>2 DEF Works, Held, PhasesFit
    <3>2. product[This(q)].phase = "fetching"
      BY <1>2, <1>11, <2>2, <3>1 DEF InSync
    <3>3. m.phase # "fetching"
      BY <1>2 DEF Terminal
    <3> QED BY <2>1, <2>2, <3>1, <3>2, <3>3, OwnFacts
  <2> QED BY <2>1, <2>2
<1>12. InSync'
  <2> SUFFICES ASSUME ~overlap
               PROVE  InSync'
    BY <1>1 DEF InSync
  <2>1. ASSUME NEW q \in Runs, Works(run'[q])
        PROVE  /\ product'[This(q)'].phase = run'[q].own.phase
               /\ product'[This(q)'].position = run'[q].own.position
    <3>1. CASE q = r
      BY <3>1, <2>1, <1>4, <1>5, <1>6, <1>7 DEF Works
    <3>2. CASE q # r
      BY <3>2, <2>1, <1>2, <1>5, <1>7, <1>11 DEF InSync
    <3> QED BY <3>1, <3>2
  <2>2. \A q \in Runs: run'[q].at # "control"
    BY <1>4, <1>5, <1>8 DEF Held
  <2>3. \A q, o \in Runs:
          run'[q].at = "fetch" /\ run'[o].at = "fetch" /\ q # o =>
            This(q)' # This(o)'
    BY <1>2, <1>4, <1>5 DEF InSync
  <2> QED BY <2>1, <2>2, <2>3 DEF InSync
<1>13. OrdersAreAdmitted'
  <2> SUFFICES ASSUME Undisturbed
               PROVE  OrdersAreAdmitted'
    BY <1>1 DEF OrdersAreAdmitted, Undisturbed
  <2>1. product[p].phase = m.phase /\ m.phase # "ordering"
    BY <1>2, <1>11 DEF Undisturbed, Terminal
  <2>2. ASSUME NEW q \in Runs
        PROVE  ~Ordering(q)' /\ ~Ordering(q) /\ run'[q].at # "publish"
    BY <1>1, <1>4, <1>5, <1>8 DEF Ordering, Held
  <2>3. \A i \in Products: product'[i].phase # "ordering"
    BY <1>2, <1>7, <2>1, <2>2 DEF OrdersAreAdmitted
  <2>4. Positions' = [Positions EXCEPT ![p] = m.position]
    BY <1>1, <1>7 DEF Positions
  <2>5. Sum(Positions') <= Cap
    BY <1>1, <1>2, <2>4 DEF OrdersAreAdmitted
  <2>6. \A q \in Runs, i \in Products: Settles(q, i) => i = p
    BY <1>1, <1>8 DEF Settles, Ordering, Held
  <2>7. ASSUME Active(orchestrator)
        PROVE  /\ \A i \in Products:
                    /\ orchestrator'.exposure[i] = product'[i].position
                    /\ orchestrator'.statuses[i] \in Terminal =>
                         product'[i].phase \in Terminal
               /\ Active(orchestrator') \/
                    \A i \in Products: orchestrator'.statuses[i] \in Terminal
    <3>1. /\ orchestrator'.exposure
               = [orchestrator.exposure EXCEPT ![p] = m.position]
          /\ orchestrator'.statuses
               = IF m.phase \in Terminal
                 THEN [orchestrator.statuses EXCEPT ![p] = m.phase]
                 ELSE orchestrator.statuses
          /\ Active(orchestrator') \/
               \A i \in Products: orchestrator'.statuses[i] \in Terminal
      BY <1>1, <1>2, <2>7, EndedFacts
    <3>2. /\ orchestrator.exposure \in [Products -> 0..ProductCap]
          /\ orchestrator.statuses
               \in [Products -> {"none", "running"} \cup Terminal]
      BY <1>2 DEF Orchestrators
    <3>3. ASSUME NEW i \in Products
          PROVE  /\ orchestrator'.exposure[i] = product'[i].position
                 /\ orchestrator'.statuses[i] \in Terminal =>
                      product'[i].phase \in Terminal
      <4>1. CASE i = p
        BY <4>1, <1>2, <1>7, <2>1, <2>7, <3>1, <3>2 DEF OrdersAreAdmitted
      <4>2. CASE i # p
        BY <4>2, <1>2, <1>7, <2>6, <2>7, <3>1, <3>2 DEF OrdersAreAdmitted
      <4> QED BY <4>1, <4>2
    <3> QED BY <3>1, <3>3
  <2>8. ASSUME ~Active(orchestrator)
        PROVE  /\ orchestrator' = orchestrator
               /\ \A i \in Products: product'[i].phase \in Terminal
    <3>1. orchestrator' = orchestrator
      <4> DEFINE n == ProductEnded(ExposureReported(orchestrator, p, m), p, m)
      <4>1. p \in Products /\ m \in ProductStates /\ orchestrator \in Orchestrators
        BY <1>1, <1>2
      <4> HIDE DEF p, m
      <4>2. n = orchestrator
        BY <4>1, <2>8, EndedFacts
      <4> HIDE DEF n
      <4>3. orchestrator' = n
        BY <1>1 DEF n
      <4> QED BY <4>2, <4>3
    <3>2. \A i \in Products: product[i].phase \in Terminal
      BY <1>2, <2>8 DEF OrdersAreAdmitted
    <3>3. ASSUME NEW i \in Products
          PROVE  product'[i].phase \in Terminal
      BY <1>1, <1>7, <2>1, <3>2
    <3> QED BY <3>1, <3>3
  <2> QED BY <2>2, <2>3, <2>5, <2>7, <2>8 DEF OrdersAreAdmitted
<1>14. AlarmIsDue'
  <2> SUFFICES ASSUME ~overlap, ~schedule, NEW i \in Products,
                      IsEnabled(product'[i])
               PROVE  /\ product'[i].phase \in {"scheduling", "cancelling"}
                      /\ \E q \in Runs: i \in Ahead(run'[q])
    BY <1>1 DEF AlarmIsDue
  <2>1. i # p
    <3>1. m.phase \notin {"scheduling", "cancelling"}
      BY <1>2 DEF Terminal
    <3>2. CASE i = p
      <4>1. IsEnabled(product[p])
        BY <3>2, <1>7, <1>11, Terminals
      <4>2. product[p].phase \in {"scheduling", "cancelling"}
        BY <4>1, <1>1, <1>2 DEF AlarmIsDue
      <4> QED BY <3>1, <4>2, <1>11
    <3> QED BY <3>2
  <2>2. product'[i] = product[i] /\ IsEnabled(product[i])
    BY <1>7, <2>1
  <2>3. PICK q \in Runs: i \in Ahead(run[q])
    BY <1>1, <1>2, <2>2 DEF AlarmIsDue
  <2>4. i \in Ahead(run'[q])
    <3>1. CASE q = r
      <4>1. i \in {Tail(run[r].todo)[k]: k \in 1..Len(Tail(run[r].todo))}
            /\ i \in {run[r].todo[k]: k \in 1..Len(run[r].todo)}
        BY <3>1, <1>1, <1>3, <2>1, <2>3 DEF Ahead
      <4>2. CASE v.at = "cycle"
        BY <3>1, <4>1, <4>2, <1>4, <1>5 DEF Ahead
      <4>3. CASE v.at # "cycle"
        BY <3>1, <4>1, <4>3, <1>4, <1>5 DEF Ahead
      <4> QED BY <4>2, <4>3
    <3>2. CASE q # r
      BY <3>2, <1>5, <2>3
    <3> QED BY <3>1, <3>2
  <2> QED BY <1>1, <1>2, <2>2, <2>4 DEF AlarmIsDue
<1> QED BY <1>9, <1>10, <1>12, <1>13, <1>14 DEF IInv

(* A run that turns to something else, or begins, while no other works on  *)
(* a product that is not awaiting its market.                              *)
LEMMA TurnGood ==
  ASSUME IInv, NEW r \in Runs, current \in {r, None}, up, ~Works(run[r]),
         NEW v \in RunStates, Set(r, v), v.at \notin {"fetch", "publish"},
         v.at \in {"cycle", "stagger"} => v.todo # <<>>,
         v.at = "cycle" => v.own = product[Head(v.todo)], Targeted(v.own),
         current' = IF v.at \in Held THEN r ELSE None,
         UNCHANGED <<product, up, evicted>>,
         overlap' \in BOOLEAN, overlap => overlap',
         v.at = "control" => overlap' \/ \A q \in Runs: run[q].at # "fetch",
         orchestrator' \in Orchestrators,
         Active(orchestrator') <=> Active(orchestrator),
         orchestrator'.statuses = orchestrator.statuses,
         \/ orchestrator'.exposure = orchestrator.exposure
         \/ \A p \in Products: orchestrator'.exposure[p] = product[p].position,
         schedule' \in BOOLEAN,
         ~schedule' => ~schedule \/ ~SomeEnabled(product),
         \A p \in Products: IsEnabled(product[p]) /\ p \in Ahead(run[r]) =>
           p \in Ahead(v),
         retryAlarm' \in [Products -> BOOLEAN], undecided' \in BOOLEAN,
         commands' \in 0..MaxCommands, mishaps' \in 0..MaxMishaps
  PROVE  IInv'
<1>1. /\ Typed /\ ThreadIsHeld /\ PhasesFit /\ InSync /\ OrdersAreAdmitted
      /\ AlarmIsDue /\ run \in [Runs -> RunStates]
  BY DEF IInv, Typed
<1>2. /\ run' \in [Runs -> RunStates] /\ run'[r] = v
      /\ \A q \in Runs \ {r}: run'[q] = run[q] /\ This(q)' = This(q)
      /\ This(r)' = Head(v.todo)
  BY <1>1, SetFacts DEF This
<1>3. \A q \in Runs \ {r}: run[q].at \notin Held
  BY <1>1, Numbers DEF ThreadIsHeld
<1>4. Typed'
  <2>1. current' \in Runs \cup {None}
    OBVIOUS
  <2> QED BY <1>1, <1>2, <2>1 DEF Typed
<1>5. ThreadIsHeld'
  <2>1. \A q \in Runs: run'[q].at \in Held <=> current' = q
    BY <1>2, <1>3, Numbers
  <2>2. \A q \in Runs: Works(run'[q]) \/ run'[q].at = "stagger" =>
          run'[q].todo # <<>>
    BY <1>1, <1>2 DEF ThreadIsHeld, Works
  <2> QED BY <2>1, <2>2 DEF ThreadIsHeld
<1>6. PhasesFit'
  BY <1>1, <1>2 DEF PhasesFit
<1>7. InSync'
  <2> SUFFICES ASSUME ~overlap, ~overlap'
               PROVE  InSync'
    BY DEF InSync
  <2>1. ASSUME NEW q \in Runs, Works(run'[q])
        PROVE  /\ product'[This(q)'].phase = run'[q].own.phase
               /\ run'[q].at # "publish" =>
                    product'[This(q)'].position = run'[q].own.position
    <3>1. CASE q = r
      BY <3>1, <2>1, <1>2 DEF Works
    <3>2. CASE q # r
      BY <3>2, <2>1, <1>1, <1>2 DEF InSync
    <3> QED BY <3>1, <3>2
  <2>2. ASSUME NEW q \in Runs, run'[q].at = "control", NEW o \in Runs
        PROVE  run'[o].at # "fetch"
    BY <2>2, <1>2, <1>3 DEF Held
  <2>3. \A q, o \in Runs:
          run'[q].at = "fetch" /\ run'[o].at = "fetch" /\ q # o =>
            This(q)' # This(o)'
    BY <1>1, <1>2 DEF InSync
  <2> QED BY <2>1, <2>2, <2>3 DEF InSync
<1>8. OrdersAreAdmitted'
  <2> SUFFICES ASSUME Undisturbed
               PROVE  OrdersAreAdmitted'
    BY DEF OrdersAreAdmitted, Undisturbed
  <2>1. \A q \in Runs: ~Ordering(q) /\ run[q].at # "publish"
    BY <1>3 DEF Ordering, Held, Works
  <2>2. \A p \in Products: product[p].phase # "ordering"
    BY <1>1, <2>1 DEF OrdersAreAdmitted
  <2>3. ~Ordering(r)'
    <3>1. CASE v.at = "cycle"
      <4>1. v.own = product[Head(v.todo)] /\ Head(v.todo) \in Products
        BY <3>1, TailFacts DEF RunStates
      <4> QED BY <4>1, <1>2, <2>2 DEF Ordering
    <3>2. CASE v.at # "cycle"
      BY <3>2, <1>2 DEF Ordering
    <3> QED BY <3>1, <3>2
  <2>4. \A q \in Runs: ~Ordering(q)' /\ run'[q].at # "publish"
    BY <1>2, <2>1, <2>3 DEF Ordering
  <2>5. /\ Sum(Positions) <= Cap
        /\ Active(orchestrator) =>
             \A p \in Products:
               /\ orchestrator.exposure[p] = product[p].position
               /\ orchestrator.statuses[p] \in Terminal =>
                    product[p].phase \in Terminal
        /\ ~Active(orchestrator) => \A p \in Products: product[p].phase \in Terminal
    BY <1>1, <2>1 DEF OrdersAreAdmitted, Settles
  <2>6. Sum(Positions') <= Cap
    BY <2>5 DEF Positions
  <2> QED BY <2>2, <2>4, <2>5, <2>6 DEF OrdersAreAdmitted
<1>9. AlarmIsDue'
  <2> SUFFICES ASSUME ~overlap, ~schedule', NEW p \in Products,
                      IsEnabled(product[p])
               PROVE  /\ product[p].phase \in {"scheduling", "cancelling"}
                      /\ \E q \in Runs: p \in Ahead(run'[q])
    BY DEF AlarmIsDue
  <2>1. ~schedule
    BY DEF SomeEnabled
  <2>2. product[p].phase \in {"scheduling", "cancelling"}
    BY <1>1, <2>1 DEF AlarmIsDue
  <2>3. PICK q \in Runs: p \in Ahead(run[q])
    BY <1>1, <2>1 DEF AlarmIsDue
  <2> QED BY <1>2, <2>2, <2>3
<1> QED BY <1>4, <1>5, <1>6, <1>7, <1>8, <1>9 DEF IInv

LEMMA StateFacts ==
  ASSUME IInv
  PROVE  /\ orchestrator \in Orchestrators
         /\ product \in [Products -> ProductStates]
         /\ run \in [Runs -> RunStates]
         /\ schedule \in BOOLEAN /\ retryAlarm \in [Products -> BOOLEAN]
         /\ current \in Runs \cup {None} /\ up \in BOOLEAN
         /\ overlap \in BOOLEAN /\ undecided \in BOOLEAN /\ evicted \in BOOLEAN
         /\ commands \in 0..MaxCommands /\ mishaps \in 0..MaxMishaps
         /\ \A p \in Products: Targeted(product[p])
         /\ \A r \in Runs: Targeted(run[r].own) /\ run[r] \in RunStates
BY DEF IInv, Typed, PhasesFit

(* A cycle starts from the product as it is.                               *)
LEMMA StartFacts ==
  ASSUME IInv, NEW r \in Runs, run[r].todo # <<>>,
         StartCycle(r, Head(run[r].todo))
  PROVE  \E v \in RunStates:
           /\ Set(r, v) /\ v.at = "cycle" /\ v.todo = run[r].todo
           /\ v.own = product[Head(v.todo)] /\ Targeted(v.own)
<1> DEFINE p == Head(run[r].todo)
           pending == run[r].trigger /\ product[p].phase # "waiting"
           v == [run[r] EXCEPT !.at = "cycle", !.own = product[p],
                               !.executed = run[r].stagger, !.pending = pending]
<1>1. run[r] \in RunStates /\ p \in Products /\ product[p] \in ProductStates
      /\ Targeted(product[p])
  BY StateFacts, TailFacts DEF RunStates
<1>2. pending \in BOOLEAN
  BY <1>1 DEF RunStates
<1>3. Set(r, v)
  BY DEF StartCycle
<1> HIDE DEF pending, p
<1>4. v \in RunStates /\ v.at = "cycle" /\ v.todo = run[r].todo
      /\ v.own = product[p]
  BY <1>1, <1>2 DEF RunStates
<1> HIDE DEF v
<1> QED BY <1>1, <1>3, <1>4 DEF p

(* What is left of the products ahead when the first is dropped.           *)
LEMMA DropFacts ==
  ASSUME IInv, NEW r \in Runs, run[r].at \in {"next", "stagger"},
         run[r].todo # <<>>, ~IsEnabled(product[Head(run[r].todo)])
  PROVE  LET v == [run[r] EXCEPT !.at = "next", !.todo = Tail(@)] IN
         /\ v \in RunStates /\ v.at = "next" /\ Targeted(v.own)
         /\ \A p \in Products: IsEnabled(product[p]) /\ p \in Ahead(run[r]) =>
              p \in Ahead(v)
<1> DEFINE v == [run[r] EXCEPT !.at = "next", !.todo = Tail(@)]
<1>1. run[r] \in RunStates /\ run[r].todo \in Seq(Products)
      /\ Targeted(run[r].own)
  BY StateFacts DEF RunStates
<1>2. /\ Tail(run[r].todo) \in Seq(Products)
      /\ {run[r].todo[i]: i \in 1..Len(run[r].todo)}
           = {Head(run[r].todo)}
               \cup {Tail(run[r].todo)[i]: i \in 1..Len(Tail(run[r].todo))}
  BY <1>1, TailFacts
<1>3. /\ v \in RunStates /\ v.at = "next" /\ v.own = run[r].own
      /\ v.todo = Tail(run[r].todo)
  BY <1>1, <1>2 DEF RunStates
<1>4. \A p \in Products: IsEnabled(product[p]) /\ p \in Ahead(run[r]) =>
        p \in Ahead(v)
  BY <1>2, <1>3 DEF Ahead
<1> QED BY <1>1, <1>3, <1>4

LEMMA NextProductGood ==
  ASSUME IInv, NEW r \in Runs, NextProduct(r)
  PROVE  IInv'
<1> DEFINE p == Head(run[r].todo)
<1>1. /\ current = r /\ run[r].at = "next" /\ run[r].todo # <<>> /\ up
      /\ ~Works(run[r]) /\ current \in {r, None}
      /\ UNCHANGED <<orchestrator, product, schedule, retryAlarm, up, commands,
                     mishaps, evicted, overlap, undecided>>
  BY OwnFacts DEF NextProduct, Holds, Works, shell
<1>2. CASE ~IsEnabled(product[p])
  <2> DEFINE v == [run[r] EXCEPT !.at = "next", !.todo = Tail(@)]
  <2>1. /\ v \in RunStates /\ v.at = "next" /\ Targeted(v.own)
        /\ \A q \in Products: IsEnabled(product[q]) /\ q \in Ahead(run[r]) =>
             q \in Ahead(v)
    BY <1>1, <1>2, DropFacts
  <2>2. Set(r, v) /\ current' = current
    <3>1. v = [run[r] EXCEPT !.todo = Tail(@)]
      BY <1>1, StateFacts DEF RunStates
    <3> QED BY <3>1, <1>2 DEF NextProduct
  <2> HIDE DEF v
  <2>3. current' = IF v.at \in Held THEN r ELSE None
    BY <1>1, <2>1, <2>2 DEF Held
  <2> QED BY <1>1, <2>1, <2>2, <2>3, StateFacts, TurnGood
<1>3. CASE IsEnabled(product[p]) /\ run[r].executed
  <2> DEFINE v == [run[r] EXCEPT !.at = "stagger"]
  <2>1. Set(r, v) /\ current' = None
    BY <1>3 DEF NextProduct
  <2>2. /\ v \in RunStates /\ v.at = "stagger" /\ v.todo = run[r].todo
        /\ v.own = run[r].own
    BY StateFacts DEF RunStates
  <2> HIDE DEF v
  <2>3. current' = IF v.at \in Held THEN r ELSE None
    BY <2>1, <2>2 DEF Held
  <2>4. Ahead(v) = Ahead(run[r]) /\ Targeted(v.own)
    BY <1>1, <2>2, StateFacts DEF Ahead
  <2> QED BY <1>1, <2>1, <2>2, <2>3, <2>4, StateFacts, TurnGood
<1>4. CASE IsEnabled(product[p]) /\ ~run[r].executed
  <2>1. StartCycle(r, p) /\ current' = current
    BY <1>4 DEF NextProduct
  <2>2. PICK v \in RunStates:
           /\ Set(r, v) /\ v.at = "cycle" /\ v.todo = run[r].todo
           /\ v.own = product[Head(v.todo)] /\ Targeted(v.own)
    BY <1>1, <2>1, StartFacts
  <2>3. current' = IF v.at \in Held THEN r ELSE None
    BY <1>1, <2>1, <2>2 DEF Held
  <2>4. Ahead(v) = Ahead(run[r])
    BY <1>1, <2>2 DEF Ahead
  <2> QED BY <1>1, <2>2, <2>3, <2>4, StateFacts, TurnGood
<1> QED BY <1>2, <1>3, <1>4

LEMMA StaggeredGood ==
  ASSUME IInv, NEW r \in Runs, Staggered(r)
  PROVE  IInv'
<1> DEFINE p == Head(run[r].todo)
<1>1. /\ current = None /\ current' = r /\ run[r].at = "stagger" /\ up
      /\ ~Works(run[r]) /\ current \in {r, None} /\ run[r].todo # <<>>
      /\ UNCHANGED <<orchestrator, product, schedule, retryAlarm, up, commands,
                     mishaps, evicted, overlap, undecided>>
  BY DEF Staggered, Works, shell, IInv, ThreadIsHeld
<1>2. CASE ~IsEnabled(product[p])
  <2> DEFINE v == [run[r] EXCEPT !.at = "next", !.todo = Tail(@)]
  <2>1. /\ v \in RunStates /\ v.at = "next" /\ Targeted(v.own)
        /\ \A q \in Products: IsEnabled(product[q]) /\ q \in Ahead(run[r]) =>
             q \in Ahead(v)
    BY <1>1, <1>2, DropFacts
  <2>2. Set(r, v)
    BY <1>2 DEF Staggered
  <2> HIDE DEF v
  <2>3. current' = IF v.at \in Held THEN r ELSE None
    BY <1>1, <2>1 DEF Held
  <2> QED BY <1>1, <2>1, <2>2, <2>3, StateFacts, TurnGood
<1>3. CASE IsEnabled(product[p])
  <2>1. StartCycle(r, p)
    BY <1>3 DEF Staggered
  <2>2. PICK v \in RunStates:
           /\ Set(r, v) /\ v.at = "cycle" /\ v.todo = run[r].todo
           /\ v.own = product[Head(v.todo)] /\ Targeted(v.own)
    BY <1>1, <2>1, StartFacts
  <2>3. current' = IF v.at \in Held THEN r ELSE None
    BY <1>1, <2>2 DEF Held
  <2>4. Ahead(v) = Ahead(run[r])
    BY <1>1, <2>2 DEF Ahead
  <2> QED BY <1>1, <2>2, <2>3, <2>4, StateFacts, TurnGood
<1> QED BY <1>2, <1>3

LEMMA EndRunGood ==
  ASSUME IInv, NEW r \in Runs, EndRun(r)
  PROVE  IInv'
<1>1. /\ current = r /\ run[r].at = "next" /\ run[r].todo = <<>> /\ up
      /\ ~Works(run[r]) /\ current \in {r, None} /\ Set(r, IdleRun)
      /\ current' = None /\ schedule' = (schedule /\ SomeEnabled(product))
      /\ UNCHANGED <<orchestrator, product, retryAlarm, up, commands, mishaps,
                     evicted, overlap, undecided>>
  BY OwnFacts DEF EndRun, Holds, Works, shell, Set
<1>2. /\ IdleRun \in RunStates /\ IdleRun.at = "idle" /\ Targeted(IdleRun.own)
  BY FirstStates DEF Targeted
<1>3. Ahead(run[r]) = {}
  BY <1>1 DEF Ahead
<1>4. current' = IF IdleRun.at \in Held THEN r ELSE None
  BY <1>1, <1>2 DEF Held
<1>5. schedule' \in BOOLEAN /\ (~schedule' => ~schedule \/ ~SomeEnabled(product))
  BY <1>1, StateFacts
<1> QED BY <1>1, <1>2, <1>3, <1>4, <1>5, StateFacts, TurnGood

(* All the products are ahead of a run that begins.                        *)
LEMMA WalkAll ==
  /\ Walk(AllProducts) \in RunStates /\ Walk(AllProducts).at = "next"
  /\ Walk(AllProducts).todo = AllProducts /\ Targeted(Walk(AllProducts).own)
  /\ Ahead(Walk(AllProducts)) = Products
<1>1. /\ Walk(AllProducts) \in RunStates /\ Walk(AllProducts).at = "next"
      /\ Walk(AllProducts).todo = AllProducts
      /\ Walk(AllProducts).own = NewProduct
  BY AllFacts, WalkFacts
<1>2. Targeted(NewProduct)
  BY FirstStates DEF Targeted
<1>3. Ahead(Walk(AllProducts)) = Products
  BY <1>1, AllFacts DEF Ahead
<1> QED BY <1>1, <1>2, <1>3

(* The event of a stop or a kill reaches a product: no other is awaited,   *)
(* for they would overlap.                                                 *)
LEMMA ControlNextGood ==
  ASSUME IInv, NEW r \in Runs, ControlProduct(r), run[r].todo # <<>>
  PROVE  IInv'
<1> DEFINE p == Head(run[r].todo)
           v == [run[r] EXCEPT !.todo = Tail(@)]
           m == product[p]
           n == [m EXCEPT !.shutdown = run[r].control,
                   !.phase = IF @ = "ordering" THEN @ ELSE "cancelling"]
<1>1. /\ current = r /\ run[r].at = "control" /\ Set(r, v)
      /\ product' = IF IsEnabled(m) THEN [product EXCEPT ![p] = n] ELSE product
      /\ UNCHANGED <<orchestrator, schedule, retryAlarm, current, up, commands,
                     mishaps, evicted, overlap, undecided>>
  <2>1. ControlNext(r) /\ current = r /\ run[r].at = "control"
        /\ UNCHANGED <<orchestrator, schedule, retryAlarm, current, up, commands,
                       mishaps, evicted, overlap, undecided>>
    BY DEF ControlProduct, Holds, shell
  <2>2. IsEnabled(m) =>
          product' = [product EXCEPT ![p].shutdown = run[r].control,
                        ![p].phase = IF @ = "ordering" THEN @ ELSE "cancelling"]
    BY <2>1 DEF ControlNext
  <2>3. ~IsEnabled(m) => product' = product
    BY <2>1 DEF ControlNext
  <2>4. p \in Products /\ product \in [Products -> ProductStates]
    BY StateFacts, TailFacts DEF RunStates
  <2>5. IsEnabled(m) => product' = [product EXCEPT ![p] = n]
    BY <2>2, <2>4 DEF ProductStates
  <2> QED BY <2>1, <2>3, <2>5 DEF ControlNext
<1>2. /\ Typed /\ ThreadIsHeld /\ PhasesFit /\ InSync /\ OrdersAreAdmitted
      /\ AlarmIsDue /\ run[r] \in RunStates /\ run[r].todo \in Seq(Products)
      /\ product \in [Products -> ProductStates]
  BY StateFacts DEF IInv, RunStates
<1>3. /\ p \in Products /\ m \in ProductStates /\ Targeted(m)
  BY <1>2, TailFacts DEF PhasesFit
<1>4. /\ n \in ProductStates /\ n.position = m.position /\ n.target = m.target
      /\ n.phase = IF m.phase = "ordering" THEN m.phase ELSE "cancelling"
  <2>1. run[r].control \in {"none", "stop", "kill"} /\ "cancelling" \in ProductPhases
    BY <1>2 DEF RunStates, ProductPhases
  <2> QED BY <1>3, <2>1 DEF ProductStates
<1>5. v \in RunStates /\ v.at = "control" /\ v.own = run[r].own
  BY <1>1, <1>2, TailFacts DEF RunStates
<1> HIDE DEF v, n
<1>6. /\ run' \in [Runs -> RunStates] /\ run'[r] = v
      /\ \A q \in Runs \ {r}: run'[q] = run[q] /\ This(q)' = This(q)
  BY <1>1, <1>2, <1>5, SetFacts DEF This, Typed
<1>7. /\ product' \in [Products -> ProductStates]
      /\ \A i \in Products:
           /\ product'[i].position = product[i].position
           /\ \/ product'[i] = product[i]
              \/ i = p /\ IsEnabled(m) /\ product'[p] = n
  <2>1. CASE IsEnabled(m)
    <3>1. product' = [product EXCEPT ![p] = n]
      BY <2>1, <1>1
    <3>2. /\ product' \in [Products -> ProductStates] /\ product'[p] = n
          /\ \A i \in Products \ {p}: product'[i] = product[i]
      BY <3>1, <1>2, <1>3, <1>4
    <3>3. \A i \in Products: product'[i].position = product[i].position
      BY <3>2, <1>3, <1>4
    <3> QED BY <2>1, <3>2, <3>3
  <2>2. CASE ~IsEnabled(m)
    <3>1. product' = product
      BY <2>2, <1>1
    <3>2. /\ product' \in [Products -> ProductStates]
          /\ \A i \in Products: product'[i] = product[i]
      BY <3>1, <1>2
    <3> QED BY <3>2
  <2> QED BY <2>1, <2>2
<1>8. Positions' = Positions
  BY <1>7 DEF Positions
<1>9. \A q \in Runs \ {r}: run[q].at \notin Held
  BY <1>1, <1>2 DEF ThreadIsHeld
<1>10. Typed'
  BY <1>1, <1>2, <1>6, <1>7 DEF Typed
<1>11. ThreadIsHeld'
  BY <1>1, <1>2, <1>5, <1>6 DEF ThreadIsHeld, Works
<1>12. PhasesFit'
  <2>1. Targeted(n)
    BY <1>3, <1>4 DEF Targeted
  <2>2. \A i \in Products: Targeted(product'[i])
    BY <1>2, <1>7, <2>1 DEF PhasesFit
  <2> QED BY <1>2, <1>5, <1>6, <2>2 DEF PhasesFit
<1>13. ASSUME ~overlap
       PROVE  \A q \in Runs: ~Works(run[q]) /\ ~Works(run'[q])
  <2>1. \A q \in Runs: run[q].at # "fetch"
    BY <1>1, <1>2, <1>13 DEF InSync
  <2> QED BY <1>1, <1>5, <1>6, <1>9, <2>1 DEF Works, Held
<1>14. InSync'
  BY <1>1, <1>13 DEF InSync, Works
<1>15. OrdersAreAdmitted'
  <2> SUFFICES ASSUME Undisturbed
               PROVE  OrdersAreAdmitted'
    BY <1>1 DEF OrdersAreAdmitted, Undisturbed
  <2>1. \A q \in Runs: /\ ~Ordering(q) /\ run[q].at # "publish"
                       /\ ~Ordering(q)' /\ run'[q].at # "publish"
    BY <1>13 DEF Ordering, Works, Undisturbed
  <2>2. \A i \in Products: product[i].phase # "ordering"
    BY <1>2, <2>1 DEF OrdersAreAdmitted
  <2>3. \A i \in Products: product'[i].phase # "ordering"
    BY <1>3, <1>4, <1>7, <2>2
  <2>4. /\ Sum(Positions') <= Cap
        /\ Active(orchestrator) =>
             \A i \in Products:
               /\ orchestrator.exposure[i] = product[i].position
               /\ orchestrator.statuses[i] \in Terminal =>
                    product[i].phase \in Terminal
        /\ ~Active(orchestrator) => \A i \in Products: product[i].phase \in Terminal
    BY <1>2, <1>8, <2>1 DEF OrdersAreAdmitted, Settles
  <2>5. \A i \in Products: product[i].phase \in Terminal => product'[i] = product[i]
    BY <1>7, Terminals
  <2>6. /\ Active(orchestrator') =>
             \A i \in Products:
               /\ orchestrator'.exposure[i] = product'[i].position
               /\ orchestrator'.statuses[i] \in Terminal =>
                    product'[i].phase \in Terminal
        /\ ~Active(orchestrator') =>
             \A i \in Products: product'[i].phase \in Terminal
    BY <1>1, <1>7, <2>4, <2>5
  <2> QED BY <2>1, <2>3, <2>4, <2>6 DEF OrdersAreAdmitted
<1>16. AlarmIsDue'
  <2> SUFFICES ASSUME up, ~overlap, ~schedule, NEW i \in Products,
                      IsEnabled(product'[i])
               PROVE  /\ product'[i].phase \in {"scheduling", "cancelling"}
                      /\ \E q \in Runs: i \in Ahead(run'[q])
    BY <1>1 DEF AlarmIsDue
  <2>1. i \in Ahead(run'[r])
    BY <1>5, <1>6 DEF Ahead
  <2>2. CASE product'[i] = product[i]
    BY <1>2, <2>1, <2>2 DEF AlarmIsDue
  <2>3. CASE product'[i] # product[i]
    <3>1. i = p /\ IsEnabled(m) /\ product'[i] = n
      BY <1>7, <2>3
    <3>2. m.phase \in {"scheduling", "cancelling"}
      BY <1>2, <1>3, <3>1 DEF AlarmIsDue
    <3> QED BY <1>4, <2>1, <3>1, <3>2
  <2> QED BY <2>2, <2>3
<1> QED BY <1>10, <1>11, <1>12, <1>14, <1>15, <1>16 DEF IInv

LEMMA ControlProductGood ==
  ASSUME IInv, NEW r \in Runs, ControlProduct(r)
  PROVE  IInv'
<1>1. CASE run[r].todo # <<>>
  BY <1>1, ControlNextGood
<1>2. CASE run[r].todo = <<>>
  <2>1. /\ current = r /\ run[r].at = "control" /\ up
        /\ ~Works(run[r]) /\ current \in {r, None} /\ Set(r, Walk(AllProducts))
        /\ UNCHANGED <<orchestrator, product, schedule, retryAlarm, current, up,
                       commands, mishaps, evicted, overlap, undecided>>
    BY <1>2, OwnFacts DEF ControlProduct, Holds, Works, shell
  <2>2. current' = IF Walk(AllProducts).at \in Held THEN r ELSE None
    BY <2>1, WalkAll DEF Held
  <2> QED BY <2>1, <2>2, WalkAll, StateFacts, TurnGood
<1> QED BY <1>1, <1>2

-----------------------------------------------------------------------------
(* Commands and alarms: a run begins.                                      *)
LEMMA BeginFacts ==
  ASSUME IInv, NEW r \in Runs, NEW v \in RunStates, Begin(r, v)
  PROVE  /\ up /\ current = None /\ current \in {r, None} /\ current' = r
         /\ ~Works(run[r]) /\ Set(r, v)
         /\ v.at \in Held => current' = IF v.at \in Held THEN r ELSE None
         /\ \A q \in Runs: run[q].at \notin Held
         /\ Ahead(run[r]) = {}
<1>1. /\ up /\ current = None /\ current \in {r, None} /\ current' = r
      /\ run[r].at = "idle" /\ Set(r, v)
  BY DEF Begin
<1>2. \A q \in Runs: run[q].at \notin Held
  BY <1>1, OwnFacts, Numbers
<1> QED BY <1>1, <1>2 DEF Works, Ahead

(* A product touched with its cycle in flight is recorded.                 *)
LEMMA TouchFacts ==
  ASSUME IInv, Touched
  PROVE  /\ overlap' \in BOOLEAN /\ (overlap => overlap')
         /\ overlap' \/ \A q \in Runs: run[q].at # "fetch"
<1>1. \A q \in Runs: run[q].at = "fetch" => InFlight(This(q)) /\ This(q) \in Products
  BY OwnFacts DEF InFlight, Works
<1> QED BY <1>1, StateFacts DEF Touched

LEMMA ControlGood ==
  ASSUME IInv, NEW r \in Requests, StopPortfolio(r) \/ KillPortfolio(r)
  PROVE  IInv'
<1>1. PICK name \in {"stop", "kill"}, o \in {orchestrator, KillEngaged(orchestrator)}:
        Control(r, name, o)
  <2>1. "stop" \in {"stop", "kill"} /\ "kill" \in {"stop", "kill"}
    OBVIOUS
  <2> QED BY <2>1 DEF StopPortfolio, KillPortfolio
<1> DEFINE w == Walk(AllProducts)
           v == [w EXCEPT !.at = "control", !.control = name]
<1>2. r \in Runs /\ orchestrator \in Orchestrators
  BY Numbers, StateFacts
<1>3. w \in RunStates /\ Targeted(w.own)
  BY WalkAll
<1> HIDE DEF w
<1>4. /\ v \in RunStates /\ v.at = "control" /\ v.own = w.own
  BY <1>3 DEF RunStates
<1>5. /\ Begin(r, v) /\ Touched /\ orchestrator' = o
      /\ commands < MaxCommands /\ commands' = commands + 1
      /\ UNCHANGED <<product, schedule, retryAlarm, up, mishaps, evicted, undecided>>
  BY <1>1 DEF Control, Command, w
<1> HIDE DEF v
<1>6. /\ o \in Orchestrators /\ (Active(o) <=> Active(orchestrator))
      /\ o.statuses = orchestrator.statuses /\ o.exposure = orchestrator.exposure
  <2>1. CASE o = orchestrator
    BY <1>2, <2>1
  <2>2. CASE o = KillEngaged(orchestrator)
    BY <1>2, <2>2 DEF KillEngaged, Active, Orchestrators
  <2> QED BY <1>1, <2>1, <2>2
<1>7. commands' \in 0..MaxCommands
  BY <1>5, StateFacts, Numbers
<1>8. current' = IF v.at \in Held THEN r ELSE None
  BY <1>2, <1>4, <1>5, BeginFacts DEF Held
<1>9. /\ current \in {r, None} /\ up /\ ~Works(run[r]) /\ Set(r, v)
      /\ \A p \in Products: p \in Ahead(run[r]) => p \in Ahead(v)
  BY <1>2, <1>4, <1>5, BeginFacts
<1>10. /\ overlap' \in BOOLEAN /\ (overlap => overlap')
       /\ overlap' \/ \A q \in Runs: run[q].at # "fetch"
  BY <1>5, TouchFacts
<1> QED BY <1>2, <1>3, <1>4, <1>5, <1>6, <1>7, <1>8, <1>9, <1>10, StateFacts,
           TurnGood

(* An alarm, or an operator who runs the portfolio now.                    *)
LEMMA WakeGood ==
  ASSUME IInv, NEW r \in Runs, NEW stagger \in BOOLEAN, Wake(r, stagger),
         commands' \in 0..MaxCommands
  PROVE  IInv'
<1> DEFINE w == Walk(AllProducts)
           v == [w EXCEPT !.trigger = TRUE, !.stagger = stagger]
<1>1. orchestrator \in Orchestrators /\ product \in [Products -> ProductStates]
  BY StateFacts
<1>2. w \in RunStates /\ Targeted(w.own) /\ w.at = "next"
  BY WalkAll
<1> HIDE DEF w
<1>3. /\ v \in RunStates /\ v.at = "next" /\ v.own = w.own
  BY <1>2 DEF RunStates
<1>4. /\ Begin(r, v) /\ orchestrator' = Reported(orchestrator, product)
      /\ UNCHANGED <<product, schedule, retryAlarm, up, mishaps, evicted,
                     overlap, undecided>>
  BY DEF Wake, w
<1> HIDE DEF v
<1>5. /\ orchestrator' \in Orchestrators
      /\ (Active(orchestrator') <=> Active(orchestrator))
      /\ orchestrator'.statuses = orchestrator.statuses
      /\ \/ orchestrator'.exposure = orchestrator.exposure
         \/ \A p \in Products: orchestrator'.exposure[p] = product[p].position
  <2> DEFINE exposure == IF Active(orchestrator)
                         THEN [p \in Products |-> product[p].position]
                         ELSE orchestrator.exposure
  <2>1. exposure \in [Products -> 0..ProductCap]
    BY <1>1 DEF ProductStates, Orchestrators
  <2>2. orchestrator' = [orchestrator EXCEPT !.exposure = exposure]
    BY <1>1, <1>4 DEF Reported, Orchestrators
  <2>3. \/ exposure = orchestrator.exposure
        \/ \A p \in Products: exposure[p] = product[p].position
    OBVIOUS
  <2> HIDE DEF exposure
  <2> QED BY <1>1, <2>1, <2>2, <2>3 DEF Orchestrators, Active
<1>6. current' = IF v.at \in Held THEN r ELSE None
  BY <1>3, <1>4, BeginFacts DEF Held
<1>7. /\ current \in {r, None} /\ up /\ ~Works(run[r]) /\ Set(r, v)
      /\ \A p \in Products: p \in Ahead(run[r]) => p \in Ahead(v)
  BY <1>3, <1>4, BeginFacts
<1> QED BY <1>2, <1>3, <1>4, <1>5, <1>6, <1>7, StateFacts, TurnGood

LEMMA RunNowGood ==
  ASSUME IInv, NEW r \in Requests, RunNow(r)
  PROVE  IInv'
<1>1. r \in Runs /\ commands' \in 0..MaxCommands /\ FALSE \in BOOLEAN
  BY Numbers, StateFacts DEF RunNow, Command
<1> QED BY <1>1, WakeGood DEF RunNow

LEMMA ScheduledTickGood ==
  ASSUME IInv, ScheduledTick
  PROVE  IInv'
<1>1. Alarm \in Runs /\ commands' \in 0..MaxCommands /\ TRUE \in BOOLEAN
  BY Numbers, StateFacts DEF ScheduledTick
<1> QED BY <1>1, WakeGood DEF ScheduledTick

(* Nothing but a retry alarm changes.                                      *)
LEMMA OnlyRetryAlarm ==
  ASSUME IInv, retryAlarm' \in [Products -> BOOLEAN],
         UNCHANGED <<orchestrator, product, schedule, run, current, shell,
                     overlap, undecided>>
  PROVE  IInv'
<1>1. /\ Typed /\ ThreadIsHeld /\ PhasesFit /\ InSync /\ OrdersAreAdmitted
      /\ AlarmIsDue
      /\ UNCHANGED <<up, commands, mishaps, evicted>>
  BY DEF IInv, shell
<1>2. /\ \A q \in Runs: This(q)' = This(q) /\ (Ordering(q)' <=> Ordering(q))
      /\ \A q \in Runs, p \in Products: Settles(q, p)' <=> Settles(q, p)
      /\ Positions' = Positions /\ (Undisturbed' <=> Undisturbed)
  BY <1>1 DEF This, Ordering, Settles, Positions, Undisturbed
<1>3. Typed' /\ ThreadIsHeld' /\ PhasesFit'
  BY <1>1 DEF Typed, ThreadIsHeld, PhasesFit
<1>4. InSync'
  BY <1>1, <1>2 DEF InSync
<1>5. OrdersAreAdmitted'
  BY <1>1, <1>2 DEF OrdersAreAdmitted
<1>6. AlarmIsDue'
  BY <1>1 DEF AlarmIsDue
<1> QED BY <1>3, <1>4, <1>5, <1>6 DEF IInv

LEMMA RetryTickGood ==
  ASSUME IInv, RetryTick
  PROVE  IInv'
<1>1. PICK p \in Products:
        /\ retryAlarm' = [retryAlarm EXCEPT ![p] = FALSE]
        /\ IF product[p].phase = "retrying"
           THEN Begin(Alarm, Walk(<<p>>))
           ELSE up /\ current = None /\ UNCHANGED <<run, current>>
  BY DEF RetryTick
<1>2. /\ retryAlarm' \in [Products -> BOOLEAN]
      /\ UNCHANGED <<orchestrator, product, schedule, shell, overlap, undecided>>
      /\ UNCHANGED <<up, commands, mishaps, evicted>>
  BY <1>1, StateFacts DEF RetryTick, shell
<1>3. CASE product[p].phase # "retrying"
  BY <1>1, <1>2, <1>3, OnlyRetryAlarm
<1>4. CASE product[p].phase = "retrying"
  <2> DEFINE v == Walk(<<p>>)
  <2>1. <<p>> \in Seq(Products)
    OBVIOUS
  <2>2. /\ v \in RunStates /\ v.at = "next" /\ v.own = NewProduct
    BY <2>1, WalkFacts
  <2>3. Begin(Alarm, v)
    BY <1>1, <1>4
  <2> HIDE DEF v
  <2>4. Targeted(v.own)
    BY <2>2, FirstStates DEF Targeted
  <2>5. /\ current' = IF v.at \in Held THEN Alarm ELSE None
        /\ current \in {Alarm, None} /\ up /\ ~Works(run[Alarm]) /\ Set(Alarm, v)
        /\ \A q \in Products: q \in Ahead(run[Alarm]) => q \in Ahead(v)
    BY <2>2, <2>3, Numbers, BeginFacts DEF Held
  <2> QED BY <1>2, <2>2, <2>4, <2>5, Numbers, StateFacts, TurnGood
<1> QED BY <1>3, <1>4

-----------------------------------------------------------------------------
LEMMA NoSessionFacts ==
  /\ NoSession \in Orchestrators /\ ~Active(NoSession)
  /\ NoSession.phase = "idle" /\ NoSession.killSwitch = FALSE
  /\ NoSession.exposure = [p \in Products |-> 0]
<1> DEFINE statuses == [p \in Products |-> "none"]
           exposure == [p \in Products |-> 0]
           last == <<0, FALSE>>
<1>1. statuses \in [Products -> {"none", "running"} \cup Terminal]
  OBVIOUS
<1>2. exposure \in [Products -> 0..ProductCap]
  BY Numbers
<1>3. last \in ({0} \cup Products) \X BOOLEAN
  <2>1. FALSE \in BOOLEAN /\ 0 \in {0} \cup Products
    OBVIOUS
  <2> QED BY <2>1
<1>4. NoSession = [phase |-> "idle", statuses |-> statuses,
                   exposure |-> exposure, killSwitch |-> FALSE, last |-> last]
  BY DEF NoSession
<1> HIDE DEF statuses, exposure, last
<1>5. /\ NoSession.phase = "idle" /\ NoSession.killSwitch = FALSE
      /\ NoSession.exposure = exposure
  BY <1>4
<1>6. NoSession \in Orchestrators
  BY <1>1, <1>2, <1>3, <1>4 DEF Orchestrators
<1> QED BY <1>5, <1>6 DEF Active, exposure

(* A new session, the end of one, and an eviction.                         *)
LEMMA StartPortfolioGood ==
  ASSUME IInv, NEW r \in Requests, StartPortfolio(r)
  PROVE  IInv'
<1> DEFINE v == Walk(AllProducts)
<1>1. /\ Begin(r, v) /\ Touched /\ schedule' = FALSE
      /\ orchestrator' = NewOrchestrator
      /\ product' = [p \in Products |-> Started]
      /\ commands < MaxCommands /\ commands' = commands + 1
      /\ UNCHANGED <<retryAlarm, up, mishaps, evicted, undecided>>
  BY DEF StartPortfolio, Command
<1>2. /\ v \in RunStates /\ v.at = "next" /\ v.todo = AllProducts
      /\ Targeted(v.own) /\ Ahead(v) = Products
  BY WalkAll
<1> HIDE DEF v
<1>3. /\ r \in Runs /\ up /\ current = None /\ current' = r /\ Set(r, v)
      /\ \A q \in Runs: run[q].at \notin Held
  BY <1>1, <1>2, BeginFacts, Numbers
<1>4. /\ run' \in [Runs -> RunStates] /\ run'[r] = v
      /\ \A q \in Runs \ {r}: run'[q] = run[q]
  BY <1>2, <1>3, StateFacts, SetFacts
<1>5. /\ overlap' \in BOOLEAN /\ (overlap => overlap')
      /\ overlap' \/ \A q \in Runs: run[q].at # "fetch"
  BY <1>1, TouchFacts
<1>6. /\ product' \in [Products -> ProductStates]
      /\ \A p \in Products: /\ product'[p].phase = "scheduling"
                            /\ product'[p].position = 0
                            /\ Targeted(product'[p])
  BY <1>1, FirstStates DEF Targeted
<1>7. /\ NewOrchestrator \in Orchestrators /\ Active(NewOrchestrator)
      /\ \A p \in Products: /\ NewOrchestrator.exposure[p] = 0
                            /\ NewOrchestrator.statuses[p] = "running"
  <2>1. /\ NoSession \in Orchestrators
        /\ NoSession.exposure = [p \in Products |-> 0]
    BY NoSessionFacts
  <2> QED BY <2>1 DEF NewOrchestrator, Orchestrators, Active
<1>8. commands' \in 0..MaxCommands
  BY <1>1, StateFacts, Numbers
<1>9. Typed'
  BY <1>1, <1>3, <1>4, <1>5, <1>6, <1>7, <1>8, StateFacts DEF Typed
<1>10. ThreadIsHeld'
  <2>1. \A q \in Runs: run'[q].at \in Held <=> current' = q
    BY <1>2, <1>3, <1>4 DEF Held
  <2>2. \A q \in Runs: Works(run'[q]) \/ run'[q].at = "stagger" =>
          run'[q].todo # <<>>
    BY <1>2, <1>4 DEF ThreadIsHeld, Works, IInv
  <2> QED BY <1>1, <1>3, <2>1, <2>2 DEF ThreadIsHeld
<1>11. PhasesFit'
  BY <1>2, <1>3, <1>4, <1>6 DEF PhasesFit, IInv
<1>12. ASSUME ~overlap'
       PROVE  \A q \in Runs: ~Works(run'[q]) /\ run'[q].at # "control"
  BY <1>2, <1>3, <1>4, <1>5, <1>12 DEF Works, Held
<1>13. InSync'
  BY <1>12 DEF InSync, Works
<1>14. OrdersAreAdmitted'
  <2> SUFFICES ASSUME Undisturbed'
               PROVE  OrdersAreAdmitted'
    BY DEF OrdersAreAdmitted
  <2>1. \A q \in Runs: ~Ordering(q)' /\ run'[q].at # "publish"
    BY <1>12 DEF Ordering, Works, Undisturbed
  <2>2. Positions' = [p \in Products |-> 0]
    BY <1>6 DEF Positions
  <2>3. Sum(Positions') <= Cap
    BY <2>2, SumOfNothing, Numbers
  <2>4. \A p \in Products: /\ orchestrator'.exposure[p] = product'[p].position
                           /\ orchestrator'.statuses[p] \notin Terminal
    BY <1>1, <1>6, <1>7 DEF Terminal
  <2> QED BY <1>1, <1>6, <1>7, <2>1, <2>3, <2>4 DEF OrdersAreAdmitted
<1>15. AlarmIsDue'
  BY <1>2, <1>3, <1>4, <1>6 DEF AlarmIsDue
<1> QED BY <1>9, <1>10, <1>11, <1>13, <1>14, <1>15 DEF IInv

LEMMA ResetPortfolioGood ==
  ASSUME IInv, ResetPortfolio
  PROVE  IInv'
<1>1. /\ current = None /\ Touched
      /\ product' = [p \in Products |->
           IF product[p].phase \in {"failed", "halted"}
           THEN [product[p] EXCEPT !.phase = "stopped", !.shutdown = "none"]
           ELSE product[p]]
      /\ orchestrator' = PortfolioReset(orchestrator)
      /\ commands < MaxCommands /\ commands' = commands + 1
      /\ UNCHANGED <<schedule, retryAlarm, run, current, up, mishaps, evicted,
                     undecided>>
  BY DEF ResetPortfolio, Command
<1>2. /\ Typed /\ ThreadIsHeld /\ PhasesFit /\ InSync /\ OrdersAreAdmitted
      /\ AlarmIsDue /\ product \in [Products -> ProductStates]
      /\ orchestrator \in Orchestrators
  BY StateFacts DEF IInv
<1>3. /\ overlap' \in BOOLEAN /\ (overlap => overlap')
      /\ overlap' \/ \A q \in Runs: run[q].at # "fetch"
  BY <1>1, TouchFacts
<1>4. \A q \in Runs: run[q].at \notin Held
  BY <1>1, OwnFacts, Numbers
<1>5. ASSUME NEW p \in Products
      PROVE  /\ product'[p] \in ProductStates
             /\ product'[p].position = product[p].position
             /\ Targeted(product'[p])
             /\ \/ product'[p] = product[p]
                \/ product[p].phase \in Terminal /\ product'[p].phase = "stopped"
  <2> DEFINE n == [product[p] EXCEPT !.phase = "stopped", !.shutdown = "none"]
  <2>1. product[p] \in ProductStates /\ Targeted(product[p])
    BY <1>2 DEF PhasesFit
  <2>2. /\ n \in ProductStates /\ n.phase = "stopped"
        /\ n.position = product[p].position
    BY <2>1 DEF ProductStates, ProductPhases, Terminal
  <2> HIDE DEF n
  <2>3. Targeted(n)
    BY <2>2 DEF Targeted
  <2>4. product'[p] = IF product[p].phase \in {"failed", "halted"} THEN n
                      ELSE product[p]
    BY <1>1 DEF n
  <2> QED BY <2>1, <2>2, <2>3, <2>4 DEF Terminal
<1>6. product' \in [Products -> ProductStates]
  <2>1. DOMAIN product' = Products /\ product' = [p \in Products |-> product'[p]]
    BY <1>1
  <2> QED BY <1>5, <2>1
<1>7. /\ orchestrator' \in Orchestrators
      /\ Active(orchestrator') => orchestrator' = orchestrator
      /\ Active(orchestrator) => orchestrator' = orchestrator
  <2>1. NoSession \in Orchestrators /\ ~Active(NoSession)
    BY NoSessionFacts
  <2>2. CASE orchestrator.phase \in {"complete", "halted"}
    <3>1. orchestrator' = NoSession /\ ~Active(orchestrator)
      BY <1>1, <2>2 DEF PortfolioReset, Active
    <3> QED BY <2>1, <3>1
  <2>3. CASE orchestrator.phase \notin {"complete", "halted"}
    <3>1. orchestrator' = orchestrator
      BY <1>1, <2>3 DEF PortfolioReset
    <3> QED BY <1>2, <3>1
  <2> QED BY <2>2, <2>3
<1>8. commands' \in 0..MaxCommands
  <2>1. commands < MaxCommands /\ commands' = commands + 1
    BY <1>1
  <2> QED BY <2>1, StateFacts, Numbers
<1>9. Typed'
  BY <1>1, <1>2, <1>3, <1>6, <1>7, <1>8 DEF Typed
<1>10. ThreadIsHeld' /\ PhasesFit'
  BY <1>1, <1>2, <1>5 DEF ThreadIsHeld, PhasesFit
<1>11. ASSUME ~overlap'
       PROVE  ~overlap /\ \A q \in Runs: ~Works(run[q]) /\ run[q].at # "control"
  BY <1>3, <1>4, <1>11 DEF Works, Held
<1>12. InSync'
  BY <1>1, <1>11 DEF InSync, Works
<1>13. OrdersAreAdmitted'
  <2> SUFFICES ASSUME Undisturbed'
               PROVE  OrdersAreAdmitted'
    BY DEF OrdersAreAdmitted
  <2>1. /\ Undisturbed
        /\ \A q \in Runs: /\ ~Ordering(q) /\ run[q].at # "publish"
                          /\ ~Ordering(q)' /\ run'[q].at # "publish"
    BY <1>1, <1>11 DEF Ordering, Works, Undisturbed
  <2>2. Positions' = Positions
    BY <1>5 DEF Positions
  <2>3. \A p \in Products: product'[p].phase # "ordering"
    BY <1>2, <1>5, <2>1 DEF OrdersAreAdmitted
  <2>4. /\ Sum(Positions') <= Cap
        /\ Active(orchestrator) =>
             \A p \in Products:
               /\ orchestrator.exposure[p] = product[p].position
               /\ orchestrator.statuses[p] \in Terminal =>
                    product[p].phase \in Terminal
        /\ ~Active(orchestrator) => \A p \in Products: product[p].phase \in Terminal
    BY <1>2, <2>1, <2>2 DEF OrdersAreAdmitted, Settles
  <2>5. \A p \in Products:
          product[p].phase \in Terminal => product'[p].phase \in Terminal
    BY <1>5 DEF Terminal
  <2>6. /\ Active(orchestrator') =>
             \A p \in Products:
               /\ orchestrator'.exposure[p] = product'[p].position
               /\ orchestrator'.statuses[p] \in Terminal =>
                    product'[p].phase \in Terminal
        /\ ~Active(orchestrator') =>
             \A p \in Products: product'[p].phase \in Terminal
    BY <1>5, <1>7, <2>4, <2>5
  <2> QED BY <2>1, <2>3, <2>4, <2>6 DEF OrdersAreAdmitted
<1>14. AlarmIsDue'
  <2> SUFFICES ASSUME up, ~overlap', ~schedule, NEW p \in Products,
                      IsEnabled(product'[p])
               PROVE  /\ product'[p].phase \in {"scheduling", "cancelling"}
                      /\ \E q \in Runs: p \in Ahead(run'[q])
    BY <1>1 DEF AlarmIsDue
  <2>1. product'[p] = product[p]
    BY <1>5, Terminals DEF Terminal
  <2> QED BY <1>1, <1>2, <1>11, <2>1 DEF AlarmIsDue
<1> QED BY <1>9, <1>10, <1>12, <1>13, <1>14 DEF IInv

LEMMA CrashGood ==
  ASSUME IInv, Crash
  PROVE  IInv'
<1>1. /\ run' = [r \in Runs |-> IdleRun] /\ current' = None /\ up' = FALSE
      /\ evicted' = TRUE /\ mishaps < MaxMishaps /\ mishaps' = mishaps + 1
      /\ UNCHANGED <<orchestrator, product, schedule, retryAlarm, commands,
                     overlap, undecided>>
  BY DEF Crash, Mishap
<1>2. /\ IdleRun \in RunStates /\ IdleRun.at = "idle" /\ Targeted(IdleRun.own)
  BY FirstStates DEF Targeted
<1>3. run' \in [Runs -> RunStates] /\ \A r \in Runs: run'[r] = IdleRun
  BY <1>1, <1>2
<1>4. mishaps' \in 0..MaxMishaps
  BY <1>1, StateFacts, Numbers
<1>5. Typed'
  BY <1>1, <1>3, <1>4, StateFacts DEF Typed
<1>6. ThreadIsHeld' /\ PhasesFit' /\ InSync'
  BY <1>1, <1>2, <1>3, Numbers, StateFacts
     DEF ThreadIsHeld, Held, Works, PhasesFit, InSync
<1>7. OrdersAreAdmitted' /\ AlarmIsDue'
  BY <1>1 DEF OrdersAreAdmitted, Undisturbed, AlarmIsDue
<1> QED BY <1>5, <1>6, <1>7 DEF IInv

LEMMA OnStartGood ==
  ASSUME IInv, OnStart
  PROVE  IInv'
<1>1. /\ ~up /\ up' = TRUE /\ schedule' = (schedule \/ SomeEnabled(product))
      /\ UNCHANGED <<orchestrator, product, retryAlarm, run, current, commands,
                     mishaps, evicted, overlap, undecided>>
  BY DEF OnStart
<1>2. /\ Typed /\ ThreadIsHeld /\ PhasesFit /\ InSync /\ OrdersAreAdmitted
  BY DEF IInv
<1>3. Typed' /\ ThreadIsHeld' /\ PhasesFit'
  BY <1>1, <1>2 DEF Typed, ThreadIsHeld, PhasesFit
<1>4. /\ \A q \in Runs: This(q)' = This(q) /\ (Ordering(q)' <=> Ordering(q))
      /\ \A q \in Runs, p \in Products: Settles(q, p)' <=> Settles(q, p)
      /\ Positions' = Positions /\ (Undisturbed' <=> Undisturbed)
  BY <1>1 DEF This, Ordering, Settles, Positions, Undisturbed
<1>5. InSync' /\ OrdersAreAdmitted'
  BY <1>1, <1>2, <1>4 DEF InSync, OrdersAreAdmitted
<1>6. AlarmIsDue'
  BY <1>1 DEF AlarmIsDue, SomeEnabled
<1> QED BY <1>3, <1>5, <1>6 DEF IInv

-----------------------------------------------------------------------------
LEMMA InitGood ==
  ASSUME Init
  PROVE  IInv
<1>1. /\ NewProduct \in ProductStates /\ NewProduct.phase = "stopped"
      /\ NewProduct.position = 0 /\ Targeted(NewProduct)
      /\ IdleRun \in RunStates /\ IdleRun.at = "idle" /\ Targeted(IdleRun.own)
  BY FirstStates DEF Targeted
<1>2. NoSession \in Orchestrators /\ ~Active(NoSession)
  BY NoSessionFacts
<1>3. Typed
  <2>1. /\ product \in [Products -> ProductStates] /\ run \in [Runs -> RunStates]
        /\ orchestrator \in Orchestrators /\ retryAlarm \in [Products -> BOOLEAN]
    BY <1>1, <1>2 DEF Init
  <2>2. commands \in 0..MaxCommands /\ mishaps \in 0..MaxMishaps
    BY Numbers DEF Init
  <2>3. /\ schedule \in BOOLEAN /\ up \in BOOLEAN /\ evicted \in BOOLEAN
        /\ overlap \in BOOLEAN /\ undecided \in BOOLEAN
        /\ current \in Runs \cup {None}
    BY DEF Init
  <2> QED BY <2>1, <2>2, <2>3 DEF Typed
<1>4. ThreadIsHeld /\ PhasesFit /\ InSync
  BY <1>1, Numbers DEF Init, ThreadIsHeld, Held, Works, PhasesFit, InSync
<1>5. OrdersAreAdmitted
  <2>1. Positions = [p \in Products |-> 0]
    BY <1>1 DEF Init, Positions
  <2>2. Sum(Positions) <= Cap
    BY <2>1, SumOfNothing, Numbers
  <2>3. \A p \in Products: product[p].phase \in Terminal /\ product[p].phase # "ordering"
    BY <1>1 DEF Init, Terminal
  <2>4. \A q \in Runs: ~Ordering(q) /\ run[q].at # "publish"
    BY <1>1 DEF Init, Ordering
  <2>5. ~Active(orchestrator)
    BY <1>2 DEF Init
  <2> QED BY <2>2, <2>3, <2>4, <2>5 DEF OrdersAreAdmitted
<1>6. AlarmIsDue
  BY <1>1, Terminals DEF Init, AlarmIsDue, Terminal
<1> QED BY <1>3, <1>4, <1>5, <1>6 DEF IInv

LEMMA StepGood ==
  ASSUME IInv, NEW r \in Runs, RunStep(r)
  PROVE  IInv'
<1>1. ASSUME NoOrder(r)
      PROVE  IInv'
  <2>1. Knows(orchestrator, orchestrator')
    BY <1>1, OwnFacts DEF NoOrder
  <2> QED BY <1>1, <2>1, NoOrderGood DEF NoOrder
<1>2. CASE NextProduct(r) \/ Staggered(r) \/ EndRun(r) \/ ControlProduct(r)
  BY <1>2, NextProductGood, StaggeredGood, EndRunGood, ControlProductGood
<1>3. CASE Fetch(r) \/ Pause(r) \/ Settle(r) \/ Fail(r) \/ Execute(r)
  BY <1>3, FetchGood, PauseGood, SettleGood, FailGood, ExecuteGood
<1>4. CASE Publish(r) \/ PlanRetry(r) \/ Propose(r)
  BY <1>4, PublishGood, PlanRetryGood, ProposeGood
<1> QED BY <1>1, <1>2, <1>3, <1>4 DEF RunStep

LEMMA NextGood ==
  ASSUME IInv, [Next]_vars
  PROVE  IInv'
<1>1. CASE \E r \in Runs: RunStep(r)
  BY <1>1, StepGood
<1>2. CASE \E r \in Requests:
             StartPortfolio(r) \/ StopPortfolio(r) \/ KillPortfolio(r) \/ RunNow(r)
  BY <1>2, StartPortfolioGood, ControlGood, RunNowGood
<1>3. CASE ResetPortfolio \/ ScheduledTick \/ RetryTick \/ Crash \/ OnStart
  BY <1>3, ResetPortfolioGood, ScheduledTickGood, RetryTickGood, CrashGood,
     OnStartGood
<1>4. CASE UNCHANGED vars
  <2>1. retryAlarm' \in [Products -> BOOLEAN]
    BY <1>4, StateFacts DEF vars
  <2> QED BY <1>4, <2>1, OnlyRetryAlarm DEF vars
<1> QED BY <1>1, <1>2, <1>3, <1>4 DEF Next

-----------------------------------------------------------------------------
(* The inductive invariant holds in every state.                           *)
THEOREM Soundness == Spec => []IInv
<1>1. Init => IInv
  BY InitGood
<1>2. IInv /\ [Next]_vars => IInv'
  BY NextGood
<1> QED BY <1>1, <1>2, PTL DEF Spec

(* Every state has its type.                                               *)
THEOREM TypeCorrectness == Spec => []TypeOK
<1>1. IInv => TypeOK
  <2> SUFFICES ASSUME IInv
               PROVE  TypeOK
    OBVIOUS
  <2>1. ASSUME NEW r \in Runs
        PROVE  /\ run[r].at \in {"idle", "control", "next", "stagger", "cycle",
                                 "fetch", "publish"}
               /\ run[r].own.position \in 0..ProductCap
    BY StateFacts DEF RunStates, ProductStates
  <2> QED BY <2>1, StateFacts DEF TypeOK, Orchestrators, ProductStates
<1> QED BY <1>1, Soundness, PTL

(* Whatever runs interleave, the positions together stay under the         *)
(* consolidated cap, as long as nothing was evicted and no product had two *)
(* cycles in flight (the admission of portfolio-runtime.ts).               *)
THEOREM CapSafety == Spec => []CapHolds
<1>1. IInv => CapHolds
  BY DEF IInv, OrdersAreAdmitted, CapHolds, Positions
<1> QED BY <1>1, Soundness, PTL

(* No enabled portfolio is left without its shared alarm at rest, neither  *)
(* by a run that ends nor by an eviction (trading-agent.ts).               *)
THEOREM ArmedSafety == Spec => []ArmedWhenEnabled
<1>1. IInv => ArmedWhenEnabled
  <2> SUFFICES ASSUME IInv, up, \A r \in Runs: run[r].at = "idle",
                      SomeEnabled(product), ~overlap, ~schedule
               PROVE  FALSE
    BY StateFacts DEF ArmedWhenEnabled
  <2>1. PICK p \in Products: IsEnabled(product[p])
    BY DEF SomeEnabled
  <2>2. PICK r \in Runs: p \in Ahead(run[r])
    BY <2>1 DEF IInv, AlarmIsDue
  <2> QED BY <2>2 DEF Ahead
<1> QED BY <1>1, Soundness, PTL

-----------------------------------------------------------------------------
(* What a step makes of the orders taken up.                               *)
TakesNothing ==
  \A p \in Products:
    product'[p].phase = "ordering" => product[p].phase = "ordering"

LEMMA MoveTakesNothing ==
  ASSUME IInv, NEW r \in Runs, Works(run[r]), NEW m \in ProductStates,
         NEW at \in {"cycle", "fetch", "publish"}, Move(r, at, m),
         m.phase # "ordering"
  PROVE  TakesNothing
<1>1. Typed /\ run[r].todo # <<>>
  BY DEF IInv, ThreadIsHeld
<1>2. /\ product'[This(r)].phase = m.phase
      /\ \A p \in Products \ {This(r)}: product'[p] = product[p]
  BY <1>1, MoveFacts
<1> QED BY <1>2 DEF TakesNothing

LEMMA EndTakesNothing ==
  ASSUME IInv, NEW r \in Runs, Works(run[r]), NEW m \in ProductStates,
         End(r, m), m.phase \in {"stopped", "halted", "waiting"}
  PROVE  TakesNothing
BY MoveTakesNothing DEF End

LEMMA CycleTakesNothing ==
  ASSUME IInv, NEW r \in Runs, orchestrator.phase = "draining",
         \/ Fetch(r) \/ Settle(r) \/ Fail(r) \/ Execute(r)
         \/ NoOrder(r) \/ PlanRetry(r) \/ Propose(r)
  PROVE  TakesNothing
<1> DEFINE own == run[r].own
<1>1. own \in ProductStates
  BY OwnFacts
<1>2. /\ Rest(own) \in ProductStates
      /\ Rest(own).phase \in {"stopped", "halted", "waiting"}
  BY <1>1, RestFacts
<1>3. Works(run[r])
  BY DEF Fetch, Settle, Fail, Execute, NoOrder, PlanRetry, Propose, Answered,
         Holds, Works
<1>4. CASE Fetch(r) \/ PlanRetry(r)
  <2>1. CASE Fetch(r)
    <3> DEFINE m == [own EXCEPT !.phase = "fetching"]
    <3>1. m \in ProductStates /\ m.phase = "fetching"
      BY <1>1, Terminals DEF ProductStates
    <3>2. Move(r, "fetch", m)
      BY <2>1 DEF Fetch
    <3> HIDE DEF m
    <3> QED BY <1>3, <3>1, <3>2, MoveTakesNothing
  <2>2. CASE PlanRetry(r)
    <3> DEFINE m == [own EXCEPT !.phase = "retrying"]
    <3>1. m \in ProductStates /\ m.phase = "retrying"
      BY <1>1, Terminals DEF ProductStates
    <3>2. Move(r, "publish", m)
      BY <2>2 DEF PlanRetry
    <3> HIDE DEF m
    <3> QED BY <1>3, <3>1, <3>2, MoveTakesNothing
  <2> QED BY <1>4, <2>1, <2>2
<1>5. CASE Fail(r)
  <2> DEFINE m == [own EXCEPT !.phase = "failed", !.target = NoTarget]
  <2>1. m \in ProductStates /\ m.phase # "ordering"
    <3>1. "failed" \in ProductPhases /\ NoTarget \in NoTarget..ProductCap
      BY Numbers DEF ProductPhases, Terminal
    <3> QED BY <1>1, <3>1 DEF ProductStates
  <2>2. Move(r, "publish", m)
    BY <1>5 DEF Fail
  <2> HIDE DEF m
  <2> QED BY <1>3, <2>1, <2>2, MoveTakesNothing
<1>6. CASE Settle(r) \/ NoOrder(r)
  BY <1>2, <1>3, <1>6, EndTakesNothing DEF Settle, NoOrder
<1>7. CASE Execute(r)
  <2>1. PICK done \in {TRUE, own.shutdown = "none"}:
          End(r, [Rest(own) EXCEPT
                    !.target = NoTarget,
                    !.position = IF done THEN Filled(own) ELSE @])
    BY <1>7 DEF Execute
  <2> DEFINE rest == Rest(own)
             position == IF done THEN Filled(own) ELSE rest.position
             m == [rest EXCEPT !.target = NoTarget, !.position = position]
  <2>2. own.target \in 0..ProductCap
    BY <1>1, <1>7, Numbers
       DEF Execute, IInv, PhasesFit, Targeted, ProductStates
  <2>3. position \in 0..ProductCap
    BY <1>2, <2>2 DEF Filled, ProductStates
  <2>4. End(r, m)
    BY <1>2, <2>1 DEF ProductStates
  <2> HIDE DEF position, rest
  <2>5. rest \in ProductStates /\ rest.phase \in {"stopped", "halted", "waiting"}
    BY <1>2 DEF rest
  <2>6. m \in ProductStates /\ m.phase = rest.phase
    <3>1. NoTarget \in NoTarget..ProductCap
      BY Numbers
    <3> QED BY <2>3, <2>5, <3>1 DEF ProductStates
  <2> HIDE DEF m
  <2> QED BY <1>3, <2>4, <2>5, <2>6, EndTakesNothing
<1>8. CASE Propose(r)
  <2>1. PICK target \in 0..ProductCap:
          /\ orchestrator' = RiskProposed(orchestrator, This(r), target)
          /\ ~Approved(orchestrator', This(r)) => End(r, Rest(own))
    BY <1>8 DEF Propose
  <2>2. orchestrator \in Orchestrators /\ This(r) \in Products
    BY <1>3, StateFacts, OwnFacts
  <2>3. ~Approved(orchestrator', This(r))
    BY <2>1, <2>2, RiskFacts DEF Active
  <2> QED BY <1>2, <1>3, <2>1, <2>3, EndTakesNothing
<1> QED BY <1>4, <1>5, <1>6, <1>7, <1>8

(* A portfolio that drains takes up no order, whatever was evicted and     *)
(* whatever overlaps: neither a run in flight nor one that begins is       *)
(* admitted by it (portfolio.ts, runtime of trading-agent.ts).             *)
THEOREM DrainSafety == Spec => NothingTakenUp
<1>1. ASSUME IInv, [Next]_vars, orchestrator.phase = "draining"
      PROVE  TakesNothing
  <2>1. CASE UNCHANGED product
    BY <2>1 DEF TakesNothing
  <2>2. ASSUME NEW r \in Runs, RunStep(r)
        PROVE  TakesNothing
    <3>1. CASE NextProduct(r) \/ Staggered(r) \/ EndRun(r) \/ Pause(r)
      BY <3>1, <2>1 DEF NextProduct, Staggered, EndRun, Pause
    <3>2. CASE \/ Fetch(r) \/ Settle(r) \/ Fail(r) \/ Execute(r)
               \/ NoOrder(r) \/ PlanRetry(r) \/ Propose(r)
      BY <1>1, <3>2, CycleTakesNothing
    <3>3. CASE Publish(r)
      <4>1. /\ run[r].own.phase \in Terminal \cup {"waiting", "retrying"}
            /\ product' = [product EXCEPT ![This(r)] = run[r].own]
        BY <1>1, <3>3 DEF Publish, Holds, IInv, PhasesFit
      <4>2. run[r].own.phase # "ordering"
        BY <4>1 DEF Terminal
      <4> QED BY <1>1, <4>1, <4>2, StateFacts DEF TakesNothing
    <3>4. CASE ControlProduct(r)
      <4>1. CASE run[r].todo # <<>>
        <5> DEFINE p == Head(run[r].todo)
        <5>1. product' = [product EXCEPT ![p].shutdown = run[r].control,
                            ![p].phase = IF @ = "ordering" THEN @
                                         ELSE "cancelling"]
              \/ product' = product
          BY <3>4, <4>1 DEF ControlProduct, ControlNext
        <5>2. product \in [Products -> ProductStates]
          BY <1>1, StateFacts
        <5> QED BY <5>1, <5>2 DEF TakesNothing, ProductStates
      <4>2. CASE run[r].todo = <<>>
        BY <2>1, <3>4, <4>2 DEF ControlProduct
      <4> QED BY <4>1, <4>2
    <3> QED BY <2>2, <3>1, <3>2, <3>3, <3>4 DEF RunStep
  <2>3. ASSUME NEW r \in Requests,
               StartPortfolio(r) \/ StopPortfolio(r) \/ KillPortfolio(r) \/ RunNow(r)
        PROVE  TakesNothing
    <3>1. CASE StartPortfolio(r)
      BY <3>1, FirstStates DEF StartPortfolio, TakesNothing
    <3>2. CASE StopPortfolio(r) \/ KillPortfolio(r) \/ RunNow(r)
      BY <2>1, <3>2 DEF StopPortfolio, KillPortfolio, Control, RunNow, Wake
    <3> QED BY <2>3, <3>1, <3>2
  <2>4. CASE ResetPortfolio
    BY <1>1, <2>4, StateFacts DEF ResetPortfolio, TakesNothing, ProductStates
  <2>5. CASE ScheduledTick \/ RetryTick \/ Crash \/ OnStart \/ UNCHANGED vars
    BY <2>1, <2>5 DEF ScheduledTick, Wake, RetryTick, Crash, OnStart, vars
  <2> QED BY <1>1, <2>2, <2>3, <2>4, <2>5 DEF Next
<1>2. IInv /\ [Next]_vars =>
        [orchestrator.phase = "draining" =>
           \A p \in Products:
             product'[p].phase = "ordering" => product[p].phase = "ordering"]_vars
  BY <1>1 DEF TakesNothing
<1> QED BY <1>2, Soundness, PTL DEF Spec, NothingTakenUp
=============================================================================
