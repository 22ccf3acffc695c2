---------------------------- MODULE Console_proofs ----------------------------
(***************************************************************************)
(* Proofs about the two sessions of the dashboard: the page (Dashboard),   *)
(* for every set of agents and any number of connections, clicks and       *)
(* changes of the agents, and the wallet (BaseWallet), for every set of    *)
(* addresses and chains, of connections and of changes.                    *)
(***************************************************************************)
EXTENDS MCConsole, TLAPS


SessionPhases == {"disconnected", "loading", "ready", "refreshing",
                  "confirmingKill", "commanding", "error"}
PerpPhases == {"form", "confirming", "submitting", "result"}
CommandNames == Commands \cup {"kill", None}

Views == [of: Agents \cup {None}, phase: Phases \cup {None}, at: Nat]
Sessions == [phase: SessionPhases, target: Agents \cup {None},
             pending: CommandNames, remote: Views]
PerpForms == [phase: PerpPhases, order: Nat]
Requests == [kind: {"load", "command", "perp"}, target: Agents,
             command: CommandNames, order: Nat, connection: Nat,
             served: BOOLEAN, view: Views]

TypeOK ==
  /\ session \in Sessions /\ perp \in PerpForms
  /\ rendered \in [session: Sessions, perp: PerpForms]
  /\ shown \in Views
  /\ perpInFlight \in BOOLEAN
  /\ requests \subseteq Requests
  /\ agent \in [Agents -> [phase: Phases, at: Nat]]
  /\ connections \in Nat /\ clicks \in Nat /\ changes \in Nat
  /\ posted \subseteq Nat \X Agents
  /\ abandoned \in BOOLEAN

(***************************************************************************)
(* The inductive invariant.  A session that is open, or whose perp order   *)
(* is sent, names an agent.                                                *)
(***************************************************************************)
TargetIsKnown ==
  \/ session.target \in Agents
  \/ /\ session.phase = "disconnected" /\ rendered.session.phase = "disconnected"
     /\ perp.phase # "submitting"

(* Until a session is closed under it, the one request of the session      *)
(* machine is the one that its state asks for, and the page shows that it  *)
(* waits.                                                                  *)
Asks(s, q) ==
  \/ q.kind = "load" /\ s.phase \in {"loading", "refreshing"}
  \/ q.kind = "command" /\ s.phase = "commanding"

OfSession == {q \in requests: q.kind # "perp"}

RequestIsCurrent ==
  ~abandoned =>
    /\ \A q \in OfSession: Asks(session, q) /\ q.target = session.target
    /\ OfSession # {} => rendered.session = session
    /\ \A q, r \in OfSession: q = r

(* Views are of the agent that was asked, and no later than its state; the *)
(* answer in flight is not older than what is shown.                       *)
ViewsAge ==
  /\ shown.of \in Agents => shown.at <= agent[shown.of].at
  /\ \A q \in requests: q.served =>
       q.view.of = q.target /\ q.view.at <= agent[q.target].at
  /\ \A q \in OfSession:
       q.served /\ ~abandoned /\ q.view.of = shown.of => shown.at <= q.view.at

(* An order to be sent has a number that no order sent before has.         *)
Fresh(p, n) ==
  /\ p.phase = "confirming" => \A x \in posted: x[1] < n
  /\ p.phase = "submitting" => p.order <= n
  /\ p.phase = "submitting" /\ ~perpInFlight => \A x \in posted: x[1] # p.order

OrderIsFresh ==
  /\ \A x \in posted: x[1] <= clicks
  /\ Fresh(perp, clicks)

IInv ==
  /\ TypeOK /\ TargetIsKnown /\ RequestIsCurrent /\ ShownIsConfirmed
  /\ ViewsAge /\ OrderIsFresh /\ OneSubmissionPerOrder

-----------------------------------------------------------------------------
(* A rendering of s and p: the page sends at most one request for the      *)
(* session, in a new state of it, and at most one for the perp order.      *)
LEMMA RenderingSends ==
  ASSUME IInv, NEW s \in Sessions, NEW p \in PerpForms,
         s.phase = "disconnected" \/ s.target \in Agents,
         p.phase = "submitting" => s.target \in Agents
  PROVE  /\ SessionRequests(s) \subseteq Requests
         /\ PerpRequests(s, p) \subseteq Requests
         /\ \A q \in SessionRequests(s):
              Asks(s, q) /\ q.target = s.target /\ ~q.served /\ q.kind # "perp"
              /\ s # rendered.session
         /\ \A q, r \in SessionRequests(s): q = r
         /\ \A q \in PerpRequests(s, p):
              /\ q.kind = "perp" /\ ~q.served /\ MaySubmit(p)
              /\ q.order = p.order /\ q.target = s.target
         /\ \A q, r \in PerpRequests(s, p): q = r
<1> USE DEF IInv, TypeOK
<1>1. NoView \in Views /\ None \in CommandNames
  BY DEF NoView, Views, CommandNames
<1>2. /\ s.phase \in SessionPhases /\ s.target \in Agents \cup {None}
      /\ s.pending \in CommandNames /\ p.order \in Nat /\ p.phase \in PerpPhases
  BY DEF Sessions, PerpForms
<1>3. ASSUME NEW q \in SessionRequests(s)
      PROVE  /\ q \in Requests /\ Asks(s, q) /\ q.target = s.target /\ ~q.served
             /\ q.kind # "perp" /\ s # rendered.session
             /\ \/ s.phase \in {"loading", "refreshing"}
                   /\ q = Request("load", s.target, None, 0)
                \/ s.phase = "commanding"
                   /\ q = Request("command", s.target, s.pending, 0)
  <2>1. /\ s # rendered.session
        /\ \/ s.phase \in {"loading", "refreshing"}
              /\ q = Request("load", s.target, None, 0)
           \/ s.phase = "commanding"
              /\ q = Request("command", s.target, s.pending, 0)
    BY <1>2, <1>3 DEF SessionRequests, SessionPhases
  <2>2. s.target \in Agents
    BY <2>1
  <2>3. CASE s.phase \in {"loading", "refreshing"}
             /\ q = Request("load", s.target, None, 0)
    BY <1>1, <2>1, <2>2, <2>3 DEF Request, Requests, Asks
  <2>4. CASE s.phase = "commanding"
             /\ q = Request("command", s.target, s.pending, 0)
    BY <1>1, <1>2, <2>1, <2>2, <2>4 DEF Request, Requests, Asks
  <2> QED  BY <2>1, <2>3, <2>4
<1>4. ASSUME NEW q \in PerpRequests(s, p)
      PROVE  /\ q = Request("perp", s.target, None, p.order) /\ MaySubmit(p)
             /\ q \in Requests /\ q.kind = "perp" /\ ~q.served
             /\ q.order = p.order /\ q.target = s.target
  <2>1. q = Request("perp", s.target, None, p.order) /\ MaySubmit(p)
    BY <1>4 DEF PerpRequests
  <2> QED  BY <1>1, <1>2, <2>1 DEF Request, Requests, MaySubmit
<1> QED  BY <1>3, <1>4

(* The machines at s and p and the page that shows them: what a click or a *)
(* rendering leaves.                                                       *)
LEMMA ClickKeeps ==
  ASSUME IInv, NEW s \in Sessions, NEW p \in PerpForms, Rendering(s, p),
         session' = s, perp' = p, UNCHANGED <<shown, agent, changes>>,
         connections' \in Nat, clicks' \in Nat, abandoned' \in BOOLEAN,
         abandoned => abandoned', clicks <= clicks',
         s.target \in Agents \/ (s.phase = "disconnected" /\ p.phase # "submitting"),
         abandoned' \/ OfSession = {} \/ s = session,
         s.phase \in Connected /\ ~abandoned' =>
           shown = s.remote /\ shown.of = s.target,
         Fresh(p, clicks')
  PROVE  IInv'
<1> USE DEF IInv, TypeOK
<1> DEFINE sent == SessionRequests(s)
           orders == PerpRequests(s, p)
<1>1. /\ rendered' = [session |-> s, perp |-> p]
      /\ perpInFlight' = (perpInFlight \/ orders # {})
      /\ requests' = requests \cup sent \cup orders
      /\ posted' = posted \cup {<<q.order, q.target>>: q \in orders}
  BY DEF Rendering
<1>2. /\ sent \subseteq Requests /\ orders \subseteq Requests
      /\ \A q \in sent:
           Asks(s, q) /\ q.target = s.target /\ ~q.served /\ q.kind # "perp"
           /\ s # rendered.session
      /\ \A q, r \in sent: q = r
      /\ \A q \in orders:
           /\ q.kind = "perp" /\ ~q.served /\ MaySubmit(p)
           /\ q.order = p.order /\ q.target = s.target
      /\ \A q, r \in orders: q = r
  BY RenderingSends
<1> HIDE DEF sent, orders
<1>3. posted' \subseteq Nat \X Agents
  <2>1. \A q \in orders: q.order \in Nat /\ q.target \in Agents
    BY <1>2 DEF Requests
  <2> QED  BY <1>1, <2>1
<1>4. TypeOK'
  BY <1>1, <1>2, <1>3
<1>5. TargetIsKnown'
  BY <1>1 DEF TargetIsKnown
<1>6. OfSession' = OfSession \cup sent
  BY <1>1, <1>2 DEF OfSession
<1>7. RequestIsCurrent'
  <2> SUFFICES ASSUME ~abandoned'
               PROVE  /\ \A q \in OfSession': Asks(s, q) /\ q.target = s.target
                      /\ \A q, r \in OfSession': q = r
    BY <1>1 DEF RequestIsCurrent, Asks
  <2>1. ~abandoned
    OBVIOUS
  <2>2. CASE OfSession = {}
    BY <1>2, <1>6, <2>2
  <2>3. CASE OfSession # {} /\ s = session
    <3>1. rendered.session = s
      BY <2>1, <2>3 DEF RequestIsCurrent
    <3>2. sent = {}
      BY <1>2, <3>1
    <3> QED  BY <1>6, <2>1, <2>3, <3>2 DEF RequestIsCurrent
  <2> QED  BY <2>2, <2>3
<1>8. ShownIsConfirmed'
  BY DEF ShownIsConfirmed
<1>9. ViewsAge'
  BY <1>1, <1>2, <1>6 DEF ViewsAge
<1>10. OrderIsFresh' /\ OneSubmissionPerOrder'
  <2>1. CASE orders = {}
    <3>1. posted' = posted /\ perpInFlight' = perpInFlight
      BY <1>1, <2>1
    <3> QED  BY <3>1 DEF OrderIsFresh, Fresh, OneSubmissionPerOrder
  <2>2. CASE orders # {}
    <3>1. PICK q \in orders: TRUE
      BY <2>2
    <3>2. /\ p.phase = "submitting" /\ ~perpInFlight
          /\ posted' = posted \cup {<<p.order, s.target>>} /\ perpInFlight'
      <4>1. p.phase = "submitting" /\ ~perpInFlight
        BY <1>2, <3>1 DEF MaySubmit
      <4>2. {<<x.order, x.target>>: x \in orders} = {<<p.order, s.target>>}
        BY <1>2, <3>1
      <4>3. perpInFlight'
        BY <1>1, <2>2
      <4> QED  BY <1>1, <4>1, <4>2, <4>3
    <3>3. p.order <= clicks' /\ \A x \in posted: x[1] # p.order
      BY <3>2 DEF Fresh
    <3>4. \A x \in posted: x[1] \in Nat /\ x[1] <= clicks'
      BY DEF OrderIsFresh
    <3> QED  BY <3>2, <3>3, <3>4 DEF OrderIsFresh, Fresh, OneSubmissionPerOrder
  <2> QED  BY <2>1, <2>2
<1> QED  BY <1>4, <1>5, <1>7, <1>8, <1>9, <1>10

-----------------------------------------------------------------------------
(* The operator and the browser.                                           *)

(* A page that does not show that it waits has no request of its session.  *)
LEMMA NotWaiting ==
  ASSUME IInv, ~Busy(rendered.session)
  PROVE  abandoned \/ OfSession = {}
BY DEF IInv, RequestIsCurrent, Asks, Busy, OfSession

(* A click on a button of the session, on the machine as it is.            *)
LEMMA SessionMoves ==
  ASSUME IInv, NEW s \in Sessions, Click(s, perp),
         connections' \in Nat, clicks' \in Nat, clicks <= clicks',
         UNCHANGED abandoned,
         s = session \/ abandoned \/ OfSession = {},
         s.target = session.target \/ s.target \in Agents,
         session.target = s.target => s.phase = session.phase \/ session.target \in Agents,
         s.phase \in Connected =>
           /\ session.phase \in Connected
           /\ s.target = session.target /\ s.remote = session.remote
  PROVE  IInv'
<1>1. Rendering(s, perp) /\ session' = s /\ perp' = perp
      /\ UNCHANGED <<shown, agent, changes>>
  BY DEF Click
<1>2. s.target \in Agents \/ (s.phase = "disconnected" /\ perp.phase # "submitting")
  BY DEF IInv, TargetIsKnown
<1>3. Fresh(perp, clicks')
  BY DEF IInv, OrderIsFresh, Fresh, TypeOK, PerpForms
<1>4. s.phase \in Connected /\ ~abandoned' => shown = s.remote /\ shown.of = s.target
  BY DEF IInv, ShownIsConfirmed
<1>5. perp \in PerpForms /\ abandoned' \in BOOLEAN /\ (abandoned => abandoned')
  BY DEF IInv, TypeOK
<1>6. abandoned' \/ OfSession = {} \/ s = session
  OBVIOUS
<1> QED  BY <1>1, <1>2, <1>3, <1>4, <1>5, <1>6, ClickKeeps

LEMMA ConnectKeeps == ASSUME IInv, NEW a \in Agents, Connect(a) PROVE IInv'
<1> DEFINE s == ConnectRequested(session, a)
<1>1. /\ Click(s, perp) /\ connections' = connections + 1
      /\ UNCHANGED <<clicks, abandoned>> /\ ~Busy(rendered.session)
  BY DEF Connect, Busy
<1>2. connections' \in Nat /\ clicks' \in Nat /\ clicks <= clicks'
  BY <1>1 DEF IInv, TypeOK
<1>3. /\ s \in Sessions /\ (s = session \/ (s.phase = "loading" /\ s.target = a))
      /\ session.phase = "disconnected" \/ s = session
  BY DEF IInv, TypeOK, Sessions, SessionPhases, ConnectRequested
<1> HIDE DEF s
<1> QED  BY <1>1, <1>2, <1>3, NotWaiting, SessionMoves DEF Connected

LEMMA SessionCommandsKeep ==
  ASSUME IInv,
         (\E c \in Commands: Command(c)) \/ AskKill \/ ConfirmKill \/ CancelKill
  PROVE  IInv'
<1>1. PICK s: /\ \/ \E c \in Commands: s = CommandRequested(session, c)
                 \/ s = KillConfirmationRequested(session)
                 \/ s = KillConfirmed(session)
                 \/ s = KillCancelled(session)
              /\ SessionClick(s) /\ ~Busy(rendered.session)
              /\ clicks' \in {clicks, clicks + 1}
  BY DEF Command, AskKill, ConfirmKill, CancelKill, Issued, Busy
<1>2. /\ s \in Sessions /\ s.target = session.target /\ s.remote = session.remote
      /\ \/ s = session
         \/ /\ session.phase \in {"ready", "confirmingKill"}
            /\ s.phase \in {"commanding", "confirmingKill", "ready"}
  <2>1. session \in Sessions
    BY DEF IInv, TypeOK
  <2> QED  BY <1>1, <2>1 DEF Sessions, SessionPhases, CommandNames,
      CommandRequested, KillConfirmationRequested, KillConfirmed, KillCancelled
<1>3. session.target \in Agents \/ s = session
  BY <1>2 DEF IInv, TargetIsKnown
<1>4. /\ Click(s, perp) /\ UNCHANGED <<connections, abandoned>>
      /\ connections' \in Nat /\ clicks' \in Nat /\ clicks <= clicks'
  BY <1>1 DEF SessionClick, IInv, TypeOK
<1>5. s.phase \in Connected => session.phase \in Connected
  BY <1>2 DEF Connected
<1> QED  BY <1>1, <1>2, <1>3, <1>4, <1>5, NotWaiting, SessionMoves

LEMMA DisconnectKeeps == ASSUME IInv, Disconnect PROVE IInv'
<1> DEFINE s == Closed(session.target)
<1>1. /\ Rendering(s, perp) /\ session' = s /\ perp' = perp
      /\ UNCHANGED <<shown, agent, changes, connections, clicks>>
      /\ abandoned' = (abandoned \/ OfSession # {})
      /\ rendered.session.phase # "disconnected"
  BY DEF Disconnect, Click, DisconnectRequested, Ready, OfSession
<1>2. session.target \in Agents
  BY <1>1 DEF IInv, TargetIsKnown
<1>3. /\ s \in Sessions /\ s.phase = "disconnected" /\ s.target = session.target
  BY <1>2 DEF Closed, Sessions, SessionPhases, CommandNames, Views, NoView
<1>4. perp \in PerpForms /\ abandoned' \in BOOLEAN /\ connections' \in Nat
      /\ clicks' \in Nat /\ clicks <= clicks' /\ Fresh(perp, clicks')
  BY <1>1 DEF IInv, TypeOK, OrderIsFresh
<1>5. (abandoned => abandoned') /\ (abandoned' \/ OfSession = {})
  BY <1>1
<1> HIDE DEF s
<1> QED  BY <1>1, <1>2, <1>3, <1>4, <1>5, ClickKeeps DEF Connected

(* A click on a button of the perp form.                                   *)
LEMMA PerpMoves ==
  ASSUME IInv, NEW p \in PerpForms, PerpClick(p), clicks' \in Nat,
         clicks <= clicks', Fresh(p, clicks'),
         p.phase = "submitting" => session.target \in Agents
  PROVE  IInv'
<1>1. /\ Rendering(session, p) /\ session' = session /\ perp' = p
      /\ UNCHANGED <<shown, agent, changes, connections, abandoned>>
  BY DEF PerpClick, Click
<1>2. /\ session \in Sessions /\ connections' \in Nat
      /\ abandoned' \in BOOLEAN /\ (abandoned => abandoned')
  BY <1>1 DEF IInv, TypeOK
<1>3. session.target \in Agents
      \/ (session.phase = "disconnected" /\ p.phase # "submitting")
  BY DEF IInv, TargetIsKnown
<1>4. session.phase \in Connected /\ ~abandoned' =>
        shown = session.remote /\ shown.of = session.target
  BY <1>1 DEF IInv, ShownIsConfirmed
<1> QED  BY <1>1, <1>2, <1>3, <1>4, ClickKeeps

LEMMA PerpButtonsKeep ==
  ASSUME IInv,
         PreparePerpOrder \/ ConfirmPerpOrder \/ CancelPerpOrder \/ DismissPerpOrder
  PROVE  IInv'
<1>1. perp \in PerpForms /\ clicks \in Nat /\ \A x \in posted: x[1] \in Nat
  BY DEF IInv, TypeOK
<1>2. session.target \in Agents
  BY DEF PreparePerpOrder, ConfirmPerpOrder, CancelPerpOrder, DismissPerpOrder,
     Ready, IInv, TargetIsKnown
<1>3. /\ \A x \in posted: x[1] <= clicks
      /\ Fresh(perp, clicks)
  BY DEF IInv, OrderIsFresh
<1>4. CASE PreparePerpOrder
  <2>1. PerpClick(SubmissionPrepared(perp)) /\ clicks' = clicks + 1
    BY <1>4 DEF PreparePerpOrder, Issued
  <2>2. SubmissionPrepared(perp) \in PerpForms
    BY <1>1 DEF SubmissionPrepared, PerpForms, PerpPhases
  <2>3. Fresh(SubmissionPrepared(perp), clicks')
    BY <1>1, <1>3, <2>1 DEF Fresh, SubmissionPrepared, PerpForms
  <2> QED  BY <1>1, <1>2, <2>1, <2>2, <2>3, PerpMoves
<1>5. CASE ConfirmPerpOrder
  <2>1. PerpClick(PerpOrderConfirmed(perp, clicks)) /\ clicks' = clicks
    BY <1>5 DEF ConfirmPerpOrder
  <2>2. PerpOrderConfirmed(perp, clicks) \in PerpForms
    BY <1>1 DEF PerpOrderConfirmed, PerpForms, PerpPhases
  <2>3. Fresh(PerpOrderConfirmed(perp, clicks), clicks')
    BY <1>1, <1>3, <2>1 DEF Fresh, PerpOrderConfirmed, PerpForms
  <2> QED  BY <1>1, <1>2, <2>1, <2>2, <2>3, PerpMoves
<1>6. CASE CancelPerpOrder \/ DismissPerpOrder
  <2>1. PICK p \in {PerpOrderCancelled(perp), SubmissionDismissed(perp)}:
          PerpClick(p) /\ clicks' = clicks
    BY <1>6 DEF CancelPerpOrder, DismissPerpOrder
  <2>2. p \in PerpForms /\ (p = perp \/ p.phase = "form")
    BY <1>1, <2>1 DEF PerpOrderCancelled, SubmissionDismissed, PerpForms, PerpPhases
  <2>3. Fresh(p, clicks')
    BY <1>3, <2>1, <2>2 DEF Fresh
  <2> QED  BY <1>1, <1>2, <2>1, <2>2, <2>3, PerpMoves
<1> QED  BY <1>4, <1>5, <1>6

LEMMA RenderKeeps == ASSUME IInv, Render PROVE IInv'
<1>1. /\ Rendering(session, perp) /\ session' = session /\ perp' = perp
      /\ UNCHANGED <<shown, agent, connections, clicks, changes, abandoned>>
  BY DEF Render, machines
<1>2. /\ session \in Sessions /\ perp \in PerpForms /\ connections' \in Nat
      /\ clicks' \in Nat /\ clicks <= clicks' /\ abandoned' \in BOOLEAN
      /\ (abandoned => abandoned')
  BY <1>1 DEF IInv, TypeOK
<1>3. session.target \in Agents
      \/ (session.phase = "disconnected" /\ perp.phase # "submitting")
  BY DEF IInv, TargetIsKnown
<1>4. Fresh(perp, clicks')
  BY <1>1 DEF IInv, OrderIsFresh
<1>5. session.phase \in Connected /\ ~abandoned' =>
        shown = session.remote /\ shown.of = session.target
  BY <1>1 DEF IInv, ShownIsConfirmed
<1> QED  BY <1>1, <1>2, <1>3, <1>4, <1>5, ClickKeeps

LEMMA RefreshKeeps == ASSUME IInv, Refresh PROVE IInv'
<1>1. /\ session' = [session EXCEPT !.phase = "refreshing"]
      /\ session.phase = "ready" /\ rendered.session.phase = "ready"
      /\ UNCHANGED <<perp, rendered, shown, inFlight, perpInFlight, requests,
                     agent, connections, clicks, changes, posted, abandoned>>
  BY DEF Refresh, RefreshRequested, page, history
<1>2. /\ session' \in Sessions /\ session'.phase = "refreshing"
      /\ session'.target = session.target /\ session'.remote = session.remote
  BY <1>1 DEF IInv, TypeOK, Sessions, SessionPhases
<1>3. abandoned \/ OfSession = {}
  BY <1>1, NotWaiting DEF Busy
<1>4. TypeOK' /\ TargetIsKnown'
  BY <1>1, <1>2 DEF IInv, TypeOK, TargetIsKnown
<1>5. RequestIsCurrent'
  BY <1>1, <1>3 DEF RequestIsCurrent, OfSession
<1>6. ShownIsConfirmed'
  BY <1>1, <1>2 DEF IInv, ShownIsConfirmed, Connected
<1>7. ViewsAge' /\ OrderIsFresh' /\ OneSubmissionPerOrder'
  BY <1>1 DEF IInv, ViewsAge, OfSession, OrderIsFresh, Fresh, OneSubmissionPerOrder
<1> QED  BY <1>4, <1>5, <1>6, <1>7 DEF IInv

-----------------------------------------------------------------------------
(* The agents and the network.                                             *)

LEMMA AfterType ==
  ASSUME NEW c \in CommandNames, NEW phase \in Phases
  PROVE  After(c, phase) \in Phases
BY DEF After, Phases

LEMMA ServeKeeps == ASSUME IInv, NEW q \in requests, Serve(q) PROVE IInv'
<1> USE DEF IInv, TypeOK
<1> DEFINE view == [of |-> q.target, phase |-> agent'[q.target].phase,
                    at |-> agent'[q.target].at]
           r == [q EXCEPT !.served = TRUE, !.view = view]
<1>1. /\ ~q.served
      /\ agent' = IF q.kind # "command" THEN agent
                  ELSE [agent EXCEPT
                     ![q.target].phase = After(q.command, agent[q.target].phase),
                     ![q.target].at = agent[q.target].at + 1]
      /\ requests' = (requests \ {q}) \cup {r}
      /\ UNCHANGED <<session, perp, rendered, shown, inFlight, perpInFlight,
                     connections, clicks, changes, posted, abandoned>>
  BY DEF Serve, machines, page, history
<1>2. q \in Requests /\ q.target \in Agents /\ q.command \in CommandNames
  BY DEF Requests
<1>3. /\ agent' \in [Agents -> [phase: Phases, at: Nat]]
      /\ \A a \in Agents: agent[a].at \in Nat /\ agent[a].at <= agent'[a].at
  <2>1. CASE q.kind # "command"
    BY <1>1, <2>1
  <2>2. CASE q.kind = "command"
    <3>1. After(q.command, agent[q.target].phase) \in Phases
      BY <1>2, AfterType
    <3>2. agent' = [agent EXCEPT ![q.target] =
                     [phase |-> After(q.command, agent[q.target].phase),
                      at |-> agent[q.target].at + 1]]
      BY <1>1, <1>2, <2>2
    <3> QED  BY <1>2, <3>1, <3>2
  <2> QED  BY <2>1, <2>2
<1>4. view \in Views
  BY <1>2, <1>3 DEF Views
<1>5. /\ r \in Requests /\ r.served /\ r.view = view /\ r.target = q.target
      /\ r.kind = q.kind
  BY <1>2, <1>4 DEF Requests
<1>6. view.of = q.target /\ view.at = agent'[q.target].at
  OBVIOUS
<1> HIDE DEF view, r
<1>7. TypeOK'
  BY <1>1, <1>3, <1>5
<1>8. TargetIsKnown' /\ ShownIsConfirmed' /\ OrderIsFresh' /\ OneSubmissionPerOrder'
  BY <1>1 DEF TargetIsKnown, ShownIsConfirmed, OrderIsFresh, Fresh,
     OneSubmissionPerOrder
<1>9. OfSession' = IF q.kind = "perp" THEN OfSession
                   ELSE (OfSession \ {q}) \cup {r}
  BY <1>1, <1>5 DEF OfSession
<1>10. RequestIsCurrent'
  BY <1>1, <1>5, <1>9 DEF RequestIsCurrent, Asks, OfSession
<1>11. ViewsAge'
  <2>1. shown.of \in Agents => shown.at <= agent'[shown.of].at
    BY <1>3 DEF ViewsAge, Views
  <2>2. \A p \in requests': p.served =>
          p.view.of = p.target /\ p.view.at <= agent'[p.target].at
    <3> TAKE p \in requests'
    <3>1. CASE p = r
      BY <1>2, <1>3, <1>5, <1>6, <3>1
    <3>2. CASE p \in requests
      BY <1>3, <3>2 DEF ViewsAge, Requests, Views
    <3> QED  BY <1>1, <3>1, <3>2
  <2>3. \A p \in OfSession': p.served /\ ~abandoned /\ p.view.of = shown.of =>
          shown.at <= p.view.at
    <3> TAKE p \in OfSession'
    <3>1. CASE p = r
      BY <1>2, <1>5, <1>6, <2>1, <3>1
    <3>2. CASE p \in OfSession
      BY <3>2 DEF ViewsAge
    <3> QED  BY <1>9, <3>1, <3>2
  <2> QED  BY <1>1, <2>1, <2>2, <2>3 DEF ViewsAge
<1> QED  BY <1>7, <1>8, <1>10, <1>11

(* A request of the session ends with the machine in a state that waits    *)
(* for nothing; what it recorded is shown.                                 *)
LEMMA SessionEnds ==
  ASSUME IInv, NEW q \in OfSession, NEW s \in Sessions, NEW view \in Views,
         session' = s, shown' = view, requests' = requests \ {q},
         UNCHANGED <<perp, rendered, perpInFlight, agent, connections, clicks,
                     changes, posted, abandoned>>,
         s.target = session.target,
         s.phase = "disconnected" <=> session.phase = "disconnected",
         view = shown \/ (q.served /\ view = q.view),
         ~abandoned /\ s.phase \in Connected => view = s.remote /\ view.of = s.target
  PROVE  IInv' /\ (view.of = shown.of /\ ~abandoned => view.at >= shown.at)
<1> USE DEF IInv, TypeOK
<1>1. OfSession' = OfSession \ {q} /\ q \in requests /\ q \in Requests
  BY DEF OfSession
<1>2. TypeOK' /\ TargetIsKnown'
  BY DEF TargetIsKnown
<1>3. RequestIsCurrent'
  BY <1>1 DEF RequestIsCurrent
<1>4. ShownIsConfirmed'
  BY DEF ShownIsConfirmed
<1>5. view.of = shown.of /\ ~abandoned => view.at >= shown.at
  BY DEF ViewsAge, Views
<1>6. ViewsAge'
  <2>1. view.of \in Agents => view.at <= agent[view.of].at
    BY <1>1 DEF ViewsAge
  <2>2. ~abandoned => OfSession' = {}
    BY <1>1 DEF RequestIsCurrent
  <2> QED  BY <2>1, <2>2 DEF ViewsAge
<1>7. OrderIsFresh' /\ OneSubmissionPerOrder'
  BY DEF OrderIsFresh, Fresh, OneSubmissionPerOrder
<1> QED  BY <1>2, <1>3, <1>4, <1>5, <1>6, <1>7

(* The result of a perp order ends its submission.                         *)
LEMMA PerpEnds ==
  ASSUME IInv, NEW q \in requests, PerpAnswer(q), PerpReleased,
         requests' = requests \ {q},
         UNCHANGED <<rendered, inFlight, agent, connections, clicks, changes,
                     history>>
  PROVE  IInv' /\ shown' = shown
<1> USE DEF IInv, TypeOK
<1>1. /\ q.kind = "perp" /\ perp' = SubmissionEnded(perp) /\ ~perpInFlight'
      /\ perpInFlight' \in BOOLEAN
      /\ UNCHANGED <<session, shown, rendered, agent, connections, clicks,
                     changes, posted, abandoned>>
  BY DEF PerpAnswer, PerpReleased, history
<1>2. /\ perp' \in PerpForms /\ perp'.phase # "submitting"
      /\ perp'.phase = "confirming" => perp.phase = "confirming"
  BY <1>1 DEF SubmissionEnded, PerpForms, PerpPhases
<1>3. OfSession' = OfSession
  BY <1>1 DEF OfSession
<1>4. TypeOK' /\ TargetIsKnown' /\ ShownIsConfirmed' /\ OneSubmissionPerOrder'
  BY <1>1, <1>2 DEF TargetIsKnown, ShownIsConfirmed, OneSubmissionPerOrder
<1>5. RequestIsCurrent' /\ ViewsAge'
  BY <1>1, <1>3 DEF RequestIsCurrent, ViewsAge
<1>6. OrderIsFresh'
  BY <1>1, <1>2 DEF OrderIsFresh, Fresh
<1> QED  BY <1>1, <1>4, <1>5, <1>6

LEMMA AnswerKeeps ==
  ASSUME IInv, NEW q \in requests, Answer(q)
  PROVE  IInv' /\ (shown'.of = shown.of /\ ~abandoned => shown'.at >= shown.at)
<1>1. /\ q.served /\ requests' = requests \ {q}
      /\ UNCHANGED <<rendered, inFlight, agent, connections, clicks, changes,
                     history>>
  BY DEF Answer
<1>2. ASSUME NEW s, SessionAnswer(q, s), q.kind # "perp",
             \/ q.kind = "load" /\ s = StateLoaded(session, q.view)
             \/ q.kind = "command" /\ s = CommandSucceeded(session, q.view)
      PROVE  IInv' /\ (shown'.of = shown.of /\ ~abandoned => shown'.at >= shown.at)
  <2>1. /\ session' = s /\ shown' = ShownBy(s, q) /\ UNCHANGED <<perp, perpInFlight>>
    BY <1>2 DEF SessionAnswer
  <2>2. q \in OfSession /\ q \in Requests /\ q.view \in Views
        /\ q.view.of = q.target
    BY <1>1, <1>2 DEF OfSession, IInv, TypeOK, Requests, ViewsAge
  <2>3. /\ session \in Sessions /\ shown \in Views
        /\ s = session \/ s = Recorded(session, q.view)
    BY <1>2 DEF StateLoaded, CommandSucceeded, IInv, TypeOK
  <2>4. s \in Sessions /\ s.target = session.target
    BY <2>2, <2>3 DEF Recorded, Sessions, SessionPhases, CommandNames
  <2>5. s.phase = "disconnected" <=> session.phase = "disconnected"
    BY <1>2, <2>3 DEF StateLoaded, CommandSucceeded, Recorded, Sessions
  <2>6. shown' \in Views /\ (shown' = shown \/ shown' = q.view)
    BY <2>1, <2>2, <2>3 DEF ShownBy
  <2>7. ASSUME ~abandoned PROVE s.remote = q.view /\ s.phase = "ready"
                                /\ q.view.of = s.target
    <3>1. Asks(session, q) /\ q.target = session.target
      BY <2>2, <2>7 DEF IInv, RequestIsCurrent
    <3> QED  BY <1>2, <2>2, <2>3, <2>4, <3>1
             DEF Asks, StateLoaded, CommandSucceeded, Recorded, Sessions
  <2>8. ~abandoned /\ s.phase \in Connected =>
          shown' = s.remote /\ shown'.of = s.target
    BY <2>1, <2>7 DEF ShownBy
  <2> QED  BY <1>1, <2>1, <2>2, <2>4, <2>5, <2>6, <2>8, SessionEnds DEF history
<1>3. ASSUME PerpAnswer(q), PerpReleased
      PROVE  IInv' /\ (shown'.of = shown.of /\ ~abandoned => shown'.at >= shown.at)
  BY <1>1, <1>3, PerpEnds DEF IInv, TypeOK, Views
<1> QED  BY <1>2, <1>3 DEF Answer, CommandAnswer

LEMMA FailKeeps ==
  ASSUME IInv, NEW q \in requests, Fail(q)
  PROVE  IInv' /\ (shown'.of = shown.of /\ ~abandoned => shown'.at >= shown.at)
<1>1. /\ requests' = requests \ {q}
      /\ UNCHANGED <<rendered, inFlight, agent, connections, clicks, changes,
                     history>>
  BY DEF Fail
<1>2. CASE /\ q.kind # "perp" /\ session' = RequestFailed(session)
           /\ shown' = ShownOnFailure(q) /\ UNCHANGED <<perp, perpInFlight>>
  <2>1. /\ q \in OfSession /\ session \in Sessions /\ shown \in Views
        /\ shown' = shown
    BY <1>2 DEF OfSession, IInv, TypeOK, ShownOnFailure
  <2>2. /\ session' \in Sessions /\ session'.target = session.target
        /\ session'.remote = session.remote
        /\ session'.phase = "disconnected" <=> session.phase = "disconnected"
        /\ session'.phase \in Connected => session.phase \in Connected
    BY <1>2, <2>1 DEF RequestFailed, Sessions, SessionPhases, CommandNames, Connected
  <2>3. ~abandoned /\ session'.phase \in Connected =>
          shown = session'.remote /\ shown.of = session'.target
    BY <2>2 DEF IInv, ShownIsConfirmed
  <2> QED  BY <1>1, <1>2, <2>1, <2>2, <2>3, SessionEnds DEF history
<1>3. CASE PerpAnswer(q) /\ PerpReleased
  BY <1>1, <1>3, PerpEnds DEF IInv, TypeOK, Views
<1> QED  BY <1>2, <1>3 DEF Fail

LEMMA ChangeKeeps == ASSUME IInv, NEW a \in Agents, Change(a) PROVE IInv'
<1> USE DEF IInv, TypeOK
<1>1. /\ agent' = [agent EXCEPT ![a] = [phase |-> "failed", at |-> agent[a].at + 1]]
      /\ changes' = changes + 1
      /\ UNCHANGED <<session, perp, rendered, shown, inFlight, perpInFlight,
                     requests, connections, clicks, posted, abandoned>>
  BY DEF Change, machines, page, history
<1>2. /\ agent' \in [Agents -> [phase: Phases, at: Nat]]
      /\ \A b \in Agents: agent[b].at \in Nat /\ agent[b].at <= agent'[b].at
  BY <1>1 DEF Phases
<1>3. TypeOK' /\ TargetIsKnown' /\ ShownIsConfirmed' /\ OrderIsFresh'
      /\ OneSubmissionPerOrder'
  BY <1>1, <1>2 DEF TargetIsKnown, ShownIsConfirmed, OrderIsFresh, Fresh,
     OneSubmissionPerOrder
<1>4. RequestIsCurrent'
  BY <1>1 DEF RequestIsCurrent, OfSession
<1>5. ViewsAge'
  <2>1. shown.of \in Agents => shown.at <= agent'[shown.of].at
    BY <1>2 DEF ViewsAge, Views
  <2>2. \A q \in requests: q.served =>
          q.view.of = q.target /\ q.view.at <= agent'[q.target].at
    BY <1>2 DEF ViewsAge, Requests, Views
  <2> QED  BY <1>1, <2>1, <2>2 DEF ViewsAge, OfSession
<1> QED  BY <1>3, <1>4, <1>5

-----------------------------------------------------------------------------
(* Every step keeps the invariant, and only an answer changes what is      *)
(* shown.                                                                  *)
LEMMA StepKeeps ==
  ASSUME IInv, [Next]_vars
  PROVE  IInv' /\ (shown'.of = shown.of /\ ~abandoned => shown'.at >= shown.at)
<1>1. shown \in Views
  BY DEF IInv, TypeOK
<1>2. CASE UNCHANGED vars
  <2>1. UNCHANGED <<session, perp, rendered, shown, perpInFlight, requests, agent,
                    connections, clicks, changes, posted, abandoned>>
    BY <1>2 DEF vars, machines, page, history
  <2>2. TypeOK' /\ TargetIsKnown' /\ ShownIsConfirmed' /\ OneSubmissionPerOrder'
    BY <2>1 DEF IInv, TypeOK, TargetIsKnown, ShownIsConfirmed, OneSubmissionPerOrder
  <2>3. RequestIsCurrent' /\ ViewsAge' /\ OrderIsFresh'
    BY <2>1 DEF IInv, RequestIsCurrent, OfSession, ViewsAge, OrderIsFresh, Fresh
  <2> QED  BY <1>1, <2>1, <2>2, <2>3 DEF IInv, Views
<1>3. CASE Operator
  <2>1. IInv'
    BY <1>3, ConnectKeeps, DisconnectKeeps, SessionCommandsKeep, PerpButtonsKeep
    DEF Operator
  <2>2. shown' = shown
    BY <1>3 DEF Operator, Connect, Disconnect, Command, AskKill, ConfirmKill,
       CancelKill, PreparePerpOrder, ConfirmPerpOrder, CancelPerpOrder,
       DismissPerpOrder, SessionClick, PerpClick, Click
  <2> QED  BY <1>1, <2>1, <2>2 DEF Views
<1>4. CASE Refresh \/ Render
  <2>1. IInv'
    BY <1>4, RefreshKeeps, RenderKeeps
  <2>2. shown' = shown
    BY <1>4 DEF Refresh, Render, page
  <2> QED  BY <1>1, <2>1, <2>2 DEF Views
<1>5. ASSUME NEW q \in requests, Network(q)
      PROVE  IInv' /\ (shown'.of = shown.of /\ ~abandoned => shown'.at >= shown.at)
  <2>1. CASE Serve(q)
    <3>1. IInv' /\ shown' = shown
      BY <2>1, ServeKeeps DEF Serve, page
    <3> QED  BY <1>1, <3>1 DEF Views
  <2> QED  BY <1>5, <2>1, AnswerKeeps, FailKeeps DEF Network, Refused, AnswerLost
<1>6. ASSUME NEW a \in Agents, Change(a)
      PROVE  IInv' /\ (shown'.of = shown.of /\ ~abandoned => shown'.at >= shown.at)
  <2>1. IInv' /\ shown' = shown
    BY <1>6, ChangeKeeps DEF Change, page
  <2> QED  BY <1>1, <2>1 DEF Views
<1> QED  BY <1>2, <1>3, <1>4, <1>5, <1>6 DEF Next

(* The inductive invariant holds, whatever order of clicks, renderings,    *)
(* answers, losses and changes of the agents.                              *)
THEOREM Soundness == Spec => []IInv
<1>1. Init => IInv
  <2> SUFFICES ASSUME Init PROVE IInv
    OBVIOUS
  <2> USE DEF Init
  <2>1. session \in Sessions /\ perp \in PerpForms /\ shown \in Views
    BY DEF Closed, Form, NoView, Sessions, SessionPhases, CommandNames, PerpForms,
       PerpPhases, Views
  <2>2. TypeOK
    BY <2>1 DEF TypeOK, Phases
  <2>3. session.phase = "disconnected" /\ perp.phase = "form"
        /\ rendered.session = session /\ shown.at = 0
    BY DEF Closed, Form, NoView
  <2>4. TargetIsKnown /\ RequestIsCurrent /\ ShownIsConfirmed
    BY <2>3 DEF TargetIsKnown, RequestIsCurrent, OfSession, ShownIsConfirmed, Connected
  <2>5. ViewsAge /\ OrderIsFresh /\ OneSubmissionPerOrder
    BY <2>3 DEF ViewsAge, OfSession, OrderIsFresh, Fresh, OneSubmissionPerOrder
  <2> QED  BY <2>2, <2>4, <2>5 DEF IInv
<1>2. IInv /\ [Next]_vars => IInv'
  BY StepKeeps
<1> QED  BY <1>1, <1>2, PTL DEF Spec

(* What the operator sees is the last confirmed state, of the agent that   *)
(* the next command goes to.                                               *)
THEOREM ShownConfirmed == Spec => []ShownIsConfirmed
<1>1. IInv => ShownIsConfirmed
  BY DEF IInv
<1> QED  BY <1>1, Soundness, PTL

(* A confirmed perp order is sent once, to one agent.                      *)
THEOREM OneSubmission == Spec => []OneSubmissionPerOrder
<1>1. IInv => OneSubmissionPerOrder
  BY DEF IInv
<1> QED  BY <1>1, Soundness, PTL

(* The screen never goes back to an older state of the agent it shows.     *)
THEOREM ScreenNeverGoesBack == Spec => NeverBackwards
<1>1. IInv /\ [Next]_vars =>
        [shown'.of = shown.of /\ ~abandoned => shown'.at >= shown.at]_vars
  BY StepKeeps
<1> QED  BY <1>1, Soundness, PTL DEF Spec, NeverBackwards

-----------------------------------------------------------------------------
(***************************************************************************)
(* The wallet, for every set of addresses and chains.  The account that an *)
(* attempt has read, and the one of the session, are those of the provider *)
(* as long as no change met an answer that was under way: the session is   *)
(* kept up by the listeners, an attempt by there being nothing to miss.    *)
(***************************************************************************)
Accounts == [address: Addresses \cup {Wallet!Nobody}, chain: Chains \cup {0}]
WalletPhases == {"disconnected", "connecting", "connected", "wrongChain", "failed"}

WalletTypes ==
  /\ wallet \in [phase: WalletPhases, account: Accounts]
  /\ provider \in [address: Addresses \cup {Wallet!Nobody}, chain: Chains]
  /\ attempts \subseteq
       [id: Nat, account: Accounts, stage: {"accounts", "chain", "read"}]
  /\ asked \in Nat /\ moves \in Nat
  /\ subscribed \in BOOLEAN /\ missed \in BOOLEAN

(* A session has listeners.                                                *)
SessionListens == Wallet!InSession(wallet) => subscribed

(* What an attempt has read is what the provider says.                     *)
AttemptsAreTrue ==
  \A a \in attempts:
    /\ a.stage # "accounts" =>
         /\ a.account.address \in Addresses
         /\ ~missed => a.account.address = provider.address
    /\ a.stage = "read" /\ ~missed => a.account.chain = provider.chain

SessionIsTrue ==
  Wallet!InSession(wallet) =>
    /\ wallet.account.address \in Addresses
    /\ ~missed => wallet = Wallet!OnChain(provider)

WalletInv == WalletTypes /\ SessionListens /\ AttemptsAreTrue /\ SessionIsTrue

(* A connection is asked for: it has read nothing.                         *)
LEMMA WalletConnects ==
  ASSUME WalletInv, Wallet!Connect PROVE WalletInv'
<1> USE DEF WalletInv, Wallet!Connect
<1>1. wallet' = [wallet EXCEPT !.phase = "connecting"] /\ wallet'.phase = "connecting"
  BY DEF Wallet!ConnectRequested, WalletTypes
<1>2. WalletTypes'
  BY <1>1 DEF WalletTypes, WalletPhases, Accounts, Wallet!NoAccount, Wallet!Nobody
<1>3. ~Wallet!InSession(wallet')
  BY <1>1 DEF Wallet!InSession
<1>4. AttemptsAreTrue'
  BY DEF AttemptsAreTrue
<1> QED  BY <1>2, <1>3, <1>4 DEF SessionListens, SessionIsTrue

(* The owner grants an account: with none granted before, no attempt and   *)
(* no session had one.                                                     *)
LEMMA WalletGrants ==
  ASSUME WalletInv, NEW a \in attempts, Wallet!Granted(a) PROVE WalletInv'
<1> USE DEF WalletInv
<1>1. PICK x \in IF provider.address = Wallet!Nobody THEN Addresses
                 ELSE {provider.address}:
        /\ provider' = [provider EXCEPT !.address = x]
        /\ attempts' = (attempts \ {a}) \cup
             {[a EXCEPT !.stage = "chain", !.account.address = x]}
  BY DEF Wallet!Granted
<1>2. a.stage = "accounts" /\ UNCHANGED <<wallet, subscribed, asked, moves, missed>>
  BY DEF Wallet!Granted
<1>3. x \in Addresses
  BY <1>1 DEF WalletTypes
<1>4. /\ provider' \in [address: Addresses \cup {Wallet!Nobody}, chain: Chains]
      /\ provider'.address = x /\ provider'.chain = provider.chain
  BY <1>1, <1>3 DEF WalletTypes
<1> DEFINE b == [a EXCEPT !.stage = "chain", !.account.address = x]
<1>5. /\ b \in [id: Nat, account: Accounts, stage: {"accounts", "chain", "read"}]
      /\ b.stage = "chain" /\ b.account.address = x
  BY <1>3 DEF WalletTypes, Accounts
<1> HIDE DEF b
<1>6. attempts' = (attempts \ {a}) \cup {b}
  BY <1>1 DEF b
<1>7. WalletTypes'
  BY <1>2, <1>4, <1>5, <1>6 DEF WalletTypes
<1>8. provider.address \in Addresses => provider' = provider
  <2>1. provider.address \in Addresses => x = provider.address
    BY <1>1, WalletAssumption DEF Wallet!Nobody
  <2> QED  BY <1>1, <2>1 DEF WalletTypes
<1>9. ASSUME NEW c \in attempts', c.stage # "accounts"
      PROVE  /\ c.account.address \in Addresses
             /\ ~missed => c.account.address = provider'.address
             /\ c.stage = "read" /\ ~missed => c.account.chain = provider'.chain
  <2>1. CASE c = b
    BY <1>3, <1>4, <1>5, <2>1
  <2>2. CASE c \in attempts
    BY <1>4, <1>8, <1>9, <2>2 DEF AttemptsAreTrue
  <2> QED  BY <1>6, <2>1, <2>2
<1>10. AttemptsAreTrue'
  BY <1>2, <1>9 DEF AttemptsAreTrue
<1>11. SessionIsTrue'
  <2>1. ASSUME Wallet!InSession(wallet), ~missed PROVE provider' = provider
    <3>1. wallet = Wallet!OnChain(provider) /\ wallet.account.address \in Addresses
      BY <2>1 DEF SessionIsTrue
    <3>2. wallet.account = provider
      BY <3>1 DEF Wallet!OnChain
    <3> QED  BY <1>8, <3>1, <3>2
  <2> QED  BY <1>2, <2>1 DEF SessionIsTrue, Wallet!InSession, Wallet!OnChain
<1> QED  BY <1>2, <1>7, <1>10, <1>11 DEF SessionListens

(* The chain is read.                                                      *)
LEMMA WalletReads ==
  ASSUME WalletInv, NEW a \in attempts, Wallet!ChainRead(a) PROVE WalletInv'
<1> USE DEF WalletInv, Wallet!ChainRead
<1> DEFINE b == [a EXCEPT !.stage = "read", !.account.chain = provider.chain]
<1>1. /\ b \in [id: Nat, account: Accounts, stage: {"accounts", "chain", "read"}]
      /\ b.stage = "read" /\ b.account.address = a.account.address
      /\ b.account.chain = provider.chain
  BY DEF WalletTypes, Accounts
<1> HIDE DEF b
<1>2. attempts' = (attempts \ {a}) \cup {b}
  BY DEF b
<1>3. WalletTypes'
  BY <1>1, <1>2 DEF WalletTypes
<1>4. AttemptsAreTrue'
  BY <1>1, <1>2 DEF AttemptsAreTrue
<1> QED  BY <1>3, <1>4 DEF SessionListens, SessionIsTrue

(* The session opens on what the attempt has read.                         *)
LEMMA WalletOpens ==
  ASSUME WalletInv, NEW a \in attempts, Wallet!Resolved(a) PROVE WalletInv'
<1> USE DEF WalletInv, Wallet!Resolved
<1>1. /\ a.account \in Accounts /\ a.account.address \in Addresses
      /\ ~missed => a.account = provider
  <2>1. a.account \in Accounts /\ a.account.address \in Addresses
    BY DEF WalletTypes, AttemptsAreTrue
  <2>2. ASSUME ~missed PROVE a.account = provider
    <3>1. a.account.address = provider.address /\ a.account.chain = provider.chain
      BY <2>2 DEF AttemptsAreTrue
    <3> QED  BY <2>1, <3>1 DEF Accounts, WalletTypes
  <2> QED  BY <2>1, <2>2
<1>2. wallet' \in {wallet, Wallet!OnChain(a.account)}
      /\ (wallet' = wallet \/ wallet' = Wallet!OnChain(a.account))
  BY DEF Wallet!WalletConnected
<1>3. wallet' \in [phase: WalletPhases, account: Accounts]
  BY <1>1, <1>2 DEF WalletTypes, WalletPhases, Wallet!OnChain
<1>4. WalletTypes'
  BY <1>3 DEF WalletTypes
<1>5. AttemptsAreTrue'
  BY DEF AttemptsAreTrue
<1>6. SessionIsTrue'
  <2>1. CASE wallet' = wallet
    BY <2>1 DEF SessionIsTrue, Wallet!InSession, Wallet!OnChain
  <2>2. CASE wallet' = Wallet!OnChain(a.account)
    BY <1>1, <2>2 DEF SessionIsTrue, Wallet!InSession, Wallet!OnChain
  <2> QED  BY <1>2, <2>1, <2>2
<1> QED  BY <1>4, <1>5, <1>6 DEF SessionListens

(* An attempt, the listener or the owner ends the session.                 *)
LEMMA WalletCloses ==
  ASSUME WalletInv,
         \/ \E a \in attempts: Wallet!Rejected(a)
         \/ Wallet!Disconnect \/ Wallet!Garbled
  PROVE  WalletInv'
<1> USE DEF WalletInv
<1>1. /\ UNCHANGED <<provider, asked, missed>> /\ attempts' \subseteq attempts
      /\ moves' \in Nat /\ subscribed' \in BOOLEAN
      /\ \/ wallet' = [phase |-> "disconnected", account |-> Wallet!NoAccount]
         \/ wallet' = Wallet!ConnectionFailed(wallet) /\ subscribed' = subscribed
  <2>1. ASSUME NEW a \in attempts, Wallet!Rejected(a)
        PROVE  /\ UNCHANGED <<provider, asked, missed, moves, subscribed>>
               /\ attempts' \subseteq attempts
               /\ wallet' = Wallet!ConnectionFailed(wallet)
    BY <2>1 DEF Wallet!Rejected
  <2>2. CASE Wallet!Disconnect
    BY <2>2 DEF Wallet!Disconnect, WalletTypes
  <2>3. CASE Wallet!Garbled
    BY <2>3 DEF Wallet!Garbled, Wallet!Moving, WalletTypes
  <2> QED  BY <2>1, <2>2, <2>3 DEF WalletTypes
<1>2. /\ wallet' \in [phase: WalletPhases, account: Accounts]
      /\ ~Wallet!InSession(wallet')
  BY <1>1 DEF WalletTypes, WalletPhases, Wallet!ConnectionFailed, Wallet!InSession,
     Accounts, Wallet!NoAccount
<1>3. WalletTypes'
  BY <1>1, <1>2 DEF WalletTypes
<1>4. AttemptsAreTrue'
  BY <1>1 DEF AttemptsAreTrue
<1> QED  BY <1>1, <1>2, <1>3, <1>4 DEF SessionListens, SessionIsTrue

(* The wallet moves to another account, or revokes the one it granted: the *)
(* listeners tell the session, and every attempt with an answer has missed *)
(* it.                                                                     *)
LEMMA WalletRotates ==
  ASSUME WalletInv, NEW x \in Addresses \cup {Wallet!Nobody}, Wallet!AccountMoves(x)
  PROVE  WalletInv'
<1> USE DEF WalletInv, Wallet!AccountMoves, Wallet!Moving
<1>1. /\ provider' \in [address: Addresses \cup {Wallet!Nobody}, chain: Chains]
      /\ provider'.address = x /\ provider'.chain = provider.chain
  BY DEF WalletTypes
<1>2. ~missed' => ~missed /\ \A a \in attempts: a.stage = "accounts"
  BY DEF Wallet!Overtaken
<1>3. missed' \in BOOLEAN
  BY DEF Wallet!Overtaken, WalletTypes
<1>4. wallet' = wallet \/ wallet' = Wallet!AccountChanged(wallet, x)
  OBVIOUS
<1>5. /\ Wallet!AccountChanged(wallet, x) \in [phase: WalletPhases, account: Accounts]
      /\ Wallet!InSession(Wallet!AccountChanged(wallet, x)) =>
           /\ Wallet!InSession(wallet) /\ x \in Addresses
           /\ Wallet!AccountChanged(wallet, x) = [wallet EXCEPT !.account.address = x]
  <2>1. CASE ~Wallet!InSession(wallet)
    BY <2>1 DEF Wallet!AccountChanged, WalletTypes
  <2>2. CASE Wallet!InSession(wallet) /\ x = Wallet!Nobody
    BY <2>2 DEF Wallet!AccountChanged, WalletTypes, Wallet!NoAccount, Accounts,
       WalletPhases, Wallet!InSession
  <2>3. CASE Wallet!InSession(wallet) /\ x # Wallet!Nobody
    <3>1. Wallet!AccountChanged(wallet, x) = [wallet EXCEPT !.account.address = x]
      BY <2>3 DEF Wallet!AccountChanged
    <3> QED  BY <2>3, <3>1 DEF WalletTypes, Accounts
  <2> QED  BY <2>1, <2>2, <2>3
<1>6. WalletTypes'
  BY <1>1, <1>3, <1>4, <1>5 DEF WalletTypes
<1>7. AttemptsAreTrue'
  BY <1>2 DEF AttemptsAreTrue
<1>8. SessionListens'
  BY <1>4, <1>5 DEF SessionListens
<1>9. ASSUME Wallet!InSession(wallet')
      PROVE  /\ wallet'.account.address \in Addresses
             /\ ~missed' => wallet' = Wallet!OnChain(provider')
  <2>1. Wallet!InSession(wallet) /\ subscribed
    BY <1>4, <1>5, <1>9 DEF SessionListens
  <2>2. wallet' = [wallet EXCEPT !.account.address = x] /\ x \in Addresses
    BY <1>5, <1>9, <2>1
  <2>3. wallet'.account.address = x
    BY <2>2 DEF WalletTypes, Accounts
  <2>4. ASSUME ~missed' PROVE wallet' = Wallet!OnChain(provider')
    <3>1. wallet = Wallet!OnChain(provider)
      BY <1>2, <2>1, <2>4 DEF SessionIsTrue
    <3> QED  BY <2>2, <3>1 DEF Wallet!OnChain, WalletTypes
  <2> QED  BY <2>2, <2>3, <2>4
<1> QED  BY <1>6, <1>7, <1>8, <1>9 DEF SessionIsTrue

(* The wallet moves to another chain.                                      *)
LEMMA WalletHops ==
  ASSUME WalletInv, NEW c \in Chains, Wallet!ChainMoves(c) PROVE WalletInv'
<1> USE DEF WalletInv, Wallet!ChainMoves, Wallet!Moving
<1>1. /\ provider' \in [address: Addresses \cup {Wallet!Nobody}, chain: Chains]
      /\ provider'.address = provider.address /\ provider'.chain = c
  BY DEF WalletTypes
<1>2. ~missed' => ~missed /\ \A a \in attempts: a.stage = "accounts"
  BY DEF Wallet!Overtaken
<1>3. missed' \in BOOLEAN
  BY DEF Wallet!Overtaken, WalletTypes
<1> DEFINE moved == Wallet!OnChain([wallet.account EXCEPT !.chain = c])
<1>4. /\ moved \in [phase: WalletPhases, account: Accounts]
      /\ moved.account.address = wallet.account.address
      /\ wallet = Wallet!OnChain(provider) => moved = Wallet!OnChain(provider')
  BY <1>1 DEF WalletTypes, WalletPhases, Accounts, Wallet!OnChain
<1>5. \/ wallet' = wallet /\ ~(Wallet!InSession(wallet) /\ subscribed)
      \/ wallet' = moved /\ Wallet!InSession(wallet) /\ subscribed
  BY DEF Wallet!ChainChanged
<1> HIDE DEF moved
<1>6. WalletTypes'
  BY <1>1, <1>3, <1>4, <1>5 DEF WalletTypes
<1>7. AttemptsAreTrue'
  BY <1>2 DEF AttemptsAreTrue
<1>8. SessionListens'
  BY <1>5 DEF SessionListens
<1>9. SessionIsTrue'
  <2>1. CASE wallet' = wallet /\ ~Wallet!InSession(wallet)
    BY <2>1 DEF SessionIsTrue, Wallet!InSession
  <2>2. CASE wallet' = moved /\ Wallet!InSession(wallet)
    BY <1>2, <1>4, <2>2 DEF SessionIsTrue
  <2> QED  BY <1>5, <2>1, <2>2 DEF SessionListens
<1> QED  BY <1>6, <1>7, <1>8, <1>9

(* The invariant of the wallet holds in every part of the console.         *)
THEOREM WalletSoundness == ConsoleSpec => []WalletInv
<1>1. ConsoleInit => WalletInv
  <2> SUFFICES ASSUME ConsoleInit PROVE WalletInv
    OBVIOUS
  <2>1. Wallet!Init
    BY DEF ConsoleInit
  <2>2. WalletTypes
    BY <2>1 DEF Wallet!Init, WalletTypes, WalletPhases, Accounts, Wallet!NoAccount
  <2>3. ~Wallet!InSession(wallet) /\ attempts = {}
    BY <2>1 DEF Wallet!Init, Wallet!InSession
  <2> QED  BY <2>2, <2>3 DEF WalletInv, SessionListens, AttemptsAreTrue, SessionIsTrue
<1>2. WalletInv /\ [ConsoleNext]_consoleVars => WalletInv'
  <2> SUFFICES ASSUME WalletInv, [ConsoleNext]_consoleVars PROVE WalletInv'
    OBVIOUS
  <2>1. CASE UNCHANGED walletVars
    BY <2>1 DEF walletVars, WalletInv, WalletTypes, SessionListens, AttemptsAreTrue,
       SessionIsTrue, Wallet!InSession, Wallet!OnChain
  <2>2. CASE Wallet!Next
    BY <2>2, WalletConnects, WalletGrants, WalletReads, WalletOpens, WalletCloses,
       WalletRotates, WalletHops DEF Wallet!Next
  <2> QED  BY <2>1, <2>2 DEF ConsoleNext, consoleVars
<1> QED  BY <1>1, <1>2, PTL DEF ConsoleSpec

(* A session names the account and the chain of the wallet, through        *)
(* rotations, revocations and attempts that end late, unless a change met  *)
(* an answer that was under way.                                           *)
THEOREM SessionSafety == ConsoleSpec => []SessionFollowsWallet
<1>1. WalletInv => SessionFollowsWallet
  BY DEF WalletInv, SessionIsTrue, SessionFollowsWallet, Wallet!SessionFollowsWallet
<1> QED  BY <1>1, WalletSoundness, PTL
=============================================================================
