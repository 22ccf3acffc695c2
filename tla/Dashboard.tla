------------------------------ MODULE Dashboard ------------------------------
(***************************************************************************)
(* The dashboard of an operator (App.tsx): dashboardSessionMachine and     *)
(* perpOrderUiMachine, the React effects that turn their states into       *)
(* requests, the buttons each rendering offers, and the agents behind the  *)
(* proxy.  Answers carry no mark of the request they answer.               *)
(*                                                                         *)
(* A click is handled, rendered and its effects run in one go; an answer   *)
(* or the timer changes a machine first and is rendered later.             *)
(***************************************************************************)
EXTENDS Integers, FiniteSets

CONSTANTS Agents,          \* the agents an operator connects to
          MaxConnections,  \* bound: connections opened
          MaxClicks,       \* bound: commands and orders issued
          MaxChanges       \* bound: steps an agent takes by itself

ASSUME DashboardAssumption ==
  {MaxConnections, MaxClicks, MaxChanges} \subseteq Nat

VARIABLES
  session,       \* dashboardSessionMachine
  perp,          \* perpOrderUiMachine
  rendered,      \* the two as last rendered
  shown,         \* the agent state on the screen
  inFlight,      \* inFlightRef: the state whose request has been sent
  perpInFlight,  \* inFlightPerpRef
  requests,      \* the requests in flight
  agent,         \* the agents' own states
  connections, clicks, changes,
  posted,        \* history: perp orders, with the agents they were sent to
  abandoned      \* history: a session was closed with a request in flight

machines == <<session, perp>>
page == <<rendered, shown, inFlight, perpInFlight>>
history == <<posted, abandoned>>
vars == <<machines, page, requests, agent, connections, clicks, changes,
          history>>

None == "none"
Commands == {"start", "stop", "tick", "reset"}
Phases == {"stopped", "waiting", "halted", "failed"}

(* What an answer says: a state of an agent, and when.                     *)
NoView == [of |-> None, phase |-> None, at |-> 0]
View(a) == [of |-> a, phase |-> agent[a].phase, at |-> agent[a].at]

Enabled(view) == view.phase = "waiting"

Closed(target) ==
  [phase |-> "disconnected", target |-> target, pending |-> None,
   remote |-> NoView]

Form == [phase |-> "form", order |-> 0]

Init ==
  /\ session = Closed(None)
  /\ perp = Form
  /\ rendered = [session |-> session, perp |-> perp]
  /\ shown = NoView
  /\ inFlight = <<>>
  /\ perpInFlight = FALSE
  /\ requests = {}
  /\ agent = [a \in Agents |-> [phase |-> "waiting", at |-> 0]]
  /\ connections = 0 /\ clicks = 0 /\ changes = 0
  /\ posted = {} /\ abandoned = FALSE

-----------------------------------------------------------------------------
(* dashboardSessionMachine.  A response that is not a valid state fails in *)
(* the gateway already, and the permissions of the page are constant.      *)

ConnectRequested(s, a) ==
  IF s.phase = "disconnected"
  THEN [s EXCEPT !.phase = "loading", !.target = a] ELSE s

DisconnectRequested(s) == Closed(s.target)

RefreshRequested(s) ==
  IF s.phase = "ready" THEN [s EXCEPT !.phase = "refreshing"] ELSE s

CommandRequested(s, c) ==
  IF s.phase = "ready"
  THEN [s EXCEPT !.phase = "commanding", !.pending = c] ELSE s

KillConfirmationRequested(s) ==
  IF s.phase = "ready" THEN [s EXCEPT !.phase = "confirmingKill"] ELSE s

KillConfirmed(s) ==
  IF s.phase = "confirmingKill"
  THEN [s EXCEPT !.phase = "commanding", !.pending = "kill"] ELSE s

KillCancelled(s) ==
  IF s.phase = "confirmingKill" THEN [s EXCEPT !.phase = "ready"] ELSE s

Recorded(s, view) ==
  [s EXCEPT !.phase = "ready", !.pending = None, !.remote = view]

StateLoaded(s, view) ==
  IF s.phase \in {"loading", "refreshing"} THEN Recorded(s, view) ELSE s

CommandSucceeded(s, view) ==
  IF s.phase = "commanding" THEN Recorded(s, view) ELSE s

RequestFailed(s) ==
  CASE s.phase = "loading" -> [s EXCEPT !.phase = "error"]
    [] s.phase \in {"refreshing", "commanding"} ->
         [s EXCEPT !.phase = "ready", !.pending = None]
    [] OTHER -> s

-----------------------------------------------------------------------------
(* perpOrderUiMachine, for drafts within the envelope.                     *)

SubmissionPrepared(p) ==
  IF p.phase = "form" THEN [phase |-> "confirming", order |-> 0] ELSE p

PerpOrderConfirmed(p, o) ==
  IF p.phase = "confirming" THEN [phase |-> "submitting", order |-> o] ELSE p

PerpOrderCancelled(p) ==
  IF p.phase = "confirming" THEN [p EXCEPT !.phase = "form"] ELSE p

(* SUBMISSION_SUCCEEDED and SUBMISSION_FAILED.                             *)
SubmissionEnded(p) ==
  IF p.phase = "submitting" THEN [p EXCEPT !.phase = "result"] ELSE p

SubmissionDismissed(p) ==
  IF p.phase = "result" THEN [p EXCEPT !.phase = "form"] ELSE p

-----------------------------------------------------------------------------
(* The effects of a rendering.                                             *)

Request(kind, target, command, order) ==
  [kind |-> kind, target |-> target, command |-> command, order |-> order,
   connection |-> connections, served |-> FALSE, view |-> NoView]

Resting == {"ready", "disconnected", "error"}

KeyKept(s) ==  \* mutant: the key outlives the request
  IF s.phase \in Resting \ {"disconnected"} THEN inFlight
  ELSE IF s.phase = "disconnected" THEN <<>> ELSE <<s.phase, s.pending>>

Key(s) == IF s.phase \in Resting THEN <<>> ELSE <<s.phase, s.pending>>

(* The request of a state that has not been sent yet.                      *)
SessionRequests(s) ==
  IF s = rendered.session \/ Key(s) = inFlight THEN {}
  ELSE CASE s.phase = "loading"    -> {Request("load", s.target, None, 0)}
         [] s.phase = "refreshing" -> {Request("load", s.target, None, 0)}
         [] s.phase = "commanding" ->
              {Request("command", s.target, s.pending, 0)}
         [] OTHER -> {}

MaySubmitAgain(p) == p.phase = "submitting"  \* mutant: without the guard

(* The perp effect depends on the target: it runs again when that changes. *)
MaySubmit(p) == p.phase = "submitting" /\ ~perpInFlight

PerpRequests(s, p) ==
  IF /\ p # rendered.perp \/ s.target # rendered.session.target
     /\ MaySubmit(p)
  THEN {Request("perp", s.target, None, p.order)} ELSE {}

(* The page shows s and p: the requests they call for leave.               *)
Rendering(s, p) ==
  LET sent == SessionRequests(s)
      orders == PerpRequests(s, p)
  IN  /\ rendered' = [session |-> s, perp |-> p]
      /\ inFlight' = IF s = rendered.session THEN inFlight ELSE Key(s)
      /\ perpInFlight' = (perpInFlight \/ orders # {})
      /\ requests' = requests \cup sent \cup orders
      /\ posted' = posted \cup {<<q.order, q.target>>: q \in orders}

Render ==
  /\ rendered # [session |-> session, perp |-> perp]
  /\ Rendering(session, perp)
  /\ UNCHANGED <<machines, shown, agent, connections, clicks, changes,
                 abandoned>>

-----------------------------------------------------------------------------
(* The operator: what the page offers, from what it shows.                 *)

Busy(s) == s.phase \in {"loading", "refreshing", "commanding"}

(* The sections of a connected session.                                    *)
Ready ==
  /\ rendered.session.phase \in {"ready", "refreshing", "commanding"}
  /\ shown # NoView

Click(s, p) ==
  /\ session' = s /\ perp' = p
  /\ Rendering(s, p)
  /\ UNCHANGED <<shown, agent, changes>>

SessionClick(s) == Click(s, perp) /\ UNCHANGED <<connections, abandoned>>

Issued == clicks < MaxClicks /\ clicks' = clicks + 1

Connect(a) ==
  /\ rendered.session.phase \in {"disconnected", "error"}
  /\ connections < MaxConnections
  /\ connections' = connections + 1
  /\ Click(ConnectRequested(session, a), perp)
  /\ UNCHANGED <<clicks, abandoned>>

Disconnect ==
  /\ Ready
  /\ Click(DisconnectRequested(session), perp)
  /\ abandoned' = (abandoned \/ \E q \in requests: q.kind # "perp")
  /\ UNCHANGED <<connections, clicks>>

Offered(c) ==
  CASE c \in {"tick", "stop"} -> Enabled(shown)
    [] c = "reset"            -> shown.phase \in {"failed", "halted"}
    [] c = "start"            -> shown.phase = "stopped"

Command(c) ==
  /\ Ready /\ ~Busy(rendered.session)
  /\ Offered(c)
  /\ Issued
  /\ SessionClick(CommandRequested(session, c))

AskKill ==
  /\ Ready /\ ~Busy(rendered.session)
  /\ Enabled(shown)
  /\ Issued
  /\ SessionClick(KillConfirmationRequested(session))

ConfirmKill ==
  /\ rendered.session.phase = "confirmingKill"
  /\ SessionClick(KillConfirmed(session))
  /\ UNCHANGED clicks

CancelKill ==
  /\ rendered.session.phase = "confirmingKill"
  /\ SessionClick(KillCancelled(session))
  /\ UNCHANGED clicks

PerpClick(p) == Click(session, p) /\ UNCHANGED <<connections, abandoned>>

PreparePerpOrder ==
  /\ Ready /\ ~Busy(rendered.session)
  /\ rendered.perp.phase = "form"
  /\ Issued
  /\ PerpClick(SubmissionPrepared(perp))

(* The identifier of an order is drawn at its confirmation.                *)
ConfirmPerpOrder ==
  /\ Ready /\ ~Busy(rendered.session)
  /\ rendered.perp.phase = "confirming"
  /\ PerpClick(PerpOrderConfirmed(perp, clicks))
  /\ UNCHANGED clicks

CancelPerpOrder ==
  /\ Ready
  /\ rendered.perp.phase = "confirming"
  /\ PerpClick(PerpOrderCancelled(perp))
  /\ UNCHANGED clicks

DismissPerpOrder ==
  /\ Ready
  /\ rendered.perp.phase = "result"
  /\ PerpClick(SubmissionDismissed(perp))
  /\ UNCHANGED clicks

(* Every 15 s of a page that shows "ready".                                *)
Refresh ==
  /\ rendered.session.phase = "ready"
  /\ session.phase = "ready"
  /\ session' = RefreshRequested(session)
  /\ UNCHANGED <<perp, page, requests, agent, connections, clicks, changes,
                 history>>

-----------------------------------------------------------------------------
(* The agents and the network.                                             *)

After(c, phase) ==
  CASE c = "start" /\ phase = "stopped"              -> "waiting"
    [] c = "stop" /\ phase = "waiting"               -> "stopped"
    [] c = "kill" /\ phase = "waiting"               -> "halted"
    [] c = "reset" /\ phase \in {"halted", "failed"} -> "stopped"
    [] OTHER                                         -> phase

Serve(q) ==
  /\ ~q.served
  /\ agent' = IF q.kind # "command" THEN agent
              ELSE [agent EXCEPT
                     ![q.target].phase = After(q.command, agent[q.target].phase),
                     ![q.target].at = agent[q.target].at + 1]
  /\ requests' = (requests \ {q}) \cup
       {[q EXCEPT !.served = TRUE,
                  !.view = [of |-> q.target, phase |-> agent'[q.target].phase,
                            at |-> agent'[q.target].at]]}
  /\ UNCHANGED <<machines, page, connections, clicks, changes, history>>

(* The state an answer puts on the screen: only once the machine took it.  *)
ShownBy(s, q) == IF s.phase = "ready" THEN q.view ELSE shown

SessionAnswer(q, after) ==
  /\ session' = after
  /\ shown' = ShownBy(after, q)
  /\ UNCHANGED <<perp, perpInFlight>>
CommandAnswer(q) ==
  q.kind = "command" /\ SessionAnswer(q, CommandSucceeded(session, q.view))

(* submitPerpOrder: settled, refused or failed, the form shows a result.   *)
PerpAnswer(q) ==
  /\ q.kind = "perp"
  /\ perp' = SubmissionEnded(perp)
  /\ UNCHANGED <<session, shown>>
PerpReleased == perpInFlight' = FALSE

Answer(q) ==
  /\ q.served
  /\ requests' = requests \ {q}
  /\ \/ q.kind = "load" /\ SessionAnswer(q, StateLoaded(session, q.view))
     \/ CommandAnswer(q)
     \/ PerpAnswer(q) /\ PerpReleased
  /\ UNCHANGED <<rendered, inFlight, agent, connections, clicks, changes,
                 history>>

ShownAnyway(q) ==  \* mutant: shown before the reads that follow it
  IF q.kind = "command" /\ q.served THEN q.view ELSE shown

(* What the page shows of a command whose follow-up reads failed: nothing. *)
ShownOnFailure(q) == shown

Fail(q) ==
  /\ requests' = requests \ {q}
  /\ \/ /\ q.kind # "perp"
        /\ session' = RequestFailed(session)
        /\ shown' = ShownOnFailure(q)
        /\ UNCHANGED <<perp, perpInFlight>>
     \/ PerpAnswer(q) /\ PerpReleased
  /\ UNCHANGED <<rendered, inFlight, agent, connections, clicks, changes,
                 history>>

(* The request is lost, or the proxy or the agent refuses it.              *)
Refused(q) == ~q.served /\ Fail(q)

(* It was served, and its answer, or one of the reads that follow a        *)
(* command, is lost or cannot be parsed.                                   *)
AnswerLost(q) == q.served /\ Fail(q)

(* A cycle of an agent fails.                                              *)
Change(a) ==
  /\ changes < MaxChanges
  /\ changes' = changes + 1
  /\ agent[a].phase = "waiting"
  /\ agent' = [agent EXCEPT ![a] = [phase |-> "failed", at |-> @.at + 1]]
  /\ UNCHANGED <<machines, page, requests, connections, clicks, history>>

Network(q) == Serve(q) \/ Answer(q) \/ Refused(q) \/ AnswerLost(q)

-----------------------------------------------------------------------------
Operator ==
  \/ \E a \in Agents: Connect(a)
  \/ Disconnect
  \/ \E c \in Commands: Command(c)
  \/ AskKill \/ ConfirmKill \/ CancelKill
  \/ PreparePerpOrder \/ ConfirmPerpOrder \/ CancelPerpOrder
  \/ DismissPerpOrder

Next ==
  \/ Operator
  \/ Refresh \/ Render
  \/ \E q \in requests: Network(q)
  \/ \E a \in Agents: Change(a)

(* A browser renders what changed, and a request is answered or fails.     *)
Fairness ==
  /\ WF_vars(Render)
  /\ WF_vars(\E q \in requests: q.kind # "perp" /\ Network(q))
  /\ WF_vars(\E q \in requests: q.kind = "perp" /\ Network(q))

Spec == Init /\ [][Next]_vars /\ Fairness

-----------------------------------------------------------------------------
Connected == {"ready", "refreshing", "confirmingKill", "commanding"}

(* What the operator sees, and acts on, is the last state the machine      *)
(* confirmed, and it is of the agent that gets the next command, as long   *)
(* as no session was closed under a request (models/dashboard-session.md,  *)
(* invariants 2 and 5).                                                    *)
ShownIsConfirmed ==
  session.phase \in Connected /\ ~abandoned =>
    shown = session.remote /\ shown.of = session.target

(* A confirmed perp order is sent once, whatever session is closed and     *)
(* opened while it is in flight (models/perp-order-ui.md, invariant 4).    *)
OneSubmissionPerOrder ==
  \A x, y \in posted: x[1] = y[1] => x = y

(* The screen never goes back to an older state of the same agent: a       *)
(* refresh and a command are not in flight together.                       *)
NeverBackwards ==
  [][shown'.of = shown.of /\ ~abandoned => shown'.at >= shown.at]_vars

(* A page that waits for an answer stops waiting, and never shows less     *)
(* than it showed.                                                         *)
BusyEnds ==
  /\ Busy(session) ~> ~Busy(session)
  /\ perp.phase = "submitting" ~> perp.phase # "submitting"
  /\ NeverBackwards
=============================================================================
