----------------------- MODULE OperatorNotifications -----------------------
(***************************************************************************)
(* What an agent tells its operator (operator-notifications.ts): a record  *)
(* of telemetry is classified, a class sent less than a window ago is      *)
(* dropped, the others are posted to a webhook that may answer, refuse, or *)
(* not answer.  The memory of what was sent is that of the process.        *)
(***************************************************************************)
EXTENDS Integers, Sequences

CONSTANTS Telemetry,     \* records that may be emitted
          Floor, Ceiling, \* dailyPnlFloorUsd, exposureCeilingUsd
          DedupeWindow,  \* dedupeWindowMs
          PostTimeout,   \* timeoutMs
          MaxAttempts,   \* maxAttempts
          LastInstant, MaxRecords, MaxProcesses \* bounds

VARIABLES
  now,        \* the clock
  process,    \* the process of the Durable Object, counted
  lastSentAt, \* the deduper of this process
  sent,       \* the notifications decided, each with its record
  posted,     \* the requests that wait for an answer
  emitted     \* the records classified

noticeVars == <<now, process, lastSentAt, sent, posted, emitted>>

(* classifyOperatorNotifications: the order of the classes is left out.    *)
Classes == {"CYCLE_FAILED", "ORDER_OUTCOME_UNKNOWN", "DAILY_PNL_BREACH",
            "EXPOSURE_BREACH", "CONTROL_FAILED", "DECISION_WINDOW_MISSED"}
Satisfies(record, c) ==
  \/ /\ record.kind = "cycle"
     /\ \/ c = "CYCLE_FAILED" /\ record.outcome = "FAILED"
        \/ c = "ORDER_OUTCOME_UNKNOWN" /\ record.error = c
        \/ c = "DAILY_PNL_BREACH" /\ record.pnl <= Floor
        \/ c = "EXPOSURE_BREACH" /\ record.exposure > Ceiling
  \/ record.kind = "control" /\ record.outcome = "FAILED" /\ c = "CONTROL_FAILED"
  \/ record.kind = "decision" /\ c = "DECISION_WINDOW_MISSED"
Classified(record) == {c \in Classes : Satisfies(record, c)}

Init ==
  /\ now = 0 /\ process = 1
  /\ lastSentAt = <<>> /\ sent = {} /\ posted = {} /\ emitted = <<>>

ShouldSend(c) ==
  c \notin DOMAIN lastSentAt \/ now - lastSentAt[c] >= DedupeWindow
MarkedAll(classes) ==
  [c \in DOMAIN lastSentAt \cup classes |->
     IF c \in classes THEN now ELSE lastSentAt[c]]
Told(classes) == {c \in classes : ShouldSend(c)}
Marked(classes) ==
  [c \in DOMAIN lastSentAt \cup Told(classes) |->
     IF c \in Told(classes) THEN now ELSE lastSentAt[c]]
Notice(c) ==
  [class |-> c, at |-> now, process |-> process, record |-> Len(emitted) + 1]
Post(notice, attempt) == [notice |-> notice, attempt |-> attempt, since |-> now]

(* emitOperatorNotifications: marked as sent before it is posted.          *)
Emit(record) ==
  LET notices == {Notice(c) : c \in Told(Classified(record))}
  IN /\ Len(emitted) < MaxRecords
     /\ emitted' = Append(emitted, [classes |-> Classified(record), at |-> now,
                                    process |-> process])
     /\ lastSentAt' = Marked(Classified(record))
     /\ sent' = sent \cup notices
     /\ posted' = posted \cup {Post(notice, 1) : notice \in notices}
     /\ UNCHANGED <<now, process>>

(* deliverWithRetry: any answer, a refusal too, ends the delivery; a       *)
(* request that fails or is not answered in time is made once more.        *)
Answer(post) ==
  /\ posted' = posted \ {post}
  /\ UNCHANGED <<now, process, lastSentAt, sent, emitted>>
NoAnswer(post) ==
  /\ posted' = (posted \ {post}) \cup
       IF post.attempt < MaxAttempts THEN {Post(post.notice, post.attempt + 1)}
       ELSE {}
  /\ UNCHANGED <<now, process, lastSentAt, sent, emitted>>

Tick ==
  /\ now < LastInstant
  /\ \A post \in posted : now - post.since < PostTimeout
  /\ now' = now + 1
  /\ UNCHANGED <<process, lastSentAt, sent, posted, emitted>>

(* An eviction: what was in flight is lost, the deduper starts empty.      *)
Evict ==
  /\ process < MaxProcesses /\ process' = process + 1
  /\ lastSentAt' = <<>> /\ posted' = {}
  /\ UNCHANGED <<now, sent, emitted>>

Next ==
  \/ \E record \in Telemetry : Emit(record)
  \/ \E post \in posted : Answer(post) \/ NoAnswer(post)
  \/ Tick \/ Evict

Spec == Init /\ [][Next]_noticeVars

---------------------------------------------------------------------------
(* An operator is told of a class once a window: a record that satisfies   *)
(* it finds a notification of the class sent less than a window before by  *)
(* the same process, or sends one, and two notifications of a class are a  *)
(* window apart, however often it is satisfied in between                  *)
(* (createOperatorNotificationDeduper).                                    *)
ToldOncePerWindow ==
  /\ \A e \in DOMAIN emitted : \A c \in emitted[e].classes :
       \E n \in sent :
         /\ n.class = c /\ n.process = emitted[e].process
         /\ emitted[e].at - n.at \in 0..DedupeWindow - 1
  /\ \A n, m \in sent :
       n.record < m.record /\ n.class = m.class /\ n.process = m.process
       => m.at - n.at >= DedupeWindow
=============================================================================
