--------------------------- MODULE Decision_proofs ----------------------------
(***************************************************************************)
(* Proofs about the parts of MCDecision: the notifications, the trend      *)
(* signals, the market feed and the backtest of one product, for every     *)
(* value of their constants.  Each has an inductive invariant over its own *)
(* variables, which the steps of the other parts leave alone.              *)
(***************************************************************************)
EXTENDS MCDecision, TLAPS

-----------------------------------------------------------------------------
(***************************************************************************)
(* The notifications.  What the deduper remembers is the last notification *)
(* of each class that its process sent.                                    *)
(***************************************************************************)
NoticeTypes ==
  /\ clock \in Nat /\ process \in Nat
  /\ emitted \in Seq([classes: SUBSET Notices!Classes, at: Nat, process: Nat])
  /\ sent \subseteq
       [class: Notices!Classes, at: Nat, process: Nat, record: Nat]
  /\ DOMAIN lastSentAt \subseteq Notices!Classes
  /\ \A c \in DOMAIN lastSentAt: lastSentAt[c] \in Nat

(* Every memory has its notification.                                      *)
MemoryIsTrue ==
  \A c \in DOMAIN lastSentAt:
    /\ lastSentAt[c] <= clock
    /\ \E n \in sent:
         n.class = c /\ n.process = process /\ n.at = lastSentAt[c]

(* Every notification of this process is remembered, or a later one is.    *)
SentIsRemembered ==
  \A n \in sent:
    /\ n.process <= process /\ n.record <= Len(emitted)
    /\ n.process = process =>
         n.class \in DOMAIN lastSentAt /\ n.at <= lastSentAt[n.class]

NoticeInv ==
  /\ NoticeTypes /\ MemoryIsTrue /\ SentIsRemembered
  /\ Notices!ToldOncePerWindow

(* A record is classified: the classes that are due are told.              *)
LEMMA EmitTells ==
  ASSUME NoticeInv, NEW record, Notices!Emit(record) PROVE NoticeInv'
<1> USE DEF NoticeInv
<1> DEFINE classes == Notices!Classified(record)
           told == Notices!Told(classes)
           telling == [classes |-> classes, at |-> clock, process |-> process]
<1>1. /\ emitted' = Append(emitted, telling)
      /\ lastSentAt' = Notices!Marked(classes)
      /\ sent' = sent \cup {Notices!Notice(c): c \in told}
      /\ UNCHANGED <<clock, process>>
  BY DEF Notices!Emit
<1>2. classes \subseteq Notices!Classes /\ told \subseteq classes
  BY DEF Notices!Classified, Notices!Told
<1>3. /\ clock \in Nat /\ process \in Nat /\ Len(emitted) \in Nat
      /\ DedupeWindow \in Nat /\ DedupeWindow > 0
  BY NoticesAssumption DEF NoticeTypes
<1>4. \A c \in classes:
        c \notin told => c \in DOMAIN lastSentAt /\ clock - lastSentAt[c] < DedupeWindow
  BY <1>3 DEF Notices!Told, Notices!ShouldSend, NoticeTypes
<1>5. \A c \in told:
        c \in DOMAIN lastSentAt => clock - lastSentAt[c] >= DedupeWindow
  BY DEF Notices!Told, Notices!ShouldSend
<1>6. /\ DOMAIN lastSentAt' = DOMAIN lastSentAt \cup told
      /\ \A c \in told: lastSentAt'[c] = clock
      /\ \A c \in DOMAIN lastSentAt: c \notin told => lastSentAt'[c] = lastSentAt[c]
  BY <1>1 DEF Notices!Marked
<1>7. ASSUME NEW n \in sent'
      PROVE  \/ n \in sent
             \/ /\ n.class \in told /\ n.at = clock /\ n.process = process
                /\ n.record = Len(emitted) + 1 /\ n = Notices!Notice(n.class)
  BY <1>1, <1>7 DEF Notices!Notice
<1>8. ASSUME NEW c \in told
      PROVE  \E n \in sent': n.class = c /\ n.process = process /\ n.at = clock
  <2>1. Notices!Notice(c) \in sent'
    BY <1>1, <1>8
  <2> QED  BY <2>1 DEF Notices!Notice
<1>9. /\ telling \in [classes: SUBSET Notices!Classes, at: Nat, process: Nat]
      /\ telling.classes = classes /\ telling.at = clock /\ telling.process = process
  BY <1>2, <1>3
<1> HIDE DEF classes, told, telling
<1>10. /\ Len(emitted') = Len(emitted) + 1 /\ emitted'[Len(emitted) + 1] = telling
       /\ DOMAIN emitted' = DOMAIN emitted \cup {Len(emitted) + 1}
       /\ \A e \in DOMAIN emitted: emitted'[e] = emitted[e]
  BY <1>1, <1>9 DEF NoticeTypes
<1>11. NoticeTypes'
  <2>1. emitted' \in Seq([classes: SUBSET Notices!Classes, at: Nat, process: Nat])
    BY <1>1, <1>9 DEF NoticeTypes
  <2>2. sent' \subseteq [class: Notices!Classes, at: Nat, process: Nat, record: Nat]
    <3> SUFFICES ASSUME NEW n \in sent'
                 PROVE  n \in [class: Notices!Classes, at: Nat, process: Nat, record: Nat]
      OBVIOUS
    <3>1. CASE n \in sent
      BY <3>1 DEF NoticeTypes
    <3>2. CASE n.class \in told /\ n = Notices!Notice(n.class)
      BY <1>2, <1>3, <3>2 DEF Notices!Notice
    <3> QED  BY <1>7, <3>1, <3>2
  <2>3. DOMAIN lastSentAt' \subseteq Notices!Classes
    BY <1>2, <1>6 DEF NoticeTypes
  <2>4. \A c \in DOMAIN lastSentAt': lastSentAt'[c] \in Nat
    BY <1>3, <1>6 DEF NoticeTypes
  <2> QED  BY <1>1, <1>3, <2>1, <2>2, <2>3, <2>4 DEF NoticeTypes
<1>12. MemoryIsTrue'
  <2> SUFFICES ASSUME NEW c \in DOMAIN lastSentAt'
               PROVE  /\ lastSentAt'[c] <= clock'
                      /\ \E n \in sent': n.class = c /\ n.process = process'
                                         /\ n.at = lastSentAt'[c]
    BY DEF MemoryIsTrue
  <2>1. CASE c \in told
    BY <1>1, <1>3, <1>6, <1>8, <2>1
  <2>2. CASE c \notin told
    BY <1>1, <1>6, <2>2 DEF MemoryIsTrue
  <2> QED  BY <2>1, <2>2
<1>13. SentIsRemembered'
  <2> SUFFICES ASSUME NEW n \in sent'
               PROVE  /\ n.process <= process' /\ n.record <= Len(emitted')
                      /\ n.process = process' =>
                           n.class \in DOMAIN lastSentAt' /\ n.at <= lastSentAt'[n.class]
    BY DEF SentIsRemembered
  <2>1. CASE n \in sent
    <3>1. /\ n.process <= process /\ n.record <= Len(emitted) /\ n.record \in Nat
          /\ n.at \in Nat
          /\ n.process = process =>
               n.class \in DOMAIN lastSentAt /\ n.at <= lastSentAt[n.class]
      BY <2>1 DEF SentIsRemembered, NoticeTypes
    <3>2. n.process = process => n.at <= clock
      BY <1>3, <3>1 DEF MemoryIsTrue, NoticeTypes
    <3> QED  BY <1>1, <1>3, <1>6, <1>10, <3>1, <3>2
  <2>2. CASE n.class \in told /\ n.at = clock /\ n.process = process
             /\ n.record = Len(emitted) + 1
    BY <1>1, <1>3, <1>6, <1>10, <2>2
  <2> QED  BY <1>7, <2>1, <2>2
<1>14. ASSUME NEW e \in DOMAIN emitted', NEW c \in emitted'[e].classes
       PROVE  \E n \in sent': /\ n.class = c /\ n.process = emitted'[e].process
                              /\ emitted'[e].at - n.at \in 0..DedupeWindow - 1
  <2>1. CASE e \in DOMAIN emitted
    <3>1. PICK n \in sent: /\ n.class = c /\ n.process = emitted[e].process
                           /\ emitted[e].at - n.at \in 0..DedupeWindow - 1
      BY <1>10, <1>14, <2>1 DEF Notices!ToldOncePerWindow
    <3> QED  BY <1>1, <1>10, <2>1, <3>1
  <2>2. CASE e = Len(emitted) + 1
    <3>1. emitted'[e].process = process /\ emitted'[e].at = clock /\ c \in classes
      BY <1>9, <1>10, <1>14, <2>2
    <3>2. CASE c \in told
      <4>1. PICK n \in sent': n.class = c /\ n.process = process /\ n.at = clock
        BY <1>8, <3>2
      <4>2. clock - clock \in 0..DedupeWindow - 1
        BY <1>3
      <4> QED  BY <3>1, <4>1, <4>2
    <3>3. CASE c \notin told
      <4>1. /\ c \in DOMAIN lastSentAt /\ clock - lastSentAt[c] < DedupeWindow
            /\ lastSentAt[c] \in Nat /\ lastSentAt[c] <= clock
        BY <1>4, <3>1, <3>3 DEF MemoryIsTrue, NoticeTypes
      <4>2. PICK n \in sent:
              n.class = c /\ n.process = process /\ n.at = lastSentAt[c]
        BY <4>1 DEF MemoryIsTrue
      <4>3. clock - n.at \in 0..DedupeWindow - 1
        BY <1>3, <4>1, <4>2
      <4> QED  BY <1>1, <3>1, <4>2, <4>3
    <3> QED  BY <3>2, <3>3
  <2> QED  BY <1>10, <2>1, <2>2
<1>15. ASSUME NEW n \in sent', NEW m \in sent', n.record < m.record,
              n.class = m.class, n.process = m.process
       PROVE  m.at - n.at >= DedupeWindow
  <2>1. CASE n \in sent /\ m \in sent
    BY <1>15, <2>1 DEF Notices!ToldOncePerWindow
  <2>2. CASE m \notin sent /\ n \in sent
    <3>1. m.class \in told /\ m.at = clock /\ m.process = process
      BY <1>7, <2>2
    <3>2. /\ n.class \in DOMAIN lastSentAt /\ n.at <= lastSentAt[n.class]
          /\ n.at \in Nat /\ lastSentAt[n.class] \in Nat
      BY <1>15, <2>2, <3>1 DEF SentIsRemembered, NoticeTypes
    <3>3. clock - lastSentAt[n.class] >= DedupeWindow
      BY <1>5, <1>15, <3>1, <3>2
    <3> QED  BY <1>3, <3>1, <3>2, <3>3
  <2>3. CASE n \notin sent
    <3>1. n.record = Len(emitted) + 1
      BY <1>7, <2>3
    <3>2. m.record \in Nat /\ m.record <= Len(emitted) + 1
      BY <1>3, <1>7 DEF SentIsRemembered, NoticeTypes
    <3> QED  BY <1>3, <1>15, <3>1, <3>2
  <2> QED  BY <2>1, <2>2, <2>3
<1>16. Notices!ToldOncePerWindow'
  BY <1>14, <1>15 DEF Notices!ToldOncePerWindow
<1> QED  BY <1>11, <1>12, <1>13, <1>16

(* Answers, the clock and evictions: the memory is kept, or emptied.       *)
LEMMA NoticesStep ==
  ASSUME NoticeInv, Notices!Next PROVE NoticeInv'
<1> USE DEF NoticeInv
<1>1. CASE UNCHANGED <<process, lastSentAt, sent, emitted>> /\ clock' \in Nat /\ clock <= clock'
  <2>1. NoticeTypes'
    BY <1>1 DEF NoticeTypes
  <2>2. MemoryIsTrue'
    BY <1>1 DEF MemoryIsTrue, NoticeTypes
  <2>3. SentIsRemembered'
    BY <1>1 DEF SentIsRemembered
  <2>4. Notices!ToldOncePerWindow'
    BY <1>1 DEF Notices!ToldOncePerWindow
  <2> QED  BY <2>1, <2>2, <2>3, <2>4
<1>2. CASE Notices!Evict
  <2>1. /\ process' = process + 1 /\ DOMAIN lastSentAt' = {}
        /\ UNCHANGED <<clock, sent, emitted>>
    BY <1>2 DEF Notices!Evict
  <2>2. NoticeTypes'
    BY <2>1 DEF NoticeTypes
  <2>3. MemoryIsTrue'
    BY <2>1 DEF MemoryIsTrue
  <2>4. SentIsRemembered'
    BY <2>1 DEF SentIsRemembered, NoticeTypes
  <2>5. Notices!ToldOncePerWindow'
    BY <2>1 DEF Notices!ToldOncePerWindow
  <2> QED  BY <2>2, <2>3, <2>4, <2>5
<1>3. ASSUME NEW post \in posted, Notices!Answer(post) \/ Notices!NoAnswer(post)
      PROVE  NoticeInv'
  BY <1>1, <1>3 DEF Notices!Answer, Notices!NoAnswer, NoticeTypes
<1>4. CASE Notices!Tick
  BY <1>1, <1>4 DEF Notices!Tick, NoticeTypes
<1> QED  BY <1>2, <1>3, <1>4, EmitTells DEF Notices!Next

THEOREM NoticeSoundness == DecisionSpec => []NoticeInv
<1>1. DecisionInit => NoticeInv
  <2> SUFFICES ASSUME DecisionInit PROVE NoticeInv
    OBVIOUS
  <2>1. Notices!Init
    BY DEF DecisionInit
  <2>2. /\ clock = 0 /\ process = 1 /\ DOMAIN lastSentAt = {} /\ sent = {}
        /\ emitted = <<>>
    BY <2>1 DEF Notices!Init
  <2> QED  BY <2>2 DEF NoticeInv, NoticeTypes, MemoryIsTrue, SentIsRemembered,
     Notices!ToldOncePerWindow
<1>2. NoticeInv /\ [DecisionNext]_decisionVars => NoticeInv'
  <2> SUFFICES ASSUME NoticeInv, [DecisionNext]_decisionVars PROVE NoticeInv'
    OBVIOUS
  <2>1. CASE UNCHANGED noticeVars
    BY <2>1 DEF noticeVars, NoticeInv, NoticeTypes, MemoryIsTrue, SentIsRemembered,
       Notices!ToldOncePerWindow
  <2>2. UNCHANGED noticeVars \/ Notices!Next
    BY DEF DecisionNext, decisionVars
  <2> QED  BY <2>1, <2>2, NoticesStep
<1> QED  BY <1>1, <1>2, PTL DEF DecisionSpec

(* An operator is told of a class once a window, by every process, however *)
(* the records come.                                                       *)
THEOREM ToldOnce == DecisionSpec => []ToldOncePerWindow
<1>1. NoticeInv => ToldOncePerWindow
  BY DEF NoticeInv, ToldOncePerWindow
<1> QED  BY <1>1, NoticeSoundness, PTL
-----------------------------------------------------------------------------
(***************************************************************************)
(* The trend signals.  No question rests on a close later than its candle, *)
(* the one a batch is about to ask included.                               *)
(***************************************************************************)
IsAsk(a) ==
  /\ DOMAIN a = {"candle", "version", "late", "theta", "attempts"}
  /\ a.candle \in Int /\ a.late = FALSE

IsTask(x) ==
  /\ DOMAIN x = {"phase", "ask", "closes"}
  /\ IsAsk(x.ask) /\ x.closes \subseteq Int

IsBatch(b) ==
  \/ b = Trend!NoBatch
  \/ /\ DOMAIN b = {"phase", "grid", "version", "window", "ask", "todo"}
     /\ b.phase \in {"next", "asked"} /\ b.window \subseteq Int
     /\ IsAsk(b.ask) /\ b.todo \subseteq Int
     /\ b.version \in Trend!Version

TrendInv ==
  /\ setting.grid \in Grids /\ minute \in Nat
  /\ \A k \in DOMAIN rows: k[1] \in Int
  /\ DOMAIN tasks = Tasks /\ \A t \in Tasks: IsTask(tasks[t])
  /\ IsBatch(batch)
  /\ Trend!NoLookahead

(* Windows hold instants.                                                  *)
LEMMA WindowsAreInt ==
  /\ \A end, grid, limit: Trend!Window(end, grid, limit) \subseteq Int
  /\ \A closes, start: Trend!ClosedBy(closes, start) \subseteq closes
BY DEF Trend!Window, Trend!ClosedBy

(* A question about what closed in time.                                   *)
LEMMA AskIsPrompt ==
  ASSUME NEW start \in Int, NEW version, NEW closes \in SUBSET Int,
         \A c \in closes: ~(c > start)
  PROVE  IsAsk(Trend!Ask(start, version, closes))
<1>1. (\E c \in closes: c > start) = FALSE
  OBVIOUS
<1> HIDE DEF Trend!Threshold
<1> QED  BY <1>1 DEF Trend!Ask, IsAsk

LEMMA ClosedByIsPrompt ==
  ASSUME NEW start \in Int, NEW closes \in SUBSET Int
  PROVE  /\ Trend!ClosedBy(closes, start) \in SUBSET Int
         /\ \A c \in Trend!ClosedBy(closes, start): ~(c > start)
<1>1. Trend!ClosedBy(closes, start) \in SUBSET Int
  BY DEF Trend!ClosedBy
<1>2. \A c \in Trend!ClosedBy(closes, start): ~(c > start)
  BY DEF Trend!ClosedBy
<1> QED  BY <1>1, <1>2

LEMMA NoAskIsAsk ==
  /\ IsAsk(Trend!NoAsk)
  /\ \A start \in Int: IsAsk([Trend!NoAsk EXCEPT !.candle = start])
<1>1. IsAsk(Trend!NoAsk)
  BY DEF IsAsk, Trend!NoAsk
<1> QED  BY <1>1 DEF IsAsk

(* What follows a question is a question that was not asked yet, or none.  *)
LEMMA FollowingIsTask ==
  ASSUME NEW task, IsTask(task) PROVE IsTask(Trend!Following(task))
<1>1. IsTask(Trend!NoTask)
  BY NoAskIsAsk DEF IsTask, Trend!NoTask
<1> DEFINE a == [Trend!NoAsk EXCEPT !.candle = task.ask.candle]
<1>2. IsAsk(a)
  BY NoAskIsAsk DEF IsTask, IsAsk
<1> HIDE DEF a
<1>3. IsTask([task EXCEPT !.phase = "v2", !.ask = a])
  BY <1>2 DEF IsTask
<1> QED  BY <1>1, <1>3 DEF Trend!Following, a

(* Storing an answer keeps the rows of the live, and adds no late row.     *)
LEMMA PersistedKeeps ==
  ASSUME Trend!NoLookahead, \A k \in DOMAIN rows: k[1] \in Int,
         NEW ask, IsAsk(ask), NEW grid, NEW collection,
         rows' = Trend!Persisted(ask, grid, collection)
  PROVE  /\ Trend!NoLookahead' /\ \A k \in DOMAIN rows': k[1] \in Int
         /\ DOMAIN rows \subseteq DOMAIN rows'
         /\ \A k \in DOMAIN rows: rows[k].collection = "SHADOW" => rows'[k] = rows[k]
<1> DEFINE key == <<ask.candle, ask.version, grid>>
           row == Trend!Row(ask, collection)
<1>1. row.late = FALSE /\ key[1] \in Int
  BY DEF Trend!Row, IsAsk
<1>2. CASE rows' = rows
  BY <1>2 DEF Trend!NoLookahead
<1>3. CASE /\ rows' = Trend!Put(key, row)
           /\ ~(key \in DOMAIN rows /\ rows[key].collection # "RETROSPECTIVE")
  <2> HIDE DEF key, row
  <2>1. /\ DOMAIN rows' = DOMAIN rows \cup {key}
        /\ rows'[key] = row /\ \A k \in DOMAIN rows: k # key => rows'[k] = rows[k]
    BY <1>3 DEF Trend!Put
  <2>2. Trend!NoLookahead'
    BY <1>1, <2>1 DEF Trend!NoLookahead
  <2>3. \A k \in DOMAIN rows: rows[k].collection = "SHADOW" => rows'[k] = rows[k]
    BY <1>3, <2>1
  <2> QED  BY <1>1, <2>1, <2>2, <2>3
<1> QED  BY <1>2, <1>3 DEF Trend!Persisted

(* A step of the live productions.                                         *)
LEMMA ShadowSteps ==
  ASSUME TrendInv, NEW t \in Tasks,
         \/ Trend!StartShadow(t) \/ Trend!AskShadow(t)
         \/ \E a \in Trend!GatewayAnswers: Trend!AnswerShadow(t, a)
  PROVE  /\ TrendInv' /\ UNCHANGED <<setting, minute>>
         /\ DOMAIN rows \subseteq DOMAIN rows'
         /\ \A k \in DOMAIN rows: rows[k].collection = "SHADOW" => rows'[k] = rows[k]
<1> USE DEF TrendInv
<1>1. IsTask(tasks[t]) /\ setting.grid \in Nat /\ setting.grid > 0
  <2>1. IsTask(tasks[t])
    OBVIOUS
  <2>2. setting.grid \in Grids
    OBVIOUS
  <2>3. \A g \in Grids: g \in Nat /\ g > 0
    BY TrendAssumption
  <2> QED  BY <2>1, <2>2, <2>3
<1>2. ASSUME NEW x, IsTask(x), tasks' = [tasks EXCEPT ![t] = x]
      PROVE  DOMAIN tasks' = Tasks /\ \A u \in Tasks: IsTask(tasks'[u])
  BY <1>2
<1>3. CASE Trend!StartShadow(t)
  <2> DEFINE start == Trend!ReferenceCandle(minute, setting.grid)
             fresh == [Trend!NoAsk EXCEPT !.candle = start]
  <2>1. start \in Int
    BY <1>1 DEF Trend!ReferenceCandle
  <2>2. IsAsk(fresh)
    BY <2>1, NoAskIsAsk
  <2>3. PICK closes \in Trend!Seen(start):
          tasks' = [tasks EXCEPT ![t] = [phase |-> "v1", ask |-> fresh, closes |-> closes]]
    BY <1>3 DEF Trend!StartShadow
  <2>4. closes \subseteq Int
    BY WindowsAreInt DEF Trend!Seen
  <2> HIDE DEF fresh
  <2>5. IsTask([phase |-> "v1", ask |-> fresh, closes |-> closes])
    BY <2>2, <2>4 DEF IsTask
  <2>6. UNCHANGED <<setting, minute, rows, batch>>
    BY <1>3 DEF Trend!StartShadow
  <2> QED  BY <1>2, <2>3, <2>5, <2>6 DEF Trend!NoLookahead
<1>4. CASE Trend!AskShadow(t)
  <2> DEFINE task == tasks[t]
             closes == Trend!ClosedBy(task.closes, task.ask.candle)
             q == Trend!Ask(task.ask.candle, task.phase, closes)
  <2>1. task.ask.candle \in Int /\ task.closes \in SUBSET Int
    BY <1>1 DEF IsTask, IsAsk
  <2>2. IsAsk(q)
    BY <2>1, AskIsPrompt, ClosedByIsPrompt
  <2>3. \/ tasks' = [tasks EXCEPT ![t] = [task EXCEPT !.ask = q]]
        \/ tasks' = [tasks EXCEPT ![t] = Trend!Following(task)]
    BY <1>4 DEF Trend!AskShadow
  <2> HIDE DEF q
  <2>4. IsTask([task EXCEPT !.ask = q]) /\ IsTask(Trend!Following(task))
    BY <1>1, <2>2, FollowingIsTask DEF IsTask
  <2>5. UNCHANGED <<setting, minute, rows, batch>>
    BY <1>4 DEF Trend!AskShadow
  <2> HIDE DEF task
  <2>6. DOMAIN tasks' = Tasks /\ \A u \in Tasks: IsTask(tasks'[u])
    BY <1>2, <2>3, <2>4
  <2> QED  BY <2>5, <2>6 DEF Trend!NoLookahead
<1>5. ASSUME NEW a \in Trend!GatewayAnswers, Trend!AnswerShadow(t, a)
      PROVE  /\ TrendInv' /\ UNCHANGED <<setting, minute>>
             /\ DOMAIN rows \subseteq DOMAIN rows'
             /\ \A k \in DOMAIN rows:
                  rows[k].collection = "SHADOW" => rows'[k] = rows[k]
  <2> DEFINE task == tasks[t]
             again == Trend!Again(task.ask)
  <2>1. IsAsk(again) /\ IsAsk(task.ask)
    BY <1>1 DEF IsTask, IsAsk, Trend!Again
  <2>2. \/ tasks' = [tasks EXCEPT ![t] = [task EXCEPT !.ask = again]]
        \/ tasks' = [tasks EXCEPT ![t] = Trend!Following(task)]
    BY <1>5 DEF Trend!AnswerShadow
  <2>3. \/ rows' = rows
        \/ \E g: rows' = Trend!Persisted(task.ask, g, "SHADOW")
    BY <1>5 DEF Trend!AnswerShadow
  <2>4. UNCHANGED <<setting, minute, batch>>
    BY <1>5 DEF Trend!AnswerShadow
  <2> HIDE DEF again
  <2>5. IsTask([task EXCEPT !.ask = again]) /\ IsTask(Trend!Following(task))
    BY <1>1, <2>1, FollowingIsTask DEF IsTask
  <2> HIDE DEF task
  <2>6. DOMAIN tasks' = Tasks /\ \A u \in Tasks: IsTask(tasks'[u])
    BY <1>2, <2>2, <2>5
  <2>7. /\ Trend!NoLookahead' /\ \A k \in DOMAIN rows': k[1] \in Int
        /\ DOMAIN rows \subseteq DOMAIN rows'
        /\ \A k \in DOMAIN rows: rows[k].collection = "SHADOW" => rows'[k] = rows[k]
    <3>1. CASE rows' = rows
      BY <3>1 DEF Trend!NoLookahead
    <3>2. CASE \E g: rows' = Trend!Persisted(task.ask, g, "SHADOW")
      <4>1. PICK g: rows' = Trend!Persisted(task.ask, g, "SHADOW")
        BY <3>2
      <4> QED  BY <2>1, <4>1, PersistedKeeps
    <3> QED  BY <2>3, <3>1, <3>2
  <2> QED  BY <2>4, <2>6, <2>7
<1> QED  BY <1>3, <1>4, <1>5

(* A step of the retrospective batch.                                      *)
LEMMA BatchSteps ==
  ASSUME TrendInv,
         \/ \E g \in Grids, v \in Trend!Version, f \in BOOLEAN: Trend!BeginBatch(g, v, f)
         \/ Trend!NextInBatch \/ Trend!EndBatch
         \/ \E a \in Trend!GatewayAnswers: Trend!AnswerBatch(a)
  PROVE  /\ TrendInv' /\ UNCHANGED <<setting, minute>>
         /\ DOMAIN rows \subseteq DOMAIN rows'
         /\ \A k \in DOMAIN rows: rows[k].collection = "SHADOW" => rows'[k] = rows[k]
<1> USE DEF TrendInv
<1>1. ASSUME UNCHANGED <<setting, minute, rows, tasks>>, IsBatch(batch')
      PROVE  /\ TrendInv' /\ UNCHANGED <<setting, minute>>
             /\ DOMAIN rows \subseteq DOMAIN rows'
             /\ \A k \in DOMAIN rows:
                  rows[k].collection = "SHADOW" => rows'[k] = rows[k]
  BY <1>1 DEF Trend!NoLookahead
<1>2. ASSUME NEW g \in Grids, NEW v \in Trend!Version, NEW f \in BOOLEAN,
             Trend!BeginBatch(g, v, f)
      PROVE  UNCHANGED <<setting, minute, rows, tasks>> /\ IsBatch(batch')
  <2>1. PICK from \in 0..minute, to \in 0..minute:
          \E last \in Trend!LastRead(Trend!Stored(Trend!Plan(from, to, g), v)),
             frame \in Trend!BatchWindows(to, g, v):
            batch' = [phase |-> "next", grid |-> g, version |-> v,
                      window |-> frame, ask |-> Trend!NoAsk,
                      todo |-> {c \in Trend!Plan(from, to, g): c \in DOMAIN last =>
                                  f /\ last[c] = "RETROSPECTIVE"}]
    BY <1>2 DEF Trend!BeginBatch
  <2>2. PICK frame \in Trend!BatchWindows(to, g, v),
             todo \in SUBSET Trend!Plan(from, to, g):
          batch' = [phase |-> "next", grid |-> g, version |-> v,
                    window |-> frame, ask |-> Trend!NoAsk, todo |-> todo]
    BY <2>1
  <2>3. todo \subseteq Int
    BY DEF Trend!Plan
  <2>4. frame \subseteq Int
    BY WindowsAreInt DEF Trend!BatchWindows
  <2>5. IsAsk(Trend!NoAsk)
    BY DEF IsAsk, Trend!NoAsk
  <2>6. IsBatch(batch')
    BY <2>2, <2>3, <2>4, <2>5 DEF IsBatch
  <2> QED  BY <1>2, <2>6 DEF Trend!BeginBatch
<1>3. CASE Trend!NextInBatch
  <2>1. /\ batch.phase = "next" /\ UNCHANGED <<setting, minute, rows, tasks>>
        /\ \E start \in batch.todo:
             \E closes \in IF batch.version = "v2"
                           THEN {Trend!ClosedBy(batch.window, start)}
                           ELSE Trend!Fetched(start, batch.grid):
               batch' = IF batch.version = "v1" /\ \E c \in closes: c > start
                        THEN Trend!NoBatch
                        ELSE IF Trend!Enough(closes, batch.version)
                        THEN [batch EXCEPT
                                !.phase = "asked", !.todo = batch.todo \ {start},
                                !.ask = Trend!Ask(start, batch.version, closes)]
                        ELSE [batch EXCEPT !.todo = batch.todo \ {start}]
    BY <1>3 DEF Trend!NextInBatch
  <2>2. PICK start \in batch.todo:
             \E closes \in IF batch.version = "v2"
                           THEN {Trend!ClosedBy(batch.window, start)}
                           ELSE Trend!Fetched(start, batch.grid):
               batch' = IF batch.version = "v1" /\ \E c \in closes: c > start
                        THEN Trend!NoBatch
                        ELSE IF Trend!Enough(closes, batch.version)
                        THEN [batch EXCEPT
                                !.phase = "asked", !.todo = batch.todo \ {start},
                                !.ask = Trend!Ask(start, batch.version, closes)]
                        ELSE [batch EXCEPT !.todo = batch.todo \ {start}]
    BY <2>1
  <2>3. PICK closes \in IF batch.version = "v2"
                        THEN {Trend!ClosedBy(batch.window, start)}
                        ELSE Trend!Fetched(start, batch.grid):
               batch' = IF batch.version = "v1" /\ \E c \in closes: c > start
                        THEN Trend!NoBatch
                        ELSE IF Trend!Enough(closes, batch.version)
                        THEN [batch EXCEPT
                                !.phase = "asked", !.todo = batch.todo \ {start},
                                !.ask = Trend!Ask(start, batch.version, closes)]
                        ELSE [batch EXCEPT !.todo = batch.todo \ {start}]
    BY <2>2
  <2>4. batch # Trend!NoBatch
    BY <2>1 DEF Trend!NoBatch
  <2>5. /\ DOMAIN batch = {"phase", "grid", "version", "window", "ask", "todo"}
        /\ batch.window \in SUBSET Int /\ batch.todo \subseteq Int
        /\ batch.version \in {"v1", "v2"} /\ IsAsk(batch.ask)
    BY <2>4 DEF IsBatch, Trend!Version
  <2>6. start \in Int /\ closes \in SUBSET Int
    BY <2>5, WindowsAreInt, ClosedByIsPrompt DEF Trend!Fetched
  <2> DEFINE q == Trend!Ask(start, batch.version, closes)
             rest == batch.todo \ {start}
  <2>7. \/ batch' = Trend!NoBatch
        \/ IsAsk(q) /\ batch' = [batch EXCEPT !.phase = "asked", !.todo = rest, !.ask = q]
        \/ batch' = [batch EXCEPT !.todo = rest]
    <3>1. CASE \A c \in closes: ~(c > start)
      <4>1. IsAsk(q)
        BY <2>6, <3>1, AskIsPrompt
      <4> QED  BY <2>3, <4>1
    <3>2. CASE batch.version = "v2"
      <4>1. closes = Trend!ClosedBy(batch.window, start)
        BY <3>2
      <4> QED  BY <2>5, <2>6, <3>1, <4>1, ClosedByIsPrompt
    <3>3. CASE batch.version = "v1" /\ \E c \in closes: c > start
      BY <2>3, <3>3
    <3> QED  BY <2>5, <3>1, <3>2, <3>3
  <2> HIDE DEF q
  <2>8. rest \subseteq Int
    BY <2>5
  <2> HIDE DEF rest
  <2>9. ASSUME IsAsk(q), batch' = [batch EXCEPT !.phase = "asked", !.todo = rest, !.ask = q]
        PROVE  IsBatch(batch')
    BY <2>5, <2>8, <2>9 DEF IsBatch, Trend!Version
  <2>10. ASSUME batch' = [batch EXCEPT !.todo = rest]
         PROVE  IsBatch(batch')
    BY <2>1, <2>5, <2>8, <2>10 DEF IsBatch, Trend!Version
  <2>11. IsBatch(batch')
    BY <2>7, <2>9, <2>10 DEF IsBatch
  <2> QED  BY <1>1, <2>1, <2>11
<1>4. CASE Trend!EndBatch
  BY <1>4 DEF Trend!EndBatch, IsBatch, Trend!NoLookahead
<1>5. ASSUME NEW a \in Trend!GatewayAnswers, Trend!AnswerBatch(a)
      PROVE  /\ TrendInv' /\ UNCHANGED <<setting, minute>>
             /\ DOMAIN rows \subseteq DOMAIN rows'
             /\ \A k \in DOMAIN rows:
                  rows[k].collection = "SHADOW" => rows'[k] = rows[k]
  <2>1. batch.phase = "asked" /\ UNCHANGED <<setting, minute, tasks>>
    BY <1>5 DEF Trend!AnswerBatch
  <2>2. batch # Trend!NoBatch
    BY <2>1 DEF Trend!NoBatch
  <2>3. /\ DOMAIN batch = {"phase", "grid", "version", "window", "ask", "todo"}
        /\ batch.window \subseteq Int /\ batch.todo \subseteq Int
        /\ batch.version \in Trend!Version /\ IsAsk(batch.ask)
    BY <2>2 DEF IsBatch
  <2> DEFINE again == Trend!Again(batch.ask)
  <2>4. IsAsk(again) /\ IsAsk(Trend!NoAsk)
    BY <2>3, NoAskIsAsk DEF IsAsk, Trend!Again
  <2>5. \/ batch' = [batch EXCEPT !.ask = again]
        \/ batch' = [batch EXCEPT !.phase = "next", !.ask = Trend!NoAsk]
    BY <1>5 DEF Trend!AnswerBatch
  <2> HIDE DEF again
  <2>6. ASSUME batch' = [batch EXCEPT !.ask = again] PROVE IsBatch(batch')
    BY <2>1, <2>3, <2>4, <2>6 DEF IsBatch
  <2>7. ASSUME batch' = [batch EXCEPT !.phase = "next", !.ask = Trend!NoAsk]
        PROVE  IsBatch(batch')
    BY <2>3, <2>4, <2>7 DEF IsBatch
  <2>8. IsBatch(batch')
    BY <2>5, <2>6, <2>7
  <2>9. \/ rows' = rows
        \/ \E g: rows' = Trend!Persisted(batch.ask, g, "RETROSPECTIVE")
    BY <1>5 DEF Trend!AnswerBatch
  <2>10. /\ Trend!NoLookahead' /\ \A k \in DOMAIN rows': k[1] \in Int
         /\ DOMAIN rows \subseteq DOMAIN rows'
         /\ \A k \in DOMAIN rows: rows[k].collection = "SHADOW" => rows'[k] = rows[k]
    <3>1. CASE rows' = rows
      BY <3>1 DEF Trend!NoLookahead
    <3>2. CASE \E g: rows' = Trend!Persisted(batch.ask, g, "RETROSPECTIVE")
      <4>1. PICK g: rows' = Trend!Persisted(batch.ask, g, "RETROSPECTIVE")
        BY <3>2
      <4> QED  BY <2>3, <4>1, PersistedKeeps
    <3> QED  BY <2>9, <3>1, <3>2
  <2> QED  BY <2>1, <2>8, <2>10
<1> QED  BY <1>1, <1>2, <1>3, <1>4, <1>5

(* The clock: a signal whose outcome can be judged is judged the same one  *)
(* minute later, both closes being in the past.                            *)
LEMMA TickJudges ==
  ASSUME TrendInv, Trend!Tick
  PROVE  /\ TrendInv' /\ rows' = rows
         /\ \A k \in DOMAIN rows, g \in Grids:
              Trend!Outcome(k, g) # "PENDING" => Trend!Outcome(k, g)' = Trend!Outcome(k, g)
<1> USE DEF TrendInv
<1>1. minute' = minute + 1 /\ UNCHANGED <<setting, rows, tasks, batch>>
  BY DEF Trend!Tick
<1>2. TrendInv'
  BY <1>1 DEF Trend!NoLookahead
<1>3. ASSUME NEW k \in DOMAIN rows, NEW g \in Grids, Trend!Outcome(k, g) # "PENDING"
      PROVE  Trend!Outcome(k, g)' = Trend!Outcome(k, g)
  <2>1. k[1] \in Int /\ g \in Nat /\ g > 0 /\ Horizon \in Nat
    BY TrendAssumption
  <2>2. Horizon * g \in Nat
    BY <2>1
  <2>3. /\ Trend!Due(k, g) \in Int /\ k[1] <= Trend!Due(k, g)
        /\ Trend!Due(k, g) <= minute /\ k[1] # 0
    BY <1>3, <2>1, <2>2 DEF Trend!Due, Trend!Outcome
  <2>4. /\ Trend!CloseOf(k[1], g)' = Trend!CloseOf(k[1], g)
        /\ Trend!CloseOf(Trend!Due(k, g), g)' = Trend!CloseOf(Trend!Due(k, g), g)
    BY <1>1, <2>1, <2>3 DEF Trend!CloseOf, Trend!Due
  <2>5. ~(Trend!Due(k, g) > minute \/ k[1] = 0) /\ ~(Trend!Due(k, g) > minute' \/ k[1] = 0)
    BY <1>1, <2>3
  <2>6. Trend!Outcome(k, g) = Trend!Judged(k, g, rows[k].theta)
    BY <2>5 DEF Trend!Outcome
  <2>7. Trend!Outcome(k, g)' = Trend!Judged(k, g, rows[k].theta)'
    BY <2>5 DEF Trend!Outcome, Trend!Due
  <2>8. Trend!Judged(k, g, rows[k].theta)' = Trend!Judged(k, g, rows[k].theta)
    BY <1>1, <2>4 DEF Trend!Judged, Trend!Scaled
  <2> QED  BY <2>6, <2>7, <2>8
<1> QED  BY <1>1, <1>2, <1>3

(* Every step of the trend signals keeps the invariant and the past.       *)
PastKept ==
  /\ \A k \in DOMAIN rows: rows[k].collection = "SHADOW" => Trend!Kept(k)
  /\ minute' # minute =>
       \A k \in DOMAIN rows, g \in Grids:
         Trend!Kept(k) /\ Trend!Outcome(k, g) # "PENDING"
           => Trend!Outcome(k, g)' = Trend!Outcome(k, g)

LEMMA TrendStep ==
  ASSUME TrendInv, [Trend!Next]_trendVars PROVE TrendInv' /\ PastKept
<1>1. CASE UNCHANGED trendVars
  BY <1>1 DEF trendVars, TrendInv, Trend!NoLookahead, PastKept, Trend!Kept
<1>2. CASE Trend!Tick
  BY <1>2, TickJudges DEF PastKept, Trend!Kept
<1>3. ASSUME NEW t \in Tasks,
             \/ Trend!StartShadow(t) \/ Trend!AskShadow(t)
             \/ \E a \in Trend!GatewayAnswers: Trend!AnswerShadow(t, a)
      PROVE  TrendInv' /\ PastKept
  BY <1>3, ShadowSteps DEF PastKept, Trend!Kept
<1>4. CASE \/ \E g \in Grids, v \in Trend!Version, f \in BOOLEAN:
                Trend!BeginBatch(g, v, f)
           \/ Trend!NextInBatch \/ Trend!EndBatch
           \/ \E a \in Trend!GatewayAnswers: Trend!AnswerBatch(a)
  BY <1>4, BatchSteps DEF PastKept, Trend!Kept
<1> QED  BY <1>1, <1>2, <1>3, <1>4 DEF Trend!Next

THEOREM TrendSoundness == DecisionSpec => []TrendInv
<1>1. DecisionInit => TrendInv
  <2> SUFFICES ASSUME DecisionInit PROVE TrendInv
    OBVIOUS
  <2>1. Trend!Init
    BY DEF DecisionInit
  <2>2. IsTask(Trend!NoTask)
    BY NoAskIsAsk DEF IsTask, Trend!NoTask
  <2>3. /\ setting.grid \in Grids /\ minute \in Nat /\ DOMAIN rows = {}
        /\ DOMAIN tasks = Tasks /\ \A t \in Tasks: IsTask(tasks[t])
        /\ batch = Trend!NoBatch
    BY <2>1, <2>2 DEF Trend!Init
  <2> QED  BY <2>3 DEF TrendInv, IsBatch, Trend!NoLookahead
<1>2. [DecisionNext]_decisionVars => [Trend!Next]_trendVars
  BY DEF DecisionNext, decisionVars, trendVars
<1>3. TrendInv /\ [DecisionNext]_decisionVars => TrendInv'
  BY <1>2, TrendStep
<1> QED  BY <1>1, <1>3, PTL DEF DecisionSpec

(* No signal rests on a candle closed after the one it is about, in the    *)
(* live and in a batch.                                                    *)
THEOREM NothingAhead == DecisionSpec => []NoLookahead
<1>1. TrendInv => NoLookahead
  BY DEF TrendInv, NoLookahead
<1> QED  BY <1>1, TrendSoundness, PTL

(* What was recorded in the live stands, and an outcome that was judged    *)
(* stays the one it was.                                                   *)
THEOREM RecordsStand == DecisionSpec => PastStands
<1>1. [DecisionNext]_decisionVars => [Trend!Next]_trendVars
  BY DEF DecisionNext, decisionVars, trendVars
<1>2. TrendInv /\ [DecisionNext]_decisionVars => [PastKept]_trendVars
  BY <1>1, TrendStep
<1>3. DecisionSpec => [][PastKept]_trendVars
  BY <1>2, TrendSoundness, PTL DEF DecisionSpec
<1> QED  BY <1>3 DEF PastStands, Trend!PastStands, PastKept, trendVars, Trend!trendVars
-----------------------------------------------------------------------------
(***************************************************************************)
(* The market feed.                                                        *)
(***************************************************************************)
FeedPhases ==
  {"waiting", "fetching", "retryingMarketData", "resuming", "persisting"}

FeedTypes ==
  /\ now \in Timeframe..MaxTime /\ triggeredAt \in Timeframe..MaxTime
  /\ published \in Int /\ reference \in Int
  /\ windows \in [Feed!ClosedCandles -> Int]
  /\ phase \in FeedPhases
  /\ attempts \in Nat /\ retryAfter \in Nat /\ lastDecision \in Int
  /\ marketRetry \in [attempt: Nat, at: Int]
  /\ alarms \subseteq [at: Int, attempt: Nat, rearm: Nat]
  /\ lastMissed \in Int /\ decided \subseteq Int /\ reports \in Seq(Int)

(* A planned retry belongs to an attempt that was made; a row that was     *)
(* rearmed rings at a whole second.                                        *)
RetriesInForm ==
  /\ phase \in {"fetching", "retryingMarketData", "resuming"}
       => marketRetry.attempt <= attempts
  /\ phase \in {"retryingMarketData", "resuming"} => attempts > 0
  /\ \A row \in alarms: row.rearm > 0 => Feed!alignRetryInstant(row.at) = row.at

(* A row that takes up the planned retry: not rearmed yet, or not before   *)
(* the instant planned.                                                    *)
TakesUp(row) ==
  /\ row.at <= Feed!alignRetryInstant(marketRetry.at)
  /\ row.rearm = 0 \/ row.at >= marketRetry.at

RetryIsArmed ==
  phase \in {"retryingMarketData", "resuming"} /\ marketRetry.attempt = attempts
    => \/ phase = "resuming" /\ now >= marketRetry.at
       \/ \E row \in alarms: TakesUp(row)

(* Every report is of a window that is over, and none is above the last.   *)
ReportsAreOver ==
  \A i \in DOMAIN reports:
    reports[i] <= lastMissed /\ now - reports[i] > MaxStaleness

DecidedIsPast == \A c \in decided: c <= lastDecision

FeedInv ==
  /\ FeedTypes /\ RetriesInForm /\ RetryIsArmed
  /\ ReportsAreOver /\ DecidedIsPast /\ Feed!NeverBoth

(* The instants of the feed.                                               *)
LEMMA AlignIsNext ==
  ASSUME NEW t \in Int
  PROVE  /\ Feed!alignRetryInstant(t) \in Int /\ t <= Feed!alignRetryInstant(t)
         /\ Feed!alignRetryInstant(Feed!alignRetryInstant(t)) = Feed!alignRetryInstant(t)
BY DEF Feed!alignRetryInstant, Feed!Second

(* A row at a whole second rings at its instant or later.                  *)
LEMMA RingsOnTime ==
  ASSUME NEW t \in Int, NEW u \in Int, Feed!alignRetryInstant(u) = u,
         t \div Feed!Second >= u \div Feed!Second
  PROVE  t >= u
BY DEF Feed!alignRetryInstant, Feed!Second

LEMMA QuotientUnique ==
  ASSUME NEW q \in Int, NEW d \in Nat, d > 0 PROVE (q * d) \div d = q
BY Z3

LEMMA ExpectedIsCandle ==
  ASSUME NEW t \in Timeframe..MaxTime
  PROVE  Feed!Expected(t) \in Feed!ClosedCandles
<1> DEFINE q == t \div Timeframe
<1>1. /\ Timeframe \in Nat /\ Timeframe > 0 /\ MaxTime \in Nat /\ t \in Int
      /\ Timeframe <= t /\ t <= MaxTime
  BY FeedAssumption
<1>2. q \in Int /\ q * Timeframe <= t /\ t < (q + 1) * Timeframe
  BY <1>1
<1>3. q >= 1
  BY <1>1, <1>2
<1> HIDE DEF q
<1>4. q * Timeframe \in Int /\ q * Timeframe >= Timeframe
  BY <1>1, <1>2, <1>3
<1>5. (q * Timeframe) \div Timeframe = q
  BY <1>1, <1>2, QuotientUnique
<1>6. q * Timeframe \in Timeframe..MaxTime
  BY <1>1, <1>2, <1>4
<1> QED  BY <1>5, <1>6 DEF Feed!Expected, Feed!ClosedCandles, q

LEMMA MinOfTwo ==
  ASSUME NEW a \in Int, NEW b \in Int
  PROVE  Feed!Min({a, b}) \in {a, b} /\ Feed!Min({a, b}) \in Int
<1>1. \E x \in {a, b}: \A y \in {a, b}: x <= y
  <2>1. CASE a <= b
    BY <2>1
  <2>2. CASE b <= a
    BY <2>2
  <2> QED  BY <2>1, <2>2
<1> QED  BY <1>1 DEF Feed!Min

LEMMA MaxOfTwo ==
  ASSUME NEW a \in Int, NEW b \in Int
  PROVE  Feed!Max({a, b}) \in {a, b} /\ Feed!Max({a, b}) \in Int
<1>1. \E x \in {a, b}: \A y \in {a, b}: x >= y
  <2>1. CASE a >= b
    BY <2>1
  <2>2. CASE b >= a
    BY <2>2
  <2> QED  BY <2>1, <2>2
<1> QED  BY <1>1 DEF Feed!Max

LEMMA NextRetryIsInstant ==
  ASSUME FeedTypes, NEW attempt \in Nat, NEW after \in Nat
  PROVE  Feed!NextRetryAt(attempt, after) \in Int
<1>1. Len(RetryDelays) \in Nat /\ Len(RetryDelays) > 0 /\ MaxDelay \in Int
  BY FeedAssumption
<1> DEFINE i == Feed!Min({attempt + 1, Len(RetryDelays)})
<1>2. i \in {attempt + 1, Len(RetryDelays)} /\ i <= Len(RetryDelays)
  <2>1. i \in {attempt + 1, Len(RetryDelays)}
    BY <1>1, MinOfTwo
  <2>2. \E x \in {attempt + 1, Len(RetryDelays)}:
          \A y \in {attempt + 1, Len(RetryDelays)}: x <= y
    <3>1. CASE attempt + 1 <= Len(RetryDelays)
      BY <1>1, <3>1
    <3>2. CASE Len(RetryDelays) <= attempt + 1
      BY <1>1, <3>2
    <3> QED  BY <1>1, <3>1, <3>2
  <2>3. \A y \in {attempt + 1, Len(RetryDelays)}: i <= y
    BY <2>2 DEF Feed!Min
  <2> QED  BY <2>1, <2>3
<1>3. i \in DOMAIN RetryDelays
  BY <1>1, <1>2, FeedAssumption
<1>4. RetryDelays[i] \in Int
  BY <1>3, FeedAssumption
<1> HIDE DEF i
<1>5. Feed!Max({RetryDelays[i], after}) \in Int
  BY <1>4, MaxOfTwo
<1>6. Feed!delayForAttempt(attempt, after) \in Int
  BY <1>1, <1>5, MinOfTwo DEF Feed!delayForAttempt, i
<1>7. now \in Int
  BY DEF FeedTypes
<1> QED  BY <1>6, <1>7, AlignIsNext DEF Feed!NextRetryAt

-----------------------------------------------------------------------------
(* What the history is made of.                                            *)
HistoryIsTrue == ReportsAreOver /\ DecidedIsPast /\ Feed!NeverBoth

LEMMA HistoryKept ==
  ASSUME FeedInv, UNCHANGED <<lastMissed, reports, lastDecision, decided>>,
         now' \in Int, now <= now'
  PROVE  HistoryIsTrue'
<1>1. now \in Int /\ MaxStaleness \in Int /\ reports \in Seq(Int)
  BY FeedAssumption DEF FeedInv, FeedTypes
<1>2. ReportsAreOver'
  BY <1>1 DEF FeedInv, ReportsAreOver
<1>3. DecidedIsPast' /\ Feed!NeverBoth'
  BY DEF FeedInv, DecidedIsPast, Feed!NeverBoth
<1> QED  BY <1>2, <1>3 DEF HistoryIsTrue

(* A candle that is decided is fresh: none of the reports is about it.     *)
LEMMA DecisionIsNew ==
  ASSUME FeedInv, NEW start \in Int, start > lastDecision, Feed!Fresh(start),
         lastDecision' = start, decided' = decided \cup {start},
         UNCHANGED <<now, lastMissed, reports>>
  PROVE  HistoryIsTrue'
<1>1. now \in Int /\ MaxStaleness \in Int /\ reports \in Seq(Int)
      /\ lastDecision \in Int /\ decided \subseteq Int
  BY FeedAssumption DEF FeedInv, FeedTypes
<1>2. \A i \in DOMAIN reports: reports[i] # start
  BY <1>1 DEF FeedInv, ReportsAreOver, Feed!Fresh
<1>3. Feed!NeverBoth'
  BY <1>2 DEF FeedInv, Feed!NeverBoth
<1>4. DecidedIsPast'
  BY <1>1 DEF FeedInv, DecidedIsPast
<1>5. ReportsAreOver'
  BY DEF FeedInv, ReportsAreOver
<1> QED  BY <1>3, <1>4, <1>5 DEF HistoryIsTrue

(* A miss that is reported was not decided, and is above every report.     *)
LEMMA ReportIsNew ==
  ASSUME FeedInv, Feed!Missed, lastMissed' = Feed!Expected(triggeredAt),
         Feed!Report(Feed!Expected(triggeredAt)),
         UNCHANGED <<now, lastDecision, decided>>
  PROVE  HistoryIsTrue' /\ lastMissed' \in Int /\ reports' \in Seq(Int)
<1> DEFINE start == Feed!Expected(triggeredAt)
<1>1. now \in Int /\ MaxStaleness \in Int /\ reports \in Seq(Int)
      /\ lastDecision \in Int /\ decided \subseteq Int /\ lastMissed \in Int
  BY FeedAssumption DEF FeedInv, FeedTypes
<1>2. start \in Int
  BY ExpectedIsCandle, FeedAssumption DEF FeedInv, FeedTypes, Feed!ClosedCandles
<1>3. now - start > MaxStaleness /\ lastDecision < start /\ lastMissed < start
  BY DEF Feed!Missed
<1> HIDE DEF start
<1>4. reports' = Append(reports, start) /\ lastMissed' = start
  BY DEF Feed!Report, start
<1>5. /\ DOMAIN reports' = DOMAIN reports \cup {Len(reports) + 1}
      /\ reports'[Len(reports) + 1] = start /\ reports' \in Seq(Int)
      /\ \A i \in DOMAIN reports: reports'[i] = reports[i] /\ reports[i] \in Int
  BY <1>1, <1>2, <1>4
<1>6. \A i \in DOMAIN reports: reports[i] <= lastMissed /\ now - reports[i] > MaxStaleness
  BY DEF FeedInv, ReportsAreOver
<1>7. ReportsAreOver'
  BY <1>1, <1>2, <1>3, <1>4, <1>5, <1>6 DEF ReportsAreOver
<1>8. start \notin decided
  BY <1>1, <1>2, <1>3 DEF FeedInv, DecidedIsPast
<1>9. \A i \in DOMAIN reports: reports[i] < start
  BY <1>1, <1>2, <1>3, <1>5, <1>6
<1>10. \A i, j \in DOMAIN reports': reports'[i] = reports'[j] => i = j
  BY <1>2, <1>5, <1>9 DEF FeedInv, Feed!NeverBoth
<1>11. \A i \in DOMAIN reports': reports'[i] \notin decided
  BY <1>5, <1>8 DEF FeedInv, Feed!NeverBoth
<1> QED  BY <1>2, <1>4, <1>5, <1>7, <1>10, <1>11
     DEF HistoryIsTrue, FeedInv, DecidedIsPast, Feed!NeverBoth

-----------------------------------------------------------------------------
(* Where an invocation leads.                                              *)

(* The venues and the cache changed, the clock and the reports did not.    *)
Answered ==
  /\ UNCHANGED <<now, lastMissed, reports>>
  /\ published' \in Int /\ reference' \in Int
  /\ windows' \in [Feed!ClosedCandles -> Int]

(* A retry that was not planned yet is made at once, or planned with its   *)
(* alarm, or its checkpoint is refused and nothing is planned.             *)
LEMMA RetryKeeps ==
  ASSUME FeedInv, Answered, NEW n \in Nat \ {0}, NEW after \in Nat,
         Feed!Retry(n, after), marketRetry.attempt < n
  PROVE  FeedInv'
<1> DEFINE due == Feed!NextRetryAt(n - 1, after)
           wake == Feed!Wake(due, n)
<1>1. due \in Int /\ due <= Feed!alignRetryInstant(due)
      /\ Feed!alignRetryInstant(due) \in Int
  BY NextRetryIsInstant, AlignIsNext DEF FeedInv
<1>2. /\ attempts' = n /\ retryAfter' = after
      /\ UNCHANGED <<triggeredAt, lastDecision, decided>>
      /\ \/ phase' = "fetching" /\ UNCHANGED <<marketRetry, alarms>>
         \/ phase' = "retryingMarketData" /\ UNCHANGED <<marketRetry, alarms>>
         \/ /\ phase' = "retryingMarketData"
            /\ marketRetry' = [attempt |-> n, at |-> due]
            /\ alarms' = alarms \cup {wake}
  BY DEF Feed!Retry, Feed!Fetch, Feed!wakes
<1>3. /\ wake \in [at: Int, attempt: Nat, rearm: Nat]
      /\ wake.at = due /\ wake.rearm = 0
  BY <1>1 DEF Feed!Wake
<1> HIDE DEF due, wake
<1>4. FeedTypes'
  BY <1>1, <1>2, <1>3 DEF FeedInv, FeedTypes, FeedPhases, Answered
<1>5. HistoryIsTrue'
  BY <1>2, HistoryKept DEF Answered, FeedInv, FeedTypes
<1>6. CASE UNCHANGED <<marketRetry, alarms>>
  <2>1. marketRetry.attempt \in Nat
    BY DEF FeedInv, FeedTypes
  <2>2. RetriesInForm' /\ RetryIsArmed'
    BY <1>2, <1>6, <2>1 DEF FeedInv, RetriesInForm, RetryIsArmed
  <2> QED  BY <1>4, <1>5, <2>2 DEF FeedInv, HistoryIsTrue
<1>7. CASE /\ phase' = "retryingMarketData"
           /\ marketRetry' = [attempt |-> n, at |-> due]
           /\ alarms' = alarms \cup {wake}
  <2>1. RetriesInForm'
    BY <1>2, <1>3, <1>7 DEF FeedInv, RetriesInForm
  <2>2. wake \in alarms' /\ marketRetry'.at = due
    BY <1>7
  <2>3. wake.at <= Feed!alignRetryInstant(marketRetry'.at) /\ wake.rearm = 0
    BY <1>1, <1>3, <2>2
  <2>4. RetryIsArmed'
    BY <2>2, <2>3 DEF RetryIsArmed, TakesUp
  <2> QED  BY <1>4, <1>5, <2>1, <2>4 DEF FeedInv, HistoryIsTrue
<1> QED  BY <1>2, <1>6, <1>7

(* The cycle closes, with a decision or without.                           *)
LEMMA CloseKeeps ==
  ASSUME FeedInv, Answered, phase' = "persisting", attempts' \in Nat,
         UNCHANGED <<triggeredAt, retryAfter, marketRetry, alarms>>,
         \/ UNCHANGED <<lastDecision, decided>>
         \/ \E start \in Int:
              /\ start > lastDecision /\ Feed!Fresh(start)
              /\ lastDecision' = start /\ decided' = decided \cup {start}
  PROVE  FeedInv'
<1>1. FeedTypes'
  BY DEF FeedInv, FeedTypes, FeedPhases, Answered
<1>2. RetriesInForm' /\ RetryIsArmed'
  BY DEF FeedInv, RetriesInForm, RetryIsArmed
<1>3. HistoryIsTrue'
  <2>1. CASE UNCHANGED <<lastDecision, decided>>
    BY <2>1, HistoryKept DEF Answered, FeedInv, FeedTypes
  <2>2. ASSUME NEW start \in Int, start > lastDecision, Feed!Fresh(start),
               lastDecision' = start, decided' = decided \cup {start}
        PROVE  HistoryIsTrue'
    BY <2>2, DecisionIsNew DEF Answered
  <2> QED  BY <2>1, <2>2
<1> QED  BY <1>1, <1>2, <1>3 DEF FeedInv, HistoryIsTrue

LEMMA FailureKeeps ==
  ASSUME FeedInv, Answered, phase = "fetching", NEW after \in Nat,
         Feed!MarketFailed(after)
  PROVE  FeedInv'
<1>1. CASE Feed!Retry(attempts + 1, after)
  <2>1. attempts + 1 \in Nat \ {0} /\ marketRetry.attempt < attempts + 1
    BY DEF FeedInv, FeedTypes, RetriesInForm
  <2> QED  BY <1>1, <2>1, RetryKeeps
<1>2. CASE Feed!Abandon
  BY <1>2, CloseKeeps DEF Feed!Abandon, Feed!Close, Feed!wakes, FeedInv, FeedTypes
<1> QED  BY <1>1, <1>2 DEF Feed!MarketFailed

LEMMA AbandonKeeps ==
  ASSUME FeedInv, Answered, Feed!Abandon PROVE FeedInv'
BY CloseKeeps DEF Feed!Abandon, Feed!Close, Feed!wakes, FeedInv, FeedTypes

LEMMA SnapshotKeeps ==
  ASSUME FeedInv, Answered, phase = "fetching", NEW start \in Int,
         Feed!Snapshot(start)
  PROVE  FeedInv'
<1>1. ASSUME NEW after \in Nat, Feed!MarketFailed(after) PROVE FeedInv'
  BY <1>1, FailureKeeps
<1>2. CASE Feed!Abandon
  BY <1>2, AbandonKeeps
<1>3. CASE Feed!MarketReady(start)
  <2>1. CASE Feed!Retry(attempts + 1, 0)
    <3>1. attempts + 1 \in Nat \ {0} /\ marketRetry.attempt < attempts + 1
      BY DEF FeedInv, FeedTypes, RetriesInForm
    <3> QED  BY <2>1, <3>1, RetryKeeps
  <2>2. CASE Feed!Close(0) /\ UNCHANGED <<lastDecision, decided>>
    BY <2>2, CloseKeeps DEF Feed!Close, Feed!wakes
  <2>3. CASE /\ start > lastDecision /\ Feed!Fresh(start)
             /\ Feed!Close(0) /\ lastDecision' = start
             /\ decided' = decided \cup {start}
    BY <2>3, CloseKeeps DEF Feed!Close, Feed!wakes
  <2> QED  BY <1>2, <1>3, <2>1, <2>2, <2>3 DEF Feed!MarketReady
<1>4. \A after \in RetryAfters: after \in Nat
  BY FeedAssumption
<1> QED  BY <1>1, <1>2, <1>3, <1>4 DEF Feed!Snapshot, Feed!FetchTicker

(* Any source, or none, answers.                                           *)
LEMMA SourcesKeep ==
  ASSUME FeedInv,
         Feed!CoinbaseServes \/ Feed!BackupServes \/ Feed!AllSourcesFail
  PROVE  FeedInv'
<1>1. /\ phase = "fetching" /\ UNCHANGED <<now, published, lastMissed, reports>>
      /\ published \in Int /\ reference \in Int
      /\ windows \in [Feed!ClosedCandles -> Int]
      /\ triggeredAt \in Timeframe..MaxTime
  BY DEF FeedInv, FeedTypes, Feed!CoinbaseServes, Feed!BackupServes,
     Feed!AllSourcesFail, Feed!market
<1>2. Feed!Expected(triggeredAt) \in Feed!ClosedCandles
      /\ Feed!Expected(triggeredAt) \in Int
  BY <1>1, ExpectedIsCandle DEF Feed!ClosedCandles
<1>3. CASE Feed!CoinbaseServes
  <2>1. ASSUME NEW start \in Feed!Cached, UNCHANGED windows,
               Feed!WriteReference(start), Feed!Snapshot(start)
        PROVE  FeedInv'
    <3>1. start \in Int
      BY <1>1, <1>2 DEF Feed!Cached
    <3>2. Answered
      BY <1>1, <2>1, <3>1 DEF Answered, Feed!WriteReference
    <3> QED  BY <1>1, <2>1, <3>1, <3>2, SnapshotKeeps
  <2> DEFINE answer == Feed!CoinbaseAnswer
  <2>2. ASSUME windows' = [windows EXCEPT ![Feed!Expected(triggeredAt)] = answer],
               Feed!WriteReference(answer), Feed!Snapshot(answer)
        PROVE  FeedInv'
    <3>1. answer \in Int
      BY <1>1, <1>2, MinOfTwo DEF Feed!CoinbaseAnswer
    <3> HIDE DEF answer
    <3>2. Answered
      BY <1>1, <1>2, <2>2, <3>1 DEF Answered, Feed!WriteReference
    <3> QED  BY <1>1, <2>2, <3>1, <3>2, SnapshotKeeps
  <2> QED  BY <1>3, <2>1, <2>2 DEF Feed!CoinbaseServes
<1>4. CASE Feed!BackupServes
  <2>1. PICK start \in Feed!HyperliquidCandles \cup Feed!DydxCandles:
          Feed!Snapshot(start)
    BY <1>4 DEF Feed!BackupServes
  <2>2. start \in Int
    BY DEF Feed!HyperliquidCandles, Feed!DydxCandles, Feed!ClosedCandles
  <2>3. Answered
    BY <1>1, <1>4 DEF Answered, Feed!BackupServes, Feed!market
  <2> QED  BY <1>1, <2>1, <2>2, <2>3, SnapshotKeeps
<1>5. CASE Feed!AllSourcesFail
  <2>1. Answered
    BY <1>1, <1>5 DEF Answered, Feed!AllSourcesFail, Feed!market
  <2>2. \A after \in RetryAfters: after \in Nat
    BY FeedAssumption
  <2> QED  BY <1>1, <1>5, <2>1, <2>2, FailureKeeps, AbandonKeeps DEF Feed!AllSourcesFail
<1> QED  BY <1>3, <1>4, <1>5

-----------------------------------------------------------------------------
(* The Durable Object.                                                     *)

(* A new cycle plans no retry yet.                                         *)
LEMMA NewCycleStarts ==
  ASSUME FeedInv, Feed!NewCycle
  PROVE  /\ phase' = "fetching" /\ triggeredAt' = now /\ attempts' = 0
         /\ retryAfter' = 0 /\ marketRetry' = [attempt |-> 0, at |-> Feed!None]
BY DEF Feed!NewCycle, Feed!Fetch

LEMMA ResumeKeeps == ASSUME FeedInv, Feed!Resume PROVE FeedInv'
<1>1. /\ phase = "resuming" /\ Answered
      /\ marketRetry.attempt <= attempts /\ attempts \in Nat \ {0}
      /\ retryAfter \in Nat /\ marketRetry.attempt \in Nat
  BY DEF Feed!Resume, FeedInv, FeedTypes, RetriesInForm, Answered, Feed!market
<1>2. CASE marketRetry.attempt # attempts /\ Feed!Retry(attempts, retryAfter)
  BY <1>1, <1>2, RetryKeeps
<1>3. CASE /\ UNCHANGED <<triggeredAt, attempts, retryAfter, lastDecision, marketRetry,
                          alarms, decided>>
           /\ \/ phase' = "fetching"
              \/ phase' = "retryingMarketData" /\ now < marketRetry.at
  <2>1. FeedTypes'
    BY <1>1, <1>3 DEF FeedInv, FeedTypes, FeedPhases, Answered
  <2>2. RetriesInForm'
    BY <1>1, <1>3 DEF FeedInv, RetriesInForm
  <2>3. RetryIsArmed'
    <3>1. CASE phase' = "fetching"
      BY <3>1 DEF RetryIsArmed
    <3>2. CASE now < marketRetry.at /\ marketRetry.attempt = attempts
      <4>1. now \in Int /\ marketRetry.at \in Int
        BY DEF FeedInv, FeedTypes
      <4>2. \E row \in alarms: TakesUp(row)
        BY <1>1, <3>2, <4>1 DEF FeedInv, RetryIsArmed
      <4> QED  BY <1>3, <4>2 DEF RetryIsArmed, TakesUp
    <3> QED  BY <1>3, <3>1, <3>2 DEF RetryIsArmed
  <2>4. HistoryIsTrue'
    BY <1>1, <1>3, HistoryKept DEF Answered, FeedInv, FeedTypes
  <2> QED  BY <2>1, <2>2, <2>3, <2>4 DEF FeedInv, HistoryIsTrue
<1>4. \/ marketRetry.attempt # attempts /\ Feed!Retry(attempts, retryAfter)
      \/ /\ UNCHANGED <<triggeredAt, attempts, retryAfter, lastDecision, marketRetry,
                       alarms, decided>>
         /\ \/ phase' = "fetching"
            \/ phase' = "retryingMarketData" /\ now < marketRetry.at
  BY DEF Feed!Resume, Feed!Fetch, Feed!wakes
<1> QED  BY <1>2, <1>3, <1>4

LEMMA EndKeeps == ASSUME FeedInv, Feed!EndCycle PROVE FeedInv'
<1>1. /\ phase = "persisting" /\ UNCHANGED <<now, published, windows, reference>>
      /\ UNCHANGED <<lastDecision, alarms, decided>>
      /\ \/ Feed!NewCycle
         \/ phase' = "waiting"
            /\ UNCHANGED <<triggeredAt, attempts, retryAfter, marketRetry>>
  BY DEF Feed!EndCycle, Feed!market
<1>2. HistoryIsTrue' /\ lastMissed' \in Int /\ reports' \in Seq(Int)
  <2>1. CASE Feed!Missed
    BY <1>1, <2>1, ReportIsNew DEF Feed!EndCycle
  <2>2. CASE ~Feed!Missed
    <3>1. UNCHANGED <<lastMissed, reports>>
      BY <2>2 DEF Feed!EndCycle
    <3> QED  BY <1>1, <3>1, HistoryKept DEF FeedInv, FeedTypes
  <2> QED  BY <2>1, <2>2
<1>3. FeedTypes' /\ RetriesInForm' /\ RetryIsArmed'
  <2>1. CASE Feed!NewCycle
    <3>1. /\ phase' = "fetching" /\ triggeredAt' = now /\ attempts' = 0
          /\ retryAfter' = 0 /\ marketRetry' = [attempt |-> 0, at |-> -1]
      BY <2>1, NewCycleStarts DEF Feed!None
    <3>2. FeedTypes'
      BY <1>1, <1>2, <3>1 DEF FeedInv, FeedTypes, FeedPhases
    <3> QED  BY <1>1, <3>1, <3>2 DEF FeedInv, RetriesInForm, RetryIsArmed
  <2>2. CASE phase' = "waiting"
             /\ UNCHANGED <<triggeredAt, attempts, retryAfter, marketRetry>>
    <3>1. FeedTypes'
      BY <1>1, <1>2, <2>2 DEF FeedInv, FeedTypes, FeedPhases
    <3> QED  BY <1>1, <2>2, <3>1 DEF FeedInv, RetriesInForm, RetryIsArmed
  <2> QED  BY <1>1, <2>1, <2>2
<1> QED  BY <1>2, <1>3 DEF FeedInv, HistoryIsTrue

LEMMA GridKeeps == ASSUME FeedInv, Feed!GridTick PROVE FeedInv'
<1>1. /\ UNCHANGED <<now, published, windows, reference, lastDecision, alarms,
                     lastMissed, decided, reports>>
      /\ \/ Feed!NewCycle
         \/ /\ phase = "retryingMarketData" /\ phase' = "resuming"
            /\ UNCHANGED <<triggeredAt, attempts, retryAfter, marketRetry>>
  BY DEF Feed!GridTick, Feed!market, Feed!history
<1>2. HistoryIsTrue'
  BY <1>1, HistoryKept DEF FeedInv, FeedTypes
<1>3. CASE Feed!NewCycle
  <2>1. /\ phase' = "fetching" /\ triggeredAt' = now /\ attempts' = 0
        /\ retryAfter' = 0 /\ marketRetry' = [attempt |-> 0, at |-> -1]
    BY <1>3, NewCycleStarts DEF Feed!None
  <2>2. FeedTypes'
    BY <1>1, <2>1 DEF FeedInv, FeedTypes, FeedPhases
  <2> QED  BY <1>1, <1>2, <2>1, <2>2
       DEF FeedInv, RetriesInForm, RetryIsArmed, HistoryIsTrue
<1>4. CASE /\ phase = "retryingMarketData" /\ phase' = "resuming"
           /\ UNCHANGED <<triggeredAt, attempts, retryAfter, marketRetry>>
  <2>1. FeedTypes'
    BY <1>1, <1>4 DEF FeedInv, FeedTypes, FeedPhases
  <2>2. RetriesInForm'
    BY <1>1, <1>4 DEF FeedInv, RetriesInForm
  <2>3. RetryIsArmed'
    BY <1>1, <1>4 DEF FeedInv, RetryIsArmed, TakesUp
  <2> QED  BY <1>2, <2>1, <2>2, <2>3 DEF FeedInv, HistoryIsTrue
<1> QED  BY <1>1, <1>3, <1>4

(* A row that rings is rearmed to the instant planned, is taken up, or has *)
(* nothing to take up any more.                                            *)
LEMMA RetryTickKeeps == ASSUME FeedInv, Feed!RetryTick PROVE FeedInv'
<1>1. PICK row \in alarms:
        /\ phase \in {"waiting", "retryingMarketData"}
        /\ now \div Feed!Second >= row.at \div Feed!Second
        /\ \/ /\ now < Feed!PendingAt /\ row.rearm < MaxRearms
              /\ alarms' = (alarms \cup {Feed!Rearmed(row)}) \ {row}
              /\ UNCHANGED phase
           \/ /\ now >= Feed!PendingAt /\ phase = "retryingMarketData"
              /\ alarms' = alarms \ {row} /\ phase' = "resuming"
           \/ /\ phase = "waiting" \/ (now < Feed!PendingAt /\ row.rearm >= MaxRearms)
              /\ alarms' = alarms \ {row} /\ UNCHANGED phase
        /\ UNCHANGED <<now, published, windows, reference, triggeredAt, attempts,
                       retryAfter, lastDecision, marketRetry, lastMissed, decided,
                       reports>>
  BY DEF Feed!RetryTick, Feed!Idle, Feed!market, Feed!history
<1>2. /\ row \in [at: Int, attempt: Nat, rearm: Nat] /\ now \in Int /\ now >= 0
      /\ marketRetry.at \in Int /\ MaxRearms \in Nat /\ MaxRearms > 0
  BY FeedAssumption DEF FeedInv, FeedTypes
<1>3. HistoryIsTrue'
  BY <1>1, HistoryKept DEF FeedInv, FeedTypes
<1>4. CASE /\ now < Feed!PendingAt /\ row.rearm < MaxRearms
           /\ alarms' = (alarms \cup {Feed!Rearmed(row)}) \ {row}
           /\ UNCHANGED phase
  <2>1. phase = "retryingMarketData" /\ Feed!PendingAt = marketRetry.at
    BY <1>1, <1>2, <1>4 DEF Feed!PendingAt, Feed!None
  <2> DEFINE again == Feed!Rearmed(row)
             due == Feed!alignRetryInstant(marketRetry.at)
  <2>2. due \in Int /\ marketRetry.at <= due /\ Feed!alignRetryInstant(due) = due
    BY <1>2, AlignIsNext
  <2>3. /\ again \in [at: Int, attempt: Nat, rearm: Nat]
        /\ again.at = due /\ again.rearm = row.rearm + 1
    <3>1. again = [row EXCEPT !.at = due, !.rearm = @ + 1]
      BY <2>1, Zenon DEF Feed!Rearmed
    <3> HIDE DEF again, due
    <3>2. again = [at |-> due, attempt |-> row.attempt, rearm |-> row.rearm + 1]
      BY <1>2, <3>1
    <3>3. row.attempt \in Nat /\ row.rearm + 1 \in Nat /\ due \in Int
      BY <1>2, <2>2
    <3> QED  BY <3>2, <3>3
  <2> HIDE DEF again, due
  <2>4. again # row /\ again \in alarms'
        /\ alarms' \subseteq alarms \cup {again}
    BY <1>2, <1>4, <2>3 DEF again
  <2>5. FeedTypes'
    BY <1>1, <1>4, <2>3, <2>4 DEF FeedInv, FeedTypes
  <2>6. RetriesInForm'
    BY <1>1, <1>4, <2>2, <2>3, <2>4 DEF FeedInv, RetriesInForm
  <2>7. again.at <= Feed!alignRetryInstant(marketRetry'.at)
        /\ again.at >= marketRetry'.at
    BY <1>1, <2>2, <2>3 DEF due
  <2>8. RetryIsArmed'
    BY <2>4, <2>7 DEF RetryIsArmed, TakesUp
  <2> QED  BY <1>3, <2>5, <2>6, <2>8 DEF FeedInv, HistoryIsTrue
<1>5. CASE /\ now >= Feed!PendingAt /\ phase = "retryingMarketData"
           /\ alarms' = alarms \ {row} /\ phase' = "resuming"
  <2>1. now >= marketRetry.at
    BY <1>5 DEF Feed!PendingAt
  <2>2. FeedTypes'
    BY <1>1, <1>5 DEF FeedInv, FeedTypes, FeedPhases
  <2>3. RetriesInForm'
    BY <1>1, <1>5 DEF FeedInv, RetriesInForm
  <2>4. RetryIsArmed'
    BY <1>1, <1>5, <2>1 DEF RetryIsArmed
  <2> QED  BY <1>3, <2>2, <2>3, <2>4 DEF FeedInv, HistoryIsTrue
<1>6. CASE /\ phase = "waiting" \/ (now < Feed!PendingAt /\ row.rearm >= MaxRearms)
           /\ alarms' = alarms \ {row} /\ UNCHANGED phase
  <2>1. FeedTypes'
    BY <1>1, <1>6 DEF FeedInv, FeedTypes
  <2>2. RetriesInForm'
    BY <1>1, <1>6 DEF FeedInv, RetriesInForm
  <2>3. RetryIsArmed'
    <3>1. CASE phase = "waiting"
      BY <1>6, <3>1 DEF RetryIsArmed
    <3>2. CASE phase = "retryingMarketData" /\ marketRetry.attempt = attempts
      <4>1. now < marketRetry.at /\ row.rearm >= MaxRearms
        BY <1>6, <3>2 DEF Feed!PendingAt
      <4>2. PICK other \in alarms: TakesUp(other)
        BY <3>2 DEF FeedInv, RetryIsArmed
      <4>3. Feed!alignRetryInstant(row.at) = row.at
        BY <1>2, <4>1 DEF FeedInv, RetriesInForm
      <4>4. now >= row.at
        BY <1>1, <1>2, <4>3, RingsOnTime
      <4>5. other # row
        BY <1>2, <4>1, <4>2, <4>4 DEF TakesUp
      <4>6. other \in alarms'
        BY <1>6, <4>5
      <4> QED  BY <1>1, <4>2, <4>6 DEF RetryIsArmed, TakesUp
    <3> QED  BY <1>1, <1>6, <3>1, <3>2 DEF RetryIsArmed
  <2> QED  BY <1>3, <2>1, <2>2, <2>3 DEF FeedInv, HistoryIsTrue
<1> QED  BY <1>1, <1>4, <1>5, <1>6

(* The venue, the cache and the clock, which does not run while a retry is *)
(* resumed.                                                                *)
LEMMA SurroundingsKeep ==
  ASSUME FeedInv, Feed!ReferenceExpires \/ Feed!Publish \/ Feed!Tick
  PROVE  FeedInv'
<1>1. /\ UNCHANGED <<windows, phase, triggeredAt, attempts, retryAfter, lastDecision,
                     marketRetry, alarms, lastMissed, decided, reports>>
      /\ published' \in Int /\ reference' \in Int
      /\ \/ now' = now
         \/ now' = now + 1 /\ now < MaxTime /\ phase # "resuming"
  <2>1. published \in Int /\ reference \in Int /\ Timeframe \in Int
    BY FeedAssumption DEF FeedInv, FeedTypes
  <2>2. CASE Feed!ReferenceExpires
    BY <2>1, <2>2 DEF Feed!ReferenceExpires, Feed!None, Feed!cycle, Feed!wakes,
       Feed!history
  <2>3. CASE Feed!Publish
    BY <2>1, <2>3 DEF Feed!Publish, Feed!cycle, Feed!wakes, Feed!history
  <2>4. CASE Feed!Tick
    BY <2>1, <2>4 DEF Feed!Tick, Feed!cycle, Feed!wakes, Feed!history, Feed!market,
       Feed!Idle
  <2> QED  BY <2>2, <2>3, <2>4
<1>2. now \in Int /\ now >= Timeframe /\ now <= MaxTime
      /\ Timeframe \in Int /\ MaxTime \in Int
  BY FeedAssumption DEF FeedInv, FeedTypes
<1>3. now' \in Timeframe..MaxTime /\ now <= now' /\ now' \in Int
  BY <1>1, <1>2
<1>4. FeedTypes'
  BY <1>1, <1>3 DEF FeedInv, FeedTypes
<1>5. RetriesInForm'
  BY <1>1 DEF FeedInv, RetriesInForm
<1>6. RetryIsArmed'
  BY <1>1 DEF FeedInv, RetryIsArmed, TakesUp
<1>7. HistoryIsTrue'
  BY <1>1, <1>3, HistoryKept
<1> QED  BY <1>4, <1>5, <1>6, <1>7 DEF FeedInv, HistoryIsTrue

LEMMA FeedStep == ASSUME FeedInv, Feed!Next PROVE FeedInv'
BY SourcesKeep, ResumeKeeps, EndKeeps, GridKeeps, RetryTickKeeps, SurroundingsKeep
   DEF Feed!Next

LEMMA FeedStarts == ASSUME Feed!Init PROVE FeedInv
<1> USE DEF Feed!Init
<1>1. /\ Timeframe \in Nat /\ Timeframe > 0 /\ MaxTime \in Nat
      /\ Timeframe <= MaxTime
  BY FeedAssumption
<1>2. /\ now \in Timeframe..MaxTime /\ triggeredAt \in Timeframe..MaxTime
      /\ now \in Int /\ published \in Int /\ reference \in Int
      /\ windows \in [Feed!ClosedCandles -> Int]
      /\ retryAfter \in Nat /\ lastDecision \in Int
      /\ lastMissed \in Int /\ decided = {} /\ reports = <<>>
  BY <1>1 DEF Feed!None
<1>3. ReportsAreOver /\ DecidedIsPast /\ Feed!NeverBoth
  BY <1>2 DEF ReportsAreOver, DecidedIsPast, Feed!NeverBoth
<1>4. CASE /\ phase = "waiting" /\ attempts = 0 /\ alarms = {}
           /\ marketRetry = [attempt |-> 0, at |-> Feed!None]
  <2>1. FeedTypes
    BY <1>2, <1>4 DEF FeedTypes, FeedPhases, Feed!None
  <2> QED  BY <1>3, <1>4, <2>1 DEF FeedInv, RetriesInForm, RetryIsArmed
<1>5. ASSUME NEW due \in now + 1 .. now + MaxDelay,
             phase = "retryingMarketData", attempts = 1,
             marketRetry = [attempt |-> 1, at |-> due],
             alarms = {Feed!Wake(due, 1)}
      PROVE  FeedInv
  <2> DEFINE wake == Feed!Wake(due, 1)
  <2>1. due \in Int
    BY <1>2, FeedAssumption
  <2>2. /\ wake \in [at: Int, attempt: Nat, rearm: Nat] /\ wake.at = due
        /\ wake.rearm = 0 /\ wake \in alarms
    BY <1>5, <2>1 DEF Feed!Wake
  <2> HIDE DEF wake
  <2>3. alarms = {wake}
    BY <1>5 DEF wake
  <2>4. FeedTypes
    BY <1>2, <1>5, <2>1, <2>2, <2>3 DEF FeedTypes, FeedPhases
  <2>5. RetriesInForm
    BY <1>5, <2>2, <2>3 DEF RetriesInForm
  <2>6. TakesUp(wake)
    BY <1>5, <2>1, <2>2, AlignIsNext DEF TakesUp
  <2> QED  BY <1>3, <2>2, <2>4, <2>5, <2>6 DEF FeedInv, RetryIsArmed
<1> QED  BY <1>4, <1>5

THEOREM FeedSoundness == DecisionSpec => []FeedInv
<1>1. DecisionInit => FeedInv
  BY FeedStarts DEF DecisionInit
<1>2. FeedInv /\ [DecisionNext]_decisionVars => FeedInv'
  <2> SUFFICES ASSUME FeedInv, [DecisionNext]_decisionVars PROVE FeedInv'
    OBVIOUS
  <2>1. CASE UNCHANGED feedVars
    BY <2>1 DEF feedVars, FeedInv, FeedTypes, RetriesInForm, RetryIsArmed, TakesUp,
       ReportsAreOver, DecidedIsPast, Feed!NeverBoth
  <2>2. UNCHANGED feedVars \/ Feed!Next
    BY DEF DecisionNext, decisionVars
  <2> QED  BY <2>1, <2>2, FeedStep
<1> QED  BY <1>1, <1>2, PTL DEF DecisionSpec

(* A cycle whose retry is planned and persisted has an alarm that takes it *)
(* up, through rows that ring early, rearmings and grid wakes.             *)
THEOREM RetryIsAwaited == DecisionSpec => []NoStrandedRetry
<1>1. FeedInv => NoStrandedRetry
  BY DEF FeedInv, RetryIsArmed, TakesUp, NoStrandedRetry, Feed!NoStrandedRetry
<1> QED  BY <1>1, FeedSoundness, PTL

(* No candle is reported as missed twice, or reported and decided.         *)
THEOREM MissedOrDecided == DecisionSpec => []NeverBoth
<1>1. FeedInv => NeverBoth
  BY DEF FeedInv, NeverBoth
<1> QED  BY <1>1, FeedSoundness, PTL
-----------------------------------------------------------------------------
(***************************************************************************)
(* The backtest of one product.  Between two steps of the replay a         *)
(* position under a policy has the armed plan of exactly that position.    *)
(***************************************************************************)
IsPlan(plan) ==
  plan \in [quantity: Int, entry: Int, stop: Int, take: Int, anchor: Int,
            armedAt: Int]

IsActor(a) ==
  /\ DOMAIN a = {"state", "policy", "plan", "start", "open", "last", "exit",
                 "fault"}
  /\ IsPlan(a.plan) /\ {a.start, a.open, a.last} \subseteq Int

(* An actor that guards a position of q under a policy.                    *)
Guards(a, q, policy) ==
  /\ IsActor(a) /\ a.policy = policy /\ a.plan.quantity = q

(* It awaits a candle that starts at t or later, or the range of c.        *)
Waits(a, t) ==
  /\ a.state = "awaitingOpen" /\ a.start = -1
  /\ a.last < t /\ a.plan.armedAt <= t
Sees(a, c) ==
  /\ a.state = "awaitingRange" /\ a.start = c.start /\ a.open = c.open
  /\ a.plan.armedAt <= c.start

(* A plan that no position can have fails, in multiples of the ATR only.   *)
NoLevels(a, policy) ==
  a.state = "failed" /\ a.fault = "plan" /\ policy.mode = "ATR"

(* An average entry is not below every price.                              *)
EntryPrice(e) == e \in Int /\ \E p \in Prices: p <= e

LEMMA ProductGrows ==
  ASSUME NEW n \in Nat, NEW a \in Int, NEW b \in Int, a <= b
  PROVE  n * a <= n * b /\ a * n <= b * n /\ n * a \in Int /\ n * b \in Int
<1>1. (b - a) \in Nat
  OBVIOUS
<1>2. n * (b - a) >= 0
  BY <1>1
<1> QED  BY <1>2

LEMMA QuotientIsOver ==
  ASSUME NEW n \in Int, NEW d \in Nat \ {0}, NEW m \in Int, d * m <= n
  PROVE  m <= n \div d
<1> DEFINE q == n \div d
<1>1. q \in Int /\ n < d * q + d
  OBVIOUS
<1> HIDE DEF q
<1>2. CASE q < m
  <2>1. d * (q + 1) <= d * m
    BY <1>1, <1>2, ProductGrows
  <2>2. d * (q + 1) = d * q + d
    BY <1>1
  <2> QED  BY <1>1, <2>1, <2>2
<1> QED  BY <1>1, <1>2 DEF q

LEMMA QuotientIsUnder ==
  ASSUME NEW n \in Int, NEW d \in Nat \ {0}, NEW m \in Int, n < d * m
  PROVE  n \div d < m
<1> DEFINE q == n \div d
<1>1. q \in Int /\ d * q <= n
  OBVIOUS
<1> HIDE DEF q
<1>2. CASE m <= q
  <2>1. d * m <= d * q
    BY <1>1, <1>2, ProductGrows
  <2> QED  BY <1>1, <2>1
<1> QED  BY <1>1, <1>2 DEF q

(* A share of a price that can be told apart is above zero, and below the  *)
(* price when it is less than the whole.                                   *)
LEMMA ShareIsProper ==
  ASSUME NEW e, EntryPrice(e), NEW n, Distance(n)
  PROVE  /\ e \in Nat \ {0} /\ Backtest!Share(e, n) \in Nat \ {0}
         /\ n < Whole => Backtest!Share(e, n) < e
<1>1. PICK p \in Prices: p <= e
  BY DEF EntryPrice
<1>2. /\ p \in Nat \ {0} /\ e \in Nat \ {0} /\ n \in Nat /\ Whole \in Nat \ {0}
      /\ p * n >= Whole
  BY <1>1, ReplayAssumption DEF EntryPrice, Distance
<1>3. p * n <= e * n /\ p * n \in Int /\ e * n \in Int
  BY <1>1, <1>2, ProductGrows
<1>4. 1 <= (e * n) \div Whole /\ (e * n) \div Whole \in Int
  <2>1. Whole * 1 <= e * n
    BY <1>2, <1>3
  <2> QED  BY <1>2, <1>3, <2>1, QuotientIsOver
<1>5. ASSUME n < Whole PROVE (e * n) \div Whole < e
  <2>1. e * (n + 1) <= e * Whole
    BY <1>2, <1>5, ProductGrows
  <2>2. e * (n + 1) = e * n + e /\ e * Whole = Whole * e
    BY <1>2
  <2>3. e * n < Whole * e
    BY <1>2, <1>3, <2>1, <2>2
  <2> QED  BY <1>2, <1>3, <2>3, QuotientIsUnder
<1> QED  BY <1>2, <1>4, <1>5 DEF Backtest!Share

(* The average of an entry and of the next purchase.                       *)
LEMMA AverageIsEntry ==
  ASSUME NEW held \in Nat, NEW bought \in Nat \ {0}, NEW e, NEW open \in Prices,
         NEW cost \in Nat, held > 0 => EntryPrice(e), e \in Int
  PROVE  EntryPrice((held * e + bought * (open + cost)) \div (held + bought))
<1>1. PICK m \in Prices: m <= open /\ (held > 0 => m <= e)
  BY ReplayAssumption DEF EntryPrice
<1>2. m \in Nat /\ open \in Nat
  BY ReplayAssumption
<1>3. bought * m <= bought * (open + cost) /\ bought * (open + cost) \in Int
  BY <1>1, <1>2, ProductGrows
<1>4. held * m <= held * e /\ held * e \in Int
  <2>1. CASE held = 0
    BY <1>2, <2>1
  <2>2. CASE held > 0
    BY <1>1, <1>2, <2>2, ProductGrows
  <2> QED  BY <2>1, <2>2
<1>5. (held + bought) * m = held * m + bought * m
  BY <1>2
<1> DEFINE n == held * e + bought * (open + cost)
<1>6. n \in Int /\ (held + bought) * m <= n
  BY <1>2, <1>3, <1>4, <1>5
<1> HIDE DEF n
<1>7. m <= n \div (held + bought) /\ n \div (held + bought) \in Int
  BY <1>2, <1>6, QuotientIsOver
<1> QED  BY <1>7 DEF EntryPrice, n

-----------------------------------------------------------------------------
(* What the machine of the protective order answers to each event.         *)
LEMMA FreshActor ==
  /\ IsActor(Backtest!NoActor) /\ Backtest!NoActor.state = "none"
  /\ Backtest!NoActor.start = -1 /\ Backtest!NoActor.last = -1
BY DEF IsActor, IsPlan, Backtest!NoActor, Backtest!NoPlan, Backtest!None,
   Backtest!Policy, Backtest!NoPolicy

(* A plan has the levels of its policy, but for multiples of the ATR.      *)
LEMMA PlanIsValid ==
  ASSUME NEW policy, Usable(policy), policy # Backtest!NoPolicy,
         NEW q \in Nat \ {0}, NEW e, EntryPrice(e), NEW x \in Nat, NEW t \in Int
  PROVE  LET plan == Backtest!Plan(policy, q, e, x, t)
         IN /\ IsPlan(plan) /\ plan.quantity = q /\ plan.armedAt = t
            /\ policy.mode = "ATR" \/ Backtest!ValidPlan(policy, plan, x)
<1> DEFINE plan == Backtest!Plan(policy, q, e, x, t)
<1>1. Backtest!NoPolicy = Levels!NoPolicy /\ Levels!None = -1 /\ Backtest!None = -1
  BY DEF Backtest!NoPolicy, Levels!NoPolicy, Backtest!Policy, Levels!Policy,
     Backtest!None, Levels!None
<1>2. e \in Nat \ {0}
  BY ReplayAssumption DEF EntryPrice
<1>3. CASE policy \in [mode: {"ATR"}, stop: Nat, take: Int]
  <2> DEFINE stop == x * policy.stop
             take == x * policy.take
  <2>1. stop \in Int /\ take \in Int
    BY <1>3
  <2>2. plan = [quantity |-> q, entry |-> e, stop |-> e - stop,
                take |-> IF policy.take = -1 THEN -1 ELSE e + take,
                anchor |-> e, armedAt |-> t]
    BY <1>1, <1>3 DEF Backtest!Plan
  <2> HIDE DEF stop, take, plan
  <2> QED  BY <1>2, <1>3, <2>1, <2>2 DEF IsPlan, plan
<1>4. CASE /\ policy \in [mode: {"FIXED", "TRAILING"}, stop: 0 .. Whole - 1, take: Int]
           /\ Distance(policy.stop)
           /\ policy.take = Levels!None \/ Distance(policy.take)
  <2> DEFINE stop == Backtest!Share(e, policy.stop)
             take == Backtest!Share(e, policy.take)
  <2>1. stop \in Nat \ {0} /\ stop < e
    <3>1. policy.stop < Whole
      BY <1>4, ReplayAssumption
    <3> QED  BY <1>4, <3>1, ShareIsProper
  <2>2. policy.take = -1 \/ take \in Nat \ {0}
    BY <1>1, <1>4, ShareIsProper
  <2>3. plan = [quantity |-> q, entry |-> e, stop |-> e - stop,
                take |-> IF policy.take = -1 THEN -1 ELSE e + take,
                anchor |-> e, armedAt |-> t]
    BY <1>1, <1>4 DEF Backtest!Plan
  <2> HIDE DEF stop, take, plan
  <2>4. IsPlan(plan) /\ plan.quantity = q /\ plan.armedAt = t
    BY <1>2, <2>1, <2>2, <2>3 DEF IsPlan
  <2>5. Backtest!ValidPlan(policy, plan, x)
    BY <1>1, <1>2, <1>4, <2>1, <2>2, <2>3 DEF Backtest!ValidPlan
  <2> QED  BY <2>4, <2>5 DEF plan
<1> QED  BY <1>1, <1>3, <1>4 DEF Usable

LEMMA ArmLands ==
  ASSUME NEW policy, Usable(policy), policy # Backtest!NoPolicy,
         NEW q \in Nat \ {0}, NEW e, EntryPrice(e), NEW x \in Nat, NEW t \in Nat
  PROVE  LET a == Backtest!Arm(policy, q, e, x, t)
         IN \/ /\ Guards(a, q, policy)
               /\ a.state = "awaitingOpen" /\ a.start = -1 /\ a.last = -1
               /\ a.plan.armedAt = t
            \/ NoLevels(a, policy)
<1> DEFINE plan == Backtest!Plan(policy, q, e, x, t)
           idle == [Backtest!NoActor EXCEPT !.state = "idle", !.policy = policy]
<1>1. /\ IsPlan(plan) /\ plan.quantity = q /\ plan.armedAt = t
      /\ policy.mode = "ATR" \/ Backtest!ValidPlan(policy, plan, x)
  BY PlanIsValid
<1>2. /\ IsActor(idle) /\ idle.policy = policy
      /\ idle.start = -1 /\ idle.last = -1
  BY FreshActor DEF IsActor
<1> HIDE DEF plan, idle
<1>3. CASE Backtest!ValidPlan(policy, plan, x)
  <2> DEFINE a == [idle EXCEPT !.state = "awaitingOpen", !.plan = plan]
  <2>1. Backtest!Arm(policy, q, e, x, t) = a
    BY <1>3 DEF Backtest!Arm, plan, idle
  <2>2. /\ Guards(a, q, policy) /\ a.state = "awaitingOpen"
        /\ a.start = -1 /\ a.last = -1 /\ a.plan.armedAt = t
    BY <1>1, <1>2 DEF Guards, IsActor
  <2> HIDE DEF a
  <2> QED  BY <2>1, <2>2
<1>4. CASE ~Backtest!ValidPlan(policy, plan, x)
  <2> DEFINE a == [idle EXCEPT !.state = "failed", !.fault = "plan"]
  <2>1. Backtest!Arm(policy, q, e, x, t) = a
    BY <1>4 DEF Backtest!Arm, Backtest!Failed, plan, idle
  <2>2. NoLevels(a, policy)
    BY <1>1, <1>2, <1>4 DEF NoLevels, IsActor
  <2> HIDE DEF a
  <2> QED  BY <2>1, <2>2
<1> QED  BY <1>3, <1>4

(* The open of a candle that comes after what the actor has seen.          *)
LEMMA OpenLands ==
  ASSUME NEW a, NEW q, NEW policy, Guards(a, q, policy),
         NEW c, c.start \in Nat, c.open \in Int, Waits(a, c.start)
  PROVE  LET b == Backtest!CandleOpened(a, c)
         IN \/ b.state = "triggered"
            \/ Guards(b, q, policy) /\ Sees(b, c)
<1> USE DEF Guards, IsActor, Waits, Sees
<1> DEFINE off == Backtest!OpenExit(a.plan, c.open)
<1>1. ~(\/ a.state # "awaitingOpen" \/ c.start <= a.last
        \/ c.start < a.plan.armedAt)
  BY DEF IsPlan
<1>2. CASE off # Backtest!NoExit
  <2>1. Backtest!CandleOpened(a, c) = Backtest!Triggered(a, off, c.start)
    BY <1>1, <1>2 DEF Backtest!CandleOpened
  <2>2. Backtest!Triggered(a, off, c.start).state = "triggered"
    BY DEF Backtest!Triggered
  <2> QED  BY <2>1, <2>2
<1>3. CASE off = Backtest!NoExit
  <2> DEFINE b == [a EXCEPT !.state = "awaitingRange", !.start = c.start,
                            !.open = c.open]
  <2>1. Backtest!CandleOpened(a, c) = b
    BY <1>1, <1>3 DEF Backtest!CandleOpened
  <2>2. Guards(b, q, policy) /\ Sees(b, c)
    BY DEF IsPlan
  <2> HIDE DEF b
  <2> QED  BY <2>1, <2>2
<1> QED  BY <1>2, <1>3

(* A plan whose stop and anchor move.                                      *)
LEMMA MovedStop ==
  ASSUME NEW plan, IsPlan(plan), NEW high \in Int, NEW s \in Int
  PROVE  LET next == [plan EXCEPT !.anchor = high, !.stop = s]
         IN /\ IsPlan(next) /\ next.quantity = plan.quantity
            /\ next.armedAt = plan.armedAt
BY DEF IsPlan

(* A plan stays one of its quantity when its stop follows a high.          *)
LEMMA AdvanceKeeps ==
  ASSUME NEW plan, IsPlan(plan), NEW policy, Usable(policy),
         policy # Backtest!NoPolicy, NEW high \in Nat
  PROVE  LET next == Backtest!Advance(plan, policy, high)
         IN /\ IsPlan(next) /\ next.quantity = plan.quantity
            /\ next.armedAt = plan.armedAt
<1>1. CASE policy.mode # "TRAILING" \/ high <= plan.anchor
  BY <1>1 DEF Backtest!Advance
<1>2. ASSUME policy.mode = "TRAILING", ~(high <= plan.anchor)
      PROVE  \E s \in Int: Backtest!Advance(plan, policy, high) =
                             [plan EXCEPT !.anchor = high, !.stop = s]
  <2> DEFINE trailed == high - Backtest!Share(high, policy.stop)
             s == IF trailed > plan.stop THEN trailed ELSE plan.stop
  <2>1. Backtest!Advance(plan, policy, high) =
          [plan EXCEPT !.anchor = high, !.stop = s]
    BY <1>2 DEF Backtest!Advance
  <2>2. trailed \in Int
    <3>1. policy.stop \in Int /\ Whole \in Nat \ {0}
      <4>1. Backtest!NoPolicy = Levels!NoPolicy
        BY DEF Backtest!NoPolicy, Levels!NoPolicy, Backtest!Policy, Levels!Policy,
           Backtest!None, Levels!None
      <4> QED  BY <4>1, ReplayAssumption DEF Usable
    <3>2. high * policy.stop \in Int
      BY <3>1
    <3> QED  BY <3>1, <3>2 DEF Backtest!Share
  <2> HIDE DEF trailed
  <2>3. s \in Int
    BY <2>2 DEF IsPlan
  <2> HIDE DEF s
  <2> QED  BY <2>1, <2>3
<1>3. ASSUME NEW s \in Int, Backtest!Advance(plan, policy, high) =
                              [plan EXCEPT !.anchor = high, !.stop = s]
      PROVE  LET next == Backtest!Advance(plan, policy, high)
             IN /\ IsPlan(next) /\ next.quantity = plan.quantity
                /\ next.armedAt = plan.armedAt
  <2> DEFINE next == [plan EXCEPT !.anchor = high, !.stop = s]
  <2>1. high \in Int
    OBVIOUS
  <2>2. IsPlan(next) /\ next.quantity = plan.quantity /\ next.armedAt = plan.armedAt
    BY <2>1, MovedStop
  <2> HIDE DEF next
  <2>3. Backtest!Advance(plan, policy, high) = next
    BY <1>3 DEF next
  <2> QED  BY <2>2, <2>3
<1>4. policy.mode # "TRAILING" \/ high <= plan.anchor
      \/ (policy.mode = "TRAILING" /\ ~(high <= plan.anchor))
  OBVIOUS
<1> QED  BY <1>1, <1>2, <1>3, <1>4

(* The range of the candle that was opened.                                *)
LEMMA RangeLands ==
  ASSUME NEW a, NEW q, NEW policy, Guards(a, q, policy), Usable(policy),
         policy # Backtest!NoPolicy,
         NEW c, c.start \in Nat, c.high \in Nat, c.open \in c.low .. c.high,
         Sees(a, c)
  PROVE  LET b == Backtest!CandleRangeReplayed(a, c)
         IN \/ b.state = "triggered"
            \/ /\ Guards(b, q, policy) /\ b.state = "awaitingOpen"
               /\ b.start = -1 /\ b.last = c.start /\ b.plan.armedAt <= c.start
<1> USE DEF Guards, IsActor, Sees
<1> DEFINE off == Backtest!RangeExit(a.plan, c)
           next == Backtest!Advance(a.plan, a.policy, c.high)
<1>1. ~(\/ a.state # "awaitingRange" \/ a.start # c.start
        \/ a.open \notin c.low..c.high \/ c.start < a.plan.armedAt)
  BY DEF IsPlan
<1>2. CASE off # Backtest!NoExit
  <2>1. Backtest!CandleRangeReplayed(a, c) = Backtest!Triggered(a, off, c.start)
    BY <1>1, <1>2 DEF Backtest!CandleRangeReplayed
  <2>2. Backtest!Triggered(a, off, c.start).state = "triggered"
    BY DEF Backtest!Triggered
  <2> QED  BY <2>1, <2>2
<1>3. CASE off = Backtest!NoExit
  <2>1. IsPlan(next) /\ next.quantity = q /\ next.armedAt = a.plan.armedAt
    BY AdvanceKeeps
  <2> HIDE DEF next
  <2> DEFINE b == [a EXCEPT !.state = "awaitingOpen", !.last = c.start,
                            !.start = -1, !.open = -1, !.plan = next]
  <2>2. Backtest!CandleRangeReplayed(a, c) = b
    BY <1>1, <1>3 DEF Backtest!CandleRangeReplayed, Backtest!None, next
  <2>3. /\ Guards(b, q, policy) /\ b.state = "awaitingOpen"
        /\ b.start = -1 /\ b.last = c.start /\ b.plan.armedAt <= c.start
    BY <2>1
  <2> HIDE DEF b
  <2> QED  BY <2>2, <2>3
<1> QED  BY <1>2, <1>3

(* A position that grows while its candle is open has a new plan.          *)
LEMMA IncreaseLands ==
  ASSUME NEW a, NEW q \in Nat \ {0}, NEW policy, Guards(a, q, policy),
         Usable(policy), policy # Backtest!NoPolicy,
         NEW c, c.start \in Nat, Sees(a, c),
         NEW more \in Nat, more > q, NEW e, EntryPrice(e), NEW x \in Nat
  PROVE  LET b == Backtest!PositionIncreased(a, more, e, x, c.start)
         IN \/ Guards(b, more, policy) /\ Sees(b, c)
            \/ NoLevels(b, policy)
<1> USE DEF Guards, IsActor, Sees
<1> DEFINE plan == Backtest!Plan(a.policy, more, e, x, c.start)
<1>1. /\ IsPlan(plan) /\ plan.quantity = more /\ plan.armedAt = c.start
      /\ policy.mode = "ATR" \/ Backtest!ValidPlan(policy, plan, x)
  BY PlanIsValid
<1>2. more > a.plan.quantity /\ Backtest!InCandle(a, c.start)
  BY DEF Backtest!InCandle
<1> HIDE DEF plan
<1>3. CASE Backtest!ValidPlan(a.policy, plan, x)
  <2> DEFINE b == [a EXCEPT !.plan = plan]
  <2>1. Backtest!PositionIncreased(a, more, e, x, c.start) = b
    BY <1>2, <1>3 DEF Backtest!PositionIncreased, plan
  <2>2. Guards(b, more, policy) /\ Sees(b, c)
    BY <1>1
  <2> HIDE DEF b
  <2> QED  BY <2>1, <2>2
<1>4. CASE ~Backtest!ValidPlan(a.policy, plan, x)
  <2> DEFINE b == [a EXCEPT !.state = "failed", !.fault = "plan"]
  <2>1. Backtest!PositionIncreased(a, more, e, x, c.start) = b
    BY <1>4 DEF Backtest!PositionIncreased, Backtest!Failed, plan
  <2>2. NoLevels(b, policy)
    BY <1>1, <1>4 DEF NoLevels
  <2> HIDE DEF b
  <2> QED  BY <2>1, <2>2
<1> QED  BY <1>3, <1>4

(* A position that shrinks while its candle is open keeps its levels.      *)
LEMMA ReduceLands ==
  ASSUME NEW a, NEW q \in Nat, NEW policy, Guards(a, q, policy),
         NEW c, c.start \in Nat, Sees(a, c), NEW less \in 1 .. q - 1
  PROVE  LET b == Backtest!PositionReduced(a, less, c.start)
         IN Guards(b, less, policy) /\ Sees(b, c)
<1> USE DEF Guards, IsActor, Sees
<1> DEFINE b == [a EXCEPT !.plan.quantity = less]
<1>1. Backtest!PositionReduced(a, less, c.start) = b
  BY DEF Backtest!PositionReduced, Backtest!InCandle, IsPlan
<1>2. Guards(b, less, policy) /\ Sees(b, c)
  <2> DEFINE plan == [a.plan EXCEPT !.quantity = less]
  <2>1. IsPlan(plan) /\ plan.quantity = less /\ plan.armedAt = a.plan.armedAt
    BY DEF IsPlan
  <2> HIDE DEF plan
  <2>2. b = [a EXCEPT !.plan = plan]
    BY DEF plan
  <2> HIDE DEF b
  <2> QED  BY <2>1, <2>2
<1> HIDE DEF b
<1> QED  BY <1>1, <1>2

-----------------------------------------------------------------------------
(* The replay.                                                             *)
ReplayTypes ==
  /\ setup \in Setups /\ active \in {setup.policy[r]: r \in Regimes}
  /\ bar \in Nat /\ at \in 0 .. setup.ratio - 1
  /\ candle \in [start: Int, open: Int, high: Int, low: Int]
  /\ position \in Nat /\ entry \in Int /\ atr \in Nat /\ lastExitAt \in Int
  /\ order.quantity \in Nat

(* The candle in progress is the one the replay is at.                     *)
CandleIsCurrent ==
  /\ pc \in {"orders", "range"} =>
       candle.open \in Prices /\ candle.start = Backtest!StartOf(bar, at)
  /\ pc \in {"orders", "close"} => at = 0

Held == position > 0 /\ active # Backtest!NoPolicy

(* What guards a position at each point of a candle.                       *)
Guarded ==
  /\ pc \in {"open", "orders", "range", "close"} =>
       IF Held THEN Guards(actor, position, active) ELSE actor = Backtest!NoActor
  /\ pc = "open" /\ Held => Waits(actor, Backtest!StartOf(bar, at))
  /\ pc \in {"orders", "range"} /\ Held => Sees(actor, candle)
  /\ pc = "close" /\ Held => Waits(actor, Backtest!StartOf(bar + 1, 0))

(* The filter never refused a candle, and has seen those before this one.  *)
Filters(f) ==
  /\ DOMAIN f = DOMAIN Backtest!Filter!WarmingUp
  /\ f.last \in Int /\ f.regime \in Regimes /\ f.failed = FALSE
  /\ {f.count, f.pendingCount, f.opposingCount, f.history} \subseteq Nat

FilterIsBehind ==
  /\ Filters(filter)
  /\ pc \in {"open", "orders", "range", "close"} =>
       filter.last < Backtest!StartOf(bar, 0)

(* What ends a backtest before its last candle is a plan without levels.   *)
EndsInOrder ==
  /\ pc \in {"open", "orders", "range", "close", "finished", "stopped"}
  /\ IF pc = "stopped" THEN failure = "plan" /\ active.mode = "ATR"
     ELSE failure = "none"

ReplayInv ==
  /\ ReplayTypes /\ CandleIsCurrent /\ Guarded /\ FilterIsBehind /\ EndsInOrder
  /\ position > 0 => EntryPrice(entry)

(* The starts of the candles.                                              *)
LEMMA StartsGrow ==
  ASSUME NEW ratio \in Nat \ {0}, NEW i \in Nat, NEW k \in 0 .. ratio - 1
  PROVE  /\ i * ratio + k + 1 \in Nat /\ i * ratio + 0 + 1 <= i * ratio + k + 1
         /\ i * ratio + k + 1 < (i + 1) * ratio + 0 + 1
         /\ i * ratio + k + 1 < i * ratio + (k + 1) + 1
<1>1. i * ratio \in Nat /\ (i + 1) * ratio = i * ratio + ratio
  OBVIOUS
<1> QED  BY <1>1

LEMMA SetupInForm ==
  ASSUME ReplayTypes
  PROVE  /\ setup.ratio \in Nat \ {0} /\ setup.cost \in Nat
         /\ setup.atrs \subseteq Nat /\ Usable(active)
         /\ \A r \in Regimes: Usable(setup.policy[r])
BY ReplayAssumption DEF ReplayTypes

(* The candle that is at hand, and what comes after it.                    *)
LEMMA StartIsKnown ==
  ASSUME ReplayTypes
  PROVE  /\ Backtest!StartOf(bar, at) \in Nat /\ Backtest!StartOf(bar, 0) \in Nat
         /\ Backtest!StartOf(bar, 0) <= Backtest!StartOf(bar, at)
         /\ Backtest!StartOf(bar, at) < Backtest!StartOf(bar + 1, 0)
         /\ Backtest!StartOf(bar, at) < Backtest!StartOf(bar, at + 1)
         /\ Backtest!StartOf(bar, 0) < Backtest!StartOf(bar + 1, 0)
<1>1. /\ setup.ratio \in Nat \ {0} /\ bar \in Nat /\ at \in 0 .. setup.ratio - 1
      /\ 0 \in 0 .. setup.ratio - 1
  BY SetupInForm DEF ReplayTypes
<1> QED  BY <1>1, StartsGrow DEF Backtest!StartOf

(* The open of a candle, which a protective order may be filled at.        *)
LEMMA OpenKeeps == ASSUME ReplayInv, Backtest!Open PROVE ReplayInv'
<1> DEFINE start == Backtest!StartOf(bar, at)
<1>1. /\ pc = "open"
      /\ UNCHANGED <<setup, bar, at, order, active, atr, filter>>
  BY DEF Backtest!Open
<1>2. PICK o \in Prices:
        candle' = [start |-> start, open |-> o, high |-> o, low |-> o]
  BY DEF Backtest!Open
<1>3. /\ start \in Nat /\ o \in Nat /\ candle'.start = start /\ candle'.open = o
      /\ candle' \in [start: Int, open: Int, high: Int, low: Int]
  BY <1>2, StartIsKnown, ReplayAssumption DEF ReplayInv
<1> DEFINE then == IF at = 0 THEN "orders" ELSE "range"
<1>4. \/ /\ pc' = then /\ actor' = Backtest!NoActor
         /\ position' = 0 /\ entry' = 0 /\ lastExitAt' = candle'.start
         /\ failure' = failure
      \/ /\ pc' = then /\ UNCHANGED <<position, entry, lastExitAt, failure>>
         /\ IF Held THEN Guards(actor', position, active) /\ Sees(actor', candle')
            ELSE actor' = Backtest!NoActor
  <2>1. CASE actor = Backtest!NoActor
    <3>1. ~Held
      BY <1>1, <2>1, FreshActor DEF ReplayInv, Guarded, Waits
    <3>2. pc' = then /\ UNCHANGED <<position, entry, actor, lastExitAt, failure>>
      BY <2>1 DEF Backtest!Open, Backtest!holding
    <3> QED  BY <2>1, <3>1, <3>2
  <2>2. CASE actor # Backtest!NoActor
    <3> DEFINE b == Backtest!CandleOpened(actor, candle')
    <3>1. Held /\ Guards(actor, position, active) /\ Waits(actor, candle'.start)
      BY <1>1, <1>3, <2>2 DEF ReplayInv, Guarded
    <3>2. b.state = "triggered" \/ (Guards(b, position, active) /\ Sees(b, candle'))
      BY <1>3, <3>1, OpenLands
    <3>3. Backtest!Settle(b, then)
      BY <2>2 DEF Backtest!Open
    <3> HIDE DEF b, then
    <3> QED  BY <3>1, <3>2, <3>3 DEF Backtest!Settle, Backtest!holding, Sees
  <2> QED  BY <2>1, <2>2
<1>5. ReplayTypes'
  BY <1>1, <1>3, <1>4 DEF ReplayInv, ReplayTypes
<1>6. CandleIsCurrent'
  BY <1>1, <1>3, <1>4 DEF ReplayInv, ReplayTypes, CandleIsCurrent, Backtest!StartOf
<1>7. Guarded'
  BY <1>1, <1>3, <1>4, FreshActor DEF ReplayInv, ReplayTypes, Guarded, Held
<1>8. FilterIsBehind'
  BY <1>1 DEF ReplayInv, FilterIsBehind, Backtest!StartOf
<1>9. EndsInOrder' /\ (position' > 0 => EntryPrice(entry'))
  BY <1>1, <1>4 DEF ReplayInv, EndsInOrder
<1> QED  BY <1>5, <1>6, <1>7, <1>8, <1>9 DEF ReplayInv

(* A purchase: a position is opened under a new plan, or grows under one.  *)
LEMMA BuyKeeps ==
  ASSUME ReplayInv, pc = "orders", NEW n \in Nat \ {0}, Backtest!Buy(n),
         UNCHANGED <<setup, bar, at, candle, active, atr, filter>>,
         order'.quantity \in Nat
  PROVE  ReplayInv'
<1> DEFINE cost == Backtest!Bought(n)
           more == position + n
<1>1. /\ candle.start \in Nat /\ candle.open \in Prices /\ candle.open \in Int
      /\ candle.start = Backtest!StartOf(bar, at) /\ at = 0
  BY StartIsKnown DEF ReplayInv, ReplayTypes, CandleIsCurrent
<1>2. EntryPrice(cost)
  BY <1>1, SetupInForm, AverageIsEntry DEF ReplayInv, ReplayTypes, Backtest!Bought
<1>3. more \in Nat \ {0} /\ more > position /\ cost \in Int /\ atr \in Nat
  BY <1>2 DEF ReplayInv, ReplayTypes, EntryPrice
<1> HIDE DEF cost, more
<1>4. Usable(active) /\ position \in Nat
  BY SetupInForm DEF ReplayInv, ReplayTypes
<1>5. \/ /\ pc' = "range" /\ position' = more /\ entry' = cost
         /\ lastExitAt' = candle.start /\ failure' = failure
         /\ IF active # Backtest!NoPolicy
            THEN Guards(actor', more, active) /\ Sees(actor', candle)
            ELSE actor' = Backtest!NoActor
      \/ /\ pc' = "range" /\ position' = 0 /\ entry' = 0
         /\ lastExitAt' = candle'.start /\ failure' = failure
         /\ actor' = Backtest!NoActor
      \/ /\ pc' = "stopped" /\ failure' = "plan" /\ active.mode = "ATR"
         /\ UNCHANGED <<position, entry, lastExitAt>>
  <2>1. CASE active = Backtest!NoPolicy
    <3>1. actor = Backtest!NoActor
      BY <2>1 DEF ReplayInv, Guarded, Held
    <3> QED  BY <2>1, <3>1 DEF Backtest!Buy, cost, more
  <2>2. CASE active # Backtest!NoPolicy
    <3> DEFINE next == IF actor = Backtest!NoActor
                         THEN Backtest!ArmAtOpen(more, cost)
                         ELSE Backtest!PositionIncreased(actor, more, cost, atr,
                                                         candle.start)
               Lands(b) == \/ b.state = "triggered"
                           \/ Guards(b, more, active) /\ Sees(b, candle)
                           \/ NoLevels(b, active)
    <3>1. ASSUME actor = Backtest!NoActor PROVE Lands(next)
      <4> DEFINE a == Backtest!Arm(active, more, cost, atr, candle.start)
      <4>1. \/ /\ Guards(a, more, active)
               /\ a.state = "awaitingOpen" /\ a.start = -1 /\ a.last = -1
               /\ a.plan.armedAt = candle.start
            \/ NoLevels(a, active)
        BY <1>1, <1>2, <1>3, <1>4, <2>2, ArmLands
      <4>2. next = IF Backtest!Armed(a) THEN Backtest!CandleOpened(a, candle) ELSE a
        BY <3>1 DEF Backtest!ArmAtOpen
      <4> HIDE DEF a, next
      <4>3. CASE /\ Guards(a, more, active)
                 /\ a.state = "awaitingOpen" /\ a.start = -1 /\ a.last = -1
                 /\ a.plan.armedAt = candle.start
        <5>1. next = Backtest!CandleOpened(a, candle)
          BY <4>2, <4>3 DEF Backtest!Armed
        <5>2. Waits(a, candle.start)
          BY <1>1, <4>3 DEF Waits
        <5> QED  BY <1>1, <4>3, <5>1, <5>2, OpenLands
      <4>4. CASE NoLevels(a, active)
        <5>1. next = a
          BY <4>2, <4>4 DEF Backtest!Armed, NoLevels
        <5> QED  BY <4>4, <5>1
      <4> QED  BY <4>1, <4>3, <4>4
    <3>2. ASSUME actor # Backtest!NoActor PROVE Lands(next)
      <4>1. Held
        BY <3>2 DEF ReplayInv, Guarded
      <4>2. Guards(actor, position, active) /\ Sees(actor, candle)
        BY <4>1 DEF ReplayInv, Guarded
      <4>3. position \in Nat \ {0} /\ more \in Nat
        BY <1>3, <1>4, <4>1 DEF Held
      <4>4. next = Backtest!PositionIncreased(actor, more, cost, atr, candle.start)
        BY <3>2
      <4> HIDE DEF next
      <4> QED  BY <1>1, <1>2, <1>3, <1>4, <2>2, <4>2, <4>3, <4>4, IncreaseLands
    <3>3. IF next.state \in {"failed", "triggered"} THEN Backtest!Settle(next, "range")
          ELSE /\ position' = more /\ entry' = cost /\ lastExitAt' = candle.start
               /\ actor' = next /\ pc' = "range" /\ failure' = failure
      BY <2>2 DEF Backtest!Buy, cost, more
    <3> HIDE DEF next
    <3>4. CASE next.state = "triggered"
      BY <3>3, <3>4 DEF Backtest!Settle
    <3>5. CASE Guards(next, more, active) /\ Sees(next, candle)
      BY <2>2, <3>3, <3>5 DEF Sees
    <3>6. CASE NoLevels(next, active)
      BY <3>3, <3>6 DEF Backtest!Settle, Backtest!Stop, Backtest!holding, NoLevels
    <3> QED  BY <3>1, <3>2, <3>4, <3>5, <3>6
  <2> QED  BY <2>1, <2>2
<1>6. ReplayTypes'
  BY <1>1, <1>3, <1>5 DEF ReplayInv, ReplayTypes
<1>7. CandleIsCurrent'
  BY <1>1, <1>5 DEF ReplayInv, CandleIsCurrent, Backtest!StartOf
<1>8. Guarded'
  BY <1>3, <1>5, FreshActor DEF Guarded, Held, Sees
<1>9. FilterIsBehind'
  BY <1>5 DEF ReplayInv, FilterIsBehind, Backtest!StartOf
<1>10. EndsInOrder' /\ (position' > 0 => EntryPrice(entry'))
  BY <1>2, <1>5 DEF ReplayInv, EndsInOrder
<1> QED  BY <1>6, <1>7, <1>8, <1>9, <1>10 DEF ReplayInv

(* A sale: what is left has the same levels.                               *)
LEMMA SellKeeps ==
  ASSUME ReplayInv, pc = "orders", NEW n \in Nat \ {0}, n <= position,
         Backtest!Sell(n),
         UNCHANGED <<setup, bar, at, candle, active, atr, filter>>,
         order'.quantity \in Nat
  PROVE  ReplayInv'
<1> DEFINE less == position - n
<1>1. /\ candle.start \in Nat /\ candle.start = Backtest!StartOf(bar, at)
      /\ candle.open \in Prices
  BY StartIsKnown DEF ReplayInv, CandleIsCurrent
<1>2. less \in Nat /\ less < position /\ position \in Nat /\ position > 0
  BY DEF ReplayInv, ReplayTypes
<1>3. /\ position' = less /\ entry' = IF less = 0 THEN 0 ELSE entry
      /\ lastExitAt' = candle.start
  BY DEF Backtest!Sell
<1>4. /\ pc' = "range" /\ failure' = failure
      /\ IF less > 0 /\ active # Backtest!NoPolicy
         THEN Guards(actor', less, active) /\ Sees(actor', candle)
         ELSE actor' = Backtest!NoActor
  <2>1. CASE active = Backtest!NoPolicy
    <3>1. actor = Backtest!NoActor
      BY <2>1 DEF ReplayInv, Guarded, Held
    <3> QED  BY <2>1, <3>1 DEF Backtest!Sell
  <2>2. CASE active # Backtest!NoPolicy /\ less = 0
    BY <2>2 DEF Backtest!Sell
  <2>3. CASE active # Backtest!NoPolicy /\ less # 0
    <3> DEFINE b == Backtest!PositionReduced(actor, less, candle.start)
    <3>1. Guards(actor, position, active) /\ Sees(actor, candle)
      BY <1>2, <2>3 DEF ReplayInv, Guarded, Held
    <3>2. less \in 1 .. position - 1
      BY <1>2, <2>3
    <3> HIDE DEF less
    <3>3. Guards(b, less, active) /\ Sees(b, candle)
      BY <1>1, <1>2, <3>1, <3>2, ReduceLands
    <3>4. actor # Backtest!NoActor
      BY <3>1, FreshActor DEF Sees
    <3>5. less # 0 /\ less > 0
      BY <3>2
    <3> HIDE DEF b
    <3>6. /\ actor' = b
          /\ IF b.state = "failed" THEN Backtest!Stop(b.fault)
             ELSE pc' = "range" /\ failure' = failure
      BY <2>3, <3>4, <3>5 DEF Backtest!Sell, Backtest!ReducedActor, less, b
    <3> QED  BY <2>3, <3>3, <3>5, <3>6 DEF Sees
  <2> QED  BY <2>1, <2>2, <2>3
<1> HIDE DEF less
<1>6. ReplayTypes'
  BY <1>1, <1>2, <1>3, <1>4 DEF ReplayInv, ReplayTypes
<1>7. CandleIsCurrent'
  BY <1>1, <1>4 DEF ReplayInv, CandleIsCurrent, Backtest!StartOf
<1>8. Guarded'
  BY <1>2, <1>3, <1>4, FreshActor DEF Guarded, Held, Sees
<1>9. FilterIsBehind'
  BY <1>4 DEF ReplayInv, FilterIsBehind, Backtest!StartOf
<1>10. EndsInOrder' /\ (position' > 0 => EntryPrice(entry'))
  BY <1>2, <1>3, <1>4 DEF ReplayInv, EndsInOrder
<1> QED  BY <1>6, <1>7, <1>8, <1>9, <1>10 DEF ReplayInv

LEMMA OrderKeeps == ASSUME ReplayInv, Backtest!ExecuteOrder PROVE ReplayInv'
<1>1. /\ pc = "orders" /\ order' = Backtest!NoOrder
      /\ UNCHANGED <<setup, bar, at, candle, active, atr, filter>>
  BY DEF Backtest!ExecuteOrder
<1>2. order'.quantity \in Nat
  BY <1>1 DEF Backtest!NoOrder
<1>3. PICK n \in IF order = Backtest!NoOrder THEN {0} ELSE Backtest!Affordable(order):
        CASE n = 0 ->
               /\ pc' = "range"
               /\ UNCHANGED <<Backtest!holding, actor, lastExitAt, failure, exit,
                              remade>>
          [] n > 0 /\ order.side = "BUY" -> Backtest!Buy(n)
          [] OTHER -> Backtest!Sell(n) /\ remade' = "none"
  BY DEF Backtest!ExecuteOrder
<1>4. n \in Nat /\ (order.side # "BUY" /\ n # 0 => n <= position)
  BY <1>3 DEF ReplayInv, ReplayTypes, Backtest!Affordable
<1>5. CASE n = 0
  <2>1. pc' = "range" /\ UNCHANGED <<position, entry, actor, lastExitAt, failure>>
    BY <1>3, <1>5 DEF Backtest!holding
  <2>2. ReplayTypes'
    BY <1>1, <1>2, <2>1 DEF ReplayInv, ReplayTypes
  <2>3. CandleIsCurrent' /\ FilterIsBehind' /\ EndsInOrder'
    BY <1>1, <2>1 DEF ReplayInv, CandleIsCurrent, FilterIsBehind, EndsInOrder,
       Backtest!StartOf
  <2>4. Guarded'
    BY <1>1, <2>1 DEF ReplayInv, Guarded, Held, Sees, Guards
  <2> QED  BY <2>1, <2>2, <2>3, <2>4 DEF ReplayInv
<1>6. CASE n > 0 /\ order.side = "BUY"
  <2>1. Backtest!Buy(n)
    BY <1>3, <1>4, <1>6
  <2> QED  BY <1>1, <1>2, <1>4, <1>6, <2>1, BuyKeeps
<1>7. CASE n > 0 /\ order.side # "BUY"
  <2>1. Backtest!Sell(n)
    BY <1>3, <1>4, <1>7
  <2> QED  BY <1>1, <1>2, <1>4, <1>7, <2>1, SellKeeps
<1> QED  BY <1>4, <1>5, <1>6, <1>7

(* The range of a candle, and the candle or the close after it.            *)
LEMMA RangeKeeps == ASSUME ReplayInv, Backtest!Range PROVE ReplayInv'
<1> DEFINE last == at + 1 = setup.ratio
           then == IF last THEN "close" ELSE "open"
           due == IF last THEN Backtest!StartOf(bar + 1, 0)
                  ELSE Backtest!StartOf(bar, at + 1)
<1>1. /\ pc = "range" /\ UNCHANGED <<setup, bar, order, active, atr, filter>>
      /\ at' = IF last THEN 0 ELSE at + 1
  BY DEF Backtest!Range
<1>2. PICK high \in {p \in Prices: p >= candle.open},
           low \in {p \in Prices: p <= candle.open}:
        candle' = [candle EXCEPT !.high = high, !.low = low]
  BY DEF Backtest!Range
<1>3. /\ candle.start \in Nat /\ candle.open \in Nat /\ high \in Nat /\ low \in Nat
      /\ candle.start = Backtest!StartOf(bar, at) /\ candle.start < due
  BY <1>1, StartIsKnown, ReplayAssumption DEF ReplayInv, CandleIsCurrent
<1>4. /\ candle' \in [start: Int, open: Int, high: Int, low: Int]
      /\ candle'.start = candle.start /\ candle'.open = candle.open
      /\ candle'.high = high /\ candle'.low = low
  <2>1. candle' = [start |-> candle.start, open |-> candle.open,
                   high |-> high, low |-> low]
    BY <1>2 DEF ReplayInv, ReplayTypes
  <2> QED  BY <1>3, <2>1
<1>5. candle'.open \in candle'.low .. candle'.high
  BY <1>3, <1>4
<1>7. \/ /\ pc' = then /\ actor' = Backtest!NoActor
         /\ position' = 0 /\ entry' = 0 /\ lastExitAt' = candle'.start
         /\ failure' = failure
      \/ /\ pc' = then /\ UNCHANGED <<position, entry, lastExitAt, failure>>
         /\ IF Held THEN Guards(actor', position, active) /\ Waits(actor', due)
            ELSE actor' = Backtest!NoActor
  <2>1. CASE actor = Backtest!NoActor
    <3>1. ~Held
      BY <1>1, <2>1, FreshActor DEF ReplayInv, Guarded, Sees
    <3>2. pc' = then /\ UNCHANGED <<position, entry, actor, lastExitAt, failure>>
      BY <2>1 DEF Backtest!Range, Backtest!holding
    <3> QED  BY <2>1, <3>1, <3>2
  <2>2. CASE actor # Backtest!NoActor
    <3> DEFINE b == Backtest!CandleRangeReplayed(actor, candle')
    <3>1. Held /\ Guards(actor, position, active) /\ Sees(actor, candle')
      BY <1>1, <1>4, <2>2 DEF ReplayInv, Guarded, Sees
    <3>2. Usable(active) /\ active # Backtest!NoPolicy
      BY <3>1, SetupInForm DEF ReplayInv, Held
    <3>3. \/ b.state = "triggered"
          \/ /\ Guards(b, position, active) /\ b.state = "awaitingOpen"
             /\ b.start = -1 /\ b.last = candle'.start
             /\ b.plan.armedAt <= candle'.start
      BY <1>3, <1>4, <1>5, <3>1, <3>2, RangeLands
    <3>4. actor.state = "awaitingRange"
      BY <3>1 DEF Sees
    <3>5. Backtest!Settle(b, then)
      BY <2>2, <3>4 DEF Backtest!Range
    <3> HIDE DEF b, then
    <3>6. CASE b.state = "triggered"
      BY <3>5, <3>6 DEF Backtest!Settle
    <3>7. CASE /\ Guards(b, position, active) /\ b.state = "awaitingOpen"
               /\ b.start = -1 /\ b.last = candle'.start
               /\ b.plan.armedAt <= candle'.start
      <4>1. /\ actor' = b /\ pc' = then
            /\ UNCHANGED <<position, entry, lastExitAt, failure>>
        BY <3>5, <3>7 DEF Backtest!Settle, Backtest!holding
      <4>2. due \in Int
        BY StartIsKnown, SetupInForm DEF ReplayInv, ReplayTypes, Backtest!StartOf
      <4> HIDE DEF due
      <4>3. Waits(b, due)
        BY <1>3, <1>4, <3>7, <4>2 DEF Waits, Guards, IsActor, IsPlan
      <4> QED  BY <3>1, <3>7, <4>1, <4>3
    <3> QED  BY <3>3, <3>6, <3>7
  <2> QED  BY <2>1, <2>2
<1>8. ReplayTypes'
  <2>1. at' \in 0 .. setup.ratio - 1
    BY <1>1, SetupInForm DEF ReplayInv, ReplayTypes
  <2> QED  BY <1>1, <1>3, <1>4, <1>7, <2>1 DEF ReplayInv, ReplayTypes
<1>9. CandleIsCurrent'
  BY <1>1, <1>7 DEF CandleIsCurrent
<1>10. Guarded'
  <2>1. pc' = "open" => due = Backtest!StartOf(bar, at)'
    BY <1>1, <1>7 DEF Backtest!StartOf
  <2>2. pc' = "close" => due = Backtest!StartOf(bar + 1, 0)'
    BY <1>1, <1>7 DEF Backtest!StartOf
  <2> HIDE DEF due
  <2>3. CASE position' = 0 /\ actor' = Backtest!NoActor
    BY <1>7, <2>3 DEF Guarded, Held
  <2>4. CASE /\ position' = position
             /\ IF Held THEN Guards(actor', position, active) /\ Waits(actor', due)
                ELSE actor' = Backtest!NoActor
    <3>1. Held' = Held
      BY <1>1, <2>4 DEF Held
    <3>2. pc' \in {"open", "close"}
      BY <1>7
    <3> QED  BY <1>1, <2>1, <2>2, <2>4, <3>1, <3>2 DEF Guarded
  <2> QED  BY <1>7, <2>3, <2>4
<1>11. FilterIsBehind'
  BY <1>1, <1>7 DEF ReplayInv, FilterIsBehind, Backtest!StartOf
<1>12. EndsInOrder' /\ (position' > 0 => EntryPrice(entry'))
  BY <1>1, <1>7 DEF ReplayInv, EndsInOrder
<1> QED  BY <1>8, <1>9, <1>10, <1>11, <1>12 DEF ReplayInv

LEMMA WarmUpKeeps == ASSUME ReplayInv, Backtest!WarmUp PROVE ReplayInv'
<1>1. /\ pc = "close" /\ pc' \in {"open", "finished"} /\ bar' = bar + 1
      /\ UNCHANGED <<setup, at, candle, position, entry, order, actor, active, atr,
                     lastExitAt, filter, failure>>
  BY DEF Backtest!WarmUp, Backtest!NextIndex, Backtest!holding, Backtest!protection
<1>2. at = 0 /\ Backtest!StartOf(bar, 0) < Backtest!StartOf(bar + 1, 0)
      /\ Backtest!StartOf(bar, 0) \in Int /\ Backtest!StartOf(bar + 1, 0) \in Int
  BY <1>1, StartIsKnown, SetupInForm DEF ReplayInv, CandleIsCurrent, ReplayTypes,
     Backtest!StartOf
<1>3. ReplayTypes'
  BY <1>1 DEF ReplayInv, ReplayTypes
<1>4. CandleIsCurrent'
  BY <1>1, <1>2 DEF CandleIsCurrent
<1>5. Guarded'
  <2>1. Held' = Held /\ Backtest!StartOf(bar, at)' = Backtest!StartOf(bar + 1, 0)
    BY <1>1, <1>2 DEF Held, Backtest!StartOf
  <2>2. IF Held THEN Guards(actor, position, active) /\
                     Waits(actor, Backtest!StartOf(bar + 1, 0))
        ELSE actor = Backtest!NoActor
    BY <1>1 DEF ReplayInv, Guarded
  <2>3. Held' => Waits(actor, Backtest!StartOf(bar, at))'
    BY <1>1, <2>1, <2>2 DEF Waits
  <2> QED  BY <1>1, <2>1, <2>2, <2>3 DEF Guarded
<1>6. FilterIsBehind'
  <2>1. filter.last \in Int /\ filter.last < Backtest!StartOf(bar + 1, 0)
    BY <1>1, <1>2 DEF ReplayInv, FilterIsBehind, Filters
  <2>2. Backtest!StartOf(bar + 1, 0) = Backtest!StartOf(bar, 0)'
    BY <1>1 DEF Backtest!StartOf
  <2> QED  BY <1>1, <2>1, <2>2 DEF ReplayInv, FilterIsBehind
<1>7. EndsInOrder' /\ (position' > 0 => EntryPrice(entry'))
  BY <1>1 DEF ReplayInv, EndsInOrder
<1> QED  BY <1>3, <1>4, <1>5, <1>6, <1>7 DEF ReplayInv

(* What a classification does to the filter: it is counted, and the streak *)
(* it belongs to is carried on, or begins.                                 *)
LEMMA FilterFields ==
  DOMAIN Backtest!Filter!WarmingUp =
    {"regime", "count", "pendingKind", "pendingCount", "opposingKind",
     "opposingCount", "last", "history", "failed"}
BY DEF Backtest!Filter!WarmingUp

LEMMA CountedIsCounted ==
  ASSUME NEW f, Filters(f), NEW t \in Int
  PROVE  LET g == Backtest!Filter!Counted(f, t)
         IN /\ Filters(g) /\ g.last = t /\ g.count = f.count + 1
            /\ g.history = IF f.history < SlopePeriods THEN f.history + 1
                           ELSE f.history
            /\ g.regime = f.regime /\ g.pendingKind = f.pendingKind
            /\ g.pendingCount = f.pendingCount
            /\ g.opposingKind = f.opposingKind
            /\ g.opposingCount = f.opposingCount
<1> DEFINE older == IF f.history < SlopePeriods THEN f.history + 1 ELSE f.history
           more == f.count + 1
<1>1. older \in Nat /\ more \in Nat
  BY DEF Filters
<1>2. Backtest!Filter!Counted(f, t) =
        [f EXCEPT !.count = more, !.last = t, !.history = older]
  BY FilterFields DEF Backtest!Filter!Counted, Filters
<1> HIDE DEF older, more
<1> DEFINE g == [f EXCEPT !.count = more, !.last = t, !.history = older]
<1>3. /\ DOMAIN g = DOMAIN f /\ g.last = t /\ g.count = more /\ g.history = older
      /\ g.regime = f.regime /\ g.pendingKind = f.pendingKind
      /\ g.pendingCount = f.pendingCount /\ g.opposingKind = f.opposingKind
      /\ g.opposingCount = f.opposingCount /\ g.failed = f.failed
  BY FilterFields DEF Filters
<1> HIDE DEF g
<1>4. Backtest!Filter!Counted(f, t) = g
  BY <1>2 DEF g
<1> QED  BY <1>1, <1>3, <1>4 DEF Filters, older, more

(* A regime is entered with its streaks forgotten.                         *)
LEMMA EnteredIsEntered ==
  ASSUME NEW f, Filters(f), NEW t \in Int, NEW kind \in Regimes
  PROVE  LET g == Backtest!Filter!Entered(f, kind, t)
         IN /\ Filters(g) /\ g.last = t /\ g.regime = kind /\ g.opposingCount = 0
            /\ g.count = f.count + 1 /\ g.history = Backtest!Filter!Counted(f, t).history
<1> DEFINE c == Backtest!Filter!Counted(f, t)
           g == [c EXCEPT !.regime = kind, !.pendingKind = "none", !.pendingCount = 0,
                          !.opposingKind = "none", !.opposingCount = 0]
<1>1. Filters(c) /\ c.last = t /\ c.count = f.count + 1
  BY CountedIsCounted
<1>2. Backtest!Filter!Entered(f, kind, t) = g
  BY DEF Backtest!Filter!Entered, Backtest!Filter!NoKind
<1> HIDE DEF c
<1>3. /\ DOMAIN g = DOMAIN c /\ g.regime = kind /\ g.pendingCount = 0
      /\ g.opposingCount = 0 /\ g.last = c.last /\ g.count = c.count
      /\ g.history = c.history /\ g.failed = c.failed
  BY <1>1, FilterFields DEF Filters
<1> HIDE DEF g
<1> QED  BY <1>1, <1>2, <1>3 DEF Filters, c

LEMMA WarmingIsWarming ==
  ASSUME NEW f, Filters(f), NEW t \in Int, NEW kind
  PROVE  LET g == Backtest!Filter!Warming(f, kind, t)
         IN /\ Filters(g) /\ g.last = t /\ g.regime = f.regime
            /\ g.count = f.count + 1 /\ g.history = Backtest!Filter!Counted(f, t).history
            /\ g.pendingKind = kind
            /\ g.pendingCount =
                 Backtest!Filter!Streak(kind, f.pendingKind, f.pendingCount)
<1> DEFINE c == Backtest!Filter!Counted(f, t)
           run == Backtest!Filter!Streak(kind, f.pendingKind, f.pendingCount)
           g == [c EXCEPT !.pendingKind = kind, !.pendingCount = run]
<1>1. Filters(c) /\ c.last = t /\ c.count = f.count + 1 /\ c.regime = f.regime
  BY CountedIsCounted
<1>2. run \in Nat
  BY DEF Filters, Backtest!Filter!Streak
<1>3. Backtest!Filter!Warming(f, kind, t) = g
  BY DEF Backtest!Filter!Warming
<1> HIDE DEF c, run
<1>4. /\ DOMAIN g = DOMAIN c /\ g.pendingKind = kind /\ g.pendingCount = run
      /\ g.opposingCount = c.opposingCount /\ g.last = c.last /\ g.count = c.count
      /\ g.history = c.history /\ g.failed = c.failed /\ g.regime = c.regime
  BY <1>1, FilterFields DEF Filters
<1> HIDE DEF g
<1> QED  BY <1>1, <1>2, <1>3, <1>4 DEF Filters, c, run

(* An observation of a confirmed regime, or of another one.                *)
LEMMA RecordedIsRecorded ==
  ASSUME NEW f, Filters(f), NEW t \in Int, NEW kind
  PROVE  LET g == Backtest!Filter!Recorded(f, kind, t)
         IN /\ Filters(g) /\ g.last = t /\ g.regime = f.regime
            /\ g.count = f.count + 1 /\ g.history = Backtest!Filter!Counted(f, t).history
            /\ IF kind = f.regime THEN g.opposingCount = 0
               ELSE /\ g.opposingKind = kind
                    /\ g.opposingCount =
                         Backtest!Filter!Streak(kind, f.opposingKind, f.opposingCount)
<1> DEFINE c == Backtest!Filter!Counted(f, t)
           run == IF kind = f.regime THEN 0
                  ELSE Backtest!Filter!Streak(kind, f.opposingKind, f.opposingCount)
           of == IF kind = f.regime THEN "none" ELSE kind
           g == [c EXCEPT !.opposingKind = of, !.opposingCount = run]
<1>1. Filters(c) /\ c.last = t /\ c.count = f.count + 1 /\ c.regime = f.regime
  BY CountedIsCounted
<1>2. run \in Nat
  BY DEF Filters, Backtest!Filter!Streak
<1>3. Backtest!Filter!Recorded(f, kind, t) = g
  BY DEF Backtest!Filter!Recorded, Backtest!Filter!NoKind
<1> HIDE DEF c, run, of
<1>4. /\ DOMAIN g = DOMAIN c /\ g.opposingKind = of /\ g.opposingCount = run
      /\ g.pendingCount = c.pendingCount /\ g.last = c.last /\ g.count = c.count
      /\ g.history = c.history /\ g.failed = c.failed /\ g.regime = c.regime
  BY <1>1, FilterFields DEF Filters
<1> HIDE DEF g
<1> QED  BY <1>1, <1>2, <1>3, <1>4 DEF Filters, c, run, of

(* A classification of a later candle is never refused.                    *)
LEMMA FilterLands ==
  ASSUME NEW f, Filters(f), NEW t \in Int, f.last < t,
         NEW kind \in Backtest!Filter!Classes(f)
  PROVE  LET g == Backtest!Filter!CandleClosed(f, kind, t)
         IN Filters(g) /\ g.last = t
<1>1. Backtest!Filter!ValidObservation(f, t)
  BY DEF Filters, Backtest!Filter!ValidObservation
<1>2. kind = Backtest!Filter!Pending \/ kind \in Regimes
  BY DEF Backtest!Filter!Classes, Backtest!Filter!Kinds, Regimes
<1>3. CASE kind = Backtest!Filter!Pending
  BY <1>1, <1>3, CountedIsCounted DEF Backtest!Filter!CandleClosed
<1>4. CASE kind \in Regimes /\ kind # Backtest!Filter!Pending
  BY <1>1, <1>4, EnteredIsEntered, WarmingIsWarming, RecordedIsRecorded
     DEF Backtest!Filter!CandleClosed
<1> QED  BY <1>2, <1>3, <1>4

(* The close of a decision candle: a policy that the regime changes gives  *)
(* the position a new plan, and the next order is decided.                 *)
LEMMA EvaluateKeeps ==
  ASSUME ReplayInv, pc = "close",
         NEW f, Filters(f), f.last < Backtest!StartOf(bar + 1, 0),
         Backtest!Evaluate(f),
         atr' \in IF pc' = "open" THEN setup.atrs ELSE {atr},
         UNCHANGED <<setup, at, candle, position, entry, lastExitAt>>
  PROVE  ReplayInv'
<1> DEFINE policy == setup.policy[f.regime]
           next == IF policy = active THEN actor ELSE Backtest!Replanned(policy)
           due == Backtest!StartOf(bar + 1, 0)
<1>1. /\ filter' = f /\ active' = policy /\ actor' = next
      /\ IF f.failed THEN Backtest!Stop("regime") /\ UNCHANGED <<bar, order>>
         ELSE IF next.state = "failed"
         THEN Backtest!Stop(next.fault) /\ UNCHANGED <<bar, order>>
         ELSE Backtest!Decide(f)
  BY DEF Backtest!Evaluate
<1>2. /\ Usable(policy) /\ policy \in {setup.policy[r]: r \in Regimes}
      /\ position \in Nat /\ atr \in Nat
  BY SetupInForm DEF Filters, ReplayInv, ReplayTypes
<1>3. /\ at = 0 /\ bar \in Nat /\ due \in Nat /\ Backtest!StartOf(bar, 0) \in Nat
      /\ Backtest!StartOf(bar, 0) < due
  BY StartIsKnown, SetupInForm DEF ReplayInv, CandleIsCurrent, ReplayTypes,
     Backtest!StartOf
<1> DEFINE Covers(a) == IF position > 0 /\ policy # Backtest!NoPolicy
                        THEN Guards(a, position, policy) /\ Waits(a, due)
                        ELSE a = Backtest!NoActor
<1>4. Covers(next) \/ NoLevels(next, policy)
  <2>1. CASE policy = active
    BY <2>1 DEF ReplayInv, Guarded, Held
  <2>2. CASE policy # active /\ ~(position > 0 /\ policy # Backtest!NoPolicy)
    <3>1. position = 0 \/ policy = Backtest!NoPolicy
      BY <1>2, <2>2
    <3> QED  BY <2>2, <3>1 DEF Backtest!Replanned
  <2>3. CASE policy # active /\ position > 0 /\ policy # Backtest!NoPolicy
    <3> DEFINE a == Backtest!Arm(policy, position, entry, atr,
                                 Backtest!StartOf(bar, 0))
    <3>1. next = a
      BY <1>2, <2>3 DEF Backtest!Replanned
    <3>2. \/ /\ Guards(a, position, policy)
             /\ a.state = "awaitingOpen" /\ a.start = -1 /\ a.last = -1
             /\ a.plan.armedAt = Backtest!StartOf(bar, 0)
          \/ NoLevels(a, policy)
      BY <1>2, <1>3, <2>3, ArmLands DEF ReplayInv
    <3> HIDE DEF a, due, policy, next
    <3>3. ASSUME a.state = "awaitingOpen", a.start = -1, a.last = -1,
                 a.plan.armedAt = Backtest!StartOf(bar, 0)
          PROVE  Waits(a, due)
      BY <1>3, <3>3 DEF Waits
    <3> QED  BY <2>3, <3>1, <3>2, <3>3
  <2> QED  BY <2>1, <2>2, <2>3
<1>5. Covers(next) => next.state # "failed"
  BY FreshActor DEF Waits
<1> HIDE DEF policy, next, due
<1>6. \/ /\ Covers(next) /\ pc' \in {"open", "finished"} /\ bar' = bar + 1
         /\ failure' = failure /\ order'.quantity \in Nat
      \/ /\ NoLevels(next, policy) /\ pc' = "stopped" /\ failure' = "plan"
         /\ UNCHANGED <<bar, order>>
  <2>1. f.failed = FALSE
    BY DEF Filters
  <2>2. CASE Covers(next)
    <3>1. Backtest!Decide(f)
      BY <1>1, <1>5, <2>1, <2>2
    <3>2. ~(Backtest!RiskNow < lastExitAt)
      BY <1>3 DEF ReplayInv, ReplayTypes, Backtest!RiskNow
    <3>3. order' \in Backtest!Decisions(f)
      BY <3>1, <3>2 DEF Backtest!Decide
    <3>4. order'.quantity \in Nat
      BY <3>3, ReplayAssumption DEF Backtest!Decisions, Backtest!NoOrder
    <3>5. pc' \in {"open", "finished"} /\ bar' = bar + 1 /\ failure' = failure
      BY <3>1, <3>2 DEF Backtest!Decide, Backtest!NextIndex
    <3> QED  BY <2>2, <3>4, <3>5
  <2>3. CASE NoLevels(next, policy)
    BY <1>1, <2>1, <2>3 DEF NoLevels, Backtest!Stop
  <2> QED  BY <1>4, <2>2, <2>3
<1>7. ReplayTypes'
  <2>1. atr' \in Nat /\ bar' \in Nat /\ order'.quantity \in Nat
    BY <1>3, <1>6, SetupInForm DEF ReplayInv, ReplayTypes
  <2> QED  BY <1>1, <1>2, <2>1 DEF ReplayInv, ReplayTypes
<1>8. CandleIsCurrent'
  BY <1>6 DEF CandleIsCurrent
<1>9. Guarded'
  <2>1. CASE pc' = "open"
    <3>1. due = Backtest!StartOf(bar, at)'
      BY <1>3, <1>6, <2>1 DEF Backtest!StartOf, due
    <3>2. Covers(actor') /\ active' = policy
      BY <1>1, <1>6, <2>1
    <3> QED  BY <2>1, <3>1, <3>2 DEF Guarded, Held
  <2>2. CASE pc' \in {"finished", "stopped"}
    BY <2>2 DEF Guarded
  <2> QED  BY <1>6, <2>1, <2>2
<1>10. FilterIsBehind'
  <2>1. pc' = "open" => due = Backtest!StartOf(bar, 0)'
    BY <1>6 DEF Backtest!StartOf, due
  <2>2. f.last < due
    BY DEF due
  <2> QED  BY <1>1, <1>6, <2>1, <2>2 DEF FilterIsBehind, Filters
<1>11. EndsInOrder' /\ (position' > 0 => EntryPrice(entry'))
  BY <1>1, <1>6 DEF ReplayInv, EndsInOrder, NoLevels
<1> QED  BY <1>7, <1>8, <1>9, <1>10, <1>11 DEF ReplayInv

LEMMA DecisionCloseKeeps == ASSUME ReplayInv, Backtest!Close PROVE ReplayInv'
<1>1. /\ pc = "close" /\ atr' \in IF pc' = "open" THEN setup.atrs ELSE {atr}
      /\ UNCHANGED <<setup, at, candle, position, entry, lastExitAt>>
  BY DEF Backtest!Close, Backtest!holding
<1>2. /\ Backtest!StartOf(bar, 0) \in Nat
      /\ Backtest!StartOf(bar, 0) < Backtest!StartOf(bar + 1, 0)
      /\ Backtest!StartOf(bar + 1, 0) \in Int
      /\ Filters(filter)
      /\ filter.last \in Int /\ filter.last < Backtest!StartOf(bar, 0)
  BY <1>1, StartIsKnown, SetupInForm DEF ReplayInv, ReplayTypes, FilterIsBehind,
     Filters, Backtest!StartOf
<1>3. CASE Backtest!Evaluate(filter)
  <2>1. filter.last < Backtest!StartOf(bar + 1, 0)
    BY <1>2 DEF Filters
  <2>2. Filters(filter)
    BY <1>2
  <2> QED  BY <1>1, <1>3, <2>1, <2>2, EvaluateKeeps
<1>4. ASSUME NEW kind \in Backtest!Filter!Classes(filter),
             Backtest!Evaluate(Backtest!Filter!CandleClosed(filter, kind,
                                                            Backtest!StartOf(bar, 0)))
      PROVE  ReplayInv'
  <2> DEFINE g == Backtest!Filter!CandleClosed(filter, kind, Backtest!StartOf(bar, 0))
  <2>1. Filters(g) /\ g.last = Backtest!StartOf(bar, 0)
    BY <1>2, FilterLands
  <2>2. filter' = g
    BY <1>4 DEF Backtest!Evaluate
  <2>3. Backtest!Evaluate(g)
    BY <1>4
  <2> HIDE DEF g
  <2>4. g.last < Backtest!StartOf(bar + 1, 0)
    BY <1>2, <2>1
  <2> QED  BY <1>1, <2>1, <2>2, <2>3, <2>4, EvaluateKeeps
<1> QED  BY <1>3, <1>4 DEF Backtest!Close

LEMMA ReplayStarts == ASSUME Backtest!Init PROVE ReplayInv
<1> USE DEF Backtest!Init
<1>1. setup \in Setups /\ active = setup.policy["none"] /\ "none" \in Regimes
  BY DEF Backtest!Filter!NoKind, Regimes
<1>2. setup.ratio \in Nat \ {0}
  BY <1>1, ReplayAssumption
<1>3. ReplayTypes
  BY <1>1, <1>2 DEF ReplayTypes, Backtest!NoCandle, Backtest!NoOrder, Backtest!None
<1>4. CandleIsCurrent /\ Guarded /\ EndsInOrder
  BY DEF CandleIsCurrent, Guarded, Held, EndsInOrder
<1>5. FilterIsBehind
  <2>1. Backtest!StartOf(0, 0) = 1
    BY <1>2 DEF Backtest!StartOf
  <2> QED  BY <2>1 DEF FilterIsBehind, Filters, Backtest!Filter!WarmingUp, Regimes,
     Backtest!Filter!NoKind
<1> QED  BY <1>3, <1>4, <1>5 DEF ReplayInv

LEMMA ReplayStep == ASSUME ReplayInv, Backtest!Next PROVE ReplayInv'
BY OpenKeeps, OrderKeeps, RangeKeeps, WarmUpKeeps, DecisionCloseKeeps DEF Backtest!Next

LEMMA ReplayStutters == ASSUME ReplayInv, UNCHANGED backtestVars PROVE ReplayInv'
<1>1. UNCHANGED <<setup, pc, bar, at, candle, position, entry, order, actor, active,
                  atr, lastExitAt, filter, failure>>
  BY DEF backtestVars
<1>2. ReplayTypes' /\ CandleIsCurrent' /\ FilterIsBehind' /\ EndsInOrder'
  BY <1>1 DEF ReplayInv, ReplayTypes, CandleIsCurrent, FilterIsBehind, EndsInOrder,
     Backtest!StartOf
<1>3. Guarded'
  BY <1>1 DEF ReplayInv, Guarded, Held, Backtest!StartOf
<1> QED  BY <1>1, <1>2, <1>3 DEF ReplayInv

(* The replay keeps its invariant: what guards a position at each point of *)
(* a candle, and a filter that has seen the candles before this one only.  *)
THEOREM ReplaySoundness == DecisionSpec => []ReplayInv
<1>1. DecisionInit => ReplayInv
  BY ReplayStarts DEF DecisionInit
<1>2. ReplayInv /\ [DecisionNext]_decisionVars => ReplayInv'
  <2>1. [DecisionNext]_decisionVars => UNCHANGED backtestVars \/ Backtest!Next
    BY DEF DecisionNext, decisionVars
  <2> QED  BY <2>1, ReplayStep, ReplayStutters
<1> QED  BY <1>1, <1>2, PTL DEF DecisionSpec

(* Before a candle opens, a position under a policy has the armed plan of  *)
(* exactly that position and nothing else has one, and no machine of the   *)
(* replay is sent what it refuses.                                         *)
THEOREM PositionStaysGuarded == DecisionSpec => []PositionIsGuarded
<1>1. ReplayInv => PositionIsGuarded
  BY DEF ReplayInv, Guarded, Held, Guards, Waits, EndsInOrder, PositionIsGuarded,
     Backtest!PositionIsGuarded, Backtest!NeverOutOfSequence
<1> QED  BY <1>1, ReplaySoundness, PTL

-----------------------------------------------------------------------------
(* The regime.  The filter counts exactly the latest classifications that  *)
(* agree.                                                                  *)
Run(n, k) ==
  /\ n <= Len(kinds)
  /\ \A i \in Len(kinds) - n + 1 .. Len(kinds): kinds[i] = k

KindsInForm ==
  /\ kinds \in Seq(Backtest!Filter!Kinds) /\ Len(kinds) <= ConfirmationCount
  /\ kinds # <<>> => filter.history >= SlopePeriods

(* A streak is the number of the latest classifications that agree.        *)
IsStreak(kind, count, k) ==
  \A n \in 1 .. ConfirmationCount: Run(n, k) <=> (kind = k /\ count >= n)

(* Before a regime is confirmed, and after.                                *)
RegimeInv ==
  /\ KindsInForm
  /\ filter.regime = "none" =>
       \A k \in Backtest!Filter!Kinds:
         /\ IsStreak(filter.pendingKind, filter.pendingCount, k)
         /\ ~(Run(ConfirmationCount, k) /\ filter.count >= MinObservations)
  /\ filter.regime # "none" =>
       /\ filter.count >= MinObservations
       /\ \A k \in Backtest!Filter!Kinds: k # filter.regime =>
            /\ IsStreak(filter.opposingKind, filter.opposingCount, k)
            /\ ~Run(ConfirmationCount, k)

(* What agrees after a classification is the classification, and what      *)
(* agreed with it before.                                                  *)
LEMMA RunGrows ==
  ASSUME KindsInForm, NEW kind \in Backtest!Filter!Kinds,
         kinds' = Backtest!Latest(kind)
  PROVE  /\ kinds' \in Seq(Backtest!Filter!Kinds)
         /\ Len(kinds') <= ConfirmationCount
         /\ \A k: \A n \in 1 .. ConfirmationCount:
              Run(n, k)' <=> (k = kind /\ (n = 1 \/ Run(n - 1, k)))
<1> DEFINE all == Append(kinds, kind)
           l == Len(kinds)
<1>1. /\ ConfirmationCount \in Nat \ {0} /\ kinds \in Seq(Backtest!Filter!Kinds)
      /\ l \in Nat /\ l <= ConfirmationCount
  BY ReplayAssumption DEF KindsInForm
<1>2. /\ all \in Seq(Backtest!Filter!Kinds) /\ Len(all) = l + 1 /\ all[l + 1] = kind
      /\ \A i \in 1 .. l: all[i] = kinds[i]
  BY <1>1
<1>3. kinds' = IF l + 1 > ConfirmationCount THEN Tail(all) ELSE all
  BY <1>2 DEF Backtest!Latest
<1> HIDE DEF all
<1>4. CASE l < ConfirmationCount
  <2>1. kinds' = all /\ Len(kinds') = l + 1
    BY <1>1, <1>2, <1>3, <1>4
  <2>2. ASSUME NEW k, NEW n \in 1 .. ConfirmationCount
        PROVE  Run(n, k)' <=> (k = kind /\ (n = 1 \/ Run(n - 1, k)))
    <3>1. ASSUME Run(n, k)' PROVE k = kind /\ (n = 1 \/ Run(n - 1, k))
      BY <1>1, <1>2, <2>1, <3>1 DEF Run
    <3>2. ASSUME k = kind, n = 1 \/ Run(n - 1, k) PROVE Run(n, k)'
      <4>1. n <= l + 1
        BY <1>1, <3>2 DEF Run
      <4>2. ASSUME NEW i \in l + 1 - n + 1 .. l + 1 PROVE all[i] = k
        <5>1. CASE i = l + 1
          BY <1>2, <3>2, <5>1
        <5>2. CASE i \in l - (n - 1) + 1 .. l
          <6>1. n # 1 /\ i \in 1 .. l
            BY <1>1, <4>1, <5>2
          <6>2. kinds[i] = k
            BY <3>2, <5>2, <6>1 DEF Run
          <6> QED  BY <1>2, <6>1, <6>2
        <5> QED  BY <1>1, <4>2, <5>1, <5>2
      <4> QED  BY <2>1, <4>1, <4>2 DEF Run
    <3> QED  BY <3>1, <3>2
  <2> QED  BY <1>1, <1>2, <1>4, <2>1, <2>2
<1>5. CASE l = ConfirmationCount
  <2>1. kinds' = Tail(all)
    BY <1>1, <1>3, <1>5
  <2>2. /\ Len(kinds') = l /\ kinds' \in Seq(Backtest!Filter!Kinds)
        /\ \A i \in 1 .. l: kinds'[i] = all[i + 1]
    BY <1>1, <1>2, <2>1
  <2>3. ASSUME NEW k, NEW n \in 1 .. ConfirmationCount
        PROVE  Run(n, k)' <=> (k = kind /\ (n = 1 \/ Run(n - 1, k)))
    <3>1. ASSUME Run(n, k)' PROVE k = kind /\ (n = 1 \/ Run(n - 1, k))
      <4>1. kinds'[l] = k
        BY <1>1, <1>5, <2>2, <3>1 DEF Run
      <4>2. k = kind
        BY <1>1, <1>2, <1>5, <2>2, <4>1
      <4>3. ASSUME NEW i \in l - (n - 1) + 1 .. l PROVE kinds[i] = k
        <5>1. i - 1 \in l - n + 1 .. l /\ i - 1 \in 1 .. l /\ i \in 1 .. l
          BY <1>1, <1>5
        <5>2. kinds'[i - 1] = k /\ kinds'[i - 1] = all[i - 1 + 1]
          BY <2>2, <3>1, <5>1 DEF Run
        <5>3. all[i - 1 + 1] = all[i] /\ all[i] = kinds[i]
          BY <1>2, <5>1
        <5> QED  BY <5>2, <5>3
      <4> QED  BY <1>1, <1>5, <4>2, <4>3 DEF Run
    <3>2. ASSUME k = kind, n = 1 \/ Run(n - 1, k) PROVE Run(n, k)'
      <4>1. ASSUME NEW i \in l - n + 1 .. l PROVE kinds'[i] = k
        <5>1. i \in 1 .. l /\ kinds'[i] = all[i + 1]
          BY <1>1, <1>5, <2>2
        <5>2. CASE i = l
          BY <1>2, <3>2, <5>1, <5>2
        <5>3. CASE i # l
          <6>1. n # 1 /\ i + 1 \in l - (n - 1) + 1 .. l /\ i + 1 \in 1 .. l
            BY <1>1, <1>5, <5>1, <5>3
          <6>2. kinds[i + 1] = k
            BY <3>2, <6>1 DEF Run
          <6> QED  BY <1>2, <5>1, <6>1, <6>2
        <5> QED  BY <5>2, <5>3
      <4> QED  BY <1>1, <1>5, <2>2, <4>1 DEF Run
    <3> QED  BY <3>1, <3>2
  <2> QED  BY <1>1, <1>5, <2>2, <2>3
<1> QED  BY <1>1, <1>4, <1>5

(* A streak carried on, or begun, is again the number of those that agree. *)
LEMMA StreakGoesOn ==
  ASSUME KindsInForm, NEW kind \in Backtest!Filter!Kinds,
         kinds' = Backtest!Latest(kind),
         NEW of, NEW count \in Nat, IsStreak(of, count, kind)
  PROVE  LET s == Backtest!Filter!Streak(kind, of, count)
         IN /\ s \in Nat
            /\ \A n \in 1 .. ConfirmationCount: Run(n, kind)' <=> s >= n
            /\ \A k: k # kind =>
                 \A n \in 1 .. ConfirmationCount: ~Run(n, k)'
<1> DEFINE s == Backtest!Filter!Streak(kind, of, count)
<1>1. s = IF kind = of THEN count + 1 ELSE 1
  BY DEF Backtest!Filter!Streak
<1> HIDE DEF s
<1>2. \A k: \A n \in 1 .. ConfirmationCount:
        Run(n, k)' <=> (k = kind /\ (n = 1 \/ Run(n - 1, k)))
  BY RunGrows
<1>3. ASSUME NEW n \in 1 .. ConfirmationCount PROVE Run(n, kind)' <=> s >= n
  <2>1. Run(n, kind)' <=> (n = 1 \/ Run(n - 1, kind))
    BY <1>2
  <2>2. CASE n = 1
    BY <1>1, <2>1, <2>2
  <2>3. CASE n # 1
    <3>1. n - 1 \in 1 .. ConfirmationCount
      BY <2>3, ReplayAssumption
    <3>2. Run(n - 1, kind) <=> (of = kind /\ count >= n - 1)
      BY <3>1 DEF IsStreak
    <3> QED  BY <1>1, <2>1, <2>3, <3>2
  <2> QED  BY <2>2, <2>3
<1>4. s \in Nat
  BY <1>1
<1> QED  BY <1>2, <1>3, <1>4 DEF s

(* What a classification may do to the regime.                             *)
RegimeIsTrue ==
  \A k: k = filter'.regime /\ k # filter.regime =>
    Run(ConfirmationCount, k)' /\ filter'.count >= MinObservations

LEMMA KindKeeps ==
  ASSUME ReplayInv, RegimeInv, NEW kind \in Backtest!Filter!Kinds,
         filter.history >= SlopePeriods, NEW t \in Int, filter.last < t,
         filter' = Backtest!Filter!CandleClosed(filter, kind, t),
         kinds' = Backtest!Latest(kind)
  PROVE  RegimeInv' /\ RegimeIsTrue
<1> DEFINE C == ConfirmationCount
<1>1. /\ Filters(filter) /\ Backtest!Filter!ValidObservation(filter, t)
      /\ filter.count \in Nat /\ filter.history \in Nat
  BY DEF ReplayInv, FilterIsBehind, Filters, Backtest!Filter!ValidObservation
<1>2. /\ kind # Backtest!Filter!Pending /\ kind \in Regimes /\ kind # "none"
      /\ Backtest!Filter!NoKind = "none"
  BY DEF Backtest!Filter!Pending, Backtest!Filter!Kinds, Regimes, Backtest!Filter!NoKind
<1>3. C \in Nat \ {0} /\ MinObservations \in Nat /\ C \in 1 .. C /\ SlopePeriods \in Nat
  BY ReplayAssumption
<1>4. /\ kinds' \in Seq(Backtest!Filter!Kinds) /\ Len(kinds') <= C
      /\ \A k: k # kind => \A n \in 1 .. C: ~Run(n, k)'
  BY RunGrows DEF RegimeInv
<1>5. Backtest!Filter!Counted(filter, t).history = filter.history
  BY <1>1, <1>3, CountedIsCounted
<1> DEFINE Entry == /\ filter'.regime = kind /\ filter'.opposingCount = 0
                    /\ filter'.count = filter.count + 1
                    /\ filter'.history = filter.history
<1>6. ASSUME filter' = Backtest!Filter!Entered(filter, kind, t) PROVE Entry
  BY <1>1, <1>2, <1>5, <1>6, EnteredIsEntered
<1>7. ASSUME Entry, Run(C, kind)', filter.count + 1 >= MinObservations
      PROVE  RegimeInv' /\ RegimeIsTrue
  <2>1. KindsInForm'
    BY <1>3, <1>4, <1>7 DEF KindsInForm
  <2>2. ASSUME NEW k \in Backtest!Filter!Kinds, k # kind
        PROVE  /\ IsStreak(filter.opposingKind, filter.opposingCount, k)'
               /\ ~Run(C, k)'
    BY <1>3, <1>4, <1>7, <2>2 DEF IsStreak
  <2>3. filter'.regime = kind /\ filter'.count >= MinObservations
    BY <1>7
  <2> HIDE DEF Entry
  <2>4. RegimeInv'
    BY <1>2, <2>1, <2>2, <2>3 DEF RegimeInv
  <2>5. RegimeIsTrue
    BY <1>7, <2>3 DEF RegimeIsTrue
  <2> QED  BY <2>4, <2>5
<1>8. CASE filter.regime = "none"
  <2> DEFINE s == Backtest!Filter!Streak(kind, filter.pendingKind, filter.pendingCount)
  <2>1. IsStreak(filter.pendingKind, filter.pendingCount, kind) /\ KindsInForm
        /\ filter.pendingCount \in Nat
    BY <1>1, <1>8 DEF RegimeInv, Filters
  <2>2. s \in Nat /\ \A n \in 1 .. C: Run(n, kind)' <=> s >= n
    BY <2>1, StreakGoesOn
  <2>3. CASE Backtest!Filter!WarmedUp(filter, kind)
    <3>1. s >= C /\ filter.count + 1 >= MinObservations
      BY <2>3 DEF Backtest!Filter!WarmedUp
    <3>2. filter' = Backtest!Filter!Entered(filter, kind, t)
      BY <1>1, <1>2, <1>8, <2>3 DEF Backtest!Filter!CandleClosed
    <3> HIDE DEF s, Entry
    <3>3. Run(C, kind)'
      BY <1>3, <2>2, <3>1
    <3> QED  BY <1>6, <1>7, <3>1, <3>2, <3>3
  <2>4. CASE ~Backtest!Filter!WarmedUp(filter, kind)
    <3>1. filter' = Backtest!Filter!Warming(filter, kind, t)
      BY <1>1, <1>2, <1>8, <2>4 DEF Backtest!Filter!CandleClosed
    <3>2. ~(s >= C /\ filter.count + 1 >= MinObservations)
      BY <2>4 DEF Backtest!Filter!WarmedUp
    <3>3. /\ filter'.regime = "none" /\ filter'.count = filter.count + 1
          /\ filter'.history = filter.history
          /\ filter'.pendingKind = kind /\ filter'.pendingCount = s
      BY <1>1, <1>5, <1>8, <3>1, WarmingIsWarming
    <3> HIDE DEF s
    <3>4. KindsInForm'
      BY <1>3, <1>4, <3>3 DEF KindsInForm
    <3>5. ASSUME NEW k \in Backtest!Filter!Kinds
          PROVE  /\ IsStreak(filter.pendingKind, filter.pendingCount, k)'
                 /\ ~(Run(C, k)' /\ filter'.count >= MinObservations)
      BY <1>3, <1>4, <2>2, <3>2, <3>3 DEF IsStreak
    <3> QED  BY <1>8, <3>3, <3>4, <3>5 DEF RegimeInv, RegimeIsTrue
  <2> QED  BY <2>3, <2>4
<1>9. CASE filter.regime # "none"
  <2> DEFINE s == Backtest!Filter!Streak(kind, filter.opposingKind, filter.opposingCount)
  <2>1. filter.count >= MinObservations /\ KindsInForm /\ filter.opposingCount \in Nat
    BY <1>1, <1>9 DEF RegimeInv, Filters
  <2>2. ASSUME kind # filter.regime
        PROVE  s \in Nat /\ \A n \in 1 .. C: Run(n, kind)' <=> s >= n
    <3>1. IsStreak(filter.opposingKind, filter.opposingCount, kind)
      BY <1>9, <2>2 DEF RegimeInv
    <3> QED  BY <2>1, <3>1, StreakGoesOn
  <2>3. CASE Backtest!Filter!SwitchConfirmed(filter, kind)
    <3>1. kind # filter.regime /\ s >= C
      BY <2>3 DEF Backtest!Filter!SwitchConfirmed
    <3>2. filter' = Backtest!Filter!Entered(filter, kind, t)
      BY <1>1, <1>2, <1>9, <2>3 DEF Backtest!Filter!CandleClosed
    <3> HIDE DEF s, Entry
    <3>3. Run(C, kind)' /\ filter.count + 1 >= MinObservations
      BY <1>1, <1>3, <2>1, <2>2, <3>1
    <3> QED  BY <1>6, <1>7, <3>2, <3>3
  <2>4. CASE ~Backtest!Filter!SwitchConfirmed(filter, kind)
    <3>1. filter' = Backtest!Filter!Recorded(filter, kind, t)
      BY <1>1, <1>2, <1>9, <2>4 DEF Backtest!Filter!CandleClosed
    <3>2. ~(kind # filter.regime /\ s >= C)
      BY <2>4 DEF Backtest!Filter!SwitchConfirmed
    <3>3. /\ filter'.regime = filter.regime /\ filter'.count = filter.count + 1
          /\ filter'.history = filter.history
          /\ IF kind = filter.regime THEN filter'.opposingCount = 0
             ELSE filter'.opposingKind = kind /\ filter'.opposingCount = s
      BY <1>1, <1>5, <3>1, RecordedIsRecorded
    <3> HIDE DEF s
    <3>4. KindsInForm' /\ filter'.count >= MinObservations
      BY <1>1, <1>3, <1>4, <2>1, <3>3 DEF KindsInForm
    <3>5. ASSUME NEW k \in Backtest!Filter!Kinds, k # filter.regime
          PROVE  /\ IsStreak(filter.opposingKind, filter.opposingCount, k)'
                 /\ ~Run(C, k)'
      <4>1. CASE kind = filter.regime
        BY <1>3, <1>4, <3>3, <3>5, <4>1 DEF IsStreak
      <4>2. CASE kind # filter.regime
        BY <1>3, <1>4, <2>2, <3>2, <3>3, <3>5, <4>2 DEF IsStreak
      <4> QED  BY <4>1, <4>2
    <3> QED  BY <1>9, <3>3, <3>4, <3>5 DEF RegimeInv, RegimeIsTrue
  <2> QED  BY <2>3, <2>4
<1> QED  BY <1>8, <1>9

(* Without a history the slow average has no slope, and nothing was        *)
(* classified.                                                             *)
LEMMA PendingKeeps ==
  ASSUME ReplayInv, RegimeInv, filter.history < SlopePeriods,
         NEW t \in Int, filter.last < t,
         filter' = Backtest!Filter!CandleClosed(filter, Backtest!Filter!Pending, t),
         kinds' = Backtest!Latest(Backtest!Filter!Pending)
  PROVE  RegimeInv' /\ RegimeIsTrue
<1>1. /\ Filters(filter) /\ Backtest!Filter!ValidObservation(filter, t)
      /\ filter.count \in Nat /\ filter.history \in Nat
  BY DEF ReplayInv, FilterIsBehind, Filters, Backtest!Filter!ValidObservation
<1>2. /\ ConfirmationCount \in Nat \ {0} /\ SlopePeriods \in Nat
      /\ MinObservations \in Nat
  BY ReplayAssumption
<1>3. kinds = <<>> /\ kinds' = <<>>
  <2>1. kinds = <<>>
    BY <1>1, <1>2 DEF RegimeInv, KindsInForm
  <2>2. Backtest!Filter!Pending \notin Backtest!Filter!Kinds
    BY DEF Backtest!Filter!Pending, Backtest!Filter!Kinds
  <2>3. kinds' = IF Len(kinds) > ConfirmationCount THEN Tail(kinds) ELSE kinds
    BY <2>2 DEF Backtest!Latest
  <2>4. Len(kinds) = 0
    BY <2>1
  <2> QED  BY <1>2, <2>1, <2>3, <2>4
<1>4. filter' = Backtest!Filter!Counted(filter, t)
  BY <1>1 DEF Backtest!Filter!CandleClosed
<1>5. /\ filter'.count = filter.count + 1 /\ filter'.regime = filter.regime
      /\ filter'.pendingKind = filter.pendingKind
      /\ filter'.pendingCount = filter.pendingCount
      /\ filter'.opposingKind = filter.opposingKind
      /\ filter'.opposingCount = filter.opposingCount
  <2> DEFINE g == Backtest!Filter!Counted(filter, t)
  <2>1. /\ g.count = filter.count + 1 /\ g.regime = filter.regime
        /\ g.pendingKind = filter.pendingKind
        /\ g.pendingCount = filter.pendingCount
        /\ g.opposingKind = filter.opposingKind
        /\ g.opposingCount = filter.opposingCount
    BY <1>1, CountedIsCounted, Zenon
  <2> HIDE DEF g
  <2>2. filter' = g
    BY <1>4 DEF g
  <2> QED  BY <2>1, <2>2
<1>6. \A k: ~Run(ConfirmationCount, k)'
  BY <1>2, <1>3 DEF Run
<1>7. KindsInForm'
  BY <1>2, <1>3 DEF KindsInForm
<1>8. CASE filter.regime = "none"
  <2>1. \A k \in Backtest!Filter!Kinds:
          IsStreak(filter.pendingKind, filter.pendingCount, k)
    BY <1>8 DEF RegimeInv
  <2>2. \A k \in Backtest!Filter!Kinds:
          IsStreak(filter.pendingKind, filter.pendingCount, k)'
    BY <1>3, <1>5, <2>1 DEF IsStreak, Run
  <2> QED  BY <1>5, <1>6, <1>7, <1>8, <2>2 DEF RegimeInv, RegimeIsTrue
<1>9. CASE filter.regime # "none"
  <2>1. /\ filter.count >= MinObservations
        /\ \A k \in Backtest!Filter!Kinds: k # filter.regime =>
             IsStreak(filter.opposingKind, filter.opposingCount, k)
    BY <1>9 DEF RegimeInv
  <2>2. \A k \in Backtest!Filter!Kinds: k # filter.regime =>
          IsStreak(filter.opposingKind, filter.opposingCount, k)'
    BY <1>3, <1>5, <2>1 DEF IsStreak, Run
  <2>3. filter'.count >= MinObservations
    BY <1>1, <1>2, <1>5, <2>1
  <2> QED  BY <1>5, <1>6, <1>7, <1>9, <2>2, <2>3 DEF RegimeInv, RegimeIsTrue
<1> QED  BY <1>8, <1>9

LEMMA RegimeRests ==
  ASSUME RegimeInv, UNCHANGED <<filter, kinds>> PROVE RegimeInv' /\ RegimeIsTrue
BY DEF RegimeInv, RegimeIsTrue, KindsInForm, IsStreak, Run

LEMMA RegimeStarts == ASSUME Backtest!Init PROVE RegimeInv
<1>1. /\ kinds = <<>> /\ filter.regime = "none" /\ filter.pendingKind = "none"
      /\ filter.pendingCount = 0 /\ filter.history = 0
  BY DEF Backtest!Init, Backtest!Filter!WarmingUp, Backtest!Filter!NoKind
<1>2. KindsInForm /\ \A n \in 1 .. ConfirmationCount: \A k: ~Run(n, k)
  BY <1>1, ReplayAssumption DEF KindsInForm, Run
<1>3. \A k \in Backtest!Filter!Kinds: k # "none"
  BY DEF Backtest!Filter!Kinds
<1>4. ConfirmationCount \in 1 .. ConfirmationCount
  BY ReplayAssumption
<1> QED  BY <1>1, <1>2, <1>3, <1>4 DEF RegimeInv, IsStreak

LEMMA RegimeStep ==
  ASSUME ReplayInv, RegimeInv, Backtest!Next PROVE RegimeInv' /\ RegimeIsTrue
<1>1. CASE Backtest!Open \/ Backtest!ExecuteOrder \/ Backtest!Range \/ Backtest!WarmUp
  BY <1>1, RegimeRests DEF Backtest!Open, Backtest!ExecuteOrder, Backtest!Range,
     Backtest!WarmUp, Backtest!history
<1>2. CASE Backtest!Close
  <2>1. CASE Backtest!Evaluate(filter) /\ UNCHANGED kinds
    BY <2>1, RegimeRests DEF Backtest!Evaluate
  <2>2. ASSUME NEW kind \in Backtest!Filter!Classes(filter),
               Backtest!Evaluate(Backtest!Filter!CandleClosed(filter, kind,
                                                              Backtest!StartOf(bar, 0))),
               kinds' = Backtest!Latest(kind)
        PROVE  RegimeInv' /\ RegimeIsTrue
    <3> DEFINE t == Backtest!StartOf(bar, 0)
    <3>1. t \in Int /\ filter.last < t /\ filter.history \in Nat
      BY <1>2, StartIsKnown DEF Backtest!Close, ReplayInv, FilterIsBehind, Filters
    <3>2. filter' = Backtest!Filter!CandleClosed(filter, kind, t)
      BY <2>2 DEF Backtest!Evaluate
    <3> HIDE DEF t
    <3>3. CASE filter.history < SlopePeriods
      <4>1. kind = Backtest!Filter!Pending
        BY <3>3 DEF Backtest!Filter!Classes
      <4> QED  BY <2>2, <3>1, <3>2, <3>3, <4>1, PendingKeeps
    <3>4. CASE ~(filter.history < SlopePeriods)
      <4>1. kind \in Backtest!Filter!Kinds
        BY <3>4 DEF Backtest!Filter!Classes
      <4>2. filter.history >= SlopePeriods
        BY <3>1, <3>4, ReplayAssumption
      <4> QED  BY <2>2, <3>1, <3>2, <4>1, <4>2, KindKeeps
    <3> QED  BY <3>3, <3>4
  <2> QED  BY <1>2, <2>1, <2>2 DEF Backtest!Close
<1> QED  BY <1>1, <1>2 DEF Backtest!Next

(* The regime follows the classifications: while none is confirmed none    *)
(* is due, and afterwards no other one is.                                 *)
THEOREM RegimeSoundness == DecisionSpec => []RegimeInv
<1>1. DecisionInit => RegimeInv
  BY RegimeStarts DEF DecisionInit
<1>2. ReplayInv /\ RegimeInv /\ [DecisionNext]_decisionVars => RegimeInv'
  <2>1. [DecisionNext]_decisionVars => UNCHANGED backtestVars \/ Backtest!Next
    BY DEF DecisionNext, decisionVars
  <2>2. UNCHANGED backtestVars => UNCHANGED <<filter, kinds>>
    BY DEF backtestVars
  <2> QED  BY <2>1, <2>2, RegimeStep, RegimeRests
<1> QED  BY <1>1, <1>2, ReplaySoundness, PTL DEF DecisionSpec

ConfirmedOnly ==
  /\ filter'.regime # filter.regime => Backtest!Confirmed(filter'.regime)
  /\ \A kind \in Backtest!Filter!Kinds:
       Backtest!Confirmed(kind) => filter'.regime = kind

(* The whole memory of the filter agrees when it is confirmed.             *)
LEMMA ConfirmedIsRun ==
  ASSUME RegimeInv', NEW kind
  PROVE  Backtest!Confirmed(kind) <=>
           Run(ConfirmationCount, kind)' /\ filter'.count >= MinObservations
<1>1. /\ kinds' \in Seq(Backtest!Filter!Kinds) /\ Len(kinds') <= ConfirmationCount
      /\ ConfirmationCount \in Nat
  BY ReplayAssumption DEF RegimeInv, KindsInForm
<1>2. DOMAIN kinds' = 1 .. Len(kinds') /\ Len(kinds') \in Nat
  BY <1>1
<1>3. Run(ConfirmationCount, kind)' <=>
        /\ ConfirmationCount <= Len(kinds')
        /\ \A i \in Len(kinds') - ConfirmationCount + 1 .. Len(kinds'):
             kinds'[i] = kind
  BY DEF Run
<1>4. CASE Len(kinds') = ConfirmationCount
  <2>1. Len(kinds') - ConfirmationCount + 1 .. Len(kinds') = DOMAIN kinds'
    BY <1>1, <1>2, <1>4
  <2>2. ConfirmationCount <= Len(kinds')
    BY <1>1, <1>4
  <2> QED  BY <1>3, <1>4, <2>1, <2>2, Zenon DEF Backtest!Confirmed
<1>5. CASE Len(kinds') # ConfirmationCount
  <2>1. ~(ConfirmationCount <= Len(kinds'))
    <3> DEFINE l == Len(kinds')
    <3>1. l \in Nat /\ l <= ConfirmationCount /\ l # ConfirmationCount
      BY <1>1, <1>2, <1>5
    <3> HIDE DEF l
    <3>2. ~(ConfirmationCount <= l)
      BY <1>1, <3>1
    <3> QED  BY <3>2 DEF l
  <2> QED  BY <1>3, <1>5, <2>1, Zenon DEF Backtest!Confirmed
<1> QED  BY <1>4, <1>5

LEMMA OnlyConfirmed ==
  ASSUME ReplayInv, RegimeInv, Backtest!Next PROVE ConfirmedOnly
<1>1. RegimeInv' /\ RegimeIsTrue
  BY RegimeStep
<1>2. \A kind: Backtest!Confirmed(kind) <=>
        Run(ConfirmationCount, kind)' /\ filter'.count >= MinObservations
  BY <1>1, ConfirmedIsRun
<1>3. filter'.regime # filter.regime => Backtest!Confirmed(filter'.regime)
  BY <1>1, <1>2 DEF RegimeIsTrue
<1>4. ASSUME NEW kind \in Backtest!Filter!Kinds, Backtest!Confirmed(kind)
      PROVE  filter'.regime = kind
  <2>1. Run(ConfirmationCount, kind)' /\ filter'.count >= MinObservations
    BY <1>2, <1>4
  <2> QED  BY <1>1, <2>1 DEF RegimeInv
<1> QED  BY <1>3, <1>4 DEF ConfirmedOnly

(* The regime changes when, and only when, the last ConfirmationCount      *)
(* classifications agree on another one after MinObservations candles.     *)
THEOREM RegimeFollows == DecisionSpec => RegimeIsConfirmed
<1>1. [DecisionNext]_decisionVars => [Backtest!Next]_backtestVars
  BY DEF DecisionNext, decisionVars
<1>2. ReplayInv /\ RegimeInv /\ [DecisionNext]_decisionVars
        => [ConfirmedOnly]_backtestVars
  BY <1>1, OnlyConfirmed
<1>3. DecisionSpec => [][ConfirmedOnly]_backtestVars
  BY <1>2, ReplaySoundness, RegimeSoundness, PTL DEF DecisionSpec
<1> QED  BY <1>3 DEF RegimeIsConfirmed, Backtest!RegimeIsConfirmed, ConfirmedOnly,
     backtestVars, Backtest!vars, Backtest!holding, Backtest!protection,
     Backtest!history

-----------------------------------------------------------------------------
(* The levels of a plan lie on either side of the open, so that an exit    *)
(* between them is at a price of its candle.                               *)
StopOf(e, policy) == e - Backtest!Share(e, policy.stop)
TakeOf(e, policy) ==
  IF policy.take = -1 THEN -1 ELSE e + Backtest!Share(e, policy.take)

HasLevels(plan, policy, e) ==
  policy.mode # "ATR" =>
    StopOf(e, policy) <= plan.stop /\ plan.take = TakeOf(e, policy)

Around(plan, open) ==
  plan.stop <= open /\ (plan.take = -1 \/ open <= plan.take)

(* What a purchase costs beside its price is within the distance of a stop.*)
CostsWithinStops ==
  \A s \in Setups, r \in Regimes, p \in Prices:
    s.policy[r].mode \in {"FIXED", "TRAILING"}
      => StopOf(p + s.cost, s.policy[r]) <= p

ExitInv ==
  /\ pc \in {"open", "orders", "range", "close"} /\ Held =>
       HasLevels(actor.plan, active, entry)
  /\ pc \in {"orders", "range"} =>
       /\ candle.low <= candle.open /\ candle.open <= candle.high
       /\ Held /\ remade # "ATR" => Around(actor.plan, candle.open)
  /\ pc = "orders" => remade = "none"
  /\ ExitIsTraded

LEMMA ShareIsNatural ==
  ASSUME NEW a \in Nat, NEW n \in Nat
  PROVE  /\ Backtest!Share(a, n) \in Nat
         /\ Whole * Backtest!Share(a, n) <= a * n
         /\ a * n < Whole * (Backtest!Share(a, n) + 1)
<1>1. a * n \in Nat /\ Whole \in Nat \ {0}
  BY ReplayAssumption
<1> DEFINE m == a * n
<1>2. /\ m \div Whole \in Nat /\ Whole * (m \div Whole) <= m
      /\ m < Whole * ((m \div Whole) + 1)
  BY <1>1, Z3
<1> QED  BY <1>2 DEF Backtest!Share

LEMMA ShareGrows ==
  ASSUME NEW a \in Nat, NEW b \in Nat, a <= b, NEW n \in Nat
  PROVE  Backtest!Share(a, n) <= Backtest!Share(b, n)
<1>1. a * n <= b * n /\ a * n \in Int /\ b * n \in Int
  BY ProductGrows
<1>2. Whole \in Nat \ {0}
  BY ReplayAssumption
<1> DEFINE s == Backtest!Share(a, n)
<1>3. s \in Nat /\ Whole * s <= a * n /\ Whole * s \in Int
  BY <1>2, ShareIsNatural
<1> HIDE DEF s
<1>4. Whole * s <= b * n
  BY <1>1, <1>3
<1>5. s <= (b * n) \div Whole
  BY <1>1, <1>2, <1>3, <1>4, QuotientIsOver
<1> QED  BY <1>5 DEF Backtest!Share, s

LEMMA StopGrows ==
  ASSUME NEW a \in Nat, NEW b \in Nat, a <= b, NEW n \in Nat, n < Whole
  PROVE  a - Backtest!Share(a, n) <= b - Backtest!Share(b, n)
<1> DEFINE s == Backtest!Share(a, n)
           d == b - a
<1>1. Whole \in Nat \ {0} /\ d \in Nat /\ b = a + d
  BY ReplayAssumption
<1>2. s \in Nat /\ a * n < Whole * (s + 1)
  BY ShareIsNatural
<1> HIDE DEF s, d
<1>3. d * n <= d * Whole
  BY <1>1, ProductGrows
<1>4. b * n = a * n + d * n /\ Whole * (s + d + 1) = Whole * (s + 1) + d * Whole
  BY <1>1, <1>2
<1>5. b * n < Whole * (s + d + 1)
  BY <1>1, <1>2, <1>3, <1>4
<1>6. b * n \in Int /\ s + d + 1 \in Int
  BY <1>2, <1>1
<1>7. (b * n) \div Whole < s + d + 1
  BY <1>1, <1>5, <1>6, QuotientIsUnder
<1>8. (b * n) \div Whole \in Int
  BY <1>1, <1>6
<1>9. Backtest!Share(b, n) <= s + d /\ Backtest!Share(b, n) \in Int
  BY <1>1, <1>2, <1>7, <1>8 DEF Backtest!Share
<1>10. a - s <= b - Backtest!Share(b, n)
  BY <1>1, <1>2, <1>9
<1> QED  BY <1>10 DEF s

LEMMA StopIsInt ==
  ASSUME NEW e \in Nat, NEW policy, policy.stop \in Nat
  PROVE  StopOf(e, policy) \in Int
<1>1. Backtest!Share(e, policy.stop) \in Nat
  BY ShareIsNatural
<1> QED  BY <1>1 DEF StopOf

(* An average lies between what it is taken of.                            *)
LEMMA AverageIsBetween ==
  ASSUME NEW m \in Nat \ {0}, NEW n \in Nat \ {0}, NEW x \in Nat, NEW y \in Nat,
         x <= y
  PROVE  /\ (m * x + n * y) \div (m + n) \in Int
         /\ x <= (m * x + n * y) \div (m + n)
         /\ (m * x + n * y) \div (m + n) <= y
<1> DEFINE w == m * x + n * y
           d == m + n
<1>1. /\ n * x <= n * y /\ m * x <= m * y
      /\ m * x \in Int /\ n * y \in Int /\ n * x \in Int /\ m * y \in Int
  BY ProductGrows
<1>2. d \in Nat \ {0} /\ w \in Int
  BY <1>1
<1>3. d * x = m * x + n * x /\ d * y = m * y + n * y /\ d * (y + 1) = d * y + d
  OBVIOUS
<1>4. d * x <= w /\ w < d * (y + 1)
  BY <1>1, <1>2, <1>3
<1> HIDE DEF w, d
<1>5. x <= w \div d
  BY <1>2, <1>4, QuotientIsOver
<1>6. w \div d < y + 1
  BY <1>2, <1>4, QuotientIsUnder
<1>7. w \div d \in Int
  BY <1>2
<1> QED  BY <1>5, <1>6, <1>7 DEF w, d

(* A plan made anew from an average has its levels around the open that    *)
(* those of the old plan were around.                                      *)
LEMMA AverageIsAround ==
  ASSUME NEW policy, policy.stop \in Nat, policy.stop < Whole,
         policy.take = -1 \/ policy.take \in Nat,
         NEW held \in Nat \ {0}, NEW n \in Nat \ {0}, NEW e \in Nat,
         NEW open \in Nat, NEW cost \in Nat,
         StopOf(open + cost, policy) <= open,
         NEW plan, plan.stop \in Int, plan.take \in Int, policy.mode # "ATR",
         HasLevels(plan, policy, e), Around(plan, open)
  PROVE  LET f == (held * e + n * (open + cost)) \div (held + n)
         IN /\ StopOf(f, policy) <= open
            /\ TakeOf(f, policy) = -1 \/ open <= TakeOf(f, policy)
<1> DEFINE f == (held * e + n * (open + cost)) \div (held + n)
           paid == open + cost
<1>1. paid \in Nat /\ open <= paid
  OBVIOUS
<1>2. \/ e <= paid /\ e <= f /\ f <= paid
      \/ paid <= e /\ paid <= f /\ f <= e
  <2>1. CASE e <= paid
    BY <1>1, <2>1, AverageIsBetween
  <2>2. CASE paid <= e
    <3>1. /\ (n * paid + held * e) \div (n + held) \in Int
          /\ paid <= (n * paid + held * e) \div (n + held)
          /\ (n * paid + held * e) \div (n + held) <= e
      BY <1>1, <2>2, AverageIsBetween
    <3>2. n * paid + held * e = held * e + n * paid /\ n + held = held + n
      BY <1>1
    <3> QED  BY <2>2, <3>1, <3>2
  <2> QED  BY <1>1, <2>1, <2>2
<1>3. f \in Nat
  <2>1. /\ held * e \in Nat /\ n * paid \in Nat /\ held + n \in Nat \ {0}
    BY <1>1
  <2>2. held * e + n * paid \in Nat
    BY <2>1
  <2> QED  BY <2>1, <2>2, Z3
<1> HIDE DEF f, paid
<1>4. StopOf(f, policy) <= open
  <2>1. CASE f <= paid
    <3>1. StopOf(f, policy) <= StopOf(paid, policy)
      BY <1>1, <1>3, <2>1, StopGrows DEF StopOf
    <3>2. StopOf(f, policy) \in Int /\ StopOf(paid, policy) \in Int
      BY <1>1, <1>3, StopIsInt
    <3> QED  BY <3>1, <3>2 DEF paid
  <2>2. CASE f <= e
    <3>1. StopOf(f, policy) <= StopOf(e, policy)
      BY <1>3, <2>2, StopGrows DEF StopOf
    <3>2. StopOf(f, policy) \in Int /\ StopOf(e, policy) \in Int
      BY <1>3, StopIsInt
    <3>3. StopOf(e, policy) <= plan.stop /\ plan.stop <= open
      BY DEF HasLevels, Around
    <3> QED  BY <3>1, <3>2, <3>3
  <2> QED  BY <1>2, <2>1, <2>2
<1>5. ASSUME policy.take # -1 PROVE open <= TakeOf(f, policy)
  <2>1. /\ policy.take \in Nat /\ Backtest!Share(f, policy.take) \in Nat
        /\ TakeOf(f, policy) = f + Backtest!Share(f, policy.take)
    BY <1>3, <1>5, ShareIsNatural DEF TakeOf
  <2>2. CASE paid <= f
    BY <1>1, <1>3, <2>1, <2>2
  <2>3. CASE e <= f
    <3>1. Backtest!Share(e, policy.take) <= Backtest!Share(f, policy.take)
      BY <1>3, <2>1, <2>3, ShareGrows
    <3>2. Backtest!Share(e, policy.take) \in Nat
      BY <2>1, ShareIsNatural
    <3>3. plan.take = e + Backtest!Share(e, policy.take)
      BY <1>5 DEF HasLevels, TakeOf
    <3>4. plan.take # -1
      BY <3>2, <3>3
    <3>5. open <= plan.take
      BY <3>4 DEF Around
    <3> QED  BY <1>3, <2>1, <2>3, <3>1, <3>2, <3>3, <3>5
  <2> QED  BY <1>2, <2>2, <2>3
<1>6. policy.take = -1 => TakeOf(f, policy) = -1
  BY DEF TakeOf
<1> QED  BY <1>4, <1>5, <1>6 DEF f, paid

(* What the events of the machine do to the levels.                        *)
LEMMA ArmedHasLevels ==
  ASSUME NEW policy, NEW q, NEW e, NEW x, NEW t,
         Backtest!Arm(policy, q, e, x, t).state = "awaitingOpen",
         policy.mode # "ATR" => StopOf(e, policy) \in Int
  PROVE  HasLevels(Backtest!Arm(policy, q, e, x, t).plan, policy, e)
<1> DEFINE plan == Backtest!Plan(policy, q, e, x, t)
           idle == [Backtest!NoActor EXCEPT !.state = "idle", !.policy = policy]
<1>1. HasLevels(plan, policy, e)
  <2>1. ASSUME policy.mode # "ATR"
        PROVE  plan.stop = StopOf(e, policy) /\ plan.take = TakeOf(e, policy)
    BY <2>1 DEF StopOf, TakeOf, Backtest!Plan, Backtest!None
  <2> QED  BY <2>1 DEF HasLevels
<1>2. DOMAIN idle = {"state", "policy", "plan", "start", "open", "last", "exit",
                     "fault"}
  BY FreshActor DEF IsActor
<1> HIDE DEF plan, idle
<1>3. Backtest!ValidPlan(policy, plan, x)
  <2>1. CASE ~Backtest!ValidPlan(policy, plan, x)
    <3>1. Backtest!Arm(policy, q, e, x, t) =
            [idle EXCEPT !.state = "failed", !.fault = "plan"]
      BY <2>1 DEF Backtest!Arm, Backtest!Failed, plan, idle
    <3> QED  BY <1>2, <3>1
  <2> QED  BY <2>1
<1>4. Backtest!Arm(policy, q, e, x, t) =
        [idle EXCEPT !.state = "awaitingOpen", !.plan = plan]
  BY <1>3 DEF Backtest!Arm, plan, idle
<1> QED  BY <1>1, <1>2, <1>4

LEMMA OpenedIsAround ==
  ASSUME NEW a, IsActor(a), NEW c, c.open \in Int
  PROVE  LET b == Backtest!CandleOpened(a, c)
         IN /\ b.state = "triggered" /\ a.state # "triggered"
                 => b.exit.price = c.open
            /\ b.state = "awaitingRange" /\ a.state # "awaitingRange"
                 => b.plan = a.plan /\ Around(a.plan, c.open)
<1> DEFINE off == Backtest!OpenExit(a.plan, c.open)
           b == Backtest!CandleOpened(a, c)
<1>1. /\ off # Backtest!NoExit => off.price = c.open
      /\ off = Backtest!NoExit => Around(a.plan, c.open)
  BY DEF Backtest!OpenExit, Backtest!NoExit, Backtest!Exit, Backtest!None, Around,
     IsActor, IsPlan
<1> HIDE DEF off
<1>2. \/ b = [a EXCEPT !.state = "failed", !.fault = "sequence"]
      \/ /\ off # Backtest!NoExit
         /\ b = [a EXCEPT !.state = "triggered", !.exit = off, !.last = c.start,
                          !.start = -1, !.open = -1]
      \/ /\ off = Backtest!NoExit
         /\ b = [a EXCEPT !.state = "awaitingRange", !.start = c.start,
                          !.open = c.open]
  BY DEF Backtest!CandleOpened, Backtest!Failed, Backtest!Triggered, Backtest!None, off
<1> HIDE DEF b
<1>3. CASE b = [a EXCEPT !.state = "failed", !.fault = "sequence"]
  <2>1. b.state = "failed"
    BY <1>3 DEF IsActor
  <2> QED  BY <2>1 DEF b
<1>4. CASE /\ off # Backtest!NoExit
           /\ b = [a EXCEPT !.state = "triggered", !.exit = off, !.last = c.start,
                            !.start = -1, !.open = -1]
  <2>1. b.state = "triggered" /\ b.exit = off
    BY <1>4 DEF IsActor
  <2> QED  BY <1>1, <1>4, <2>1 DEF b
<1>5. CASE /\ off = Backtest!NoExit
           /\ b = [a EXCEPT !.state = "awaitingRange", !.start = c.start,
                            !.open = c.open]
  <2>1. b.state = "awaitingRange" /\ b.plan = a.plan
    BY <1>5 DEF IsActor
  <2> QED  BY <1>1, <1>5, <2>1 DEF b
<1> QED  BY <1>2, <1>3, <1>4, <1>5

LEMMA RangeIsTraded ==
  ASSUME NEW a, IsActor(a), NEW c, c.open \in Int, c.high \in Int, c.low \in Int,
         c.low <= c.open, c.open <= c.high
  PROVE  LET b == Backtest!CandleRangeReplayed(a, c)
         IN /\ b.state = "triggered" /\ a.state # "triggered"
                    /\ Around(a.plan, c.open)
                 => b.exit.price \in c.low .. c.high
            /\ b.state = "awaitingOpen" /\ a.state # "awaitingOpen"
                 => b.plan = Backtest!Advance(a.plan, a.policy, c.high)
<1> DEFINE off == Backtest!RangeExit(a.plan, c)
           next == Backtest!Advance(a.plan, a.policy, c.high)
           b == Backtest!CandleRangeReplayed(a, c)
<1>1. off # Backtest!NoExit /\ Around(a.plan, c.open) => off.price \in c.low .. c.high
  BY DEF Backtest!RangeExit, Backtest!NoExit, Backtest!Exit, Backtest!None, Around,
     IsActor, IsPlan
<1> HIDE DEF off, next
<1>2. \/ b = [a EXCEPT !.state = "failed", !.fault = "sequence"]
      \/ /\ off # Backtest!NoExit
         /\ b = [a EXCEPT !.state = "triggered", !.exit = off, !.last = c.start,
                          !.start = -1, !.open = -1]
      \/ b = [a EXCEPT !.state = "awaitingOpen", !.last = c.start, !.start = -1,
                       !.open = -1, !.plan = next]
  BY DEF Backtest!CandleRangeReplayed, Backtest!Failed, Backtest!Triggered,
     Backtest!None, off, next
<1> HIDE DEF b
<1>3. CASE b = [a EXCEPT !.state = "failed", !.fault = "sequence"]
  <2>1. b.state = "failed"
    BY <1>3 DEF IsActor
  <2> QED  BY <2>1 DEF b
<1>4. CASE /\ off # Backtest!NoExit
           /\ b = [a EXCEPT !.state = "triggered", !.exit = off, !.last = c.start,
                            !.start = -1, !.open = -1]
  <2>1. b.state = "triggered" /\ b.exit = off
    BY <1>4 DEF IsActor
  <2> QED  BY <1>1, <1>4, <2>1 DEF b
<1>5. CASE b = [a EXCEPT !.state = "awaitingOpen", !.last = c.start, !.start = -1,
                         !.open = -1, !.plan = next]
  <2>1. b.state = "awaitingOpen" /\ b.plan = next
    BY <1>5 DEF IsActor
  <2> QED  BY <2>1 DEF b, next
<1> QED  BY <1>2, <1>3, <1>4, <1>5

(* A stop that follows a high only rises.                                  *)
LEMMA AdvancedHasLevels ==
  ASSUME NEW plan, IsPlan(plan), NEW policy, NEW e, NEW high,
         HasLevels(plan, policy, e), policy.mode # "ATR" => StopOf(e, policy) \in Int,
         policy.mode = "TRAILING" => high - Backtest!Share(high, policy.stop) \in Int
  PROVE  HasLevels(Backtest!Advance(plan, policy, high), policy, e)
<1>1. CASE policy.mode # "TRAILING" \/ high <= plan.anchor
  BY <1>1 DEF Backtest!Advance
<1>2. CASE policy.mode = "TRAILING" /\ ~(high <= plan.anchor)
  <2> DEFINE trailed == high - Backtest!Share(high, policy.stop)
             s == IF trailed > plan.stop THEN trailed ELSE plan.stop
             next == [plan EXCEPT !.anchor = high, !.stop = s]
  <2>1. Backtest!Advance(plan, policy, high) = next
    BY <1>2 DEF Backtest!Advance
  <2>2. plan.stop <= s /\ s \in Int /\ plan.stop \in Int
    BY <1>2 DEF IsPlan
  <2> HIDE DEF trailed, s
  <2>3. next.stop = s /\ next.take = plan.take
    BY DEF IsPlan
  <2> HIDE DEF next
  <2> QED  BY <1>2, <2>1, <2>2, <2>3 DEF HasLevels
<1> QED  BY <1>1, <1>2

LEMMA IncreasedHasPlan ==
  ASSUME NEW a, IsActor(a), NEW q, NEW e, NEW x, NEW t,
         a.state # "failed", a.state # "triggered"
  PROVE  LET b == Backtest!PositionIncreased(a, q, e, x, t)
         IN /\ b.state # "triggered"
            /\ b.state # "failed" => b.plan = Backtest!Plan(a.policy, q, e, x, t)
<1> DEFINE plan == Backtest!Plan(a.policy, q, e, x, t)
           b == Backtest!PositionIncreased(a, q, e, x, t)
<1> HIDE DEF plan
<1>1. \/ b = [a EXCEPT !.plan = plan]
      \/ b = [a EXCEPT !.state = "failed", !.fault = "plan"]
  BY DEF Backtest!PositionIncreased, Backtest!Failed, plan
<1> HIDE DEF b
<1>2. CASE b = [a EXCEPT !.plan = plan]
  <2>1. b.plan = plan /\ b.state = a.state
    BY <1>2 DEF IsActor
  <2> QED  BY <2>1 DEF b, plan
<1>3. CASE b = [a EXCEPT !.state = "failed", !.fault = "plan"]
  <2>1. b.state = "failed"
    BY <1>3 DEF IsActor
  <2> QED  BY <2>1 DEF b
<1> QED  BY <1>1, <1>2, <1>3

LEMMA ReducedKeepsLevels ==
  ASSUME NEW a, IsActor(a), NEW q, NEW t
  PROVE  LET b == Backtest!PositionReduced(a, q, t)
         IN b.plan.stop = a.plan.stop /\ b.plan.take = a.plan.take
<1> DEFINE plan == [a.plan EXCEPT !.quantity = q]
           b == Backtest!PositionReduced(a, q, t)
<1>1. plan.stop = a.plan.stop /\ plan.take = a.plan.take
  BY DEF IsActor, IsPlan
<1> HIDE DEF plan
<1>2. \/ b = [a EXCEPT !.plan = plan]
      \/ b = [a EXCEPT !.state = "failed", !.fault = "plan"]
  BY DEF Backtest!PositionReduced, Backtest!Failed, plan
<1> HIDE DEF b
<1>3. b.plan = plan \/ b.plan = a.plan
  BY <1>2 DEF IsActor
<1> QED  BY <1>1, <1>3 DEF b

(* The policy in force, and what it makes of an entry.                     *)
LEMMA PolicyInForm ==
  ASSUME NEW policy, Usable(policy), policy # Backtest!NoPolicy, policy.mode # "ATR"
  PROVE  /\ policy.stop \in Nat /\ policy.stop < Whole
         /\ policy.take = -1 \/ policy.take \in Nat
         /\ policy.mode \in {"FIXED", "TRAILING"}
<1>1. Backtest!NoPolicy = Levels!NoPolicy /\ Levels!None = -1
  BY DEF Backtest!NoPolicy, Levels!NoPolicy, Backtest!Policy, Levels!Policy,
     Backtest!None, Levels!None
<1>2. Whole \in Nat \ {0}
  BY ReplayAssumption
<1> QED  BY <1>1, <1>2 DEF Usable, Distance

LEMMA EntryIsNatural ==
  ASSUME NEW e, EntryPrice(e) PROVE e \in Nat
BY ReplayAssumption DEF EntryPrice

LEMMA StopIsKnown ==
  ASSUME NEW policy, Usable(policy), policy # Backtest!NoPolicy, policy.mode # "ATR",
         NEW e, EntryPrice(e)
  PROVE  StopOf(e, policy) \in Int
BY PolicyInForm, EntryIsNatural, StopIsInt

(* An exit within its candle is traded.                                    *)
LEMMA ExitAtHand ==
  ASSUME NEW off, NEW c, NEW mode, exit' = [exit |-> off, candle |-> c, remade |-> mode],
         mode # "ATR" => off.price \in c.low .. c.high
  PROVE  ExitIsTraded'
BY DEF ExitIsTraded, Backtest!ExitIsTraded

LEMMA ExitStays == ASSUME ExitInv, exit' = exit PROVE ExitIsTraded'
BY DEF ExitInv, ExitIsTraded, Backtest!ExitIsTraded

LEMMA OpenLevels == ASSUME ReplayInv, ExitInv, Backtest!Open PROVE ExitInv'
<1> DEFINE start == Backtest!StartOf(bar, at)
           then == IF at = 0 THEN "orders" ELSE "range"
<1>1. pc = "open" /\ UNCHANGED <<setup, active>> /\ remade' = "none"
  BY DEF Backtest!Open
<1>2. PICK o \in Prices:
        candle' = [start |-> start, open |-> o, high |-> o, low |-> o]
  BY DEF Backtest!Open
<1>3. /\ start \in Nat /\ o \in Nat /\ candle'.start = start /\ candle'.open = o
      /\ candle'.low = o /\ candle'.high = o
  BY <1>2, StartIsKnown, ReplayAssumption DEF ReplayInv
<1>4. CASE actor = Backtest!NoActor
  <2>1. ~Held
    BY <1>1, <1>4, FreshActor DEF ReplayInv, Guarded, Waits
  <2>2. UNCHANGED <<position, entry, actor, exit>>
    BY <1>4 DEF Backtest!Open, Backtest!holding
  <2>3. ~Held'
    BY <1>1, <2>1, <2>2 DEF Held
  <2> QED  BY <1>1, <1>3, <2>2, <2>3, ExitStays DEF ExitInv
<1>5. CASE actor # Backtest!NoActor
  <2> DEFINE b == Backtest!CandleOpened(actor, candle')
  <2>1. Held /\ Guards(actor, position, active) /\ Waits(actor, candle'.start)
    BY <1>1, <1>3, <1>5 DEF ReplayInv, Guarded
  <2>2. b.state = "triggered" \/ (Guards(b, position, active) /\ Sees(b, candle'))
    BY <1>3, <2>1, OpenLands
  <2>3. /\ b.state = "triggered" => b.exit.price = o
        /\ b.state = "awaitingRange" => b.plan = actor.plan /\ Around(actor.plan, o)
    <3>1. /\ IsActor(actor) /\ actor.state = "awaitingOpen" /\ candle'.open \in Int
      BY <1>3, <2>1 DEF Guards, Waits
    <3> QED  BY <1>3, <3>1, OpenedIsAround
  <2>4. Backtest!Settle(b, then)
    BY <1>5 DEF Backtest!Open
  <2> HIDE DEF b, then
  <2>5. CASE b.state = "triggered"
    <3>1. /\ position' = 0
          /\ exit' = [exit |-> b.exit, candle |-> candle', remade |-> remade']
      BY <2>4, <2>5 DEF Backtest!Settle
    <3>2. b.exit.price \in candle'.low .. candle'.high
      BY <1>3, <2>3, <2>5
    <3>3. ExitIsTraded'
      BY <3>1, <3>2, ExitAtHand
    <3>4. ~Held'
      BY <3>1 DEF Held
    <3> QED  BY <1>1, <1>3, <3>3, <3>4 DEF ExitInv
  <2>6. CASE Guards(b, position, active) /\ Sees(b, candle')
    <3>1. b.state = "awaitingRange"
      BY <2>6 DEF Sees
    <3>2. actor' = b /\ UNCHANGED <<position, entry, exit>>
      BY <2>4, <3>1 DEF Backtest!Settle, Backtest!holding
    <3>3. HasLevels(actor'.plan, active, entry) /\ Around(actor'.plan, o)
      BY <1>1, <2>1, <2>3, <3>1, <3>2 DEF ExitInv
    <3> QED  BY <1>1, <1>3, <3>2, <3>3, ExitStays DEF ExitInv
  <2> QED  BY <2>2, <2>5, <2>6
<1> QED  BY <1>4, <1>5

LEMMA BuyLevels ==
  ASSUME ReplayInv, ExitInv, CostsWithinStops, pc = "orders",
         NEW n \in Nat \ {0}, Backtest!Buy(n), UNCHANGED <<setup, candle, active>>
  PROVE  ExitInv'
<1> DEFINE cost == Backtest!Bought(n)
           more == position + n
<1>1. /\ candle.start \in Nat /\ candle.open \in Prices /\ candle.open \in Nat
      /\ candle.start = Backtest!StartOf(bar, at)
  BY StartIsKnown, ReplayAssumption DEF ReplayInv, ReplayTypes, CandleIsCurrent
<1>2. EntryPrice(cost)
  BY <1>1, SetupInForm, AverageIsEntry DEF ReplayInv, ReplayTypes, Backtest!Bought
<1>3. more \in Nat \ {0} /\ more > position /\ cost \in Nat /\ atr \in Nat
  BY <1>2, EntryIsNatural DEF ReplayInv, ReplayTypes
<1>4. Usable(active) /\ position \in Nat
  BY SetupInForm DEF ReplayInv, ReplayTypes
<1>5. /\ pc' \in {"range", "stopped"}
      /\ candle'.low <= candle'.open /\ candle'.open <= candle'.high
  BY DEF ExitInv, Backtest!Buy, Backtest!Settle, Backtest!Stop
<1> HIDE DEF cost, more
<1>6. CASE active = Backtest!NoPolicy
  <2>1. exit' = exit
    BY <1>6 DEF Backtest!Buy
  <2> QED  BY <1>5, <1>6, <2>1, ExitStays DEF ExitInv, Held
<1>7. CASE active # Backtest!NoPolicy
  <2> DEFINE next == IF actor = Backtest!NoActor THEN Backtest!ArmAtOpen(more, cost)
                     ELSE Backtest!PositionIncreased(actor, more, cost, atr,
                                                     candle.start)
  <2>1. /\ remade' = IF actor = Backtest!NoActor THEN "none" ELSE active.mode
        /\ IF next.state \in {"failed", "triggered"} THEN Backtest!Settle(next, "range")
           ELSE /\ position' = more /\ entry' = cost /\ actor' = next
                /\ exit' = exit
    BY <1>7 DEF Backtest!Buy, cost, more
  <2>2. active.mode # "ATR" => StopOf(cost, active) \in Int
    BY <1>2, <1>4, <1>7, StopIsKnown
  <2>3. ASSUME actor = Backtest!NoActor
        PROVE  /\ next.state = "triggered" => next.exit.price = candle.open
               /\ next.state \notin {"failed", "triggered"} =>
                    HasLevels(next.plan, active, cost) /\ Around(next.plan, candle.open)
    <3> DEFINE a == Backtest!Arm(active, more, cost, atr, candle.start)
    <3>1. \/ /\ Guards(a, more, active)
             /\ a.state = "awaitingOpen" /\ a.start = -1 /\ a.last = -1
             /\ a.plan.armedAt = candle.start
          \/ NoLevels(a, active)
      BY <1>1, <1>2, <1>3, <1>4, <1>7, ArmLands
    <3>2. a.state = "awaitingOpen" => HasLevels(a.plan, active, cost)
      BY <2>2, ArmedHasLevels
    <3>3. next = IF Backtest!Armed(a) THEN Backtest!CandleOpened(a, candle) ELSE a
      BY <2>3 DEF Backtest!ArmAtOpen
    <3> HIDE DEF a, next
    <3>4. CASE /\ Guards(a, more, active)
               /\ a.state = "awaitingOpen" /\ a.start = -1 /\ a.last = -1
               /\ a.plan.armedAt = candle.start
      <4>1. next = Backtest!CandleOpened(a, candle)
        BY <3>3, <3>4 DEF Backtest!Armed
      <4>2. Waits(a, candle.start) /\ IsActor(a)
        BY <1>1, <3>4 DEF Waits, Guards
      <4>3. next.state = "triggered" \/ Sees(next, candle)
        BY <1>1, <3>4, <4>1, <4>2, OpenLands
      <4>4. /\ next.state = "triggered" => next.exit.price = candle.open
            /\ next.state = "awaitingRange" =>
                 next.plan = a.plan /\ Around(a.plan, candle.open)
        BY <1>1, <3>4, <4>1, <4>2, OpenedIsAround
      <4>5. next.state = "triggered" \/ next.state = "awaitingRange"
        BY <4>3 DEF Sees
      <4> QED  BY <3>2, <3>4, <4>4, <4>5
    <3>5. CASE NoLevels(a, active)
      <4>1. next = a
        BY <3>3, <3>5 DEF Backtest!Armed, NoLevels
      <4> QED  BY <3>5, <4>1 DEF NoLevels
    <3> QED  BY <3>1, <3>4, <3>5
  <2>4. ASSUME actor # Backtest!NoActor
        PROVE  /\ next.state # "triggered"
               /\ next.state # "failed" =>
                    /\ HasLevels(next.plan, active, cost)
                    /\ active.mode # "ATR" => Around(next.plan, candle.open)
    <3>1. Held
      BY <2>4 DEF ReplayInv, Guarded
    <3>2. Guards(actor, position, active) /\ Sees(actor, candle)
      BY <3>1 DEF ReplayInv, Guarded
    <3>3. next = Backtest!PositionIncreased(actor, more, cost, atr, candle.start)
      BY <2>4
    <3> DEFINE plan == Backtest!Plan(active, more, cost, atr, candle.start)
    <3> HIDE DEF next
    <3>4. next.state # "triggered" /\ (next.state # "failed" => next.plan = plan)
      <4>1. /\ IsActor(actor) /\ actor.state = "awaitingRange"
            /\ actor.policy = active
        BY <3>2 DEF Guards, Sees
      <4> QED  BY <3>3, <4>1, IncreasedHasPlan
    <3>5. active.mode # "ATR" =>
            plan.stop = StopOf(cost, active) /\ plan.take = TakeOf(cost, active)
      BY DEF StopOf, TakeOf, Backtest!Plan, Backtest!None
    <3> HIDE DEF plan
    <3>6. HasLevels(plan, active, cost)
      BY <2>2, <3>5 DEF HasLevels
    <3>7. ASSUME active.mode # "ATR" PROVE Around(plan, candle.open)
      <4>1. /\ active.stop \in Nat /\ active.stop < Whole
            /\ active.take = -1 \/ active.take \in Nat
            /\ active.mode \in {"FIXED", "TRAILING"}
        BY <1>4, <1>7, <3>7, PolicyInForm
      <4>2. setup \in Setups /\ \E r \in Regimes: active = setup.policy[r]
        BY DEF ReplayInv, ReplayTypes
      <4>3. StopOf(candle.open + setup.cost, active) <= candle.open
        BY <1>1, <4>1, <4>2 DEF CostsWithinStops
      <4>4. position \in Nat \ {0} /\ EntryPrice(entry) /\ setup.cost \in Nat
        BY <1>4, <3>1, SetupInForm DEF Held, ReplayInv
      <4>5. entry \in Nat
        BY <4>4, EntryIsNatural
      <4>6. HasLevels(actor.plan, active, entry) /\ Around(actor.plan, candle.open)
        BY <3>1 DEF ExitInv
      <4>7. actor.plan.stop \in Int /\ actor.plan.take \in Int
        BY <3>2 DEF Guards, IsActor, IsPlan
      <4>8. cost = (position * entry + n * (candle.open + setup.cost))
                     \div (position + n)
        BY DEF cost, Backtest!Bought
      <4>9. /\ StopOf(cost, active) <= candle.open
            /\ TakeOf(cost, active) = -1 \/ candle.open <= TakeOf(cost, active)
        BY <1>1, <3>7, <4>1, <4>3, <4>4, <4>5, <4>6, <4>7, <4>8, AverageIsAround
      <4> QED  BY <3>5, <3>7, <4>9 DEF Around
    <3> QED  BY <3>4, <3>6, <3>7
  <2> HIDE DEF next
  <2>5. CASE next.state = "triggered"
    <3>1. actor = Backtest!NoActor /\ next.exit.price = candle.open
      BY <2>3, <2>4, <2>5
    <3>2. /\ position' = 0
          /\ exit' = [exit |-> next.exit, candle |-> candle', remade |-> remade']
      BY <2>1, <2>5 DEF Backtest!Settle
    <3>3. next.exit.price \in candle'.low .. candle'.high
      <4>1. candle'.low \in Int /\ candle'.high \in Int
        BY DEF ReplayInv, ReplayTypes
      <4> QED  BY <1>1, <1>5, <3>1, <4>1
    <3>4. ExitIsTraded' /\ ~Held'
      BY <3>2, <3>3, ExitAtHand DEF Held
    <3> QED  BY <1>5, <3>4 DEF ExitInv
  <2>6. CASE next.state = "failed"
    <3>1. pc' = "stopped" /\ exit' = exit
      BY <2>1, <2>6 DEF Backtest!Settle, Backtest!Stop
    <3> QED  BY <3>1, ExitStays DEF ExitInv
  <2>7. CASE next.state \notin {"failed", "triggered"}
    <3>1. entry' = cost /\ actor' = next /\ exit' = exit
      BY <2>1, <2>7
    <3>2. HasLevels(next.plan, active, cost)
      BY <2>3, <2>4, <2>7
    <3>3. remade' # "ATR" => Around(next.plan, candle.open)
      BY <2>1, <2>3, <2>4, <2>7
    <3>4. pc' = "orders" => FALSE
      BY <1>5
    <3> QED  BY <1>5, <3>1, <3>2, <3>3, <3>4, ExitStays DEF ExitInv
  <2> QED  BY <2>5, <2>6, <2>7
<1> QED  BY <1>6, <1>7

LEMMA SellLevels ==
  ASSUME ReplayInv, ExitInv, pc = "orders", NEW n \in Nat \ {0}, n <= position,
         Backtest!Sell(n), UNCHANGED <<setup, candle, active>>, remade' = "none"
  PROVE  ExitInv'
<1> DEFINE less == position - n
           b == Backtest!PositionReduced(actor, less, candle.start)
<1>1. /\ exit' = exit /\ position' = less
      /\ entry' = IF less = 0 THEN 0 ELSE entry
  BY DEF Backtest!Sell
<1>2. /\ pc' \in {"range", "stopped"}
      /\ candle'.low <= candle'.open /\ candle'.open <= candle'.high
  BY DEF ExitInv, Backtest!Sell, Backtest!Stop
<1>3. less \in Nat /\ position > 0
  BY DEF ReplayInv, ReplayTypes
<1>4. ASSUME Held' PROVE Held /\ less # 0 /\ (actor' = b \/ actor' = actor)
  <2>1. less > 0 /\ active # Backtest!NoPolicy
    BY <1>1, <1>4 DEF Held
  <2>2. Held /\ less # 0
    BY <1>3, <2>1 DEF Held
  <2> HIDE DEF less
  <2>3. actor' = Backtest!ReducedActor(less) \/ actor' = actor
    BY <2>1, <2>2 DEF Backtest!Sell, less
  <2> QED  BY <2>2, <2>3 DEF Backtest!ReducedActor
<1>5. ASSUME Held' PROVE actor'.plan.stop = actor.plan.stop
                         /\ actor'.plan.take = actor.plan.take
  <2>1. Guards(actor, position, active)
    BY <1>4, <1>5 DEF ReplayInv, Guarded
  <2>2. b.plan.stop = actor.plan.stop /\ b.plan.take = actor.plan.take
    BY <2>1, ReducedKeepsLevels DEF Guards
  <2> HIDE DEF b
  <2> QED  BY <1>4, <1>5, <2>2
<1>6. ASSUME Held'
      PROVE  HasLevels(actor'.plan, active, entry') /\ Around(actor'.plan, candle.open)
  <2>1. HasLevels(actor.plan, active, entry) /\ Around(actor.plan, candle.open)
    BY <1>4, <1>6 DEF ExitInv
  <2>2. entry' = entry
    BY <1>1, <1>4, <1>6
  <2> QED  BY <1>5, <1>6, <2>1, <2>2 DEF HasLevels, Around
<1> QED  BY <1>1, <1>2, <1>6, ExitStays DEF ExitInv

LEMMA OrderLevels ==
  ASSUME ReplayInv, ExitInv, CostsWithinStops, Backtest!ExecuteOrder PROVE ExitInv'
<1>1. pc = "orders" /\ UNCHANGED <<setup, bar, at, candle, active>>
  BY DEF Backtest!ExecuteOrder
<1>2. PICK n \in IF order = Backtest!NoOrder THEN {0} ELSE Backtest!Affordable(order):
        CASE n = 0 ->
               /\ pc' = "range"
               /\ UNCHANGED <<Backtest!holding, actor, lastExitAt, failure, exit,
                              remade>>
          [] n > 0 /\ order.side = "BUY" -> Backtest!Buy(n)
          [] OTHER -> Backtest!Sell(n) /\ remade' = "none"
  BY DEF Backtest!ExecuteOrder
<1>3. n \in Nat /\ (order.side # "BUY" /\ n # 0 => n <= position)
  BY <1>2 DEF ReplayInv, ReplayTypes, Backtest!Affordable
<1>4. CASE n = 0
  <2>1. pc' = "range" /\ UNCHANGED <<position, entry, actor, exit, remade>>
    BY <1>2, <1>4 DEF Backtest!holding
  <2> QED  BY <1>1, <2>1, ExitStays DEF ExitInv, Held
<1>5. CASE n > 0 /\ order.side = "BUY"
  <2>1. Backtest!Buy(n)
    BY <1>2, <1>3, <1>5
  <2> QED  BY <1>1, <1>3, <1>5, <2>1, BuyLevels
<1>6. CASE n > 0 /\ order.side # "BUY"
  <2>1. Backtest!Sell(n) /\ remade' = "none"
    BY <1>2, <1>3, <1>6
  <2> QED  BY <1>1, <1>3, <1>6, <2>1, SellLevels
<1> QED  BY <1>3, <1>4, <1>5, <1>6

LEMMA RangeLevels == ASSUME ReplayInv, ExitInv, Backtest!Range PROVE ExitInv'
<1> DEFINE last == at + 1 = setup.ratio
           then == IF last THEN "close" ELSE "open"
<1>1. pc = "range" /\ UNCHANGED <<setup, active, remade>>
  BY DEF Backtest!Range
<1>2. PICK high \in {p \in Prices: p >= candle.open},
           low \in {p \in Prices: p <= candle.open}:
        candle' = [candle EXCEPT !.high = high, !.low = low]
  BY DEF Backtest!Range
<1>3. candle.start \in Nat /\ candle.open \in Nat /\ high \in Nat /\ low \in Nat
  BY <1>1, StartIsKnown, ReplayAssumption DEF ReplayInv, CandleIsCurrent
<1>4. /\ candle'.start = candle.start /\ candle'.open = candle.open
      /\ candle'.high = high /\ candle'.low = low
      /\ low <= candle.open /\ candle.open <= high
  <2>1. candle' = [start |-> candle.start, open |-> candle.open,
                   high |-> high, low |-> low]
    BY <1>2 DEF ReplayInv, ReplayTypes
  <2> QED  BY <1>3, <2>1
<1>5. CASE actor = Backtest!NoActor
  <2>1. ~Held
    BY <1>1, <1>5, FreshActor DEF ReplayInv, Guarded, Sees
  <2>2. UNCHANGED <<position, entry, actor, exit>> /\ pc' = then
    BY <1>5 DEF Backtest!Range, Backtest!holding
  <2>3. ~Held' /\ pc' \notin {"orders", "range"}
    BY <1>1, <2>1, <2>2 DEF Held
  <2> QED  BY <2>2, <2>3, ExitStays DEF ExitInv
<1>6. CASE actor # Backtest!NoActor
  <2> DEFINE b == Backtest!CandleRangeReplayed(actor, candle')
  <2>1. Held /\ Guards(actor, position, active) /\ Sees(actor, candle')
    BY <1>1, <1>4, <1>6 DEF ReplayInv, Guarded, Sees
  <2>2. Usable(active) /\ active # Backtest!NoPolicy /\ EntryPrice(entry)
    BY <2>1, SetupInForm DEF ReplayInv, Held
  <2>3. actor.state = "awaitingRange" /\ IsActor(actor) /\ actor.policy = active
    BY <2>1 DEF Sees, Guards
  <2>4. b.state = "triggered" \/ b.state = "awaitingOpen"
    <3>1. /\ candle'.start \in Nat /\ candle'.high \in Nat
          /\ candle'.open \in candle'.low .. candle'.high
      BY <1>3, <1>4
    <3> QED  BY <2>1, <2>2, <3>1, RangeLands
  <2>5. /\ b.state = "triggered" /\ Around(actor.plan, candle.open)
             => b.exit.price \in low .. high
        /\ b.state = "awaitingOpen" =>
             b.plan = Backtest!Advance(actor.plan, active, high)
    BY <1>3, <1>4, <2>3, RangeIsTraded
  <2>6. Backtest!Settle(b, then)
    BY <1>6, <2>3 DEF Backtest!Range
  <2> HIDE DEF b
  <2>7. CASE b.state = "triggered"
    <3>1. /\ position' = 0 /\ pc' = then
          /\ exit' = [exit |-> b.exit, candle |-> candle', remade |-> remade']
      BY <2>6, <2>7 DEF Backtest!Settle
    <3>2. remade # "ATR" => b.exit.price \in candle'.low .. candle'.high
      BY <1>1, <1>4, <2>1, <2>5, <2>7 DEF ExitInv
    <3>3. ExitIsTraded' /\ ~Held' /\ pc' \notin {"orders", "range"}
      BY <1>1, <3>1, <3>2, ExitAtHand DEF Held
    <3> QED  BY <3>3 DEF ExitInv
  <2>8. CASE b.state = "awaitingOpen"
    <3>1. actor' = b /\ pc' = then /\ UNCHANGED <<position, entry, exit>>
      BY <2>6, <2>8 DEF Backtest!Settle, Backtest!holding
    <3>2. HasLevels(actor.plan, active, entry) /\ IsPlan(actor.plan)
      BY <1>1, <2>1, <2>3 DEF ExitInv, IsActor
    <3>3. active.mode # "ATR" => StopOf(entry, active) \in Int
      BY <2>2, StopIsKnown
    <3>4. active.mode = "TRAILING" =>
            high - Backtest!Share(high, active.stop) \in Int
      <4>1. active.mode = "TRAILING" => active.stop \in Nat
        BY <2>2, PolicyInForm
      <4>2. active.mode = "TRAILING" => Backtest!Share(high, active.stop) \in Nat
        BY <1>3, <4>1, ShareIsNatural
      <4> QED  BY <1>3, <4>2
    <3>5. HasLevels(b.plan, active, entry)
      BY <2>5, <2>8, <3>2, <3>3, <3>4, AdvancedHasLevels
    <3>6. pc' \notin {"orders", "range"}
      BY <3>1
    <3> QED  BY <1>1, <3>1, <3>5, <3>6, ExitStays DEF ExitInv
  <2> QED  BY <2>4, <2>7, <2>8
<1> QED  BY <1>5, <1>6

LEMMA WarmUpLevels == ASSUME ReplayInv, ExitInv, Backtest!WarmUp PROVE ExitInv'
<1>1. /\ pc = "close" /\ pc' \in {"open", "finished"}
      /\ UNCHANGED <<position, entry, actor, active, exit>>
  BY DEF Backtest!WarmUp, Backtest!NextIndex, Backtest!holding, Backtest!protection,
     Backtest!history
<1> QED  BY <1>1, ExitStays DEF ExitInv, Held

LEMMA CloseLevels ==
  ASSUME ReplayInv, ReplayInv', ExitInv, Backtest!Close PROVE ExitInv'
<1>1. /\ pc = "close" /\ UNCHANGED <<setup, at, candle, position, entry, exit>>
  BY DEF Backtest!Close, Backtest!holding
<1>2. PICK f: Backtest!Evaluate(f)
  BY DEF Backtest!Close
<1> DEFINE policy == setup.policy[f.regime]
           next == IF policy = active THEN actor ELSE Backtest!Replanned(policy)
<1>3. /\ active' = policy /\ actor' = next
      /\ pc' \in {"open", "finished", "stopped"}
  BY <1>2 DEF Backtest!Evaluate, Backtest!Stop, Backtest!Decide, Backtest!NextIndex
<1>4. ASSUME pc' = "open", Held'
      PROVE  HasLevels(actor'.plan, active', entry')
  <2>1. CASE policy = active
    <3>1. Held /\ actor' = actor /\ active' = active
      BY <1>1, <1>3, <1>4, <2>1 DEF Held
    <3> QED  BY <1>1, <3>1 DEF ExitInv
  <2>2. CASE policy # active
    <3> DEFINE a == Backtest!Arm(policy, position, entry, atr,
                                 Backtest!StartOf(bar, 0))
    <3>1. position > 0 /\ policy # Backtest!NoPolicy /\ position # 0
      BY <1>1, <1>3, <1>4 DEF Held, ReplayInv, ReplayTypes
    <3>2. actor' = a
      BY <1>3, <2>2, <3>1 DEF Backtest!Replanned
    <3>3. a.state = "awaitingOpen"
      BY <1>4, <3>2 DEF ReplayInv, Guarded, Waits
    <3>4. Usable(policy) /\ EntryPrice(entry)
      <4>1. setup' \in Setups /\ \E r \in Regimes: active' = setup'.policy[r]
        BY DEF ReplayInv, ReplayTypes
      <4>2. Usable(active')
        BY <4>1, ReplayAssumption
      <4> QED  BY <1>3, <3>1, <4>2 DEF ReplayInv
    <3>5. policy.mode # "ATR" => StopOf(entry, policy) \in Int
      BY <3>1, <3>4, StopIsKnown
    <3> HIDE DEF policy
    <3>6. HasLevels(a.plan, policy, entry)
      BY <3>3, <3>5, ArmedHasLevels
    <3> QED  BY <1>1, <1>3, <3>2, <3>6
  <2> QED  BY <2>1, <2>2
<1>5. ExitIsTraded'
  BY <1>1, ExitStays
<1> QED  BY <1>3, <1>4, <1>5 DEF ExitInv

LEMMA ExitStarts == ASSUME Backtest!Init PROVE ExitInv
BY DEF Backtest!Init, ExitInv, Held, ExitIsTraded, Backtest!ExitIsTraded,
   Backtest!NoTrade

LEMMA ExitStep ==
  ASSUME ReplayInv, ReplayInv', ExitInv, CostsWithinStops, Backtest!Next
  PROVE  ExitInv'
BY OpenLevels, OrderLevels, RangeLevels, WarmUpLevels, CloseLevels DEF Backtest!Next

LEMMA ExitRests ==
  ASSUME ExitInv, UNCHANGED backtestVars PROVE ExitInv'
<1>1. UNCHANGED <<pc, candle, position, entry, actor, active, exit, remade>>
  BY DEF backtestVars
<1> QED  BY <1>1, ExitStays DEF ExitInv, Held

(* A protective exit is executed at a price its candle traded at, through  *)
(* gaps, trailing stops, increases, reductions and changes of policy, if a *)
(* purchase costs less than the distance of a stop.                        *)
THEOREM ExitsAreTraded ==
  ASSUME CostsWithinStops PROVE DecisionSpec => []ExitIsTraded
<1>1. DecisionInit => ExitInv
  BY ExitStarts DEF DecisionInit
<1>2. ReplayInv /\ ReplayInv' /\ ExitInv /\ [DecisionNext]_decisionVars => ExitInv'
  <2>1. [DecisionNext]_decisionVars => UNCHANGED backtestVars \/ Backtest!Next
    BY DEF DecisionNext, decisionVars
  <2> QED  BY <2>1, ExitStep, ExitRests
<1>3. ExitInv => ExitIsTraded
  BY DEF ExitInv
<1> QED  BY <1>1, <1>2, <1>3, ReplaySoundness, PTL DEF DecisionSpec
=============================================================================
