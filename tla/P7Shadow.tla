------------------------------- MODULE P7Shadow -------------------------------
(***************************************************************************)
(* The P7 shadow collector (apps/p7-shadow-collector/src/worker.ts): one   *)
(* Durable Object that walks a campaign through its jobs.  Each commit is  *)
(* a transaction and a step of its own, and between two of them the clock  *)
(* moves, a request is in flight, or the object is evicted and started     *)
(* again by a constructor that looks for what was lost.  Invocations are   *)
(* serial (enqueue): an alarm, a /wake or a /stop waits for the one before.*)
(*                                                                         *)
(* A job reads the projection again after every commit, so that what it    *)
(* does next depends on its entry and on the captured responses alone;     *)
(* `w` holds the few locals that outlive a commit.  A throw ends the       *)
(* invocation and arms the alarm again.  The archive and the journal's     *)
(* hashes are left out: an export succeeds or throws.                      *)
(***************************************************************************)
EXTENDS P7Models

CONSTANTS MaxLag,      \* ticks that pass while there is work to do
          MaxMishaps   \* bad responses, failed exports, evictions, stops,
                       \* and wakes while an alarm is armed

ASSUME P7ShadowAssumption == {MaxLag, MaxMishaps} \subseteq Nat

VARIABLES s,          \* the projection
          requests,   \* requests and their captured responses, by id
          done,       \* jobs completed
          unresolved, \* those completed without their evidence
          deferred,   \* jobs that wait for the end of their window
          frozen,     \* per checkpoint, the instant its body was written
          clock, alarm,
          w,          \* the invocation under way
          lag, mishaps

durable == <<s, requests, done, unresolved, deferred, frozen>>
counters == <<lag, mishaps>>
vars == <<durable, clock, alarm, w, counters>>

Never == -2
None == EndAt + Window

Books(j) == {<<j, p>>: p \in Products}
Ids == {<<j, "book">>: j \in BenchmarkJobs}
       \cup {<<j, what>>: j \in DailyJobs, what \in {"candles", "quote"}}
       \cup UNION {Books(j): j \in HourlyJobs \cup AfterFills \cup {Final}}

NoRequest == [status |-> "none", good |-> FALSE, foreign |-> FALSE, seen |-> 0]
Idle == [pc |-> "idle", auto |-> FALSE, job |-> Final, at |-> 0,
         admitted |-> FALSE, id |-> <<>>]

Init ==
  /\ s = InitialProjection
  /\ requests = [id \in Ids |-> NoRequest]
  /\ done = {} /\ unresolved = {} /\ deferred = {}
  /\ frozen = [c \in Checkpoints |-> Never]
  /\ clock = -1 /\ alarm = None
  /\ w = Idle
  /\ lag = 0 /\ mishaps = 0

-----------------------------------------------------------------------------
(* commit, model and the effects around them.                              *)

FinalObserved(t) == At(t, Final) = "observed"

(* A fault: deferred jobs are forgotten.                                   *)
AllCompleted(now) == done \cup deferred

(* The checkpoints a commit writes: the last body before the cutoff, or    *)
(* the one that lies on it or first holds the FINAL mark.                  *)
Freeze(t) ==
  [c \in Checkpoints |->
    LET last == c = EndAt /\ FinalObserved(t)
    IN IF \/ clock < c
          \/ frozen[c] # Never /\ clock # c /\ ~(last /\ ~FinalObserved(s))
       THEN frozen[c]
       ELSE IF clock = c \/ last THEN clock ELSE s.lastAt]

Commit(t) == s' = t /\ frozen' = Freeze(t)

Stamped == [s EXCEPT !.lastAt = clock]

(* applyP7Shadow ends with the safety of what it made.                     *)
Model(t) == Commit([Safety(t, clock) EXCEPT !.lastAt = clock])

(* catch: nothing is undone, and the alarm is armed again: a second later  *)
(* for a request, a minute for an alarm, when no book is fresh any more.   *)
Retry == w' = Idle /\ alarm' = IF w.auto THEN clock + 1 ELSE clock

Throw == Retry /\ UNCHANGED durable

On(pc) == w' = [w EXCEPT !.pc = pc]

(* A command of the model, refused by its guard, or committed.             *)
Apply(guard, t, pc) ==
  IF guard THEN /\ Model(t) /\ On(pc)
                /\ UNCHANGED <<requests, done, unresolved, deferred, alarm>>
  ELSE Throw

Completed(now) == done \cup {j \in deferred: j.at + Window + 1 > now}

(* done: the job ends, and the wake goes on to the next one.  Nobody reads  *)
(* its responses again and the model forgets them.                         *)
Done(without) ==
  /\ Commit(Stamped)
  /\ requests' = [id \in Ids |->
       IF id[1] = w.job /\ requests[id].status = "CAPTURED" THEN NoRequest
       ELSE requests[id]]
  /\ done' = done \cup {w.job}
  /\ unresolved' = IF without THEN unresolved \cup {w.job} ELSE unresolved
  /\ deferred' = deferred \ {w.job}
  /\ w' = [Idle EXCEPT !.pc = "loop", !.auto = w.auto]
  /\ UNCHANGED alarm

Defer ==
  IF w.job.at + Window + 1 > clock
  THEN /\ Commit(Stamped)
       /\ deferred' = deferred \cup {w.job}
       /\ w' = [Idle EXCEPT !.pc = "loop", !.auto = w.auto]
       /\ UNCHANGED <<requests, done, unresolved, alarm>>
  ELSE Throw

Response(what) == requests[<<w.job, what>>]

(* source: the request is committed before it is sent; one that was sent   *)
(* and never answered is not sent again.                                   *)
Source(what) ==
  IF Response(what).status = "none"
  THEN /\ Commit(Stamped)
       /\ requests' = [requests EXCEPT ![<<w.job, what>>] =
                         [NoRequest EXCEPT !.status = "REQUESTED", !.seen = clock]]
       /\ w' = [w EXCEPT !.pc = "fetch", !.id = <<w.job, what>>]
       /\ UNCHANGED <<done, unresolved, deferred, alarm>>
  ELSE Throw

Captured(what) == Response(what).status = "CAPTURED"

AllCaptured == \A p \in Products: Captured(p)

NextBook == IF Captured("BTC-USD") THEN "ETH-USD" ELSE "BTC-USD"

(* The answer, or what the deadline of Fresh leaves of it: any JSON is     *)
(* captured, also a book with fields that no command accepts.  Candles     *)
(* with other fields are no window of the decision, and bad.               *)
Capture ==
  /\ w.pc = "fetch"
  /\ \E good, foreign \in BOOLEAN:
       LET late == clock - requests[w.id].seen > Fresh
       IN /\ foreign => ~good /\ w.id[2] # "candles"
          /\ IF good \/ foreign THEN ~late ELSE late \/ mishaps < MaxMishaps
          /\ foreign => mishaps < MaxMishaps
          /\ mishaps' = IF good \/ late THEN mishaps ELSE mishaps + 1
          /\ requests' = [requests EXCEPT ![w.id] =
                            [status |-> "CAPTURED", good |-> good, foreign |-> foreign,
                             seen |-> IF good THEN clock ELSE 0]]
  /\ Commit(Stamped)
  /\ w' = [w EXCEPT !.pc = "on", !.id = <<>>]
  /\ UNCHANGED <<done, unresolved, deferred, clock, alarm, lag>>

-----------------------------------------------------------------------------
(* The jobs (runJob, daily), in the order of their phases.                 *)

BenchmarkStep ==
  LET j == w.job
      phase == At(s, j)
  IN IF phase \in {"initialized", "failed"} THEN Done(FALSE)
     ELSE IF w.at > Window  \* EXPIRE_BENCHMARK
     THEN Apply(phase # "requested" /\ clock > Window, To(s, j, "failed"), "on")
     ELSE CASE phase = "expected" ->
                 Apply(Observing(s, clock) /\ InWindow(0, clock),
                       Ask(s, j, clock), "on")
            [] phase = "requested" ->
                 IF Captured("book")
                 THEN Apply(WellFormed(Response("book")),
                            Quote(s, j, Response("book"), clock), "on")
                 ELSE Source("book")
            [] phase = "quoted" ->
                 Apply(TRUE,
                       IF Observing(s, clock) /\ Priceable(s, j, clock)
                       THEN Filled(s, j, "initialized") ELSE To(s, j, "failed"),
                       "on")
            [] phase = "rejected" -> Defer

(* Both portfolios are valued from the same books; P7's may show that more *)
(* than half of its peak is lost.  Books that are refused are those of the *)
(* next attempt too: what was captured is never asked for again.           *)
ObserveBooks(guard) ==
  \E drawn \in BOOLEAN:
    LET t == Observe(s, w.job, [p \in Products |-> Response(p)], clock)
    IN /\ drawn => t.entry[w.job].ok /\ s.holding # {}
       /\ Apply(guard /\ \A p \in Products: WellFormed(Response(p)),
                [t EXCEPT !.drawn = @ \/ drawn], "on")

EventStep ==
  LET j == w.job
      phase == At(s, j)
      late == w.at >= EndAt
  IN IF phase = "observed" THEN Done(FALSE)
     ELSE IF /\ w.pc = "start" /\ late
             /\ \/ phase = "expected"
                \/ /\ j = Final
                   /\ \E id \in Books(j): requests[id].status = "REQUESTED"
     THEN Done(TRUE)
     ELSE IF phase = "expected"
     THEN Apply(clock < EndAt /\ (j = Final \/ LegsSettled(s)), Ask(s, j, clock), "on")
     ELSE IF ~AllCaptured THEN Source(NextBook)
     ELSE IF j = Final /\ ~late  \* the books wait for T1
     THEN On("export") /\ UNCHANGED <<durable, alarm>>
     ELSE ObserveBooks((clock >= EndAt) = (j = Final))

HourlyStep ==
  LET j == w.job
      phase == At(s, j)
  IN IF \/ phase = "observed"
        \/ /\ w.pc = "start"
           /\ \E id \in Books(j): requests[id].status = "REQUESTED"
     THEN Done(phase # "observed")
     ELSE IF phase = "none" THEN Apply(TRUE, To(s, j, "expected"), "on")
     ELSE IF w.at >= j.at + Hour THEN Done(TRUE)
     ELSE IF phase = "expected"
     THEN Apply(InHour(j.at, clock), Ask(s, j, clock), "on")
     ELSE IF ~AllCaptured THEN Source(NextBook)
     ELSE ObserveBooks(InHour(j.at, clock))

AssessmentStep ==
  IF frozen[w.job.at] = Never THEN Throw ELSE Done(FALSE)

(* planP7ShadowDailyRecovery, at the start of the job.                     *)
DailyRecovery ==
  LET j == w.job
      phase == At(s, j)
      expired == clock > j.at + Window \/ clock >= EndAt
  IN IF phase = "none" THEN Apply(TRUE, To(s, j, "expected"), "start")
     ELSE IF phase \in {"terminal", "filled"} THEN Done(FALSE)
     ELSE IF phase = "expected" /\ expired  \* MISSED
     THEN Apply(clock > j.at + Window, To(s, j, "terminal"), "on")
     ELSE IF phase # "expected" /\ (expired \/ s.phase \in Over)
     THEN /\ Commit([Suspend(s, clock) EXCEPT !.lastAt = clock])
          /\ On("unresolved")
          /\ UNCHANGED <<requests, done, unresolved, deferred, alarm>>
     ELSE IF ~Observing(s, clock) THEN Defer
     ELSE On("on") /\ UNCHANGED <<durable, alarm>>

(* The decision on an admitted candle: HOLD, a refusal of the risk check,  *)
(* or an intent.                                                           *)
Decide ==
  \/ Apply(InWindow(w.job.at, clock), To(s, w.job, "terminal"), "on")
  \/ Apply(MayTrade(s, w.job, clock) /\ ~Busy(s, w.job.of),
           To(s, w.job, "intent"), "on")

(* A buy holds the product, a sale may leave some of it.                   *)
Fill ==
  \E kept \in BOOLEAN:
    /\ w.job.of \notin s.holding => kept
    /\ Apply(MayTrade(s, w.job, clock),
             [Filled(s, w.job, "filled") EXCEPT
                !.holding = IF kept THEN @ \cup {w.job.of} ELSE @ \ {w.job.of}],
             "on")

BrokerRejected ==
  Apply(InWindow(w.job.at, clock), To(s, w.job, "terminal"), "on")

DailyStep ==
  LET j == w.job
      phase == At(s, j)
  IN CASE phase \in {"terminal", "filled"} -> Done(FALSE)
       [] phase = "expected" ->
            IF ~Captured("candles") THEN Source("candles")
            ELSE IF ~Response("candles").good THEN Defer
            ELSE IF ~InWindow(j.at, clock) THEN Throw
            ELSE /\ Model(To(s, j, "admitted"))
                 /\ w' = [w EXCEPT !.admitted = TRUE]
                 /\ UNCHANGED <<requests, done, unresolved, deferred, alarm>>
       [] phase = "admitted" -> IF w.admitted THEN Decide ELSE Done(FALSE)
       [] phase = "intent" -> Apply(MayTrade(s, j, clock), Ask(s, j, clock), "on")
       [] phase = "requested" ->
            IF Captured("quote")
            THEN Apply(WellFormed(Response("quote")),
                       Quote(s, j, Response("quote"), clock), "on")
            ELSE Source("quote")
       [] phase \in {"quoted", "unfit"} ->
            IF Priceable(s, j, clock) THEN Fill \/ BrokerRejected
            ELSE Apply(TRUE, To(s, j, "terminal"), "on")

Step ==
  /\ w.pc \in {"start", "on", "unresolved"}
  /\ IF w.pc = "unresolved" THEN Done(TRUE)
     ELSE CASE w.job \in BenchmarkJobs -> BenchmarkStep
            [] w.job \in AfterFills \cup {Final} -> EventStep
            [] w.job \in HourlyJobs -> HourlyStep
            [] w.job \in Assessments -> AssessmentStep
            [] w.job \in DailyJobs ->
                 IF w.pc = "start" THEN DailyRecovery ELSE DailyStep
  /\ UNCHANGED <<clock, counters>>

-----------------------------------------------------------------------------
(* A wake: begin and the safety of the campaign, the jobs that are due (a  *)
(* page of 32 holds all there are here), the export and the next alarm.    *)

Invocation(auto) == [Idle EXCEPT !.pc = "begin", !.auto = auto]

Wake ==
  /\ w.pc = "idle"
  /\ alarm = None \/ mishaps < MaxMishaps
  /\ mishaps' = IF alarm = None THEN mishaps ELSE mishaps + 1
  /\ w' = Invocation(FALSE)
  /\ UNCHANGED <<durable, clock, alarm, lag>>

AlarmFires ==
  /\ w.pc = "idle" /\ alarm <= clock
  /\ alarm' = None
  /\ w' = Invocation(TRUE)
  /\ UNCHANGED <<durable, clock, counters>>

(* schedule: at once while a job is due, else the earliest instant at      *)
(* which one may become due; past T1 nothing is armed.                     *)
NextWake ==
  LET due == NextJobs(s, clock, Completed(clock))
      hour == IF clock < 0 THEN 0 ELSE (clock \div Hour + 1) * Hour
      waits == {EndAt - Lead, EndAt, hour} \cup {j.at + Window + 1: j \in deferred}
      ahead == {t \in waits: t > clock}
  IN IF due # {} /\ ~(Final \in due /\ clock < EndAt) THEN clock
     ELSE IF clock < EndAt THEN CHOOSE t \in ahead: \A u \in ahead: t <= u
     ELSE alarm

Schedule == alarm' = NextWake /\ w' = Idle

Bound == [s EXCEPT !.phase = "localObserving", !.bound = TRUE]

(* A fault: a campaign that has begun begins again.                        *)
BegunAgain == IF clock >= EndAt THEN s ELSE Bound

(* BEGIN_LOCAL_SIMULATION, which ends with the safety of the campaign.     *)
Begun == IF s.bound \/ clock >= EndAt THEN s ELSE Bound

Begin ==
  /\ w.pc = "begin"
  /\ IF clock < 0 THEN Schedule /\ UNCHANGED durable
     ELSE Apply(TRUE, Begun, "loop")
  /\ UNCHANGED <<clock, counters>>

Dispatch ==
  /\ w.pc = "loop"
  /\ LET next == NextJobs(s, clock, Completed(clock))
     IN IF next = {} THEN On("export")
        ELSE \E j \in next:
               w' = [w EXCEPT !.pc = "start", !.job = j, !.at = clock,
                              !.admitted = FALSE]
  /\ UNCHANGED <<durable, clock, alarm, counters>>

Export ==
  /\ w.pc = "export"
  /\ \/ Schedule /\ UNCHANGED mishaps
     \/ /\ mishaps < MaxMishaps
        /\ mishaps' = mishaps + 1
        /\ Retry
  /\ UNCHANGED <<durable, clock, lag>>

(* /stop, of a campaign that has begun.                                    *)
Stop ==
  /\ w.pc = "idle" /\ s.bound /\ mishaps < MaxMishaps
  /\ mishaps' = mishaps + 1
  /\ IF s.phase \in {"localObserving", "suspended"}
     THEN Model([s EXCEPT !.phase = "stopped"]) ELSE UNCHANGED <<s, frozen>>
  /\ alarm' = clock
  /\ UNCHANGED <<requests, done, unresolved, deferred, clock, w, lag>>

-----------------------------------------------------------------------------
(* Evictions and time.                                                     *)

HasPending == \E id \in Ids: requests[id].status = "REQUESTED"

(* An eviction and the constructor of the next object, which suspends the  *)
(* campaign when a response or an admitted decision was lost.  A platform  *)
(* alarm whose handler did not return is delivered again; a request is not.*)
Crash ==
  /\ mishaps < MaxMishaps
  /\ mishaps' = mishaps + 1
  /\ s' = IF HasPending \/ \E j \in DailyJobs: At(s, j) = "admitted"
          THEN Suspend(s, s.lastAt) ELSE s
  /\ alarm' = IF w.auto THEN clock ELSE alarm
  /\ w' = Idle
  /\ UNCHANGED <<requests, done, unresolved, deferred, frozen, clock, lag>>

Busily == w.pc # "idle" \/ alarm <= clock

(* A tick is longer than anything but a request or a late alarm.           *)
Tick ==
  /\ clock <= EndAt \/ alarm \in (clock + 1)..(None - 1)
  /\ w.pc \in {"idle", "loop", "fetch"}
  /\ Busily => lag < MaxLag
  /\ lag' = IF Busily THEN lag + 1 ELSE lag
  /\ clock' = clock + 1
  /\ UNCHANGED <<durable, alarm, w, mishaps>>

Worker == Begin \/ Dispatch \/ Step \/ Capture \/ Export

Next == Worker \/ Wake \/ AlarmFires \/ Stop \/ Crash \/ Tick

Spec == Init /\ [][Next]_vars

(* The object runs what it has begun, the platform delivers its alarms,    *)
(* time passes, and the operator wakes a campaign that nothing else will.  *)
FairSpec ==
  /\ Spec
  /\ WF_vars(Worker) /\ WF_vars(AlarmFires) /\ WF_vars(Tick)
  /\ WF_vars(Wake /\ alarm = None)

-----------------------------------------------------------------------------
(* A request that was sent and is no longer waited for, its answer lost to *)
(* an eviction, has ended the observation: nothing is decided from a       *)
(* market that may have been seen (constructor, source).                   *)
LostEvidenceSuspends ==
  \A id \in Ids:
    requests[id].status = "REQUESTED" =>
      (w.pc = "fetch" /\ w.id = id) \/ s.phase # "localObserving"

(* P7 never fills on an unproven portfolio: from its first fill on, every  *)
(* earlier fill, the benchmark's two included, has a mark that values both *)
(* portfolios, and only the last may still wait for its own                *)
(* (hasP7AfterFillBlocker, planP7ShadowJobs).                              *)
FillsAwaitMarks ==
  LET fills == {j \in DailyJobs: At(s, j) = "filled"}
      unproven == {e \in AfterFills:
                     At(s, e) # "none" /\ ~(s.entry[e].ok /\ s.entry[e].bh)}
  IN fills # {} =>
       unproven \subseteq {AfterFill(j): j \in fills} /\ Cardinality(unproven) <= 1

Taken(t) == {j \in BenchmarkJobs \cup DailyJobs:
               At(t, j) \in {"intent", "filled", "initialized"}}

(* There is no way back: once a campaign is suspended, stopped or ended,   *)
(* whatever job was in the middle takes no decision and buys or sells      *)
(* nothing, and observing never starts again.                              *)
SuspensionIsFinal ==
  [][s.phase \in Over =>
       /\ s'.phase \in Over
       /\ s'.holding = s.holding
       /\ Taken(s') \subseteq Taken(s)]_vars

(* A report is about the campaign as it was: a checkpoint holds nothing    *)
(* later than its cutoff, and what an assessment has read is not replaced  *)
(* by work that was caught up afterwards.                                  *)
ReportIsFrozen ==
  [][\A c \in Checkpoints:
       frozen'[c] # frozen[c] =>
         /\ c \in Interim => frozen'[c] <= c
         /\ Assessment(c) \in done => clock = c]_vars

(* What was concluded stands.                                              *)
VerdictsStand == SuspensionIsFinal /\ ReportIsFrozen

Settled ==
  /\ DailyJobs \cup HourlyJobs \cup Assessments \subseteq done
  /\ FinalObserved(s) \/ Final \in done

(* A captured FINAL book that OBSERVE_EVENT_MARK refuses: past T1 FINAL is *)
(* the first job of every plan, and every alarm throws at the same books   *)
(* (planP7ShadowJobs, source, runJob).                                     *)
FinalRefused ==
  /\ clock >= EndAt /\ At(s, Final) = "requested"
  /\ \E p \in Products: ~WellFormed(requests[<<Final, p>>])

(* Every decision, every hourly mark, the FINAL mark and every report      *)
(* reach an end, with or without their evidence, whatever was lost and     *)
(* whatever else was refused, unless the FINAL books are refused.          *)
EveryJobEnds == <>[](Settled \/ FinalRefused)

(* Without the exception it fails: one FINAL book with an unknown field    *)
(* leaves the campaign without its last report.                            *)
FinalEnds == <>[]Settled
=============================================================================
