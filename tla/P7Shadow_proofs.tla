---------------------------- MODULE P7Shadow_proofs ----------------------------
(***************************************************************************)
(* What holds of a P7 campaign for every length, window and set of         *)
(* reports, and for every number of losses, evictions, stops and delays.   *)
(***************************************************************************)
EXTENDS P7Shadow, FiniteSetTheorems, TLAPS

Jobs == Tracked \cup Assessments
Legs == {"initialized", "failed"}
LegPhases == {"expected", "requested", "quoted", "rejected"} \cup Legs
DailyPhases == {"none", "expected", "admitted", "intent", "requested", "quoted",
                "unfit", "filled", "terminal"}

Entries ==
  [phase: {"none", "expected", "requested", "quoted", "unfit", "rejected",
           "initialized", "failed", "admitted", "intent", "filled",
           "terminal", "observed"},
   at: Int, ok: BOOLEAN, bh: BOOLEAN]

Projections ==
  [phase: {"registered", "localObserving"} \cup Over,
   bound: BOOLEAN, drawn: BOOLEAN, lastAt: Int, holding: SUBSET Products,
   entry: [Tracked -> Entries]]

(* The projection p.  A campaign is registered until it has begun; a mark  *)
(* values something only once it is observed; a fill of P7 comes after the *)
(* legs of the benchmark and after the marks of all fills before it.       *)
FillsOf(p) == {j \in DailyJobs: At(p, j) = "filled"}

Unproven(p) ==
  {e \in AfterFills: At(p, e) # "none" /\ ~(p.entry[e].ok /\ p.entry[e].bh)}

ProjectionInForm(p) ==
  /\ p \in Projections /\ p.lastAt >= -1
  /\ p.phase = "registered" <=> ~p.bound
  /\ \A j \in BenchmarkJobs: At(p, j) \in LegPhases
  /\ \A j \in DailyJobs: At(p, j) \in DailyPhases
  /\ \A e \in Tracked: p.entry[e].ok => At(p, e) = "observed"
  /\ FillsOf(p) # {} =>
       /\ LegsSettled(p)
       /\ \E j \in FillsOf(p): Unproven(p) \subseteq {AfterFill(j)}

(* The invocation v, of a campaign p with the jobs d done: its job is not  *)
(* done; a mark is worked on when it is expected; a decision after the     *)
(* legs; and the last report after the FINAL mark.                         *)
Working(v) == v.pc \in {"start", "on", "fetch", "unresolved"}

FinalSettled(p, d) == FinalObserved(p) \/ Final \in d

InvocationInForm(v, p, d) ==
  /\ v \in [pc: {"idle", "begin", "loop", "start", "on", "fetch", "unresolved",
                 "export"},
            auto: BOOLEAN, job: Jobs, at: Int, admitted: BOOLEAN,
            id: Ids \cup {<<>>}]
  /\ Working(v) =>
       /\ v.job = Final => Final \notin d
       /\ v.job \in AfterFills => At(p, v.job) # "none"
       /\ v.job \in DailyJobs =>
            /\ LegsSettled(p) \/ p.phase # "localObserving"
            /\ v.pc \in {"on", "fetch"} => At(p, v.job) # "none"
       /\ v.job = Assessment(EndAt) => FinalSettled(p, d)
       /\ v.pc = "unresolved" => v.job \in DailyJobs

(* The requests r: one in flight is waited for, or the campaign no longer  *)
(* observes; before it begins there is none.                               *)
RequestsInForm(r, v, p, now) ==
  /\ r \in [Ids -> [status: {"none", "REQUESTED", "CAPTURED"},
                    good: BOOLEAN, foreign: BOOLEAN, seen: Int]]
  /\ \A id \in Ids:
       r[id].status = "REQUESTED" =>
         (v.pc = "fetch" /\ v.id = id) \/ p.phase # "localObserving"
  /\ p.phase = "registered" /\ now < EndAt =>
       /\ v.pc \in {"idle", "begin"}
       /\ \A id \in Ids: r[id].status # "REQUESTED"

(* The reports: a cutoff that a commit has passed has its checkpoint, and  *)
(* so has one that was assessed.                                           *)
ReportsInForm(f, p, d) ==
  /\ f \in [Checkpoints -> Int]
  /\ \A c \in Checkpoints: p.lastAt >= c => f[c] # Never
  /\ \A c \in Checkpoints: Assessment(c) \in d => f[c] # Never
  /\ Assessment(EndAt) \in d => FinalSettled(p, d)

JobsInForm ==
  /\ done \subseteq Jobs /\ deferred \subseteq BenchmarkJobs \cup DailyJobs
  /\ clock \in Int /\ clock >= -1

IInv ==
  /\ ProjectionInForm(s) /\ InvocationInForm(w, s, done)
  /\ RequestsInForm(requests, w, s, clock)
  /\ ReportsInForm(frozen, s, done) /\ JobsInForm

-----------------------------------------------------------------------------
(* What a step may make of the projection p, and of the reports f.         *)
OverStays(p, t) ==
  p.phase \in Over =>
    /\ t.phase \in Over /\ t.holding = p.holding
    /\ Taken(t) \subseteq Taken(p)

Follows(p, t) ==
  /\ ProjectionInForm(t) /\ OverStays(p, t)
  /\ t.phase = "localObserving" =>
       \/ p.phase = "localObserving"
       \/ p.phase = "registered" /\ clock < EndAt /\ w.pc = "begin"
  /\ t.phase = "registered" => p.phase = "registered"
  /\ LegsSettled(p) => LegsSettled(t)
  /\ FinalObserved(p) => FinalObserved(t)
  /\ FinalObserved(t) /\ ~FinalObserved(p) => Working(w) /\ w.job = Final
  /\ \A e \in AfterFills \cup DailyJobs:
       At(p, e) # "none" => At(t, e) # "none"

FrozenStays(f) ==
  \A c \in Checkpoints:
    f[c] # frozen[c] =>
      /\ c \in Interim => f[c] <= c
      /\ Assessment(c) \in done => clock = c

StepIsGood == IInv' /\ OverStays(s, s') /\ FrozenStays(frozen')

-----------------------------------------------------------------------------
(* The jobs are of different kinds.                                        *)
LEMMA Instants ==
  /\ EndAt \in Nat /\ EndAt > 0 /\ Checkpoints \subseteq Int
  /\ EndAt \in Checkpoints /\ EndAt \notin Interim
  /\ Window \in Nat /\ Hour \in Nat
<1>1. /\ Hour \in Nat /\ Window \in Nat /\ Day \in Nat /\ Days \in Nat
      /\ Day > 0 /\ Days > 0
  BY P7Assumption
<1>2. Days * Day \in Nat /\ Days * Day > 0
  BY <1>1
<1>3. EndAt \in Nat /\ EndAt > 0
  BY <1>2 DEF EndAt
<1>4. Interim \subseteq 1..(EndAt - 1)
  BY P7Assumption DEF EndAt
<1> QED BY <1>1, <1>3, <1>4 DEF Checkpoints

LEMMA Kinds ==
  /\ \A j \in BenchmarkJobs: j.kind = "benchmark" /\ AfterFill(j) \in AfterFills
  /\ \A j \in DailyJobs: /\ j.kind = "daily" /\ AfterFill(j) \in AfterFills
                         /\ j.of \in Products /\ j.at \in Int
  /\ \A j \in HourlyJobs: j.kind = "hourly"
  /\ \A j \in AfterFills: j.kind = "event" /\ j # Final
  /\ Final.kind = "event"
  /\ \A j \in Assessments: j.kind = "assessment"
  /\ \A c: Assessment(c).kind = "assessment" /\ Assessment(c).at = c
<1>1. \A j \in BenchmarkJobs: j.kind = "benchmark" /\ j.of \in Products
  BY DEF BenchmarkJobs, Benchmark, Job
<1>2. \A j \in DailyJobs: j.kind = "daily" /\ j.of \in Products /\ j.at \in Int
  BY Instants DEF DailyJobs, Daily, Job, Every
<1>3. \A j \in HourlyJobs: j.kind = "hourly"
  BY DEF HourlyJobs, Hourly, Job
<1>4. \A j \in BenchmarkJobs \cup DailyJobs:
        AfterFill(j).kind = "event" /\ AfterFill(j).of \in Products
        /\ AfterFill(j) \in AfterFills
  BY <1>1, <1>2 DEF AfterFill, AfterFills, Job
<1>5. Final.kind = "event" /\ Final.of \notin Products
  BY DEF Final, Job, Products
<1>6. \A j \in AfterFills: j.kind = "event" /\ j # Final
  BY <1>4, <1>5 DEF AfterFills
<1>7. /\ \A j \in Assessments: j.kind = "assessment"
      /\ \A c: Assessment(c).kind = "assessment" /\ Assessment(c).at = c
  BY DEF Assessments, Assessment, Job
<1> QED BY <1>1, <1>2, <1>3, <1>4, <1>5, <1>6, <1>7

LEMMA EntryType ==
  ASSUME NEW phase \in {"none", "expected", "requested", "quoted", "unfit",
           "rejected", "initialized", "failed", "admitted", "intent", "filled",
           "terminal", "observed"}
  PROVE  /\ Entry(phase) \in Entries
         /\ Entry(phase).phase = phase /\ Entry(phase).ok = FALSE
BY DEF Entry, Entries

LEMMA EntryAt ==
  ASSUME NEW phase \in {"none", "expected", "requested", "quoted", "unfit",
           "rejected", "initialized", "failed", "admitted", "intent", "filled",
           "terminal", "observed"},
         NEW now \in Int
  PROVE  LET e == [Entry(phase) EXCEPT !.at = now] IN
         e \in Entries /\ e.phase = phase /\ e.ok = FALSE
<1>1. Entry(phase) \in Entries /\ Entry(phase).phase = phase
      /\ Entry(phase).ok = FALSE
  BY EntryType
<1> QED BY <1>1 DEF Entries

(* The safety of the campaign changes its phase alone, and only forward.   *)
LEMMA SafetyFacts ==
  ASSUME NEW t \in Projections, NEW now
  PROVE  /\ Safety(t, now) \in Projections
         /\ Safety(t, now).entry = t.entry /\ Safety(t, now).bound = t.bound
         /\ Safety(t, now).holding = t.holding
         /\ Safety(t, now).lastAt = t.lastAt
         /\ \/ Safety(t, now).phase = t.phase
            \/ t.bound /\ Safety(t, now).phase \in Over
         /\ t.phase \in Over => Safety(t, now).phase \in Over
BY DEF Safety, Projections, Over

LEMMA StampFacts ==
  ASSUME NEW t \in Projections, NEW now \in Int
  PROVE  LET u == [t EXCEPT !.lastAt = now] IN
         /\ u \in Projections /\ u.lastAt = now /\ u.phase = t.phase
         /\ u.bound = t.bound /\ u.holding = t.holding /\ u.entry = t.entry
BY DEF Projections

(* A projection with the same entries, whose campaign has not come back.   *)
LEMMA SameEntries ==
  ASSUME NEW p, Follows(s, p), NEW t \in Projections,
         t.entry = p.entry, t.bound = p.bound, t.holding = p.holding,
         t.lastAt >= -1,
         t.phase = p.phase \/ (p.bound /\ t.phase \in Over),
         p.phase \in Over => t.phase \in Over
  PROVE  Follows(s, t)
<1>1. /\ \A j: At(t, j) = At(p, j)
      /\ FillsOf(t) = FillsOf(p) /\ Unproven(t) = Unproven(p)
      /\ Taken(t) = Taken(p) /\ (LegsSettled(t) <=> LegsSettled(p))
      /\ (FinalObserved(t) <=> FinalObserved(p))
  BY DEF At, FillsOf, Unproven, Taken, LegsSettled, FinalObserved
<1>2. ProjectionInForm(t)
  BY <1>1 DEF ProjectionInForm, Follows, Over
<1>3. OverStays(s, t)
  BY <1>1 DEF OverStays, Follows
<1> QED BY <1>1, <1>2, <1>3 DEF Follows, Over

(* What a command makes, once the model has looked at the safety of it.    *)
LEMMA ModelFollows ==
  ASSUME NEW t, Follows(s, t), clock \in Int, clock >= -1
  PROVE  LET u == [Safety(t, clock) EXCEPT !.lastAt = clock] IN
         Follows(s, u) /\ u.lastAt = clock
<1> DEFINE p == Safety(t, clock)
           u == [p EXCEPT !.lastAt = clock]
<1>1. t \in Projections
  BY DEF Follows, ProjectionInForm
<1>2. /\ p \in Projections /\ p.entry = t.entry /\ p.bound = t.bound
      /\ p.holding = t.holding
      /\ p.phase = t.phase \/ (t.bound /\ p.phase \in Over)
      /\ t.phase \in Over => p.phase \in Over
  BY <1>1, SafetyFacts
<1> HIDE DEF p
<1>3. /\ u \in Projections /\ u.lastAt = clock /\ u.phase = p.phase
      /\ u.bound = p.bound /\ u.holding = p.holding /\ u.entry = p.entry
  BY <1>2, StampFacts
<1> HIDE DEF u
<1>4. Follows(s, u)
  BY <1>2, <1>3, SameEntries
<1> QED BY <1>3, <1>4 DEF u, p

(* A command that changes one entry.                                       *)
LEMMA EntryFollows ==
  ASSUME ProjectionInForm(s), NEW j \in Tracked, NEW e \in Entries,
         e.ok => e.phase = "observed", e.phase # "none",
         j \in BenchmarkJobs => At(s, j) \notin Legs /\ e.phase \in LegPhases,
         j \in DailyJobs =>
           At(s, j) # "filled" /\ e.phase \in DailyPhases \ {"filled"},
         j \in AfterFills => At(s, j) \notin {"none", "observed"},
         j = Final => Working(w) /\ w.job = Final /\ At(s, j) # "observed",
         s.phase \in Over /\ j \in BenchmarkJobs \cup DailyJobs =>
           e.phase \notin {"intent", "filled", "initialized"}
  PROVE  Follows(s, [s EXCEPT !.entry[j] = e])
<1> DEFINE t == [s EXCEPT !.entry[j] = e]
<1>0. s \in Projections
  BY DEF ProjectionInForm
<1>1. /\ t \in Projections /\ t.phase = s.phase /\ t.bound = s.bound
      /\ t.holding = s.holding /\ t.lastAt = s.lastAt
      /\ t.entry = [s.entry EXCEPT ![j] = e]
  BY <1>0 DEF Projections
<1>2. /\ t.entry[j] = e
      /\ \A i \in Tracked \ {j}: t.entry[i] = s.entry[i]
  BY <1>0, <1>1 DEF Projections
<1> HIDE DEF t
<1>3. /\ BenchmarkJobs \subseteq Tracked /\ DailyJobs \subseteq Tracked
      /\ AfterFills \subseteq Tracked /\ Final \in Tracked
  BY DEF Tracked
<1>4. FillsOf(t) = FillsOf(s)
  BY <1>2, <1>3 DEF FillsOf, At
<1>5. LegsSettled(s) => LegsSettled(t)
  BY <1>2, <1>3 DEF LegsSettled, At, Legs
<1>6. FillsOf(s) # {} => Unproven(t) \subseteq Unproven(s)
  <2>1. ASSUME NEW i \in AfterFills, i \in Unproven(t)
        PROVE  i \in Unproven(s)
    <3>1. CASE i = j
      BY <3>1, <2>1, <1>3 DEF Unproven, ProjectionInForm, At
    <3>2. CASE i # j
      BY <3>2, <2>1, <1>2, <1>3 DEF Unproven, At
    <3> QED BY <3>1, <3>2
  <2> QED BY <2>1 DEF Unproven
<1>7. ProjectionInForm(t)
  <2>1. \A i \in Tracked: t.entry[i].ok => At(t, i) = "observed"
    BY <1>2 DEF ProjectionInForm, At
  <2>4. /\ \A i \in BenchmarkJobs: At(t, i) \in LegPhases
        /\ \A i \in DailyJobs: At(t, i) \in DailyPhases
    BY <1>2, <1>3 DEF ProjectionInForm, At
  <2>2. t.lastAt >= -1 /\ (t.phase = "registered" <=> ~t.bound)
    BY <1>1 DEF ProjectionInForm
  <2>3. FillsOf(t) # {} =>
          /\ LegsSettled(t)
          /\ \E i \in FillsOf(t): Unproven(t) \subseteq {AfterFill(i)}
    BY <1>4, <1>5, <1>6 DEF ProjectionInForm
  <2> QED BY <1>1, <2>1, <2>2, <2>3, <2>4 DEF ProjectionInForm
<1>8. OverStays(s, t)
  BY <1>1, <1>2, <1>3 DEF OverStays, Taken, At
<1>9. /\ FinalObserved(s) => FinalObserved(t)
      /\ FinalObserved(t) /\ ~FinalObserved(s) => Working(w) /\ w.job = Final
  BY <1>2, <1>3 DEF FinalObserved, At
<1>10. \A i \in AfterFills \cup DailyJobs: At(s, i) # "none" => At(t, i) # "none"
  BY <1>2, <1>3 DEF At
<1>11. Follows(s, t)
  BY <1>1, <1>5, <1>7, <1>8, <1>9, <1>10 DEF Follows
<1> QED BY <1>11 DEF t

-----------------------------------------------------------------------------
(* What steps have in common.                                              *)
LEMMA Parts ==
  /\ IInv <=> /\ ProjectionInForm(s) /\ InvocationInForm(w, s, done)
              /\ RequestsInForm(requests, w, s, clock)
              /\ ReportsInForm(frozen, s, done) /\ JobsInForm
  /\ IInv' <=> /\ ProjectionInForm(s') /\ InvocationInForm(w', s', done')
               /\ RequestsInForm(requests', w', s', clock')
               /\ ReportsInForm(frozen', s', done') /\ JobsInForm'
BY DEF IInv

LEMMA SameFollows ==
  ASSUME ProjectionInForm(s)
  PROVE  Follows(s, s)
BY DEF Follows, OverStays

LEMMA InvocationFollows ==
  ASSUME NEW v, NEW d, InvocationInForm(v, s, d), NEW t, Follows(s, t),
         Working(v) => w.pc # "begin"
  PROVE  InvocationInForm(v, t, d)
BY DEF InvocationInForm, Follows, FinalSettled

LEMMA RequestsFollow ==
  ASSUME NEW r, NEW v, RequestsInForm(r, v, s, clock), NEW t, Follows(s, t)
  PROVE  RequestsInForm(r, v, t, clock)
BY DEF RequestsInForm, Follows

(* An invocation that waits for no response goes on.                       *)
LEMMA RequestsElsewhere ==
  ASSUME NEW r, NEW v, NEW p, NEW now, RequestsInForm(r, v, p, now),
         v.pc # "fetch",
         NEW u, u.pc \in {"idle", "begin"} \/ v.pc \notin {"idle", "begin"}
  PROVE  RequestsInForm(r, u, p, now)
BY DEF RequestsInForm

LEMMA InvocationGoesOn ==
  ASSUME NEW v, NEW p, NEW d, InvocationInForm(v, p, d), Working(v),
         NEW pc \in {"start", "on", "unresolved", "export"},
         pc = "on" /\ v.job \in DailyJobs => At(p, v.job) # "none",
         pc = "unresolved" => v.job \in DailyJobs
  PROVE  LET u == [v EXCEPT !.pc = pc] IN
         /\ InvocationInForm(u, p, d) /\ u.pc = pc /\ u.job = v.job
BY DEF InvocationInForm, Working

LEMMA InvocationRests ==
  ASSUME NEW p, NEW d, NEW v, NEW auto \in BOOLEAN,
         \/ v = Idle
         \/ \E pc \in {"idle", "begin", "loop"}:
              v = [Idle EXCEPT !.pc = pc, !.auto = auto]
         \/ v = [Idle EXCEPT !.auto = auto]
  PROVE  InvocationInForm(v, p, d) /\ v.pc \in {"idle", "begin", "loop"}
         /\ (v = Idle => v.pc = "idle")
<1> DEFINE Invocations ==
      [pc: {"idle", "begin", "loop", "start", "on", "fetch", "unresolved",
            "export"},
       auto: BOOLEAN, job: Jobs, at: Int, admitted: BOOLEAN,
       id: Ids \cup {<<>>}]
<1>1. Final \in Jobs
  BY DEF Jobs, Tracked
<1>2. Idle \in Invocations /\ Idle.pc = "idle"
  BY <1>1 DEF Idle
<1>3. v \in Invocations /\ v.pc \in {"idle", "begin", "loop"}
  BY <1>2
<1> QED BY <1>2, <1>3 DEF InvocationInForm, Working

(* The reports that a commit leaves behind.                                *)
LEMMA FreezeGood ==
  ASSUME IInv, NEW t, Follows(s, t), t.lastAt = clock
  PROVE  ReportsInForm(Freeze(t), t, done) /\ FrozenStays(Freeze(t))
<1> DEFINE f == Freeze(t)
           last(c) == c = EndAt /\ FinalObserved(t)
           kept(c) == \/ clock < c
                      \/ /\ frozen[c] # Never /\ clock # c
                         /\ ~(last(c) /\ ~FinalObserved(s))
<1>1. /\ ReportsInForm(frozen, s, done) /\ InvocationInForm(w, s, done)
      /\ clock \in Int /\ clock >= -1
      /\ s.lastAt \in Int /\ s.lastAt >= -1 /\ Never = -2
      /\ Checkpoints \subseteq Int
  BY Parts, Instants
     DEF ProjectionInForm, Projections, JobsInForm, Never
<1>2. ASSUME NEW c \in Checkpoints
      PROVE  f[c] = IF kept(c) THEN frozen[c]
                    ELSE IF clock = c \/ last(c) THEN clock ELSE s.lastAt
  BY DEF Freeze
<1>3. f \in [Checkpoints -> Int]
  <2>1. \A c \in Checkpoints: f[c] \in Int
    BY <1>1, <1>2 DEF ReportsInForm
  <2>2. f = [c \in Checkpoints |-> f[c]]
    BY DEF Freeze
  <2> HIDE DEF f
  <2> QED BY <2>1, <2>2
<1> HIDE DEF f
<1>4. ASSUME NEW c \in Checkpoints
      PROVE  /\ t.lastAt >= c => f[c] # Never
             /\ frozen[c] # Never => f[c] # Never
  BY <1>1, <1>2, <1>4
<1>5. Assessment(EndAt) \in done => FinalSettled(t, done)
  BY <1>1 DEF ReportsInForm, FinalSettled, Follows
<1>6. ReportsInForm(f, t, done)
  BY <1>1, <1>3, <1>4, <1>5 DEF ReportsInForm
<1>7. ASSUME NEW c \in Checkpoints, f[c] # frozen[c], c \in Interim
      PROVE  f[c] <= c
  <2>1. ~last(c)
    BY <1>7, Instants
  <2>2. frozen[c] = Never => s.lastAt < c
    BY <1>1 DEF ReportsInForm
  <2> QED BY <1>1, <1>2, <1>7, <2>1, <2>2
<1>8. ASSUME NEW c \in Checkpoints, f[c] # frozen[c], Assessment(c) \in done
      PROVE  clock = c
  <2>1. frozen[c] # Never
    BY <1>1, <1>8 DEF ReportsInForm
  <2>2. ~(c = EndAt /\ FinalObserved(t) /\ ~FinalObserved(s))
    BY <1>1, <1>8
       DEF ReportsInForm, FinalSettled, Follows, InvocationInForm
  <2> QED BY <1>2, <1>8, <2>1, <2>2
<1>9. FrozenStays(f)
  BY <1>7, <1>8 DEF FrozenStays
<1> QED BY <1>6, <1>9 DEF f

(* A commit without an end of a job.                                       *)
LEMMA CommitGood ==
  ASSUME IInv, NEW t, Follows(s, t), t.lastAt = clock, Commit(t),
         UNCHANGED <<done, clock>>, deferred' \subseteq BenchmarkJobs \cup DailyJobs,
         InvocationInForm(w', t, done), RequestsInForm(requests', w', t, clock)
  PROVE  StepIsGood
<1>1. s' = t /\ frozen' = Freeze(t) /\ done' = done /\ clock' = clock
  BY DEF Commit
<1>2. ReportsInForm(frozen', s', done') /\ FrozenStays(frozen')
  BY <1>1, FreezeGood
<1>3. ProjectionInForm(s') /\ OverStays(s, s')
  BY <1>1 DEF Follows
<1>4. JobsInForm'
  BY <1>1, Parts DEF JobsInForm
<1> QED BY <1>1, <1>2, <1>3, <1>4, Parts DEF StepIsGood

(* Nothing is committed.                                                   *)
LEMMA StillGood ==
  ASSUME IInv, UNCHANGED durable, clock' \in Int, clock' >= clock,
         InvocationInForm(w', s, done), RequestsInForm(requests, w', s, clock')
  PROVE  StepIsGood
<1>1. /\ s' = s /\ frozen' = frozen /\ done' = done /\ requests' = requests
      /\ deferred' = deferred
  BY DEF durable
<1>2. JobsInForm'
  BY <1>1, Parts DEF JobsInForm
<1>3. OverStays(s, s') /\ FrozenStays(frozen')
  BY <1>1 DEF OverStays, FrozenStays
<1> QED BY <1>1, <1>2, <1>3, Parts DEF StepIsGood

LEMMA ThrowGood ==
  ASSUME IInv, w.pc # "fetch", Throw, clock' = clock
  PROVE  StepIsGood
<1>1. InvocationInForm(w', s, done) /\ w'.pc = "idle"
  BY InvocationRests DEF Throw, Retry
<1>2. RequestsInForm(requests, w', s, clock)
  BY <1>1, Parts, RequestsElsewhere
<1> QED BY <1>1, <1>2, Parts, StillGood DEF Throw, JobsInForm

LEMMA OnGood ==
  ASSUME IInv, w.pc \in {"start", "on"},
         NEW pc \in {"start", "on", "export"}, On(pc),
         pc = "on" /\ w.job \in DailyJobs => At(s, w.job) # "none",
         UNCHANGED durable, clock' = clock
  PROVE  StepIsGood
<1>1. InvocationInForm(w', s, done)
  BY Parts, InvocationGoesOn DEF On, Working
<1>2. RequestsInForm(requests, w', s, clock)
  BY <1>1, Parts, RequestsElsewhere
<1> QED BY <1>1, <1>2, Parts, StillGood DEF JobsInForm

(* A command of the model is committed, or refused by a throw.             *)
LEMMA ModelGood ==
  ASSUME IInv, NEW t, Follows(s, t), Model(t),
         UNCHANGED <<requests, done, deferred, clock>>, w.pc # "fetch",
         w'.pc \in {"idle", "begin"} \/ w.pc \notin {"idle", "begin"},
         InvocationInForm(w', s, done), Working(w') => w.pc # "begin"
  PROVE  StepIsGood
<1> DEFINE u == [Safety(t, clock) EXCEPT !.lastAt = clock]
<1>1. Follows(s, u) /\ u.lastAt = clock
  BY Parts, ModelFollows DEF JobsInForm
<1>2. Commit(u)
  BY DEF Model
<1> HIDE DEF u
<1>3. InvocationInForm(w', u, done)
  BY <1>1, InvocationFollows
<1>4. RequestsInForm(requests', w', u, clock)
  BY <1>1, Parts, RequestsFollow, RequestsElsewhere
<1> QED BY <1>1, <1>2, <1>3, <1>4, Parts, CommitGood DEF JobsInForm

LEMMA ApplyGood ==
  ASSUME IInv, w.pc \in {"start", "on"}, NEW guard, NEW t,
         guard => Follows(s, t),
         NEW pc \in {"start", "on"}, Apply(guard, t, pc), clock' = clock,
         pc = "on" /\ w.job \in DailyJobs => At(s, w.job) # "none"
  PROVE  StepIsGood
<1>1. CASE guard
  <2>1. Model(t) /\ On(pc) /\ UNCHANGED <<requests, done, deferred>>
    BY <1>1 DEF Apply
  <2>2. InvocationInForm(w', s, done) /\ w.pc # "fetch"
        /\ w.pc \notin {"idle", "begin"}
    BY <2>1, Parts, InvocationGoesOn DEF On, Working
  <2> QED BY <1>1, <2>1, <2>2, ModelGood
<1>2. CASE ~guard
  BY <1>2, ThrowGood DEF Apply
<1> QED BY <1>1, <1>2

(* The jobs that end, wait, or ask for a response.                         *)
LEMMA StampedFollows ==
  ASSUME IInv
  PROVE  Follows(s, Stamped) /\ Stamped.lastAt = clock
<1>1. /\ Stamped \in Projections /\ Stamped.lastAt = clock
      /\ Stamped.phase = s.phase /\ Stamped.bound = s.bound
      /\ Stamped.holding = s.holding /\ Stamped.entry = s.entry
  BY Parts, StampFacts DEF Stamped, ProjectionInForm, JobsInForm
<1>2. Follows(s, s) /\ clock >= -1
  BY Parts, SameFollows DEF JobsInForm
<1> QED BY <1>1, <1>2, SameEntries

LEMMA DeferGood ==
  ASSUME IInv, w.pc \in {"start", "on"}, clock' = clock, Defer,
         w.job \in BenchmarkJobs \cup DailyJobs
  PROVE  StepIsGood
<1>1. CASE w.job.at + Window + 1 > clock
  <2>1. /\ Commit(Stamped) /\ deferred' = deferred \cup {w.job}
        /\ w' = [Idle EXCEPT !.pc = "loop", !.auto = w.auto]
        /\ UNCHANGED <<requests, done>>
    BY <1>1 DEF Defer
  <2>2. w.auto \in BOOLEAN
    BY Parts DEF InvocationInForm
  <2>3. InvocationInForm(w', Stamped, done)
    BY <2>1, <2>2, InvocationRests
  <2>4. RequestsInForm(requests', w', Stamped, clock)
    BY <2>1, Parts, StampedFollows, RequestsFollow, RequestsElsewhere
  <2>5. deferred' \subseteq BenchmarkJobs \cup DailyJobs
    BY <2>1, Parts DEF JobsInForm
  <2> QED BY <2>1, <2>3, <2>4, <2>5, StampedFollows, CommitGood
<1>2. CASE ~(w.job.at + Window + 1 > clock)
  BY <1>2, ThrowGood DEF Defer
<1> QED BY <1>1, <1>2

LEMMA SourceGood ==
  ASSUME IInv, w.pc \in {"start", "on"}, clock' = clock, NEW what,
         <<w.job, what>> \in Ids, Source(what),
         w.job \in DailyJobs => At(s, w.job) # "none"
  PROVE  StepIsGood
<1> DEFINE id == <<w.job, what>>
           asked == [NoRequest EXCEPT !.status = "REQUESTED", !.seen = clock]
<1>1. CASE Response(what).status = "none"
  <2>1. /\ Commit(Stamped) /\ requests' = [requests EXCEPT ![id] = asked]
        /\ w' = [w EXCEPT !.pc = "fetch", !.id = id]
        /\ UNCHANGED <<done, deferred>>
    BY <1>1 DEF Source
  <2>2. /\ asked \in [status: {"none", "REQUESTED", "CAPTURED"},
                      good: BOOLEAN, foreign: BOOLEAN, seen: Int]
        /\ asked.status = "REQUESTED"
    BY Parts DEF NoRequest, JobsInForm
  <2> HIDE DEF asked
  <2> HIDE DEF id
  <2>3. id \in Ids
    BY DEF id
  <2>4. InvocationInForm(w', s, done) /\ w'.pc = "fetch" /\ w'.id = id
    BY <2>1, <2>3, Parts DEF InvocationInForm, Working
  <2>5. /\ requests' \in [Ids -> [status: {"none", "REQUESTED", "CAPTURED"},
                                  good: BOOLEAN, foreign: BOOLEAN, seen: Int]]
        /\ \A i \in Ids \ {id}: requests'[i] = requests[i]
    BY <2>1, <2>2, <2>3, Parts DEF RequestsInForm
  <2>6. RequestsInForm(requests', w', s, clock)
    BY <2>4, <2>5, Parts DEF RequestsInForm
  <2> QED BY <2>1, <2>4, <2>6, Parts, StampedFollows, InvocationFollows,
             RequestsFollow, CommitGood DEF JobsInForm
<1>2. CASE Response(what).status # "none"
  BY <1>2, ThrowGood DEF Source
<1> QED BY <1>1, <1>2

(* A job ends; a report only when its checkpoint has been written.         *)
LEMMA DoneGood ==
  ASSUME IInv, Working(w), w.pc # "fetch", clock' = clock, NEW without,
         Done(without),
         w.job \in Assessments => frozen[w.job.at] # Never
  PROVE  StepIsGood
<1>1. /\ s' = Stamped /\ frozen' = Freeze(Stamped)
      /\ requests' = [id \in Ids |->
           IF id[1] = w.job /\ requests[id].status = "CAPTURED" THEN NoRequest
           ELSE requests[id]]
      /\ done' = done \cup {w.job} /\ deferred' = deferred \ {w.job}
      /\ w' = [Idle EXCEPT !.pc = "loop", !.auto = w.auto]
  BY DEF Done, Commit
<1>2. /\ Follows(s, s') /\ s'.lastAt = clock
  BY <1>1, StampedFollows
<1>3. InvocationInForm(w', s', done')
  <2>1. w.auto \in BOOLEAN
    BY Parts DEF InvocationInForm
  <2> QED BY <1>1, <2>1, InvocationRests
<1>4. RequestsInForm(requests', w', s', clock')
  <2>1. RequestsInForm(requests, w', s', clock)
    <3>1. w.pc \notin {"idle", "begin", "fetch"}
      BY DEF Working
    <3> QED BY <3>1, <1>2, Parts, RequestsFollow, RequestsElsewhere
  <2>2. NoRequest \in [status: {"none", "REQUESTED", "CAPTURED"},
                       good: BOOLEAN, foreign: BOOLEAN, seen: Int]
        /\ NoRequest.status = "none"
    BY DEF NoRequest
  <2>3. \A id \in Ids: requests'[id] = NoRequest \/ requests'[id] = requests[id]
    BY <1>1
  <2>4. requests' \in [Ids -> [status: {"none", "REQUESTED", "CAPTURED"},
                               good: BOOLEAN, foreign: BOOLEAN, seen: Int]]
    BY <1>1, <2>1, <2>2 DEF RequestsInForm
  <2> QED BY <2>1, <2>2, <2>3, <2>4 DEF RequestsInForm
<1>5. ReportsInForm(frozen', s', done) /\ FrozenStays(frozen')
  BY <1>1, <1>2, FreezeGood
<1>6. ReportsInForm(frozen', s', done')
  <2>1. \A c \in Checkpoints: frozen[c] # Never => frozen'[c] # Never
    <3>1. /\ clock \in Int /\ clock >= -1 /\ s.lastAt >= -1 /\ Never = -2
      BY Parts DEF JobsInForm, ProjectionInForm, Never
    <3> QED BY <3>1, <1>1 DEF Freeze
  <2>2. \A c \in Checkpoints: Assessment(c) = w.job => frozen[c] # Never
    <3> SUFFICES ASSUME NEW c \in Checkpoints, Assessment(c) = w.job
                 PROVE  frozen[c] # Never
      OBVIOUS
    <3>1. w.job \in Assessments /\ w.job.at = c
      BY Kinds DEF Assessments
    <3> QED BY <3>1
  <2>3. Assessment(EndAt) = w.job => FinalSettled(s', done')
    BY <1>1, <1>2, Parts DEF InvocationInForm, FinalSettled, Follows
  <2>4. FinalSettled(s', done) => FinalSettled(s', done')
    BY <1>1 DEF FinalSettled
  <2> QED BY <1>1, <1>5, <2>1, <2>2, <2>3, <2>4 DEF ReportsInForm
<1>7. JobsInForm'
  <2>1. w.job \in Jobs
    BY Parts DEF InvocationInForm
  <2> QED BY <1>1, <2>1, Parts DEF JobsInForm
<1>8. ProjectionInForm(s') /\ OverStays(s, s')
  BY <1>2 DEF Follows
<1> QED BY <1>3, <1>4, <1>5, <1>6, <1>7, <1>8, Parts DEF StepIsGood

-----------------------------------------------------------------------------
(* The commands of the jobs.                                               *)
LEMMA ToFollows ==
  ASSUME ProjectionInForm(s), NEW j \in Tracked,
         NEW phase \in {"expected", "rejected", "failed", "admitted", "intent",
                        "terminal", "unfit"},
         j \in BenchmarkJobs => At(s, j) \notin Legs /\ phase \in LegPhases,
         j \in DailyJobs => At(s, j) # "filled" /\ phase \in DailyPhases,
         j \in AfterFills => At(s, j) \notin {"none", "observed"},
         j # Final,
         s.phase \in Over => phase # "intent"
  PROVE  Follows(s, To(s, j, phase))
<1>1. /\ Entry(phase) \in Entries /\ Entry(phase).phase = phase
      /\ Entry(phase).ok = FALSE
  BY EntryType
<1> QED BY <1>1, EntryFollows DEF To

LEMMA AskFollows ==
  ASSUME ProjectionInForm(s), clock \in Int, NEW j \in Tracked,
         j \in BenchmarkJobs => At(s, j) \notin Legs,
         j \in DailyJobs => At(s, j) # "filled",
         j \in AfterFills => At(s, j) \notin {"none", "observed"},
         j = Final => Working(w) /\ w.job = Final /\ At(s, j) # "observed"
  PROVE  Follows(s, Ask(s, j, clock))
<1> DEFINE e == [Entry("requested") EXCEPT !.at = clock]
<1>1. e \in Entries /\ e.phase = "requested" /\ e.ok = FALSE
  BY EntryAt
<1>2. Ask(s, j, clock) = [s EXCEPT !.entry[j] = e]
  BY DEF Ask
<1> HIDE DEF e
<1>3. e.phase \in LegPhases /\ e.phase \in DailyPhases
  BY <1>1 DEF LegPhases, DailyPhases
<1> QED BY <1>1, <1>2, <1>3, EntryFollows

LEMMA QuoteFollows ==
  ASSUME ProjectionInForm(s), NEW j \in BenchmarkJobs \cup DailyJobs,
         At(s, j) = "requested", NEW book, book.seen \in Int
  PROVE  Follows(s, Quote(s, j, book, clock))
<1> DEFINE e == [Entry("quoted") EXCEPT !.at = book.seen]
           t == [s EXCEPT !.entry[j] = e]
<1>1. e \in Entries /\ e.phase = "quoted" /\ e.ok = FALSE
  BY EntryAt
<1>2. \/ Quote(s, j, book, clock) = t
      \/ /\ Quote(s, j, book, clock)
              = To(s, j, IF j \in BenchmarkJobs THEN "rejected" ELSE "unfit")
  BY DEF Quote
<1>3. /\ j \in Tracked /\ j # Final /\ j \notin AfterFills
      /\ ~(j \in BenchmarkJobs /\ j \in DailyJobs)
      /\ At(s, j) \notin Legs /\ At(s, j) # "filled"
  BY Kinds DEF Tracked, Legs
<1> HIDE DEF e
<1>4. Follows(s, t)
  BY <1>1, <1>3, EntryFollows DEF LegPhases, DailyPhases
<1>5. j \in BenchmarkJobs => Follows(s, To(s, j, "rejected"))
  BY <1>3, ToFollows DEF LegPhases
<1>6. j \in DailyJobs => Follows(s, To(s, j, "unfit"))
  BY <1>3, ToFollows DEF DailyPhases
<1> HIDE DEF t
<1> QED BY <1>2, <1>3, <1>4, <1>5, <1>6

LEMMA ObserveFollows ==
  ASSUME ProjectionInForm(s), clock \in Int,
         NEW j \in HourlyJobs \cup AfterFills \cup {Final},
         j \in AfterFills => At(s, j) \notin {"none", "observed"},
         j = Final => Working(w) /\ w.job = Final /\ At(s, j) # "observed",
         NEW books
  PROVE  Follows(s, Observe(s, j, books, clock))
<1> PICK e: /\ e \in Entries /\ e.phase = "observed"
            /\ Observe(s, j, books, clock) = [s EXCEPT !.entry[j] = e]
  <2> DEFINE at == IF j \in HourlyJobs THEN clock ELSE 0
             usable(p) == Usable(books[p], s.entry[j].at, clock)
             ok == \A p \in s.holding: usable(p)
             bh == \A p \in Products:
                     At(s, Benchmark(p)) = "initialized" /\ usable(p)
             e == [phase |-> "observed", at |-> at, ok |-> ok, bh |-> bh]
  <2>1. Observe(s, j, books, clock) = [s EXCEPT !.entry[j] = e]
    BY DEF Observe
  <2>2. at \in Int /\ ok \in BOOLEAN /\ bh \in BOOLEAN
    OBVIOUS
  <2> HIDE DEF at, ok, bh
  <2>3. e \in Entries /\ e.phase = "observed"
    BY <2>2 DEF Entries
  <2> QED BY <2>1, <2>3
<1>1. j \in Tracked /\ j \notin BenchmarkJobs /\ j \notin DailyJobs
  BY Kinds DEF Tracked
<1> QED BY <1>1, EntryFollows

LEMMA DrawnFollows ==
  ASSUME NEW t, Follows(s, t), NEW drawn \in BOOLEAN
  PROVE  Follows(s, [t EXCEPT !.drawn = @ \/ drawn])
<1> DEFINE u == [t EXCEPT !.drawn = @ \/ drawn]
<1>1. t \in Projections /\ t.lastAt >= -1
  BY DEF Follows, ProjectionInForm
<1>2. \E b \in BOOLEAN: u = [t EXCEPT !.drawn = b]
  BY <1>1 DEF Projections
<1>3. /\ u \in Projections /\ u.entry = t.entry /\ u.bound = t.bound
      /\ u.holding = t.holding /\ u.lastAt = t.lastAt /\ u.phase = t.phase
  BY <1>1, <1>2 DEF Projections
<1> HIDE DEF u
<1>4. Follows(s, u)
  BY <1>1, <1>3, SameEntries
<1> QED BY <1>4 DEF u

LEMMA ObservingFacts ==
  ASSUME ProjectionInForm(s), Observing(s, clock)
  PROVE  s.phase = "localObserving"
<1>1. s \in Projections
  BY DEF ProjectionInForm
<1> QED BY <1>1, SafetyFacts DEF Observing, Over

(* A fill, of P7 or of a leg: its mark is expected.                        *)
LEMMA FilledFacts ==
  ASSUME s \in Projections, NEW j \in BenchmarkJobs \cup DailyJobs,
         NEW phase \in {"filled", "initialized"}
  PROVE  LET t == Filled(s, j, phase) IN
         /\ t \in Projections /\ t.phase = s.phase /\ t.bound = s.bound
         /\ t.holding = s.holding /\ t.lastAt = s.lastAt
         /\ At(t, j) = phase /\ t.entry[j].ok = FALSE
         /\ At(t, AfterFill(j)) = "expected"
         /\ t.entry[AfterFill(j)].ok = FALSE
         /\ \A i \in Tracked \ {j, AfterFill(j)}: t.entry[i] = s.entry[i]
<1> DEFINE e == AfterFill(j)
           t == Filled(s, j, phase)
<1>1. /\ Entry(phase) \in Entries /\ Entry(phase).phase = phase
      /\ Entry(phase).ok = FALSE
      /\ Entry("expected") \in Entries /\ Entry("expected").phase = "expected"
      /\ Entry("expected").ok = FALSE
  BY EntryType
<1>2. /\ e \in Tracked /\ j \in Tracked /\ e # j
  BY Kinds DEF Tracked
<1>3. t = [[s EXCEPT !.entry[j] = Entry(phase)] EXCEPT
             !.entry[e] = Entry("expected")]
  BY DEF Filled, To
<1> HIDE DEF e, t
<1>4. /\ t \in Projections /\ t.phase = s.phase /\ t.bound = s.bound
      /\ t.holding = s.holding /\ t.lastAt = s.lastAt
      /\ t.entry = [[s.entry EXCEPT ![j] = Entry(phase)] EXCEPT
                      ![e] = Entry("expected")]
  BY <1>1, <1>2, <1>3 DEF Projections
<1>5. /\ t.entry[j] = Entry(phase) /\ t.entry[e] = Entry("expected")
      /\ \A i \in Tracked \ {j, e}: t.entry[i] = s.entry[i]
  BY <1>2, <1>4 DEF Projections
<1> QED BY <1>1, <1>4, <1>5 DEF At, e, t

LEMMA LegFollows ==
  ASSUME ProjectionInForm(s), NEW j \in BenchmarkJobs, At(s, j) \notin Legs,
         s.phase = "localObserving"
  PROVE  Follows(s, Filled(s, j, "initialized"))
<1> DEFINE t == Filled(s, j, "initialized")
           e == AfterFill(j)
<1>1. /\ t \in Projections /\ t.phase = s.phase /\ t.bound = s.bound
      /\ t.holding = s.holding /\ t.lastAt = s.lastAt
      /\ At(t, j) = "initialized" /\ t.entry[j].ok = FALSE
      /\ At(t, e) = "expected" /\ t.entry[e].ok = FALSE
      /\ \A i \in Tracked \ {j, e}: t.entry[i] = s.entry[i]
  <2>1. s \in Projections /\ j \in BenchmarkJobs \cup DailyJobs
    BY DEF ProjectionInForm
  <2>2. "initialized" \in {"filled", "initialized"}
    OBVIOUS
  <2> QED BY <2>1, <2>2, FilledFacts
<1>2. /\ e \in AfterFills /\ e # Final /\ j # Final /\ j \notin AfterFills
      /\ j \notin DailyJobs /\ e \notin DailyJobs /\ e \notin BenchmarkJobs
      /\ BenchmarkJobs \subseteq Tracked /\ DailyJobs \subseteq Tracked
      /\ AfterFills \subseteq Tracked /\ Final \in Tracked
  BY Kinds DEF Tracked
<1> HIDE DEF t, e
<1>3. ~LegsSettled(s)
  BY DEF LegsSettled, Legs
<1>4. FillsOf(t) = {}
  BY <1>1, <1>2, <1>3 DEF FillsOf, At, ProjectionInForm
<1>5. ProjectionInForm(t)
  <2>1. \A i \in BenchmarkJobs: At(t, i) \in LegPhases
    BY <1>1, <1>2 DEF ProjectionInForm, At, LegPhases, Legs
  <2>2. \A i \in DailyJobs: At(t, i) \in DailyPhases
    BY <1>1, <1>2 DEF ProjectionInForm, At
  <2>3. \A i \in Tracked: t.entry[i].ok => At(t, i) = "observed"
    BY <1>1, <1>2 DEF ProjectionInForm, At
  <2> QED BY <1>1, <1>4, <2>1, <2>2, <2>3 DEF ProjectionInForm
<1>6. OverStays(s, t)
  BY DEF OverStays, Over
<1>7. FinalObserved(t) <=> FinalObserved(s)
  BY <1>1, <1>2 DEF FinalObserved, At
<1>8. \A i \in AfterFills \cup DailyJobs: At(s, i) # "none" => At(t, i) # "none"
  BY <1>1, <1>2 DEF At
<1>9. Follows(s, t)
  BY <1>1, <1>3, <1>5, <1>6, <1>7, <1>8 DEF Follows
<1> QED BY <1>9 DEF t

LEMMA FillFollows ==
  ASSUME ProjectionInForm(s), NEW j \in DailyJobs,
         LegsSettled(s), s.phase = "localObserving", ~Blocked(s),
         NEW holding \in SUBSET Products
  PROVE  Follows(s, [Filled(s, j, "filled") EXCEPT !.holding = holding])
<1> DEFINE f == Filled(s, j, "filled")
           t == [f EXCEPT !.holding = holding]
           e == AfterFill(j)
<1>1. /\ f \in Projections /\ f.phase = s.phase /\ f.bound = s.bound
      /\ f.lastAt = s.lastAt
      /\ At(f, j) = "filled" /\ f.entry[j].ok = FALSE
      /\ At(f, e) = "expected" /\ f.entry[e].ok = FALSE
      /\ \A i \in Tracked \ {j, e}: f.entry[i] = s.entry[i]
  <2>1. s \in Projections /\ j \in BenchmarkJobs \cup DailyJobs
    BY DEF ProjectionInForm
  <2>2. "filled" \in {"filled", "initialized"}
    OBVIOUS
  <2> QED BY <2>1, <2>2, FilledFacts
<1> HIDE DEF f
<1>2. /\ t \in Projections /\ t.phase = s.phase /\ t.bound = s.bound
      /\ t.lastAt = s.lastAt /\ t.entry = f.entry
  BY <1>1 DEF Projections
<1>3. /\ e \in AfterFills /\ e # Final /\ j # Final /\ j \notin AfterFills
      /\ j \notin BenchmarkJobs /\ e \notin DailyJobs /\ e \notin BenchmarkJobs
      /\ BenchmarkJobs \subseteq Tracked /\ DailyJobs \subseteq Tracked
      /\ AfterFills \subseteq Tracked /\ Final \in Tracked
  BY Kinds DEF Tracked
<1> HIDE DEF t, e
<1>4. LegsSettled(t)
  BY <1>1, <1>2, <1>3 DEF LegsSettled, At
<1>5. Unproven(t) \subseteq {e} /\ j \in FillsOf(t)
  <2>1. ASSUME NEW i \in AfterFills, i # e
        PROVE  i \notin Unproven(t)
    <3>1. At(s, i) = "none" \/ (s.entry[i].ok /\ s.entry[i].bh)
      BY DEF Blocked
    <3> QED BY <3>1, <1>1, <1>2, <1>3, <2>1 DEF Unproven, At
  <2> QED BY <2>1, <1>1, <1>2 DEF Unproven, FillsOf, At
<1>6. ProjectionInForm(t)
  <2>1. \A i \in BenchmarkJobs: At(t, i) \in LegPhases
    BY <1>1, <1>2, <1>3 DEF ProjectionInForm, At
  <2>2. \A i \in DailyJobs: At(t, i) \in DailyPhases
    BY <1>1, <1>2, <1>3 DEF ProjectionInForm, At, DailyPhases
  <2>3. \A i \in Tracked: t.entry[i].ok => At(t, i) = "observed"
    BY <1>1, <1>2, <1>3 DEF ProjectionInForm, At
  <2> QED BY <1>1, <1>2, <1>4, <1>5, <2>1, <2>2, <2>3
          DEF ProjectionInForm, e
<1>7. OverStays(s, t)
  BY DEF OverStays, Over
<1>8. FinalObserved(t) <=> FinalObserved(s)
  BY <1>1, <1>2, <1>3 DEF FinalObserved, At
<1>9. \A i \in AfterFills \cup DailyJobs: At(s, i) # "none" => At(t, i) # "none"
  BY <1>1, <1>2, <1>3 DEF At
<1>10. Follows(s, t)
  BY <1>1, <1>2, <1>4, <1>6, <1>7, <1>8, <1>9 DEF Follows
<1> QED BY <1>10 DEF t, f

-----------------------------------------------------------------------------
(* The jobs.                                                               *)
LEMMA BenchmarkGood ==
  ASSUME IInv, w.pc \in {"start", "on"}, clock' = clock,
         w.job \in BenchmarkJobs, BenchmarkStep
  PROVE  StepIsGood
<1> DEFINE j == w.job
<1>1. /\ ProjectionInForm(s) /\ clock \in Int /\ Working(w)
      /\ At(s, j) \in LegPhases
  BY Parts DEF JobsInForm, Working, ProjectionInForm
<1>2. /\ j \in Tracked /\ j # Final /\ j \notin AfterFills
      /\ j \notin DailyJobs /\ j \notin Assessments
  BY Kinds DEF Tracked
<1>3. CASE At(s, j) \in {"initialized", "failed"}
  BY <1>1, <1>2, <1>3, DoneGood DEF BenchmarkStep
<1>4. CASE At(s, j) \notin Legs
  <2>1. /\ Follows(s, To(s, j, "failed"))
    <3>1. "failed" \in LegPhases
      BY DEF LegPhases, Legs
    <3> QED BY <3>1, <1>1, <1>2, <1>4, ToFollows
  <2>2. CASE w.at > Window
    BY <1>2, <1>4, <2>1, <2>2, ApplyGood DEF BenchmarkStep, Legs
  <2>3. CASE At(s, j) = "expected" /\ ~(w.at > Window)
    <3>1. Follows(s, Ask(s, j, clock))
      BY <1>1, <1>2, <1>4, AskFollows
    <3>2. Apply(Observing(s, clock) /\ InWindow(0, clock), Ask(s, j, clock), "on")
      BY <2>3 DEF BenchmarkStep
    <3> QED BY <1>2, <3>1, <3>2, ApplyGood
  <2>4. CASE At(s, j) = "requested" /\ ~(w.at > Window)
    <3>1. <<j, "book">> \in Ids
      BY DEF Ids
    <3>2. Response("book").seen \in Int
      BY <3>1, Parts DEF Response, RequestsInForm
    <3>3. Follows(s, Quote(s, j, Response("book"), clock))
      BY <1>1, <2>4, <3>2, QuoteFollows
    <3>4. \/ Apply(WellFormed(Response("book")),
                   Quote(s, j, Response("book"), clock), "on")
          \/ Source("book")
      BY <2>4 DEF BenchmarkStep
    <3> QED BY <1>2, <3>1, <3>3, <3>4, ApplyGood, SourceGood
  <2>5. CASE At(s, j) = "quoted" /\ ~(w.at > Window)
    <3> DEFINE t == IF Observing(s, clock) /\ Priceable(s, j, clock)
                    THEN Filled(s, j, "initialized") ELSE To(s, j, "failed")
    <3>1. Follows(s, t)
      BY <1>1, <1>4, <2>1, LegFollows, ObservingFacts
    <3>2. Apply(TRUE, t, "on")
      BY <2>5 DEF BenchmarkStep
    <3> HIDE DEF t
    <3> QED BY <1>2, <3>1, <3>2, ApplyGood
  <2>6. CASE At(s, j) = "rejected" /\ ~(w.at > Window)
    <3>1. Defer
      BY <2>6 DEF BenchmarkStep
    <3> QED BY <3>1, DeferGood
  <2> QED BY <1>1, <1>4, <2>2, <2>3, <2>4, <2>5, <2>6 DEF LegPhases
<1> QED BY <1>3, <1>4 DEF Legs

(* Both books of a mark are asked for, one after the other.                *)
LEMMA BookIds ==
  ASSUME NEW j \in HourlyJobs \cup AfterFills \cup {Final}
  PROVE  <<j, NextBook>> \in Ids
<1>1. NextBook \in Products
  BY DEF NextBook, Products
<1>2. Books(j) \subseteq Ids
  BY DEF Ids
<1> QED BY <1>1, <1>2 DEF Books

LEMMA ObserveBooksGood ==
  ASSUME IInv, w.pc \in {"start", "on"}, clock' = clock,
         w.job \in HourlyJobs \cup AfterFills \cup {Final},
         At(s, w.job) # "observed", NEW guard, ObserveBooks(guard)
  PROVE  StepIsGood
<1>1. /\ ProjectionInForm(s) /\ clock \in Int /\ Working(w)
      /\ w.job \in AfterFills => At(s, w.job) # "none"
      /\ w.job \notin DailyJobs
  BY Parts, Kinds DEF JobsInForm, Working, InvocationInForm
<1> DEFINE t == Observe(s, w.job, [p \in Products |-> Response(p)], clock)
<1>2. PICK drawn \in BOOLEAN:
       Apply(guard /\ \A p \in Products: WellFormed(Response(p)),
             [t EXCEPT !.drawn = @ \/ drawn], "on")
  BY DEF ObserveBooks
<1>3. Follows(s, t)
  BY <1>1, ObserveFollows
<1> HIDE DEF t
<1>4. Follows(s, [t EXCEPT !.drawn = @ \/ drawn])
  BY <1>3, DrawnFollows
<1> QED BY <1>1, <1>2, <1>4, ApplyGood

LEMMA EventGood ==
  ASSUME IInv, w.pc \in {"start", "on"}, clock' = clock,
         w.job \in AfterFills \cup {Final}, EventStep
  PROVE  StepIsGood
<1> DEFINE j == w.job
<1>1. /\ ProjectionInForm(s) /\ clock \in Int /\ Working(w)
      /\ j \in AfterFills => At(s, j) # "none"
  BY Parts DEF JobsInForm, Working, InvocationInForm
<1>2. /\ j \in Tracked /\ j \notin BenchmarkJobs /\ j \notin DailyJobs
      /\ j \notin Assessments /\ (j \in AfterFills => j # Final)
  BY Kinds DEF Tracked
<1>3. CASE Done(FALSE) \/ Done(TRUE)
  BY <1>1, <1>2, <1>3, DoneGood
<1>4. CASE At(s, j) = "expected"
           /\ Apply(clock < EndAt /\ (j = Final \/ LegsSettled(s)),
                    Ask(s, j, clock), "on")
  <2>1. Follows(s, Ask(s, j, clock))
    BY <1>1, <1>2, <1>4, AskFollows
  <2> QED BY <1>2, <1>4, <2>1, ApplyGood
<1>5. CASE Source(NextBook)
  BY <1>2, <1>5, BookIds, SourceGood
<1>6. CASE On("export") /\ UNCHANGED <<durable, alarm>>
  BY <1>6, OnGood
<1>7. CASE At(s, j) # "observed"
           /\ ObserveBooks((clock >= EndAt) = (j = Final))
  BY <1>7, ObserveBooksGood
<1> QED BY <1>3, <1>4, <1>5, <1>6, <1>7 DEF EventStep

LEMMA HourlyGood ==
  ASSUME IInv, w.pc \in {"start", "on"}, clock' = clock,
         w.job \in HourlyJobs, HourlyStep
  PROVE  StepIsGood
<1> DEFINE j == w.job
<1>1. ProjectionInForm(s) /\ clock \in Int /\ Working(w)
  BY Parts DEF JobsInForm, Working
<1>2. /\ j \in Tracked /\ j \notin BenchmarkJobs /\ j \notin DailyJobs
      /\ j \notin Assessments /\ j \notin AfterFills /\ j # Final
  BY Kinds DEF Tracked
<1>3. CASE \E without: Done(without)
  BY <1>1, <1>2, <1>3, DoneGood
<1>4. CASE Apply(TRUE, To(s, j, "expected"), "on")
  <2>1. Follows(s, To(s, j, "expected"))
    BY <1>1, <1>2, ToFollows
  <2> QED BY <1>2, <1>4, <2>1, ApplyGood
<1>5. CASE Apply(InHour(j.at, clock), Ask(s, j, clock), "on")
  <2>1. Follows(s, Ask(s, j, clock))
    BY <1>1, <1>2, AskFollows
  <2> QED BY <1>2, <1>5, <2>1, ApplyGood
<1>6. CASE Source(NextBook)
  BY <1>2, <1>6, BookIds, SourceGood
<1>7. CASE At(s, j) # "observed" /\ ObserveBooks(InHour(j.at, clock))
  BY <1>7, ObserveBooksGood
<1> QED BY <1>3, <1>4, <1>5, <1>6, <1>7 DEF HourlyStep

LEMMA AssessmentGood ==
  ASSUME IInv, w.pc \in {"start", "on"}, clock' = clock, AssessmentStep
  PROVE  StepIsGood
BY ThrowGood, DoneGood DEF AssessmentStep, Working

LEMMA SuspendFollows ==
  ASSUME IInv, NEW now
  PROVE  /\ Follows(s, Suspend(s, now))
         /\ Suspend(s, now).phase # "localObserving"
         /\ Suspend(s, now).lastAt = s.lastAt
         /\ Suspend(s, now).entry = s.entry
<1> DEFINE p == Safety(s, now)
           t == Suspend(s, now)
<1>1. s \in Projections /\ ProjectionInForm(s) /\ s.lastAt >= -1
  BY Parts DEF ProjectionInForm
<1>2. /\ p \in Projections /\ p.entry = s.entry /\ p.bound = s.bound
      /\ p.holding = s.holding /\ p.lastAt = s.lastAt
      /\ p.phase = s.phase \/ (s.bound /\ p.phase \in Over)
      /\ s.phase \in Over => p.phase \in Over
  BY <1>1, SafetyFacts
<1>3. t = [p EXCEPT !.phase = IF @ = "localObserving" THEN "suspended" ELSE @]
  BY DEF Suspend
<1> HIDE DEF p, t
<1>4. /\ t \in Projections /\ t.entry = s.entry /\ t.bound = s.bound
      /\ t.holding = s.holding /\ t.lastAt = s.lastAt
      /\ t.phase = IF p.phase = "localObserving" THEN "suspended" ELSE p.phase
  BY <1>2, <1>3 DEF Projections, Over
<1>5. /\ t.phase = s.phase \/ (s.bound /\ t.phase \in Over)
      /\ s.phase \in Over => t.phase \in Over
      /\ t.phase # "localObserving"
  BY <1>1, <1>2, <1>4 DEF ProjectionInForm, Over
<1>6. Follows(s, t)
  BY <1>1, <1>4, <1>5, SameFollows, SameEntries
<1> QED BY <1>4, <1>5, <1>6 DEF t

(* The decisions.                                                          *)
LEMMA DailyTo ==
  ASSUME IInv, Working(w), w.job \in DailyJobs, At(s, w.job) # "filled",
         NEW phase \in {"expected", "admitted", "intent", "terminal"},
         s.phase \in Over => phase # "intent"
  PROVE  Follows(s, To(s, w.job, phase))
<1>1. /\ w.job \in Tracked /\ w.job # Final /\ w.job \notin AfterFills
      /\ w.job \notin BenchmarkJobs
  BY Kinds DEF Tracked
<1>2. phase \in DailyPhases
  BY DEF DailyPhases
<1> QED BY <1>1, <1>2, Parts, ToFollows

LEMMA DailyRecoveryGood ==
  ASSUME IInv, w.pc = "start", clock' = clock,
         w.job \in DailyJobs, DailyRecovery
  PROVE  StepIsGood
<1> DEFINE j == w.job
           u == [Suspend(s, clock) EXCEPT !.lastAt = clock]
<1>1. /\ ProjectionInForm(s) /\ clock \in Int /\ clock >= -1 /\ Working(w)
      /\ j \notin Assessments
  BY Parts, Kinds DEF JobsInForm, Working
<1>2. CASE At(s, j) = "none" /\ Apply(TRUE, To(s, j, "expected"), "start")
  <2>1. Follows(s, To(s, j, "expected"))
    BY <1>1, <1>2, DailyTo
  <2> QED BY <1>2, <2>1, ApplyGood
<1>3. CASE Done(FALSE)
  BY <1>1, <1>3, DoneGood
<1>4. CASE /\ At(s, j) = "expected"
           /\ Apply(clock > j.at + Window, To(s, j, "terminal"), "on")
  <2>1. Follows(s, To(s, j, "terminal"))
    BY <1>1, <1>4, DailyTo
  <2> QED BY <1>4, <2>1, ApplyGood
<1>5. CASE /\ Commit(u) /\ On("unresolved")
           /\ UNCHANGED <<requests, done, unresolved, deferred, alarm>>
  <2>1. Suspend(s, clock) \in Projections
    BY <1>1, SuspendFollows DEF Follows, ProjectionInForm
  <2>2. /\ u \in Projections /\ u.lastAt = clock
        /\ u.phase = Suspend(s, clock).phase
        /\ u.bound = Suspend(s, clock).bound
        /\ u.holding = Suspend(s, clock).holding
        /\ u.entry = Suspend(s, clock).entry
    BY <1>1, <2>1, StampFacts
  <2>3. Follows(s, u)
    BY <1>1, <2>2, SuspendFollows, SameEntries
  <2> HIDE DEF u
  <2>4. InvocationInForm(w', s, done) /\ w.pc \notin {"begin", "fetch"}
    BY <1>1, <1>5, Parts, InvocationGoesOn DEF On
  <2>5. InvocationInForm(w', u, done)
    BY <2>3, <2>4, InvocationFollows
  <2>6. RequestsInForm(requests', w', u, clock)
    BY <1>5, <2>3, <2>4, Parts, RequestsFollow, RequestsElsewhere
  <2> QED BY <1>5, <2>2, <2>3, <2>5, <2>6, Parts, CommitGood DEF JobsInForm
<1>6. CASE Defer
  BY <1>6, DeferGood
<1>7. CASE At(s, j) # "none" /\ On("on") /\ UNCHANGED <<durable, alarm>>
  BY <1>7, OnGood
<1> QED BY <1>2, <1>3, <1>4, <1>5, <1>6, <1>7 DEF DailyRecovery

LEMMA FillGood ==
  ASSUME IInv, w.pc = "on", clock' = clock, w.job \in DailyJobs, Fill
  PROVE  StepIsGood
<1> PICK kept \in BOOLEAN:
      Apply(MayTrade(s, w.job, clock),
            [Filled(s, w.job, "filled") EXCEPT
               !.holding = IF kept THEN @ \cup {w.job.of} ELSE @ \ {w.job.of}],
            "on")
  BY DEF Fill
<1> DEFINE f == Filled(s, w.job, "filled")
           holding == IF kept THEN f.holding \cup {w.job.of}
                      ELSE f.holding \ {w.job.of}
           t == [f EXCEPT !.holding = holding]
<1>1. /\ ProjectionInForm(s) /\ s \in Projections /\ Working(w)
      /\ LegsSettled(s) \/ s.phase # "localObserving"
      /\ At(s, w.job) # "none" /\ w.job.of \in Products
  BY Parts, Kinds DEF ProjectionInForm, Working, InvocationInForm
<1>2. f \in Projections
  <2>1. "filled" \in {"filled", "initialized"}
    OBVIOUS
  <2> QED BY <1>1, <2>1, FilledFacts
<1>3. holding \in SUBSET Products
  BY <1>1, <1>2 DEF Projections
<1>4. Apply(MayTrade(s, w.job, clock), t, "on")
  <2>1. t = [f EXCEPT !.holding = IF kept THEN @ \cup {w.job.of}
                                  ELSE @ \ {w.job.of}]
    BY <1>2 DEF Projections
  <2> HIDE DEF f
  <2>2. Apply(MayTrade(s, w.job, clock),
              [f EXCEPT !.holding = IF kept THEN @ \cup {w.job.of}
                                    ELSE @ \ {w.job.of}], "on")
    BY DEF f
  <2> HIDE DEF t
  <2> QED BY <2>1, <2>2
<1> HIDE DEF holding
<1>5. MayTrade(s, w.job, clock) => Follows(s, t)
  BY <1>1, <1>3, FillFollows, ObservingFacts DEF MayTrade
<1> HIDE DEF t
<1> QED BY <1>1, <1>4, <1>5, ApplyGood

LEMMA DailyGood ==
  ASSUME IInv, w.pc = "on", clock' = clock, w.job \in DailyJobs, DailyStep
  PROVE  StepIsGood
<1> DEFINE j == w.job
<1>1. /\ ProjectionInForm(s) /\ clock \in Int /\ Working(w)
      /\ j \notin Assessments /\ At(s, j) # "none"
      /\ At(s, j) \in DailyPhases
  BY Parts, Kinds
     DEF JobsInForm, Working, InvocationInForm, ProjectionInForm
<1>2. /\ <<j, "candles">> \in Ids /\ <<j, "quote">> \in Ids
      /\ j \in Tracked /\ j # Final /\ j \notin BenchmarkJobs
      /\ j \notin AfterFills
  BY Kinds DEF Ids, Tracked
<1>3. At(s, j) # "filled" => Follows(s, To(s, j, "terminal"))
  BY <1>1, DailyTo
<1>4. MayTrade(s, j, clock) => s.phase = "localObserving"
  BY <1>1, ObservingFacts DEF MayTrade
<1>5. CASE At(s, j) \in {"terminal", "filled"}
  <2>1. Done(FALSE)
    BY <1>5 DEF DailyStep
  <2> QED BY <1>1, <2>1, DoneGood
<1>6. CASE At(s, j) = "expected"
  <2>1. \/ Source("candles") \/ Defer \/ Throw
        \/ /\ Model(To(s, j, "admitted"))
           /\ w' = [w EXCEPT !.admitted = TRUE]
           /\ UNCHANGED <<requests, done, unresolved, deferred, alarm>>
    BY <1>6 DEF DailyStep
  <2>2. Follows(s, To(s, j, "admitted"))
    BY <1>1, <1>6, DailyTo
  <2>3. CASE /\ Model(To(s, j, "admitted"))
             /\ w' = [w EXCEPT !.admitted = TRUE]
             /\ UNCHANGED <<requests, done, unresolved, deferred, alarm>>
    <3>1. InvocationInForm(w', s, done) /\ w.pc \notin {"begin", "fetch", "idle"}
      BY <2>3, Parts DEF InvocationInForm, Working
    <3> QED BY <2>2, <2>3, <3>1, ModelGood
  <2> QED BY <1>1, <1>2, <2>1, <2>3, SourceGood, DeferGood, ThrowGood
<1>7. CASE At(s, j) = "admitted"
  <2>1. \/ Done(FALSE)
        \/ Apply(InWindow(j.at, clock), To(s, j, "terminal"), "on")
        \/ Apply(MayTrade(s, j, clock) /\ ~Busy(s, j.of),
                 To(s, j, "intent"), "on")
    BY <1>7 DEF DailyStep, Decide
  <2>2. MayTrade(s, j, clock) => Follows(s, To(s, j, "intent"))
    <3>1. s.phase = "localObserving" => s.phase \notin Over
      BY DEF Over
    <3> QED BY <3>1, <1>1, <1>4, <1>7, DailyTo
  <2>3. CASE Done(FALSE)
    BY <1>1, <2>3, DoneGood
  <2>4. CASE Apply(InWindow(j.at, clock), To(s, j, "terminal"), "on")
    BY <1>1, <1>3, <1>7, <2>4, ApplyGood
  <2>5. CASE Apply(MayTrade(s, j, clock) /\ ~Busy(s, j.of),
                   To(s, j, "intent"), "on")
    BY <1>1, <2>2, <2>5, ApplyGood
  <2> QED BY <2>1, <2>3, <2>4, <2>5
<1>8. CASE At(s, j) = "intent"
  <2>1. Apply(MayTrade(s, j, clock), Ask(s, j, clock), "on")
    BY <1>8 DEF DailyStep
  <2>2. Follows(s, Ask(s, j, clock))
    BY <1>1, <1>2, <1>8, AskFollows
  <2> QED BY <1>1, <2>1, <2>2, ApplyGood
<1>9. CASE At(s, j) = "requested"
  <2>1. \/ Apply(WellFormed(Response("quote")),
                 Quote(s, j, Response("quote"), clock), "on")
        \/ Source("quote")
    BY <1>9 DEF DailyStep
  <2>2. Response("quote").seen \in Int
    BY <1>2, Parts DEF Response, RequestsInForm
  <2>3. Follows(s, Quote(s, j, Response("quote"), clock))
    BY <1>1, <1>9, <2>2, QuoteFollows
  <2> QED BY <1>1, <1>2, <2>1, <2>3, ApplyGood, SourceGood
<1>10. CASE At(s, j) \in {"quoted", "unfit"}
  <2>1. \/ Fill
        \/ Apply(InWindow(j.at, clock), To(s, j, "terminal"), "on")
        \/ Apply(TRUE, To(s, j, "terminal"), "on")
    BY <1>10 DEF DailyStep, BrokerRejected
  <2>2. CASE Fill
    BY <2>2, FillGood
  <2>3. CASE Apply(InWindow(j.at, clock), To(s, j, "terminal"), "on")
    BY <1>1, <1>3, <1>10, <2>3, ApplyGood
  <2>4. CASE Apply(TRUE, To(s, j, "terminal"), "on")
    BY <1>1, <1>3, <1>10, <2>4, ApplyGood
  <2> QED BY <2>1, <2>2, <2>3, <2>4
<1> QED BY <1>1, <1>5, <1>6, <1>7, <1>8, <1>9, <1>10 DEF DailyPhases

LEMMA StepGood ==
  ASSUME IInv, Step
  PROVE  StepIsGood
<1>1. clock' = clock /\ w.pc \in {"start", "on", "unresolved"}
  BY DEF Step, counters
<1>2. CASE w.pc = "unresolved"
  <2>1. Done(TRUE)
    BY <1>2 DEF Step
  <2>2. w.job \notin Assessments
    BY <1>2, Parts, Kinds DEF InvocationInForm, Working
  <2> QED BY <1>1, <1>2, <2>1, <2>2, DoneGood DEF Working
<1>3. CASE w.pc \in {"start", "on"}
  <2>1. w.job \in Jobs
    BY Parts DEF InvocationInForm
  <2>2. CASE w.job \in BenchmarkJobs
    <3>1. BenchmarkStep
      BY <1>3, <2>2, Kinds DEF Step
    <3> QED BY <1>1, <1>3, <2>2, <3>1, BenchmarkGood
  <2>3. CASE w.job \in AfterFills \cup {Final}
    <3>1. EventStep
      BY <1>3, <2>3, Kinds DEF Step
    <3> QED BY <1>1, <1>3, <2>3, <3>1, EventGood
  <2>4. CASE w.job \in HourlyJobs
    <3>1. HourlyStep
      BY <1>3, <2>4, Kinds DEF Step
    <3> QED BY <1>1, <1>3, <2>4, <3>1, HourlyGood
  <2>5. CASE w.job \in Assessments
    <3>1. AssessmentStep
      BY <1>3, <2>5, Kinds DEF Step
    <3> QED BY <1>1, <1>3, <3>1, AssessmentGood
  <2>6. CASE w.job \in DailyJobs
    <3>1. IF w.pc = "start" THEN DailyRecovery ELSE DailyStep
      BY <1>3, <2>6, Kinds DEF Step
    <3> QED BY <1>1, <1>3, <2>6, <3>1, DailyRecoveryGood, DailyGood
  <2> QED BY <2>1, <2>2, <2>3, <2>4, <2>5, <2>6 DEF Jobs, Tracked
<1> QED BY <1>1, <1>2, <1>3

-----------------------------------------------------------------------------
(* The rest of an invocation.                                              *)
LEMMA CaptureGood ==
  ASSUME IInv, Capture
  PROVE  StepIsGood
<1> PICK good \in BOOLEAN, foreign \in BOOLEAN:
      /\ Commit(Stamped)
      /\ requests' = [requests EXCEPT ![w.id] =
                        [status |-> "CAPTURED", good |-> good, foreign |-> foreign,
                         seen |-> IF good THEN clock ELSE 0]]
  BY DEF Capture
<1> DEFINE answer == [status |-> "CAPTURED", good |-> good, foreign |-> foreign,
                      seen |-> IF good THEN clock ELSE 0]
<1>1. /\ w.pc = "fetch" /\ w' = [w EXCEPT !.pc = "on", !.id = <<>>]
      /\ UNCHANGED <<done, deferred, clock>>
  BY DEF Capture
<1>2. InvocationInForm(w', s, done) /\ Working(w') /\ w'.pc = "on"
  BY <1>1, Parts DEF InvocationInForm, Working
<1>3. /\ answer \in [status: {"none", "REQUESTED", "CAPTURED"},
                     good: BOOLEAN, foreign: BOOLEAN, seen: Int]
      /\ answer.status = "CAPTURED"
  BY Parts DEF JobsInForm
<1> HIDE DEF answer
<1>4. /\ requests' \in [Ids -> [status: {"none", "REQUESTED", "CAPTURED"},
                                good: BOOLEAN, foreign: BOOLEAN, seen: Int]]
      /\ \A id \in Ids: IF id = w.id THEN requests'[id] = answer
                        ELSE requests'[id] = requests[id]
  BY <1>3, Parts DEF RequestsInForm, answer
<1>5. RequestsInForm(requests', w', s, clock)
  BY <1>1, <1>3, <1>4, Parts DEF RequestsInForm
<1> QED BY <1>1, <1>2, <1>5, Parts, StampedFollows, InvocationFollows,
           RequestsFollow, CommitGood DEF JobsInForm

LEMMA BegunFollows ==
  ASSUME IInv, w.pc = "begin"
  PROVE  Follows(s, Begun) /\ (Begun.phase = "registered" => clock >= EndAt)
<1>1. s \in Projections /\ ProjectionInForm(s) /\ clock \in Int /\ EndAt \in Int
  BY Parts, Instants DEF ProjectionInForm, JobsInForm
<1>2. CASE s.bound \/ clock >= EndAt
  BY <1>1, <1>2, SameFollows DEF Begun, ProjectionInForm
<1>3. CASE ~s.bound /\ clock < EndAt
  <2>1. /\ Bound \in Projections /\ Bound.phase = "localObserving"
        /\ Bound.bound = TRUE /\ Bound.holding = s.holding
        /\ Bound.lastAt = s.lastAt /\ Bound.entry = s.entry
    BY <1>1 DEF Bound, Projections
  <2>2. s.phase = "registered"
    BY <1>1, <1>3 DEF ProjectionInForm
  <2>3. /\ \A j: At(Bound, j) = At(s, j)
        /\ FillsOf(Bound) = FillsOf(s) /\ Unproven(Bound) = Unproven(s)
        /\ (LegsSettled(Bound) <=> LegsSettled(s))
        /\ (FinalObserved(Bound) <=> FinalObserved(s))
    BY <2>1 DEF At, FillsOf, Unproven, LegsSettled, FinalObserved
  <2>4. ProjectionInForm(Bound)
    BY <1>1, <2>1, <2>3 DEF ProjectionInForm
  <2>5. OverStays(s, Bound)
    BY <2>2 DEF OverStays, Over
  <2>6. Follows(s, Bound)
    BY <1>3, <2>1, <2>2, <2>3, <2>4, <2>5 DEF Follows
  <2> QED BY <1>1, <1>3, <2>1, <2>6 DEF Begun
<1> QED BY <1>1, <1>2, <1>3

LEMMA BeginGood ==
  ASSUME IInv, Begin
  PROVE  StepIsGood
<1>1. w.pc = "begin" /\ clock' = clock /\ clock \in Int /\ clock >= -1
  BY Parts DEF Begin, JobsInForm
<1>2. CASE clock < 0
  <2>1. w' = Idle /\ UNCHANGED durable
    BY <1>2 DEF Begin, Schedule
  <2>2. InvocationInForm(w', s, done) /\ w'.pc = "idle"
    BY <2>1, InvocationRests
  <2>3. RequestsInForm(requests, w', s, clock)
    BY <1>1, <2>2, Parts, RequestsElsewhere
  <2> QED BY <1>1, <2>1, <2>2, <2>3, StillGood
<1>3. CASE ~(clock < 0)
  <2> DEFINE t == Begun
             u == [Safety(t, clock) EXCEPT !.lastAt = clock]
  <2>1. /\ Commit(u) /\ w' = [w EXCEPT !.pc = "loop"]
        /\ UNCHANGED <<requests, done, deferred>>
    BY <1>3 DEF Begin, Apply, Model, On
  <2>2. Follows(s, t) /\ (t.phase = "registered" => clock >= EndAt)
    BY <1>1, BegunFollows
  <2> HIDE DEF t
  <2>3. Follows(s, u) /\ u.lastAt = clock
    BY <1>1, <2>2, ModelFollows
  <2>4. u.phase = "registered" => clock >= EndAt
    <3>1. t \in Projections
      BY <2>2 DEF Follows, ProjectionInForm
    <3>2. /\ Safety(t, clock) \in Projections
          /\ Safety(t, clock).phase \in Over \cup {t.phase}
      BY <3>1, SafetyFacts
    <3>3. u.phase = Safety(t, clock).phase
      BY <3>2, <1>1, StampFacts
    <3> QED BY <2>2, <3>2, <3>3 DEF Over
  <2> HIDE DEF u
  <2>5. InvocationInForm(w', u, done) /\ w'.pc = "loop"
    BY <1>1, <2>1, Parts DEF InvocationInForm, Working
  <2>6. RequestsInForm(requests, w, u, clock)
    BY <2>3, Parts, RequestsFollow
  <2>7. RequestsInForm(requests', w', u, clock)
    <3>1. clock \in Int /\ EndAt \in Int
      BY <1>1, Instants
    <3> QED BY <3>1, <1>1, <2>1, <2>4, <2>5, <2>6 DEF RequestsInForm
  <2> QED BY <1>1, <2>1, <2>3, <2>5, <2>7, Parts, CommitGood DEF JobsInForm
<1> QED BY <1>2, <1>3

(* The jobs a wake may take up.                                            *)
LEMMA NextFacts ==
  ASSUME clock \in Int, NEW completed, NEW j \in NextJobs(s, clock, completed)
  PROVE  /\ j \in Jobs /\ j \notin completed
         /\ j \in AfterFills => At(s, j) # "none"
         /\ j \in DailyJobs => LegsSettled(s) \/ s.phase # "localObserving"
         /\ j = Assessment(EndAt) => FinalObserved(s) \/ Final \in completed
<1> DEFINE economic == s.phase \notin Over
           unsettled == {i \in BenchmarkJobs:
                           At(s, i) \notin {"initialized", "failed"}}
           unmarked == {e \in AfterFills: At(s, e) \notin {"none", "observed"}}
           final == {i \in {Final}: clock >= EndAt - Lead /\ At(s, i) # "observed"}
           legs == economic /\ clock >= 0 /\ unsettled # {}
           fills == IF economic THEN unmarked ELSE {}
           all == <<fills, final, Due(DailyJobs, clock), Due(HourlyJobs, clock),
                    Due(Assessments, clock)>>
           classes == IF legs THEN <<unsettled>> ELSE all
           open == {i \in DOMAIN classes: classes[i] \ completed # {}}
<1>1. PICK i \in open: /\ j \in Earliest(classes[i] \ completed)
                       /\ \A k \in open: i <= k
  <2>1. NextJobs(s, clock, completed) =
          UNION {Earliest(classes[i] \ completed):
                   i \in {i \in open: \A k \in open: i <= k}}
    BY DEF NextJobs
  <2> HIDE DEF classes, open
  <2> QED BY <2>1
<1>2. j \in classes[i] /\ j \notin completed /\ i \in DOMAIN classes
      /\ \A k \in DOMAIN classes: classes[k] \ completed # {} => i <= k
  BY <1>1 DEF Earliest
<1>3. /\ BenchmarkJobs \subseteq Jobs /\ AfterFills \subseteq Jobs
      /\ DailyJobs \subseteq Jobs /\ HourlyJobs \subseteq Jobs
      /\ Assessments \subseteq Jobs /\ Final \in Jobs
  BY DEF Jobs, Tracked
<1>4. \A d \in DailyJobs: d.at \in Int /\ d.at >= 0
  BY Instants DEF DailyJobs, Daily, Job, Every
<1>5. Assessment(EndAt).kind = "assessment" /\ Assessment(EndAt).at = EndAt
  BY Kinds
<1>6. CASE legs
  <2>1. j \in unsettled
    BY <1>2, <1>6
  <2> QED BY <1>2, <1>3, <1>5, <2>1, Kinds
<1>7. CASE ~legs
  <2>1. classes = all
    BY <1>7
  <2>2. i \in 1..5 /\ j \in all[i]
        /\ \A k \in 1..5: all[k] \ completed # {} => i <= k
    BY <1>2, <2>1
  <2>3. \/ i = 1 /\ j \in fills
        \/ i = 2 /\ j \in final
        \/ i = 3 /\ j \in Due(DailyJobs, clock)
        \/ i = 4 /\ j \in Due(HourlyJobs, clock)
        \/ i = 5 /\ j \in Due(Assessments, clock)
    BY <2>2
  <2>4. j \in Jobs
    BY <1>3, <2>3 DEF Due
  <2>5. j \in AfterFills => At(s, j) # "none"
    BY <2>3, Kinds DEF Due
  <2>6. j \in DailyJobs => LegsSettled(s) \/ s.phase # "localObserving"
    <3>1. j \in DailyJobs => clock >= 0
      BY <2>3, <1>4, Kinds DEF Due
    <3> QED BY <3>1, <1>7 DEF LegsSettled, Over
  <2>7. j = Assessment(EndAt) => FinalObserved(s) \/ Final \in completed
    <3> SUFFICES ASSUME j = Assessment(EndAt)
                 PROVE  FinalObserved(s) \/ Final \in completed
      OBVIOUS
    <3>1. i = 5 /\ clock >= EndAt
      BY <2>3, <1>5, Kinds DEF Due
    <3>2. all[2] \ completed = {}
      BY <2>2, <3>1
    <3>3. Final \in final \/ FinalObserved(s)
      <4>1. Lead \in Nat
        BY P7Assumption
      <4> QED BY <3>1, <4>1, Instants DEF FinalObserved
    <3> QED BY <3>2, <3>3
  <2> QED BY <1>2, <2>4, <2>5, <2>6, <2>7
<1> QED BY <1>6, <1>7

LEMMA DispatchGood ==
  ASSUME IInv, Dispatch
  PROVE  StepIsGood
<1>1. /\ w.pc = "loop" /\ UNCHANGED durable /\ clock' = clock /\ clock \in Int
      /\ ProjectionInForm(s) /\ InvocationInForm(w, s, done)
      /\ deferred \subseteq BenchmarkJobs \cup DailyJobs
  BY Parts DEF Dispatch, JobsInForm, durable
<1>2. CASE w' = [w EXCEPT !.pc = "export"]
  <2>1. InvocationInForm(w', s, done)
    BY <1>1, <1>2 DEF InvocationInForm, Working
  <2>2. w'.pc = "export"
    BY <1>1, <1>2 DEF InvocationInForm
  <2>3. RequestsInForm(requests, w', s, clock)
    BY <1>1, <2>2, Parts, RequestsElsewhere
  <2> QED BY <1>1, <2>1, <2>3, StillGood
<1>3. ASSUME NEW j \in NextJobs(s, clock, Completed(clock)),
             w' = [w EXCEPT !.pc = "start", !.job = j, !.at = clock,
                            !.admitted = FALSE]
      PROVE  StepIsGood
  <2>1. /\ j \in Jobs /\ j \notin Completed(clock)
        /\ j \in AfterFills => At(s, j) # "none"
        /\ j \in DailyJobs => LegsSettled(s) \/ s.phase # "localObserving"
        /\ j = Assessment(EndAt) =>
             FinalObserved(s) \/ Final \in Completed(clock)
    BY <1>1, <1>3, NextFacts
  <2>2. /\ j \notin done
        /\ Final \in Completed(clock) => Final \in done
    BY <1>1, <2>1, Kinds DEF Completed
  <2>3. InvocationInForm(w', s, done) /\ w'.pc = "start"
    BY <1>1, <1>3, <2>1, <2>2 DEF InvocationInForm, Working, FinalSettled
  <2>4. RequestsInForm(requests, w', s, clock)
    BY <1>1, <2>3, Parts, RequestsElsewhere
  <2> QED BY <1>1, <2>3, <2>4, StillGood
<1> QED BY <1>2, <1>3 DEF Dispatch, On

(* An invocation ends or begins, and nothing else happens.                 *)
LEMMA RestGood ==
  ASSUME IInv, UNCHANGED durable, clock' = clock, w.pc # "fetch",
         NEW auto \in BOOLEAN,
         w' = Idle \/ (w.pc = "idle" /\ w' = Invocation(auto))
  PROVE  StepIsGood
<1>1. InvocationInForm(w', s, done) /\ w'.pc \in {"idle", "begin", "loop"}
  BY InvocationRests DEF Invocation
<1>2. w'.pc \in {"idle", "begin"}
  <2>1. Idle.pc = "idle" /\ Invocation(auto).pc = "begin"
    BY DEF Idle, Invocation
  <2> QED BY <2>1
<1>3. RequestsInForm(requests, w', s, clock)
  BY <1>2, Parts, RequestsElsewhere
<1> QED BY <1>1, <1>3, Parts, StillGood DEF JobsInForm

LEMMA ExportGood ==
  ASSUME IInv, Export
  PROVE  StepIsGood
BY RestGood DEF Export, Schedule, Retry

LEMMA WakeGood ==
  ASSUME IInv, Wake \/ AlarmFires
  PROVE  StepIsGood
BY RestGood DEF Wake, AlarmFires, counters

LEMMA StopGood ==
  ASSUME IInv, Stop
  PROVE  StepIsGood
<1>1. /\ w.pc = "idle" /\ s.bound /\ w' = w
      /\ UNCHANGED <<requests, done, unresolved, deferred, clock>>
      /\ InvocationInForm(w, s, done)
  BY Parts DEF Stop
<1>2. CASE Model([s EXCEPT !.phase = "stopped"])
  <2> DEFINE t == [s EXCEPT !.phase = "stopped"]
  <2>1. s \in Projections /\ s.lastAt >= -1
    BY Parts DEF ProjectionInForm
  <2>2. /\ t \in Projections /\ t.entry = s.entry /\ t.bound = s.bound
        /\ t.holding = s.holding /\ t.lastAt = s.lastAt /\ t.phase \in Over
    BY <2>1 DEF Projections, Over
  <2> HIDE DEF t
  <2>3. Follows(s, t)
    BY <1>1, <2>1, <2>2, Parts, SameFollows, SameEntries
  <2>4. Model(t)
    BY <1>2 DEF t
  <2>5. ~Working(w')
    BY <1>1 DEF Working
  <2> QED BY <1>1, <2>3, <2>4, <2>5, ModelGood
<1>3. CASE UNCHANGED <<s, frozen>>
  <2>1. RequestsInForm(requests, w', s, clock)
    BY <1>1, Parts
  <2> QED BY <1>1, <1>3, <2>1, Parts, StillGood DEF durable, JobsInForm
<1> QED BY <1>2, <1>3 DEF Stop

LEMMA CrashGood ==
  ASSUME IInv, Crash
  PROVE  StepIsGood
<1>1. /\ w' = Idle /\ requests' = requests /\ done' = done
      /\ deferred' = deferred /\ frozen' = frozen /\ clock' = clock
  BY DEF Crash
<1>2. /\ Follows(s, s') /\ s'.lastAt = s.lastAt /\ s'.entry = s.entry
      /\ HasPending => s'.phase # "localObserving"
  <2>1. CASE s' = Suspend(s, s.lastAt)
    BY <2>1, SuspendFollows
  <2>2. CASE s' = s /\ ~HasPending
    BY <2>2, Parts, SameFollows
  <2> QED BY <2>1, <2>2 DEF Crash
<1>3. InvocationInForm(w', s', done') /\ w'.pc = "idle"
  BY <1>1, InvocationRests
<1>4. RequestsInForm(requests', w', s', clock')
  BY <1>1, <1>2, <1>3, Parts DEF RequestsInForm, HasPending, Follows
<1>5. ReportsInForm(frozen', s', done')
  BY <1>1, <1>2, Parts DEF ReportsInForm, FinalSettled, Follows
<1>6. ProjectionInForm(s') /\ OverStays(s, s') /\ JobsInForm'
      /\ FrozenStays(frozen')
  BY <1>1, <1>2, Parts DEF Follows, JobsInForm, FrozenStays
<1> QED BY <1>3, <1>4, <1>5, <1>6, Parts DEF StepIsGood

LEMMA TickGood ==
  ASSUME IInv, Tick
  PROVE  StepIsGood
<1>1. /\ UNCHANGED durable /\ w' = w /\ clock' = clock + 1 /\ clock \in Int
      /\ InvocationInForm(w', s, done) /\ EndAt \in Int
  BY Parts, Instants DEF Tick, JobsInForm
<1>2. RequestsInForm(requests, w', s, clock')
  BY <1>1, Parts DEF RequestsInForm
<1> QED BY <1>1, <1>2, StillGood

LEMMA NextGood ==
  ASSUME IInv, [Next]_vars
  PROVE  StepIsGood
<1>1. CASE Next
  BY <1>1, BeginGood, DispatchGood, StepGood, CaptureGood, ExportGood,
     WakeGood, StopGood, CrashGood, TickGood DEF Next, Worker
<1>2. CASE UNCHANGED vars
  <2>1. UNCHANGED durable /\ w' = w /\ clock' = clock /\ requests' = requests
    BY <1>2 DEF vars, durable
  <2>2. InvocationInForm(w', s, done) /\ RequestsInForm(requests, w', s, clock')
    BY <2>1, Parts
  <2> QED BY <2>1, <2>2, Parts, StillGood DEF JobsInForm
<1> QED BY <1>1, <1>2

LEMMA InitInForm == Init => IInv
<1> SUFFICES ASSUME Init PROVE IInv
  OBVIOUS
<1> DEFINE entry == [j \in Tracked |->
             Entry(IF j \in BenchmarkJobs \cup {Final} THEN "expected"
                   ELSE "none")]
<1>1. s = InitialProjection /\ s.entry = entry
  BY DEF Init, InitialProjection
<1>2. ASSUME NEW j \in Tracked
      PROVE  /\ entry[j] \in Entries /\ entry[j].ok = FALSE
             /\ entry[j].phase = IF j \in BenchmarkJobs \cup {Final}
                                 THEN "expected" ELSE "none"
  BY EntryType
<1>3. entry \in [Tracked -> Entries]
  BY <1>2
<1> HIDE DEF entry
<1>4. /\ s \in Projections /\ s.lastAt = -1 /\ s.phase = "registered"
      /\ s.bound = FALSE
  BY <1>1, <1>3 DEF InitialProjection, Projections
<1>5. /\ \A j \in BenchmarkJobs: At(s, j) = "expected"
      /\ \A j \in DailyJobs: At(s, j) = "none"
      /\ \A j \in Tracked: s.entry[j].ok = FALSE
      /\ ~FinalObserved(s)
  <2>1. \A j \in DailyJobs: j \notin BenchmarkJobs /\ j # Final
    BY Kinds
  <2> QED BY <1>1, <1>2, <2>1 DEF At, Tracked, FinalObserved
<1>6. ProjectionInForm(s)
  BY <1>4, <1>5 DEF ProjectionInForm, LegPhases, DailyPhases, FillsOf
<1>7. /\ w = Idle /\ done = {} /\ deferred = {} /\ clock = -1
      /\ requests = [id \in Ids |-> NoRequest]
      /\ frozen = [c \in Checkpoints |-> Never]
  BY DEF Init
<1>8. InvocationInForm(w, s, done) /\ w.pc = "idle"
  BY <1>7, InvocationRests
<1>9. RequestsInForm(requests, w, s, clock)
  BY <1>7, <1>8 DEF RequestsInForm, NoRequest
<1>10. ReportsInForm(frozen, s, done)
  <2>1. \A c \in Checkpoints: c > -1 /\ c \in Int
    BY Instants, P7Assumption DEF Checkpoints
  <2> QED BY <1>4, <1>7, <2>1 DEF ReportsInForm, Never
<1> QED BY <1>6, <1>7, <1>8, <1>9, <1>10 DEF IInv, JobsInForm

-----------------------------------------------------------------------------
(* The reasons for what is checked below: the invariant holds, and every   *)
(* step keeps it, leaves what is over alone and leaves the reports alone.  *)
THEOREM Soundness == Spec => []IInv
<1>1. IInv /\ [Next]_vars => IInv'
  BY NextGood DEF StepIsGood
<1> QED BY <1>1, InitInForm, PTL DEF Spec

(* Nothing is decided from a market that may have been seen: a response    *)
(* lost to an eviction has ended the observation, however the losses, the  *)
(* wakes and the commits fall together.                                    *)
THEOREM LostEvidence == Spec => []LostEvidenceSuspends
<1>1. IInv => LostEvidenceSuspends
  BY Parts DEF RequestsInForm, LostEvidenceSuspends
<1> QED BY <1>1, Soundness, PTL

(* P7 never fills on an unproven portfolio: at most one fill, the last, is *)
(* without a mark that values both portfolios.                             *)
THEOREM MarkedFills == Spec => []FillsAwaitMarks
<1>1. IInv => FillsAwaitMarks
  <2> SUFFICES ASSUME IInv, FillsOf(s) # {}
               PROVE  /\ Unproven(s) \subseteq {AfterFill(j): j \in FillsOf(s)}
                      /\ Cardinality(Unproven(s)) <= 1
    BY DEF FillsAwaitMarks, FillsOf, Unproven
  <2>1. PICK j \in FillsOf(s): Unproven(s) \subseteq {AfterFill(j)}
    BY Parts DEF ProjectionInForm
  <2>2. Unproven(s) = {} \/ Unproven(s) = {AfterFill(j)}
    BY <2>1
  <2>3. Cardinality({}) = 0 /\ Cardinality({AfterFill(j)}) = 1
    BY FS_EmptySet, FS_Singleton
  <2> QED BY <2>1, <2>2, <2>3
<1> QED BY <1>1, Soundness, PTL

(* There is no way back from the end of an observation, and a report that  *)
(* was assessed is not written again.                                      *)
THEOREM Verdicts == Spec => VerdictsStand
<1>1. ASSUME IInv, [Next]_vars
      PROVE  s.phase \in Over =>
               /\ s'.phase \in Over /\ s'.holding = s.holding
               /\ Taken(s') \subseteq Taken(s)
  BY <1>1, NextGood DEF StepIsGood, OverStays
<1>2. ASSUME IInv, [Next]_vars
      PROVE  \A c \in Checkpoints:
               frozen'[c] # frozen[c] =>
                 /\ c \in Interim => frozen'[c] <= c
                 /\ Assessment(c) \in done => clock = c
  BY <1>2, NextGood DEF StepIsGood, FrozenStays
<1>3. Spec => SuspensionIsFinal
  BY <1>1, Soundness, PTL DEF Spec, SuspensionIsFinal
<1>4. Spec => ReportIsFrozen
  BY <1>2, Soundness, PTL DEF Spec, ReportIsFrozen
<1> QED BY <1>3, <1>4 DEF VerdictsStand
=============================================================================
