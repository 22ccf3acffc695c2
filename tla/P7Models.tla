------------------------------- MODULE P7Models -------------------------------
(***************************************************************************)
(* The pure models of the P7 shadow collector: the safety of the campaign, *)
(* the guards of its ledgers and the plan of its jobs, as operators on the *)
(* projection (models/p7-shadow-runner.ts and models/p7-prospective-*.ts). *)
(*                                                                         *)
(* Everything a campaign tracks is keyed by the job that works on it: a    *)
(* leg of the benchmark, a daily decision, an hourly mark, the mark that   *)
(* follows a fill, the final one.  An entry has a phase; `at`, the instant *)
(* of its request, of the book it was quoted from or of its observation;   *)
(* and, for a mark, whether it values P7's portfolio (ok) and the          *)
(* benchmark's (bh).  Amounts are left out: a product is held or not, and  *)
(* the accounting breaches that would make a campaign invalid with them.   *)
(* Instants are ticks, T0 is 0.                                            *)
(***************************************************************************)
EXTENDS Integers, FiniteSets

CONSTANTS Hour,     \* P7_HOUR
          Window,   \* the two hours of an entry, and of a gap in the marks
          Fresh,    \* the five seconds of a book and of a response
          Lead,     \* how long before T1 the FINAL books are asked for
          Day,      \* P7_DAY
          Days,     \* length of the campaign, 180 in the code
          Interim   \* cutoffs of the reports before the last

ASSUME P7Assumption ==
  /\ {Hour, Window, Fresh, Lead, Day, Days} \subseteq Nat \ {0}
  /\ Lead <= Fresh /\ Fresh < Hour /\ Hour < Window /\ Window + Lead < Day
  /\ Interim \subseteq 1..(Days * Day - 1)

Products == {"BTC-USD", "ETH-USD"}
EndAt == Days * Day
Checkpoints == Interim \cup {EndAt}

Job(kind, of, at) == [kind |-> kind, of |-> of, at |-> at]
Benchmark(p) == Job("benchmark", p, 0)
Daily(p, c) == Job("daily", p, c)
Hourly(h) == Job("hourly", "ALL", h)
Assessment(c) == Job("assessment", "ALL", c)
Final == Job("event", "FINAL", EndAt)
AfterFill(j) == Job("event", j.of, IF j.kind = "daily" THEN j.at ELSE -1)

Every(n) == {k \in 0..(EndAt - 1): k % n = 0}
BenchmarkJobs == {Benchmark(p): p \in Products}
DailyJobs == {Daily(p, c): p \in Products, c \in Every(Day)}
HourlyJobs == {Hourly(h): h \in Every(Hour)}
AfterFills == {AfterFill(j): j \in BenchmarkJobs \cup DailyJobs}
Assessments == {Assessment(c): c \in Checkpoints}
Tracked == BenchmarkJobs \cup DailyJobs \cup HourlyJobs \cup AfterFills \cup {Final}

Entry(phase) == [phase |-> phase, at |-> 0, ok |-> FALSE, bh |-> FALSE]

(* initializeP7Shadow, a tick before T0.                                   *)
InitialProjection ==
  [phase |-> "registered", bound |-> FALSE, drawn |-> FALSE, lastAt |-> -1,
   holding |-> {},
   entry |-> [j \in Tracked |->
     Entry(IF j \in BenchmarkJobs \cup {Final} THEN "expected" ELSE "none")]]

At(s, j) == s.entry[j].phase
To(s, j, phase) == [s EXCEPT !.entry[j] = Entry(phase)]
Ask(s, j, now) == [s EXCEPT !.entry[j] = [Entry("requested") EXCEPT !.at = now]]

-----------------------------------------------------------------------------
(* The safety of the campaign and the coverage of its marks.               *)

Over == {"suspended", "stopped", "ended"}

(* reportP7MarkCoverage: an interval longer than Window without a mark.    *)
ProofGap(times, end) ==
  LET instants == {0, end} \cup {t \in times: t <= end}
  IN \E a \in instants: a < end /\ \A b \in instants: b > a => b - a > Window

Gapped(s, now) ==
  LET observed(available(_)) == {s.entry[h].at: h \in {h \in HourlyJobs: available(h)}}
  IN \/ ProofGap(observed(LAMBDA h: s.entry[h].ok), now)
     \/ ProofGap(observed(LAMBDA h: s.entry[h].bh), now)

(* evaluateP7LocalCampaignSafety                                           *)
Safety(s, now) ==
  IF ~s.bound \/ s.phase \in {"stopped", "ended"} THEN s
  ELSE IF s.drawn THEN [s EXCEPT !.phase = "stopped"]
  ELSE IF now >= EndAt THEN [s EXCEPT !.phase = "ended"]
  ELSE IF s.phase = "localObserving" /\ Gapped(s, now)
  THEN [s EXCEPT !.phase = "suspended"]
  ELSE s

Observing(s, now) == Safety(s, now).phase = "localObserving"

(* suspendP7ShadowForRequestGap                                            *)
Suspend(s, now) ==
  [Safety(s, now) EXCEPT !.phase = IF @ = "localObserving" THEN "suspended" ELSE @]

-----------------------------------------------------------------------------
(* The guards of the ledgers.                                              *)

InWindow(c, now) == c <= now /\ now <= c + Window /\ now < EndAt
InHour(h, now) == h <= now /\ now < h + Hour /\ now < EndAt

LegsSettled(s) ==
  \A j \in BenchmarkJobs: At(s, j) \in {"initialized", "failed"}

(* A command that observes books refuses one that has a field or a level   *)
(* key of its own (isP7MarkBooks, INVALID_BENCHMARK_BOOK_FIELDS,           *)
(* INVALID_QUOTE_FIELDS), whatever else it shows; no book passes.          *)
WellFormed(book) == ~book.foreign

(* markBookReason and freshAtUse: a book of the entry's own request.       *)
Usable(book, asked, now) ==
  /\ book.good
  /\ book.seen - asked <= Fresh /\ book.seen < EndAt
  /\ now - book.seen <= Fresh

(* A fault: marks that were observed are not asked what they value.       *)
BlockedUntilObserved(s) ==
  At(s, Final) = "requested" \/ \E e \in AfterFills: At(s, e) \in {"expected", "requested"}

(* hasP7AfterFillBlocker                                                   *)
Blocked(s) ==
  \/ At(s, Final) = "requested"
  \/ \E e \in AfterFills:
       At(s, e) # "none" /\ ~(s.entry[e].ok /\ s.entry[e].bh)

(* What INTENT, REQUEST_QUOTE and a simulated fill need.                   *)
MayTrade(s, j, now) == Observing(s, now) /\ ~Blocked(s) /\ InWindow(j.at, now)

Busy(s, p) ==
  \E j \in DailyJobs:
    j.of = p /\ At(s, j) \in {"intent", "requested", "quoted", "unfit"}

(* planP7Pricing of the quote of a decision or of a leg.                   *)
Priceable(s, j, now) ==
  /\ At(s, j) = "quoted"
  /\ now - s.entry[j].at <= Fresh /\ InWindow(j.at, now)

(* OBSERVE_QUOTE takes a well-formed book as it was received,              *)
(* OBSERVE_BENCHMARK_BOOK also as old as it is now.                        *)
Quote(s, j, book, now) ==
  LET leg == j \in BenchmarkJobs
      fit == /\ Usable(book, s.entry[j].at, IF leg THEN now ELSE book.seen)
             /\ book.seen <= j.at + Window
             /\ leg => InWindow(j.at, now)
  IN IF fit THEN [s EXCEPT !.entry[j] = [Entry("quoted") EXCEPT !.at = book.seen]]
            ELSE To(s, j, IF leg THEN "rejected" ELSE "unfit")

(* A fill expects its mark (expectP7AfterFill).                            *)
Filled(s, j, phase) == To(To(s, j, phase), AfterFill(j), "expected")

(* applyP7JointMarkCommand and OBSERVE_EVENT_MARK, of well-formed books:   *)
(* cash needs none; the benchmark has a value only once both its legs are  *)
(* initialized.                                                            *)
Observe(s, j, books, now) ==
  LET usable(p) == Usable(books[p], s.entry[j].at, now)
  IN [s EXCEPT !.entry[j] =
       [phase |-> "observed", at |-> IF j \in HourlyJobs THEN now ELSE 0,
        ok |-> \A p \in s.holding: usable(p),
        bh |-> \A p \in Products: At(s, Benchmark(p)) = "initialized" /\ usable(p)]]

-----------------------------------------------------------------------------
(* planP7ShadowJobs, of which the worker takes one at a time.              *)

(* By instant, then BTC-USD first.  Fills are marked in the order of their *)
(* numbers as strings (fill-10 before fill-9): any order here.             *)
Earliest(jobs) ==
  {j \in jobs: \A k \in jobs \ {j}:
     \/ j.kind = "event"
     \/ j.at < k.at \/ (j.at = k.at /\ j.of = "BTC-USD")}

Due(jobs, now) == {j \in jobs: j.at <= now}

NextJobs(s, now, completed) ==
  LET economic == s.phase \notin Over
      unsettled == {j \in BenchmarkJobs: At(s, j) \notin {"initialized", "failed"}}
      unmarked == {e \in AfterFills: At(s, e) \notin {"none", "observed"}}
      final == {j \in {Final}: now >= EndAt - Lead /\ At(s, j) # "observed"}
      classes == IF economic /\ now >= 0 /\ unsettled # {} THEN <<unsettled>>
                 ELSE <<IF economic THEN unmarked ELSE {}, final,
                        Due(DailyJobs, now), Due(HourlyJobs, now),
                        Due(Assessments, now)>>
      open == {i \in DOMAIN classes: classes[i] \ completed # {}}
  IN UNION {Earliest(classes[i] \ completed):
              i \in {i \in open: \A k \in open: i <= k}}
=============================================================================
