------------------------------- MODULE Metrics -------------------------------
(***************************************************************************)
(* One series of readings (services/metrics.py): what poll cycles file,    *)
(* the hourly job that rolls it up and prunes it, and the charts that are  *)
(* drawn from what is left.  Time is counted in buckets of five minutes;   *)
(* the numbers of the source are constants here.  A cycle stamps its       *)
(* readings before it commits, so they may arrive a bucket late; jobs may  *)
(* overlap, each of them reads and writes in turns, and may die in between. *)
(***************************************************************************)
EXTENDS Naturals, FiniteSets, FiniteSetsExt

CONSTANTS
  Hour,                            \* buckets of an hour: 12
  FiveBack,                        \* buckets a run rolls up again: 13
  HourBack,                        \* hours it rolls up again: 2
  RawKeep, FiveKeep, HourKeep,     \* retention: 48 hours, 14 days, 400 days
  RawSpan, FiveSpan,               \* longest chart of raw and of 5m: 6 hours, 3 days
  Maintainers,                     \* runs of metrics.maintain
  AnyPace,                         \* whether runs may come late; see spaced
  Horizon, MaxCuts                 \* bounds: buckets, and runs that die

ASSUME MetricsAssumption ==
  /\ Hour \in Nat \ {0} /\ FiveBack \in Nat /\ HourBack \in Nat
  /\ RawKeep \in Nat /\ FiveKeep \in Nat /\ HourKeep \in Nat
  /\ FiveBack = Hour + 1 /\ HourBack = 2 /\ RawKeep + 1 >= 3 * Hour
  /\ RawSpan \in Nat /\ FiveSpan \in Nat
  /\ RawSpan <= RawKeep /\ FiveSpan <= FiveKeep /\ RawSpan <= FiveSpan
  /\ AnyPace \in BOOLEAN /\ Horizon \in Nat \ {0} /\ MaxCuts \in Nat

VARIABLES
  clock,     \* the bucket that is filling
  stamped,   \* the bucket of a cycle's reading that is not committed yet, or 0
  raw,       \* metric_samples: the readings of each bucket, 0 or 1
  five,      \* metric_rollups, 5m: sample_count of each bucket, 0 without a row
  hour,      \* and 1h, by the hour
  run,       \* where each run is, the time it took, and what it has read
  taken,     \* ghost: every reading ever committed
  last,      \* ghost: the latest time of a run whose 5m rollup is in, and 1h
  spaced,    \* ghost: those runs came no further apart than the hour, and none
             \* overlapped one that took its time in an earlier bucket
  cuts

metricsVars == <<clock, stamped, raw, five, hour, run, taken, last, spaced, cuts>>

Buckets == 1..Horizon
HourOf(b) == b \div Hour
Hours == 0..HourOf(Horizon)
NoRun == [pc |-> "idle", at |-> 0, read |-> [b \in Buckets |-> 0]]

MetricsTypeOK ==
  /\ clock \in Buckets /\ stamped \in Buckets \cup {0} /\ last \in [{"5m", "1h"} -> Buckets]
  /\ raw \in [Buckets -> 0..1] /\ taken \in [Buckets -> 0..1]
  /\ five \in [Buckets -> 0..1] /\ hour \in [Hours -> 0..Hour]
  /\ run \in [Maintainers -> [pc : {"idle", "five", "writeFive", "hour", "writeHour", "prune"},
                              at : 0..Horizon, read : [Buckets -> 0..1]]]
  /\ spaced \in BOOLEAN /\ cuts \in 0..MaxCuts

MetricsInit ==
  /\ clock = 1 /\ stamped = 0 /\ last = [x \in {"5m", "1h"} |-> 1] /\ spaced = TRUE /\ cuts = 0
  /\ raw = [b \in Buckets |-> 0] /\ taken = raw /\ five = raw /\ hour = [h \in Hours |-> 0]
  /\ run = [r \in Maintainers |-> NoRun]

-----------------------------------------------------------------------------
\* A cycle, and a run, take less than a bucket.
MetricsTick ==
  /\ clock < Horizon
  /\ stamped \in {0, clock} /\ \A r \in Maintainers : run[r].at \in {0, clock}
  /\ clock' = clock + 1
  /\ UNCHANGED <<stamped, raw, five, hour, run, taken, last, spaced, cuts>>

CycleStamps ==
  /\ stamped = 0 /\ taken[clock] = 0 /\ stamped' = clock
  /\ UNCHANGED <<clock, raw, five, hour, run, taken, last, spaced, cuts>>
WriteSamples ==
  /\ stamped # 0 /\ stamped' = 0
  /\ raw' = [raw EXCEPT ![stamped] = 1] /\ taken' = [taken EXCEPT ![stamped] = 1]
  /\ UNCHANGED <<clock, five, hour, run, last, spaced, cuts>>

MaintainStarts(r) ==
  /\ run[r].pc = "idle" /\ run' = [run EXCEPT ![r].pc = "five", ![r].at = clock]
  /\ spaced' = (spaced /\ \A o \in Maintainers : run[o].at \in {0, clock})
  /\ UNCHANGED <<clock, stamped, raw, five, hour, taken, last, cuts>>

\* rollup: fully elapsed buckets only, the last FiveBack of them; and hours.
BugElapsed(r) == {b \in Buckets : b < run[r].at /\ b + FiveBack > run[r].at}
Elapsed(r) == {b \in Buckets : b < run[r].at /\ b + FiveBack >= run[r].at}
ElapsedHours(r) == {h \in Hours : h < HourOf(run[r].at) /\ h + HourBack >= HourOf(run[r].at)}

Found(b, wanted) == IF wanted THEN raw[b] ELSE 0
Reads(r) ==
  /\ \/ /\ run[r].pc = "five"
        /\ run' = [run EXCEPT ![r].read = [b \in Buckets |-> Found(b, b \in Elapsed(r))],
                              ![r].pc = "writeFive"]
     \/ /\ run[r].pc = "hour"
        /\ run' = [run EXCEPT ![r].read = [b \in Buckets |-> Found(b, HourOf(b) \in ElapsedHours(r))],
                              ![r].pc = "writeHour"]
  /\ UNCHANGED <<clock, stamped, raw, five, hour, taken, last, spaced, cuts>>

RollsUp(r, resolution) ==
  /\ last' = [last EXCEPT ![resolution] = IF run[r].at > @ THEN run[r].at ELSE @]
  /\ spaced' = (spaced /\ run[r].at <= last[resolution] + Hour)

\* Delete and insert in one transaction.
WritesFive(r) ==
  /\ run[r].pc = "writeFive"
  /\ five' = [b \in Buckets |-> IF b \in Elapsed(r) THEN run[r].read[b] ELSE five[b]]
  /\ RollsUp(r, "5m")
  /\ run' = [run EXCEPT ![r].pc = "hour", ![r].read = NoRun.read]
  /\ UNCHANGED <<clock, stamped, raw, hour, taken, cuts>>
Total(readings, h) == Cardinality({b \in Buckets : HourOf(b) = h /\ readings[b] = 1})
WritesHour(r) ==
  /\ run[r].pc = "writeHour"
  /\ hour' = [h \in Hours |-> IF h \in ElapsedHours(r) THEN Total(run[r].read, h) ELSE hour[h]]
  /\ RollsUp(r, "1h")
  /\ run' = [run EXCEPT ![r].pc = "prune", ![r].read = NoRun.read]
  /\ UNCHANGED <<clock, stamped, raw, five, taken, cuts>>

\* prune, at the run's own time.
Older(b, r, keep) == b + keep < run[r].at
Prunes(r) ==
  /\ run[r].pc = "prune"
  /\ raw' = [b \in Buckets |-> IF Older(b, r, RawKeep) THEN 0 ELSE raw[b]]
  /\ five' = [b \in Buckets |-> IF Older(b, r, FiveKeep) THEN 0 ELSE five[b]]
  /\ hour' = [h \in Hours |-> IF Older(h * Hour, r, HourKeep) THEN 0 ELSE hour[h]]
  /\ run' = [run EXCEPT ![r] = NoRun]
  /\ UNCHANGED <<clock, stamped, taken, last, spaced, cuts>>

\* The process dies with the run; the next one starts from the top.
MaintainDies(r) ==
  /\ run[r].pc # "idle" /\ cuts < MaxCuts /\ cuts' = cuts + 1
  /\ run' = [run EXCEPT ![r] = NoRun]
  /\ UNCHANGED <<clock, stamped, raw, five, hour, taken, last, spaced>>

MetricsNext ==
  /\ \/ MetricsTick \/ CycleStamps \/ WriteSamples
     \/ \E r \in Maintainers : \/ MaintainStarts(r) \/ Reads(r) \/ WritesFive(r) \/ WritesHour(r)
                               \/ Prunes(r) \/ MaintainDies(r)
  /\ AnyPace \/ spaced'
MetricsSpec == MetricsInit /\ [][MetricsNext]_metricsVars
-----------------------------------------------------------------------------
(* Properties.                                                             *)

\* pick_resolution, and the rows query_series finds for one bucket.
Resolution(span) == IF span <= RawSpan THEN "raw" ELSE IF span <= FiveSpan THEN "5m" ELSE "1h"
Drawn(b, resolution) ==
  CASE resolution = "raw" -> raw[b] [] resolution = "5m" -> five[b] [] OTHER -> hour[HourOf(b)]

\* A chart up to now, within retention, draws everything that was ever read in its span, up to
\* the last bucket and hour before the last run, in whichever resolution it
\* comes, if the job ran every hour: late readings, runs at the same time and
\* runs that died are made good by the next, and nothing is pruned too early.
ChartsWhole ==
  spaced =>
    \A from \in {b \in 1..clock : clock + Hour <= b + HourKeep} :
      LET resolution == Resolution(clock - from) IN
      \A b \in from..clock :
        CASE resolution = "raw" -> Drawn(b, "raw") = taken[b]
          [] resolution = "5m" -> b + 1 < last["5m"] => Drawn(b, "5m") = taken[b]
          [] OTHER -> HourOf(b) + 1 < HourOf(last["1h"]) => Drawn(b, "1h") = Total(taken, HourOf(b))

MetricsSound == MetricsTypeOK /\ ChartsWhole

(* What two docstrings say and a late run refutes.                         *)

\* metrics.py:5-6 "so a missed tick self-heals on the next one", and 119-121.
MissedHeals ==
  (\A r \in Maintainers : run[r].pc = "idle") =>
    \A b \in Buckets : b + 1 < last["5m"] /\ b + FiveKeep >= clock => five[b] = taken[b]
=============================================================================
