---------------------------- MODULE SensorHealth ----------------------------
(***************************************************************************)
(* SensorDataHealth (sensor_data_health.hpp) for one stream of samples that  *)
(* carry a sequence number (a camera, a board IMU, the LiDAR), and the calls *)
(* the driver makes about it: observe for each sample, add for what else is  *)
(* wrong with it, counter for the drops of its dispatch queue, reset and     *)
(* disable around its starts and stops, and reportHealth each second of      *)
(* run() and once at its end.                                               *)
(*                                                                         *)
(* Time passes in units of the scheduler's choosing.  What observe makes of  *)
(* the samples' own time stamps is one of the issues that "other" stands     *)
(* for; session and condition, which only other streams use, are left out.  *)
(***************************************************************************)
EXTENDS Naturals

CONSTANTS Modulus,       \* 2^sequence_bits
          Silence,       \* the silence_ns of the stream: five seconds or three periods
          Interval,      \* kReportInterval
          MaxTime,       \* bound on the clock
          MaxNumber,     \* bound on the samples the device numbers
          MaxBurst,      \* bound on the samples lost at once
          MaxOther       \* bound on the other issues, and on the drops

ASSUME ModulusAssumption == Modulus \in Nat /\ Modulus > 0 /\ Modulus % 2 = 0
ASSUME TimesAssumption == Silence \in Nat \ {0} /\ Interval \in Nat \ {0}
ASSUME BoundsAssumption ==
  MaxTime \in Nat /\ MaxNumber \in Nat /\ MaxBurst \in Nat /\ MaxOther \in Nat

None == Modulus   \* no number

Issue == {"missing", "duplicate", "reset", "drop", "other"}

VARIABLES
  now,             \* the steady clock
  number,          \* the device: its sample number, not yet cut to its width
  dropped,         \* the dispatch queue: its count of dropped values
  sequence,        \* State::sequence
  counter,         \* State::counters[QueueDrop]
  last_arrival,    \* State::last_arrival
  silence,         \* State::silence_ns, 0 when disabled
  pending, total,  \* State::pending and State::total
  reported, last_report, stale_reported,
  ended,           \* run() has made its last report
  lost,            \* history: samples lost between two of one baseline
  halfLost,        \* history: a loss of half the numbers or more was among them
  written          \* history: what the reports said, added up

device == <<number, dropped>>
counts == <<pending, total>>
throttle == <<reported, last_report>>
history == <<lost, halfLost, written>>
vars == <<now, device, sequence, counter, last_arrival, silence, counts, throttle,
          stale_reported, ended, history>>

TypeOK ==
  /\ now \in Nat /\ number \in Nat /\ dropped \in Nat
  /\ sequence \in 0..Modulus /\ counter \in Nat
  /\ last_arrival \in Nat /\ silence \in {0, Silence}
  /\ pending \in [Issue -> Nat] /\ total \in [Issue -> Nat]
  /\ reported \in BOOLEAN /\ last_report \in Nat /\ stale_reported \in BOOLEAN
  /\ ended \in BOOLEAN
  /\ lost \in Nat /\ halfLost \in BOOLEAN /\ written \in [Issue -> Nat]

Nothing == [i \in Issue |-> 0]

\* run() begins with a new SensorDataHealth.  The queue of the stream belongs
\* to the driver, which runs once.
Init ==
  /\ now = 0 /\ number = 0 /\ dropped = 0
  /\ sequence = None /\ counter = 0
  /\ last_arrival = 0 /\ silence = 0
  /\ pending = Nothing /\ total = Nothing
  /\ reported = FALSE /\ last_report = 0 /\ stale_reported = FALSE
  /\ ended = FALSE
  /\ lost = 0 /\ halfLost = FALSE /\ written = Nothing

-----------------------------------------------------------------------------
\* add: count more of an issue.
Added(tally, issue, count) == [tally EXCEPT ![issue] = @ + count]
Add(issue, count) ==
  /\ pending' = Added(pending, issue, count)
  /\ total' = Added(total, issue, count)

\* touch: data has come.
Touch ==
  /\ last_arrival' = now
  /\ stale_reported' = FALSE

\* How far a number is from the one before, cut to its width (mutated form: a
\* number that has wrapped is not).
DeltaUncut(new, old) == IF new >= old THEN new - old ELSE old - new
Delta(new, old) == ((new + Modulus) - old) % Modulus

Half == Modulus \div 2

\* What observe makes of a number.
Judge(new) ==
  LET delta == Delta(new, sequence)
  IN IF sequence = None \/ delta = 1 THEN UNCHANGED counts
     ELSE IF delta = 0 THEN Add("duplicate", 1)
     ELSE IF delta >= Half THEN Add("reset", 1)
     ELSE Add("missing", delta - 1)

\* A sample arrives, after some that were lost; a stream that is disabled is only
\* not expected to have any.
Observe ==
  /\ ~ended
  /\ \E burst \in 0..MaxBurst :
       /\ number + burst + 1 <= MaxNumber
       /\ number' = number + burst + 1
       /\ lost' = IF sequence = None THEN lost ELSE lost + burst
       /\ halfLost' = (halfLost \/ (sequence # None /\ burst + 1 >= Half))
  /\ sequence' = number' % Modulus
  /\ Judge(number' % Modulus)
  /\ Touch
  /\ UNCHANGED <<now, dropped, counter, silence, throttle, ended, written>>

\* The device sends a sample twice.
ObserveAgain ==
  /\ ~ended
  /\ sequence # None
  /\ total["duplicate"] < MaxOther
  /\ sequence' = number % Modulus
  /\ Judge(number % Modulus)
  /\ Touch
  /\ UNCHANGED <<now, device, counter, silence, throttle, ended, lost, halfLost, written>>

\* Something else is wrong with a sample or the stream.
AddOther ==
  /\ ~ended
  /\ total["other"] < MaxOther
  /\ Add("other", 1)
  /\ UNCHANGED <<now, device, sequence, counter, last_arrival, silence, throttle,
                 stale_reported, ended, history>>

\* The queue of the stream drops a value.
QueueDrops ==
  /\ ~ended
  /\ dropped < MaxOther
  /\ dropped' = dropped + 1
  /\ UNCHANGED <<now, number, sequence, counter, last_arrival, silence, counts, throttle,
                 stale_reported, ended, history>>

-----------------------------------------------------------------------------
\* reset, at a start of the stream: what is pending stays (mutated form: it
\* goes with the rest), so does the count of drops.
NoneKept == Nothing
Kept == pending

Start ==
  /\ ~ended
  /\ sequence' = None
  /\ last_arrival' = now
  /\ stale_reported' = FALSE
  /\ silence' = Silence
  /\ pending' = Kept
  /\ UNCHANGED <<now, device, counter, total, throttle, ended, history>>

\* disable, before a stop of the stream.
Disable ==
  /\ ~ended
  /\ silence' = 0
  /\ UNCHANGED <<now, device, sequence, counter, last_arrival, counts, throttle,
                 stale_reported, ended, history>>

-----------------------------------------------------------------------------
\* checkDispatch: the drops since the last report.  The first value counts too,
\* and the driver's counts never go back.
Drops == dropped - counter

Stale(monitored) == monitored # 0 /\ now - last_arrival >= monitored

\* reports: whether the stream is written about.
Due(news, stale) == (\E i \in Issue : news[i] # 0) \/ (stale /\ ~stale_reported)

Throttled == reported /\ now - last_report < Interval

\* Mutated form: a report does not note whether it told of a silence.
WriteUnnoted(news, stale) ==
  /\ written' = [i \in Issue |-> written[i] + news[i]]
  /\ pending' = Nothing
  /\ last_report' = now /\ reported' = TRUE
  /\ UNCHANGED stale_reported

Write(news, stale) ==
  /\ written' = [i \in Issue |-> written[i] + news[i]]
  /\ pending' = Nothing
  /\ last_report' = now /\ reported' = TRUE
  /\ stale_reported' = stale

\* One stream of a reportHealth.
Report(monitored, force) ==
  LET news == Added(pending, "drop", Drops)
      stale == Stale(monitored)
      writes == Due(news, stale) /\ (force \/ ~Throttled)
  IN /\ counter' = dropped
     /\ total' = Added(total, "drop", Drops)
     /\ \/ writes /\ Write(news, stale)
        \/ /\ ~writes
           /\ pending' = news
           /\ UNCHANGED <<written, throttle, stale_reported>>

ReportHealth ==
  /\ ~ended
  /\ Report(silence, FALSE)
  /\ UNCHANGED <<now, device, sequence, last_arrival, silence, ended, lost, halfLost>>

\* reportHealth(true): the queues are stopped, and no stream is monitored.
FinalReport ==
  /\ ~ended
  /\ ended' = TRUE
  /\ silence' = 0
  /\ Report(0, TRUE)
  /\ UNCHANGED <<now, device, sequence, last_arrival, lost, halfLost>>

Tick ==
  /\ ~ended
  /\ now < MaxTime
  /\ now' = now + 1
  /\ UNCHANGED <<device, sequence, counter, last_arrival, silence, counts, throttle,
                 stale_reported, ended, history>>

Next ==
  \/ Observe \/ ObserveAgain \/ AddOther \/ QueueDrops
  \/ Start \/ Disable
  \/ ReportHealth \/ FinalReport
  \/ Tick

Spec == Init /\ [][Next]_vars

-----------------------------------------------------------------------------
(* Properties. *)

\* Every count of every issue is in exactly one report or still pending, over
\* restarts too, and the last report leaves nothing pending; a drop of the
\* queue is counted once, however often the queue is looked at.
NothingForgotten ==
  /\ \A i \in Issue : total[i] = written[i] + pending[i]
  /\ total["drop"] = counter
  /\ ended => pending = Nothing /\ counter = dropped

\* No more samples are called missing than were lost, and all of them are while
\* less than half the numbers go at once, although numbers wrap.
LossCounted ==
  /\ total["missing"] <= lost
  /\ ~halfLost => total["missing"] = lost

\* A silence that outlasts the time reports are held back is reported by every
\* report that sees it, although the one before may have held it back.
LongSilenceReported ==
  [][ReportHealth /\ silence # 0 /\ now - last_arrival >= Silence + Interval
       => stale_reported']_vars
=============================================================================
