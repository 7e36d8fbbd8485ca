------------------------- MODULE SensorHealthProofs -------------------------
(***************************************************************************)
(* Proofs about SensorHealth, for every width, silence, interval and bound. *)
(***************************************************************************)
EXTENDS SensorHealth, TLAPS

-----------------------------------------------------------------------------
(* The tallies. *)

LEMMA AddedType ==
  ASSUME NEW tally \in [Issue -> Nat], NEW issue \in Issue, NEW count \in Nat
  PROVE  /\ Added(tally, issue, count) \in [Issue -> Nat]
         /\ \A i \in Issue : Added(tally, issue, count)[i] =
              IF i = issue THEN tally[i] + count ELSE tally[i]
BY DEF Added

LEMMA DeltaType ==
  ASSUME NEW new \in Nat, NEW old \in Nat, old < Modulus
  PROVE  Delta(new, old) \in Nat
<1> DEFINE d == (new + Modulus) - old
<1>1. d \in Nat /\ Modulus \in Nat /\ Modulus > 0
  BY ModulusAssumption
<1> HIDE DEF d
<1>2. d % Modulus \in Nat
  BY <1>1
<1> QED
  BY <1>2 DEF Delta, d

LEMMA NumberCut ==
  ASSUME NEW n \in Nat
  PROVE  n % Modulus \in 0..Modulus /\ n % Modulus \in Nat
BY ModulusAssumption

-----------------------------------------------------------------------------
(* The inductive invariant. *)

\* What was counted and not written is pending.
Tallied == \A i \in Issue : total[i] = written[i] + pending[i]

DropsCounted == total["drop"] = counter /\ counter <= dropped

Flushed == ended => pending = Nothing /\ counter = dropped

\* A report that came when the stream had been silent long enough has told so.
Told ==
  /\ last_arrival <= now /\ last_report <= now
  /\ silence # 0 /\ reported /\ last_report >= last_arrival + silence => stale_reported

IInv == TypeOK /\ Tallied /\ DropsCounted /\ Flushed /\ Told

LEMMA InitIInv == Init => IInv
<1> SUFFICES ASSUME Init PROVE IInv
  OBVIOUS
<1>1. Nothing \in [Issue -> Nat] /\ \A i \in Issue : Nothing[i] = 0
  BY DEF Nothing
<1>2. "drop" \in Issue
  BY DEF Issue
<1>3. None \in 0..Modulus
  BY ModulusAssumption DEF None
<1>4. TypeOK
  BY <1>1, <1>3 DEF Init, TypeOK
<1>5. Tallied /\ DropsCounted /\ Flushed
  BY <1>1, <1>2 DEF Init, Tallied, DropsCounted, Flushed
<1>6. Told
  BY DEF Init, Told
<1> QED
  BY <1>4, <1>5, <1>6 DEF IInv

\* Counting an issue other than a drop keeps the tallies right.
LEMMA AddStep ==
  ASSUME TypeOK, Tallied, DropsCounted,
         NEW issue \in Issue, issue # "drop", NEW count \in Nat,
         Add(issue, count), UNCHANGED <<written, counter, dropped>>
  PROVE  /\ pending' \in [Issue -> Nat] /\ total' \in [Issue -> Nat]
         /\ Tallied' /\ DropsCounted'
<1>1. pending \in [Issue -> Nat] /\ total \in [Issue -> Nat] /\ written \in [Issue -> Nat]
  BY DEF TypeOK
<1>2. pending' = Added(pending, issue, count) /\ total' = Added(total, issue, count)
  BY DEF Add
<1>3. /\ pending' \in [Issue -> Nat] /\ total' \in [Issue -> Nat]
      /\ \A i \in Issue : /\ pending'[i] = IF i = issue THEN pending[i] + count ELSE pending[i]
                          /\ total'[i] = IF i = issue THEN total[i] + count ELSE total[i]
  <2>1. /\ Added(pending, issue, count) \in [Issue -> Nat]
        /\ \A i \in Issue : Added(pending, issue, count)[i] =
             IF i = issue THEN pending[i] + count ELSE pending[i]
    BY <1>1, AddedType
  <2>2. /\ Added(total, issue, count) \in [Issue -> Nat]
        /\ \A i \in Issue : Added(total, issue, count)[i] =
             IF i = issue THEN total[i] + count ELSE total[i]
    BY <1>1, AddedType
  <2> QED
    BY <1>2, <2>1, <2>2
<1>4. Tallied'
  BY <1>1, <1>3 DEF Tallied
<1>5. DropsCounted'
  BY <1>3 DEF DropsCounted, Issue
<1> QED
  BY <1>3, <1>4, <1>5

\* So does judging a number.
LEMMA JudgeStep ==
  ASSUME TypeOK, Tallied, DropsCounted, NEW new \in Nat, Judge(new),
         UNCHANGED <<written, counter, dropped>>
  PROVE  /\ pending' \in [Issue -> Nat] /\ total' \in [Issue -> Nat]
         /\ Tallied' /\ DropsCounted'
<1> DEFINE delta == Delta(new, sequence)
<1>1. CASE UNCHANGED counts
  BY <1>1 DEF counts, TypeOK, Tallied, DropsCounted
<1>2. CASE Add("duplicate", 1)
  <2>1. "duplicate" \in Issue
    BY DEF Issue
  <2> QED
    BY <1>2, <2>1, AddStep
<1>3. CASE Add("reset", 1)
  <2>1. "reset" \in Issue
    BY DEF Issue
  <2> QED
    BY <1>3, <2>1, AddStep
<1>4. CASE sequence # None /\ delta # 0 /\ Add("missing", delta - 1)
  <2>1. sequence \in Nat /\ sequence < Modulus
    BY <1>4, ModulusAssumption DEF TypeOK, None
  <2>2. delta \in Nat
    BY <2>1, DeltaType
  <2>3. delta - 1 \in Nat
    BY <1>4, <2>2
  <2>4. "missing" \in Issue
    BY DEF Issue
  <2> QED
    BY <1>4, <2>3, <2>4, AddStep
<1> QED
  BY <1>1, <1>2, <1>3, <1>4 DEF Judge

\* What a report makes of the tallies, whoever is monitored.
LEMMA ReportStep ==
  ASSUME IInv, NEW monitored \in Nat, NEW force \in BOOLEAN, Report(monitored, force),
         UNCHANGED <<now, last_arrival, dropped>>
  PROVE  /\ pending' \in [Issue -> Nat] /\ total' \in [Issue -> Nat]
         /\ written' \in [Issue -> Nat]
         /\ reported' \in BOOLEAN /\ last_report' \in Nat /\ stale_reported' \in BOOLEAN
         /\ counter' = dropped
         /\ Tallied' /\ DropsCounted'
         /\ force => pending' = Nothing
         /\ last_report' <= now
         /\ \/ reported' = reported /\ last_report' = last_report
               /\ stale_reported' = stale_reported
            \/ last_report' = now /\ stale_reported' = Stale(monitored)
<1> DEFINE news == Added(pending, "drop", Drops)
           stale == Stale(monitored)
           writes == Due(news, stale) /\ (force \/ ~Throttled)
<1>1. /\ TypeOK /\ Tallied /\ DropsCounted /\ Told
      /\ pending \in [Issue -> Nat] /\ total \in [Issue -> Nat]
      /\ written \in [Issue -> Nat]
      /\ counter \in Nat /\ dropped \in Nat /\ now \in Nat
  BY DEF IInv, TypeOK
<1>2. Drops \in Nat /\ counter + Drops = dropped
  BY <1>1 DEF DropsCounted, Drops
<1>3. "drop" \in Issue
  BY DEF Issue
<1>4. /\ news \in [Issue -> Nat]
      /\ \A i \in Issue : news[i] = IF i = "drop" THEN pending[i] + Drops ELSE pending[i]
  BY <1>1, <1>2, <1>3, AddedType
<1>5. /\ Added(total, "drop", Drops) \in [Issue -> Nat]
      /\ \A i \in Issue : Added(total, "drop", Drops)[i] =
            IF i = "drop" THEN total[i] + Drops ELSE total[i]
  BY <1>1, <1>2, <1>3, AddedType
<1>6. /\ counter' = dropped /\ total' = Added(total, "drop", Drops)
      /\ \/ writes /\ Write(news, stale)
         \/ ~writes /\ pending' = news /\ UNCHANGED <<written, throttle, stale_reported>>
  BY DEF Report
<1>7. stale \in BOOLEAN
  BY DEF Stale
<1>8. \A i \in Issue : total'[i] = written[i] + news[i]
  BY <1>1, <1>2, <1>4, <1>5, <1>6 DEF Tallied
<1> HIDE DEF news, stale
<1>9. DropsCounted'
  BY <1>1, <1>2, <1>3, <1>5, <1>6 DEF DropsCounted
<1>10. CASE writes
  <2>1. /\ written' = [i \in Issue |-> written[i] + news[i]] /\ pending' = Nothing
        /\ last_report' = now /\ reported' = TRUE /\ stale_reported' = stale
    BY <1>6, <1>10 DEF Write
  <2>2. Nothing \in [Issue -> Nat] /\ \A i \in Issue : Nothing[i] = 0
    BY DEF Nothing
  <2>3. written' \in [Issue -> Nat] /\ \A i \in Issue : written'[i] = written[i] + news[i]
    BY <1>1, <1>4, <2>1
  <2>4. Tallied'
    BY <1>1, <1>4, <1>8, <2>1, <2>2, <2>3 DEF Tallied
  <2> QED
    BY <1>1, <1>5, <1>6, <1>7, <1>9, <2>1, <2>2, <2>3, <2>4 DEF stale
<1>11. CASE ~writes
  <2>1. pending' = news /\ written' = written /\ reported' = reported
        /\ last_report' = last_report /\ stale_reported' = stale_reported
    BY <1>6, <1>11 DEF throttle
  <2>2. Tallied'
    BY <1>8, <2>1 DEF Tallied
  <2>3. force => pending' = Nothing
    <3> SUFFICES ASSUME force PROVE pending' = Nothing
      OBVIOUS
    <3>1. \A i \in Issue : news[i] = 0
      BY <1>11 DEF Due
    <3> QED
      BY <1>4, <2>1, <3>1 DEF Nothing
  <2> QED
    BY <1>1, <1>4, <1>5, <1>6, <1>9, <2>1, <2>2, <2>3 DEF TypeOK, Told
<1> QED
  BY <1>10, <1>11

-----------------------------------------------------------------------------
(* The steps. *)

LEMMA ArrivalStep ==
  ASSUME IInv, ~ended, NEW new \in Nat, Judge(new % Modulus), sequence' = new % Modulus,
         Touch, UNCHANGED <<now, dropped, counter, silence, throttle, ended, written>>,
         number' \in Nat, lost' \in Nat, halfLost' \in BOOLEAN
  PROVE  IInv'
<1>1. /\ now' = now /\ dropped' = dropped /\ counter' = counter /\ silence' = silence
      /\ reported' = reported /\ last_report' = last_report /\ ended' = ended
      /\ written' = written
      /\ last_arrival' = now /\ stale_reported' = FALSE
  BY DEF throttle, Touch
<1>2. new % Modulus \in Nat /\ new % Modulus \in 0..Modulus
  BY NumberCut
<1>3. /\ pending' \in [Issue -> Nat] /\ total' \in [Issue -> Nat]
      /\ Tallied' /\ DropsCounted'
  BY <1>1, <1>2, JudgeStep DEF IInv
<1>4. TypeOK'
  BY <1>1, <1>2, <1>3 DEF IInv, TypeOK
<1>5. Flushed'
  BY <1>1 DEF Flushed
<1>6. Told'
  BY <1>1, TimesAssumption DEF IInv, TypeOK, Told
<1> QED
  BY <1>3, <1>4, <1>5, <1>6 DEF IInv

LEMMA ObserveStep == IInv /\ Observe => IInv'
<1> SUFFICES ASSUME IInv, Observe PROVE IInv'
  OBVIOUS
<1>1. PICK burst \in 0..MaxBurst :
        /\ number' = number + burst + 1
        /\ lost' = IF sequence = None THEN lost ELSE lost + burst
        /\ halfLost' = (halfLost \/ (sequence # None /\ burst + 1 >= Half))
  BY DEF Observe
<1>2. number' \in Nat /\ lost' \in Nat /\ halfLost' \in BOOLEAN
  BY <1>1, BoundsAssumption DEF IInv, TypeOK
<1>3. /\ ~ended /\ Judge(number' % Modulus) /\ sequence' = number' % Modulus /\ Touch
      /\ UNCHANGED <<now, dropped, counter, silence, throttle, ended, written>>
  BY DEF Observe
<1> DEFINE new == number'
<1> HIDE DEF new
<1>4. /\ new \in Nat /\ Judge(new % Modulus) /\ sequence' = new % Modulus
  BY <1>2, <1>3 DEF new
<1> QED
  BY <1>2, <1>3, <1>4, ArrivalStep

LEMMA ObserveAgainStep == IInv /\ ObserveAgain => IInv'
<1> SUFFICES ASSUME IInv, ObserveAgain PROVE IInv'
  OBVIOUS
<1>1. /\ ~ended /\ Judge(number % Modulus) /\ sequence' = number % Modulus /\ Touch
      /\ UNCHANGED <<now, dropped, counter, silence, throttle, ended, written>>
      /\ UNCHANGED <<number, lost, halfLost>>
  BY DEF ObserveAgain, device
<1>2. number \in Nat /\ number' \in Nat /\ lost' \in Nat /\ halfLost' \in BOOLEAN
  BY <1>1 DEF IInv, TypeOK
<1> QED
  BY <1>1, <1>2, ArrivalStep

LEMMA AddOtherStep == IInv /\ AddOther => IInv'
<1> SUFFICES ASSUME IInv, AddOther PROVE IInv'
  OBVIOUS
<1>1. /\ Add("other", 1) /\ ~ended
      /\ UNCHANGED <<now, number, dropped, sequence, counter, last_arrival, silence,
           reported, last_report, stale_reported, ended, lost, halfLost, written>>
  BY DEF AddOther, device, throttle, history
<1>2. "other" \in Issue
  BY DEF Issue
<1>3. /\ pending' \in [Issue -> Nat] /\ total' \in [Issue -> Nat]
      /\ Tallied' /\ DropsCounted'
  BY <1>1, <1>2, AddStep DEF IInv
<1>4. TypeOK'
  BY <1>1, <1>3 DEF IInv, TypeOK
<1>5. Flushed' /\ Told'
  BY <1>1 DEF IInv, Flushed, Told
<1> QED
  BY <1>3, <1>4, <1>5 DEF IInv

LEMMA QueueDropsStep == IInv /\ QueueDrops => IInv'
<1> SUFFICES ASSUME IInv, QueueDrops PROVE IInv'
  OBVIOUS
<1>1. /\ dropped' = dropped + 1 /\ ~ended
      /\ UNCHANGED <<now, number, sequence, counter, last_arrival, silence, pending, total,
           reported, last_report, stale_reported, ended, lost, halfLost, written>>
  BY DEF QueueDrops, counts, throttle, history
<1>2. TypeOK'
  BY <1>1 DEF IInv, TypeOK
<1>3. Tallied' /\ Flushed' /\ Told'
  BY <1>1 DEF IInv, Tallied, Flushed, Told
<1>4. DropsCounted'
  BY <1>1 DEF IInv, TypeOK, DropsCounted
<1> QED
  BY <1>2, <1>3, <1>4 DEF IInv

LEMMA StartStep == IInv /\ Start => IInv'
<1> SUFFICES ASSUME IInv, Start PROVE IInv'
  OBVIOUS
<1>1. /\ ~ended /\ sequence' = None /\ last_arrival' = now /\ stale_reported' = FALSE
      /\ silence' = Silence /\ pending' = pending
      /\ UNCHANGED <<now, number, dropped, counter, total, reported, last_report, ended,
                     lost, halfLost, written>>
  BY DEF Start, Kept, device, throttle, history
<1>2. TypeOK'
  <2>1. sequence' \in 0..Modulus
    BY <1>1, ModulusAssumption DEF None
  <2>2. silence' \in {0, Silence}
    BY <1>1
  <2>3. last_arrival' \in Nat /\ stale_reported' \in BOOLEAN
    BY <1>1 DEF IInv, TypeOK
  <2> QED
    BY <1>1, <2>1, <2>2, <2>3 DEF IInv, TypeOK
<1>3. Tallied' /\ DropsCounted' /\ Flushed'
  BY <1>1 DEF IInv, Tallied, DropsCounted, Flushed
<1>4. Told'
  BY <1>1, TimesAssumption DEF IInv, TypeOK, Told
<1> QED
  BY <1>2, <1>3, <1>4 DEF IInv

LEMMA DisableStep == IInv /\ Disable => IInv'
<1> SUFFICES ASSUME IInv, Disable PROVE IInv'
  OBVIOUS
<1>1. /\ silence' = 0
      /\ UNCHANGED <<now, number, dropped, sequence, counter, last_arrival, pending, total,
           reported, last_report, stale_reported, ended, lost, halfLost, written>>
  BY DEF Disable, device, counts, throttle, history
<1>2. TypeOK'
  BY <1>1 DEF IInv, TypeOK
<1>3. Tallied' /\ DropsCounted' /\ Flushed' /\ Told'
  BY <1>1 DEF IInv, Tallied, DropsCounted, Flushed, Told
<1> QED
  BY <1>2, <1>3 DEF IInv

LEMMA ReportHealthStep == IInv /\ ReportHealth => IInv'
<1> SUFFICES ASSUME IInv, ReportHealth PROVE IInv'
  OBVIOUS
<1>1. /\ ~ended /\ Report(silence, FALSE)
      /\ UNCHANGED <<now, number, dropped, sequence, last_arrival, silence, ended,
                     lost, halfLost>>
  BY DEF ReportHealth, device
<1>2. silence \in Nat
  BY TimesAssumption DEF IInv, TypeOK
<1>3. /\ pending' \in [Issue -> Nat] /\ total' \in [Issue -> Nat]
      /\ written' \in [Issue -> Nat]
      /\ reported' \in BOOLEAN /\ last_report' \in Nat /\ stale_reported' \in BOOLEAN
      /\ counter' = dropped /\ Tallied' /\ DropsCounted' /\ last_report' <= now
      /\ \/ reported' = reported /\ last_report' = last_report
            /\ stale_reported' = stale_reported
         \/ last_report' = now /\ stale_reported' = Stale(silence)
  BY <1>1, <1>2, ReportStep
<1>4. TypeOK'
  BY <1>1, <1>3 DEF IInv, TypeOK
<1>5. Flushed'
  BY <1>1 DEF Flushed
<1>6. Told'
  BY <1>1, <1>2, <1>3 DEF IInv, TypeOK, Told, Stale
<1> QED
  BY <1>3, <1>4, <1>5, <1>6 DEF IInv

LEMMA FinalReportStep == IInv /\ FinalReport => IInv'
<1> SUFFICES ASSUME IInv, FinalReport PROVE IInv'
  OBVIOUS
<1>1. /\ ended' = TRUE /\ silence' = 0 /\ Report(0, TRUE)
      /\ UNCHANGED <<now, number, dropped, sequence, last_arrival, lost, halfLost>>
  BY DEF FinalReport, device
<1>2. /\ pending' \in [Issue -> Nat] /\ total' \in [Issue -> Nat]
      /\ written' \in [Issue -> Nat]
      /\ reported' \in BOOLEAN /\ last_report' \in Nat /\ stale_reported' \in BOOLEAN
      /\ counter' = dropped /\ Tallied' /\ DropsCounted' /\ last_report' <= now
      /\ pending' = Nothing
  BY <1>1, ReportStep
<1>3. TypeOK'
  BY <1>1, <1>2 DEF IInv, TypeOK
<1>4. Flushed'
  BY <1>1, <1>2 DEF Flushed
<1>5. Told'
  BY <1>1, <1>2 DEF IInv, Told
<1> QED
  BY <1>2, <1>3, <1>4, <1>5 DEF IInv

LEMMA TickStep == IInv /\ Tick => IInv'
<1> SUFFICES ASSUME IInv, Tick PROVE IInv'
  OBVIOUS
<1>1. /\ now' = now + 1
      /\ UNCHANGED <<number, dropped, sequence, counter, last_arrival, silence, pending, total,
           reported, last_report, stale_reported, ended, lost, halfLost, written>>
  BY DEF Tick, device, counts, throttle, history
<1>2. TypeOK'
  BY <1>1 DEF IInv, TypeOK
<1>3. Tallied' /\ DropsCounted' /\ Flushed'
  BY <1>1 DEF IInv, Tallied, DropsCounted, Flushed
<1>4. Told'
  BY <1>1 DEF IInv, TypeOK, Told
<1> QED
  BY <1>2, <1>3, <1>4 DEF IInv

LEMMA StutterStep == IInv /\ UNCHANGED vars => IInv'
<1> SUFFICES ASSUME IInv, UNCHANGED vars PROVE IInv'
  OBVIOUS
<1>1. UNCHANGED <<now, number, dropped, sequence, counter, last_arrival, silence, pending,
        total, reported, last_report, stale_reported, ended, lost, halfLost, written>>
  BY DEF vars, device, counts, throttle, history
<1>2. TypeOK'
  BY <1>1 DEF IInv, TypeOK
<1>3. Tallied' /\ DropsCounted' /\ Flushed' /\ Told'
  BY <1>1 DEF IInv, Tallied, DropsCounted, Flushed, Told
<1> QED
  BY <1>2, <1>3 DEF IInv

LEMMA NextIInv == IInv /\ [Next]_vars => IInv'
BY ObserveStep, ObserveAgainStep, AddOtherStep, QueueDropsStep, StartStep, DisableStep,
   ReportHealthStep, FinalReportStep, TickStep, StutterStep DEF Next

LEMMA Invariance == Spec => []IInv
BY InitIInv, NextIInv, PTL DEF Spec

-----------------------------------------------------------------------------
(* The theorems. *)

\* The type invariant: no count of the health report ever becomes negative.
THEOREM TypeCorrect == Spec => []TypeOK
<1>1. IInv => TypeOK
  BY DEF IInv
<1> QED
  BY <1>1, Invariance, PTL

\* Every count of every issue is in one report or pending, and none is pending
\* after the last report.
THEOREM EverythingCounted == Spec => []NothingForgotten
<1>1. IInv => NothingForgotten
  BY DEF IInv, Tallied, DropsCounted, Flushed, NothingForgotten
<1> QED
  BY <1>1, Invariance, PTL

\* A report that finds a stream silent for the silence and the interval tells
\* so: a report that was held back was held back by one that told.
THEOREM LongSilence == Spec => LongSilenceReported
<1> DEFINE Tells == ReportHealth /\ silence # 0 /\ now - last_arrival >= Silence + Interval
                      => stale_reported'
<1>1. IInv /\ [Next]_vars => [Tells]_vars
  <2> SUFFICES ASSUME IInv, ReportHealth, silence # 0,
                      now - last_arrival >= Silence + Interval
               PROVE  stale_reported'
    OBVIOUS
  <2>1. /\ silence = Silence /\ Silence \in Nat /\ Interval \in Nat /\ Silence > 0
        /\ now \in Nat /\ last_arrival \in Nat /\ last_report \in Nat
        /\ last_report <= now /\ stale_reported \in BOOLEAN
        /\ (reported /\ last_report >= last_arrival + silence => stale_reported)
    BY TimesAssumption DEF IInv, TypeOK, Told
  <2>2. Stale(silence)
    BY <2>1 DEF Stale
  <2>3. CASE stale_reported
    <3>1. stale_reported' = stale_reported \/ stale_reported' = Stale(silence)
      BY DEF ReportHealth, Report, Write
    <3> QED
      BY <2>2, <2>3, <3>1
  <2>4. CASE ~stale_reported
    <3>1. ~Throttled
      BY <2>1, <2>4 DEF Throttled
    <3>2. Due(Added(pending, "drop", Drops), Stale(silence))
      BY <2>2, <2>4 DEF Due
    <3>3. Write(Added(pending, "drop", Drops), Stale(silence))
      BY <3>1, <3>2 DEF ReportHealth, Report
    <3> QED
      BY <2>2, <3>3 DEF Write
  <2> QED
    BY <2>3, <2>4
<1> QED
  BY <1>1, Invariance, PTL DEF Spec, LongSilenceReported

-----------------------------------------------------------------------------
(* The numbers of the samples.                                               *)

\* What is left of a number that is a multiple of the modulus and a rest.
LEMMA RestOf ==
  ASSUME NEW q \in Nat, NEW r \in Nat, r < Modulus
  PROVE  (Modulus * q + r) % Modulus = r
<1>1. Modulus \in Nat /\ Modulus > 0
  BY ModulusAssumption
<1> QED
  BY <1>1

\* The delta of two numbers cut to their width is their distance, cut as well,
\* although the second may have wrapped.
LEMMA DeltaOfDistance ==
  ASSUME NEW n \in Nat, NEW k \in Nat
  PROVE  Delta((n + k) % Modulus, n % Modulus) = k % Modulus
<1>1. Modulus \in Nat /\ Modulus > 0
  BY ModulusAssumption
<1> DEFINE q == n \div Modulus
           r == n % Modulus
           p == k \div Modulus
           s == k % Modulus
<1>2. /\ q \in Nat /\ r \in Nat /\ r < Modulus /\ n = Modulus * q + r
      /\ p \in Nat /\ s \in Nat /\ s < Modulus /\ k = Modulus * p + s
  BY <1>1
<1> HIDE DEF q, r, p, s
<1>3. Modulus * (q + p) = Modulus * q + Modulus * p
  BY <1>1, <1>2
<1>4. Modulus * (q + p + 1) = Modulus * q + Modulus * p + Modulus
  BY <1>1, <1>2
<1>5. Modulus * q \in Nat /\ Modulus * p \in Nat
  BY <1>1, <1>2
<1>6. (s + Modulus) % Modulus = s /\ s % Modulus = s
  <2>1. s + Modulus = Modulus * 1 + s /\ s = Modulus * 0 + s
    BY <1>1, <1>2
  <2> QED
    BY <1>2, <2>1, RestOf
<1>7. CASE r + s < Modulus
  <2>1. n + k = Modulus * (q + p) + (r + s)
    BY <1>1, <1>2, <1>3, <1>5
  <2>2. (n + k) % Modulus = r + s
    BY <1>2, <1>7, <2>1, RestOf
  <2>3. ((r + s) + Modulus) - r = s + Modulus
    BY <1>1, <1>2
  <2> QED
    BY <1>6, <2>2, <2>3 DEF Delta, r, s
<1>8. CASE r + s >= Modulus
  <2>1. r + s - Modulus \in Nat /\ r + s - Modulus < Modulus
    BY <1>1, <1>2, <1>8
  <2>2. n + k = Modulus * (q + p + 1) + (r + s - Modulus)
    BY <1>1, <1>2, <1>4, <1>5
  <2>3. (n + k) % Modulus = r + s - Modulus
    <3>1. q + p + 1 \in Nat
      BY <1>2
    <3> QED
      BY <2>1, <2>2, <3>1, RestOf
  <2>4. ((r + s - Modulus) + Modulus) - r = s
    BY <1>1, <1>2
  <2> QED
    BY <1>6, <2>3, <2>4 DEF Delta, r, s
<1> QED
  BY <1>1, <1>2, <1>7, <1>8

LEMMA CutIsNoMore ==
  ASSUME NEW k \in Nat
  PROVE  /\ k % Modulus \in Nat /\ k % Modulus <= k
         /\ k < Modulus => k % Modulus = k
<1>1. Modulus \in Nat /\ Modulus > 0
  BY ModulusAssumption
<1> DEFINE p == k \div Modulus
           s == k % Modulus
<1>2. p \in Nat /\ s \in Nat /\ s < Modulus /\ k = Modulus * p + s
  BY <1>1
<1> HIDE DEF p, s
<1>3. Modulus * p \in Nat
  BY <1>1, <1>2
<1>4. s <= k
  BY <1>2, <1>3
<1>5. k < Modulus => s = k
  <2>1. k = Modulus * 0 + k
    BY <1>1
  <2> QED
    BY <2>1, RestOf DEF s
<1> QED
  BY <1>2, <1>4, <1>5 DEF s

-----------------------------------------------------------------------------
(* The loss of samples: a second invariant, on top of the first.             *)

\* The baseline is the number of the last sample, cut.
Baseline == sequence # None => sequence = number % Modulus

LossIInv == Baseline /\ LossCounted

\* Of a number that is k beyond the baseline, k - 1 samples at most are called
\* missing, and all of them when k is less than half the numbers.
LEMMA JudgeLoss ==
  ASSUME IInv, LossIInv, sequence # None, NEW k \in Nat,
         Judge((number + k) % Modulus)
  PROVE  /\ total'["missing"] \in Nat
         /\ k > 0 => total'["missing"] <= total["missing"] + (k - 1)
         /\ k = 0 => total'["missing"] = total["missing"]
         /\ 0 < k /\ k < Half => total'["missing"] = total["missing"] + (k - 1)
<1> DEFINE delta == Delta((number + k) % Modulus, sequence)
<1>1. /\ number \in Nat /\ total \in [Issue -> Nat] /\ pending \in [Issue -> Nat]
      /\ Modulus \in Nat /\ Modulus > 0
  BY ModulusAssumption DEF IInv, TypeOK
<1>2. delta = k % Modulus
  BY <1>1, DeltaOfDistance DEF LossIInv, Baseline
<1>3. delta \in Nat /\ delta <= k /\ (k < Modulus => delta = k)
  BY <1>2, CutIsNoMore
<1>4. Half \in Nat /\ Half < Modulus
  BY <1>1 DEF Half
<1>5. /\ {"missing", "duplicate", "reset"} \subseteq Issue
      /\ total["missing"] \in Nat
  BY <1>1 DEF Issue
<1>6. \/ UNCHANGED counts /\ delta = 1
      \/ Add("duplicate", 1) /\ delta = 0
      \/ Add("reset", 1) /\ delta >= Half /\ delta # 0
      \/ Add("missing", delta - 1) /\ delta < Half /\ delta > 1
  BY <1>3, <1>4 DEF Judge
<1> HIDE DEF delta
<1>7. CASE UNCHANGED counts /\ delta = 1
  BY <1>1, <1>3, <1>4, <1>5, <1>7 DEF counts
<1>8. CASE Add("duplicate", 1) /\ delta = 0
  <2>1. total'["missing"] = total["missing"]
    BY <1>1, <1>5, <1>8 DEF Add, Added
  <2> QED
    BY <1>1, <1>3, <1>4, <1>5, <1>8, <2>1
<1>9. CASE Add("reset", 1) /\ delta >= Half /\ delta # 0
  <2>1. total'["missing"] = total["missing"]
    BY <1>1, <1>5, <1>9 DEF Add, Added
  <2> QED
    BY <1>1, <1>3, <1>4, <1>5, <1>9, <2>1
<1>10. CASE Add("missing", delta - 1) /\ delta < Half /\ delta > 1
  <2>1. delta - 1 \in Nat
    BY <1>3, <1>10
  <2>2. total'["missing"] = total["missing"] + (delta - 1)
    BY <1>1, <1>5, <1>10, <2>1 DEF Add, Added
  <2> QED
    BY <1>1, <1>3, <1>4, <1>5, <1>10, <2>2
<1> QED
  BY <1>6, <1>7, <1>8, <1>9, <1>10

\* Without a baseline nothing is missed.
LEMMA FirstLoss ==
  ASSUME sequence = None, NEW new, Judge(new)
  PROVE  total' = total
BY DEF Judge, counts

LEMMA InitLoss == Init => LossIInv
<1> SUFFICES ASSUME Init PROVE LossIInv
  OBVIOUS
<1>1. total["missing"] = 0
  BY DEF Init, Nothing, Issue
<1> QED
  BY <1>1 DEF Init, LossIInv, Baseline, LossCounted

LEMMA ObserveLoss == IInv /\ LossIInv /\ Observe => LossIInv'
<1> SUFFICES ASSUME IInv, LossIInv, Observe PROVE LossIInv'
  OBVIOUS
<1>1. PICK burst \in 0..MaxBurst :
        /\ number' = number + burst + 1
        /\ lost' = IF sequence = None THEN lost ELSE lost + burst
        /\ halfLost' = (halfLost \/ (sequence # None /\ burst + 1 >= Half))
  BY DEF Observe
<1>2. /\ burst \in Nat /\ lost \in Nat /\ number \in Nat /\ halfLost \in BOOLEAN
      /\ total["missing"] \in Nat
  BY BoundsAssumption DEF IInv, TypeOK, Issue
<1>3. Judge(number' % Modulus) /\ sequence' = number' % Modulus
  BY DEF Observe
<1>4. Baseline'
  BY <1>3 DEF Baseline
<1>5. LossCounted'
  <2>1. CASE sequence = None
    <3>1. total' = total
      BY <1>3, <2>1, FirstLoss
    <3> QED
      BY <1>1, <2>1, <3>1 DEF LossIInv, LossCounted
  <2>2. CASE sequence # None
    <3> DEFINE k == burst + 1
    <3>1. k \in Nat /\ k > 0 /\ k - 1 = burst /\ number' = number + k
      BY <1>1, <1>2
    <3>2. Judge((number + k) % Modulus)
      BY <1>3, <3>1
    <3> HIDE DEF k
    <3>3. /\ total'["missing"] \in Nat
          /\ total'["missing"] <= total["missing"] + burst
          /\ k < Half => total'["missing"] = total["missing"] + burst
      BY <2>2, <3>1, <3>2, JudgeLoss
    <3>4. lost' = lost + burst /\ (~halfLost' => ~halfLost /\ k < Half)
      <4>1. Half \in Nat
        BY ModulusAssumption DEF Half
      <4>2. ~halfLost' => ~halfLost /\ ~(k >= Half)
        BY <1>1, <2>2, Zenon DEF k
      <4> QED
        BY <1>1, <2>2, <3>1, <4>1, <4>2
    <3>5. total["missing"] <= lost /\ (~halfLost => total["missing"] = lost)
      BY DEF LossIInv, LossCounted
    <3> QED
      BY <1>2, <3>3, <3>4, <3>5 DEF LossCounted
  <2> QED
    BY <2>1, <2>2
<1> QED
  BY <1>4, <1>5 DEF LossIInv

LEMMA ObserveAgainLoss == IInv /\ LossIInv /\ ObserveAgain => LossIInv'
<1> SUFFICES ASSUME IInv, LossIInv, ObserveAgain PROVE LossIInv'
  OBVIOUS
<1>1. /\ sequence # None /\ Judge(number % Modulus) /\ sequence' = number % Modulus
      /\ UNCHANGED <<number, lost, halfLost>>
  BY DEF ObserveAgain, device
<1>2. number \in Nat
  BY DEF IInv, TypeOK
<1>3. number + 0 = number
  BY <1>2
<1>4. total'["missing"] = total["missing"]
  BY <1>1, <1>3, JudgeLoss
<1> QED
  BY <1>1, <1>4 DEF LossIInv, Baseline, LossCounted

\* The other steps count nothing as missing and keep the baseline or forget it.
LEMMA OtherLoss ==
  ASSUME IInv, LossIInv,
         AddOther \/ QueueDrops \/ Start \/ Disable \/ ReportHealth \/ FinalReport
           \/ Tick \/ UNCHANGED vars
  PROVE  LossIInv'
<1>1. /\ sequence' = sequence \/ sequence' = None
      /\ UNCHANGED <<number, lost, halfLost>>
  BY DEF AddOther, QueueDrops, Start, Disable, ReportHealth, FinalReport, Tick,
         vars, device, history
<1>2. \/ \E issue \in {"other", "drop"}, count \in Nat : total' = Added(total, issue, count)
      \/ total' = total
  <2>1. Drops \in Nat
    BY DEF IInv, TypeOK, DropsCounted, Drops
  <2> QED
    BY <2>1 DEF AddOther, Add, QueueDrops, Start, Disable, ReportHealth, FinalReport,
       Report, Tick, vars, counts
<1>3. total'["missing"] = total["missing"]
  <2>1. total \in [Issue -> Nat] /\ {"missing", "other", "drop"} \subseteq Issue
    BY DEF IInv, TypeOK, Issue
  <2> QED
    BY <1>2, <2>1 DEF Added
<1> QED
  BY <1>1, <1>3 DEF LossIInv, Baseline, LossCounted

\* No more samples are called missing than were lost, and exactly those as long
\* as no loss reaches half the numbers: the sequence number may wrap.
THEOREM Losses == Spec => []LossCounted
<1>1. IInv /\ LossIInv /\ [Next]_vars => LossIInv'
  BY ObserveLoss, ObserveAgainLoss, OtherLoss DEF Next
<1>2. LossIInv => LossCounted
  BY DEF LossIInv
<1> QED
  BY InitLoss, <1>1, <1>2, Invariance, PTL DEF Spec
=============================================================================
