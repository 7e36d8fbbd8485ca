----------------------------- MODULE TimeProofs -----------------------------
(***************************************************************************)
(* Proofs about the two parts that place samples in time: Receiver, for all *)
(* lengths of the day that are more than twice what a poll can be off, all  *)
(* caches and all numbers of sentences, restarts and polls; and DeviceTime, *)
(* for all limits of the resolver, all latencies below the largest          *)
(* difference, all other domains that are more than two latencies off, and  *)
(* all settings of the device's clock.                                      *)
(*                                                                         *)
(* Receiver's argument: whatever is of the Agent's present session is as    *)
(* old by the Agent's monotonic clock as it is by UTC (Dated), and what the *)
(* host still holds of an earlier one is left behind by the answer that     *)
(* names the session.  A fix that is fresh by that clock is therefore near  *)
(* the last PPS, and NearestDay finds its day.                              *)
(***************************************************************************)
EXTENDS Receiver, DeviceTime, TLAPS

-----------------------------------------------------------------------------
(* Days.                                                                    *)

\* What \div and % do with natural numbers.
LEMMA Division ==
  ASSUME NEW d \in Nat, d > 0, NEW a \in Nat
  PROVE  /\ a \div d \in Nat /\ a % d \in Nat
         /\ a = ((a \div d) * d) + (a % d) /\ a % d < d
OBVIOUS

\* A multiple of d nearer to 0 than d is 0.
LEMMA SmallMultiple ==
  ASSUME NEW d \in Nat, NEW k \in Int, k * d < d, -d < k * d
  PROVE  k = 0
<1>1. k >= 1 => k * d >= d
  OBVIOUS
<1>2. k <= -1 => k * d <= -d
  OBVIOUS
<1> QED
  BY <1>1, <1>2

\* The difference of two multiples.
LEMMA Difference ==
  ASSUME NEW d \in Nat, NEW k \in Int, NEW j \in Int
  PROVE  k * d - j * d = (k - j) * d
OBVIOUS

\* Two times less than a day apart with the same time of day are the same.
LEMMA SameTimeOfDay ==
  ASSUME NEW a \in Nat, NEW b \in Nat, TimeOfDay(a) = TimeOfDay(b),
         a - b < Day, b - a < Day
  PROVE  a = b
<1> DEFINE k == (a \div Day) - (b \div Day)
<1>1. Day \in Nat /\ Day > 0
  BY DayAssumption
<1>2. /\ a \div Day \in Nat /\ a = ((a \div Day) * Day) + TimeOfDay(a)
      /\ b \div Day \in Nat /\ b = ((b \div Day) * Day) + TimeOfDay(b)
      /\ TimeOfDay(a) \in Nat
  BY <1>1, Division DEF TimeOfDay
<1>3. k \in Int /\ (a \div Day) * Day - (b \div Day) * Day = k * Day
  BY <1>1, <1>2, Difference
<1>4. (a \div Day) * Day \in Nat /\ (b \div Day) * Day \in Nat
  BY <1>1, <1>2
<1> HIDE DEF k
<1>5. k * Day = a - b
  BY <1>2, <1>3, <1>4
<1>6. k = 0
  BY <1>1, <1>3, <1>5, SmallMultiple
<1> QED
  BY <1>1, <1>5, <1>6

\* gnssEpochUs finds the day of a time that is near the PPS.
LEMMA NearestDay ==
  ASSUME NEW synced \in BOOLEAN, NEW pps \in Nat, NEW utc \in Nat,
         utc - pps <= Fresh + Latency, pps - utc <= Fresh + Latency
  PROVE  GnssEpoch(synced, pps, TimeOfDay(utc)) \in {0, utc}
<1> DEFINE m == pps \div Day
           n == utc \div Day
           tod == TimeOfDay(utc)
           half == Day \div 2
           epoch == m * Day + tod
<1>1. /\ Day \in Nat /\ Day > 0 /\ Fresh \in Nat /\ Latency \in Nat
      /\ 2 * (Fresh + Latency) < Day
  BY DayAssumption
<1>2. /\ m \in Nat /\ pps = (m * Day) + (pps % Day) /\ pps % Day \in Nat /\ pps % Day < Day
      /\ n \in Nat /\ utc = (n * Day) + tod /\ tod \in Nat /\ tod < Day
  BY <1>1, Division DEF TimeOfDay
<1>3. /\ half \in Nat /\ Fresh + Latency <= half /\ Fresh + Latency < Day - half
  BY <1>1
<1>4. m * Day \in Nat /\ n * Day \in Nat
  BY <1>1, <1>2
<1> HIDE DEF m, n, tod, half
<1>5. n * Day - m * Day = (n - m) * Day
  BY <1>1, <1>2, Difference
<1>6. (n - m) * Day < 2 * Day /\ -(2 * Day) < (n - m) * Day
  BY <1>1, <1>2, <1>4, <1>5
<1>7. n - m \in {-1, 0, 1}
  <2> DEFINE k == n - m
  <2>1. k \in Int /\ k * Day < 2 * Day /\ -(2 * Day) < k * Day
    BY <1>2, <1>6
  <2> HIDE DEF k
  <2>2. ~(k >= 2)
    BY <1>1, <2>1
  <2>3. ~(k <= -2)
    BY <1>1, <2>1
  <2>4. k \in {-1, 0, 1}
    BY <2>1, <2>2, <2>3
  <2> QED
    BY <2>4 DEF k
<1>8. n * Day = m * Day \/ n * Day = m * Day + Day \/ n * Day = m * Day - Day
  <2>1. CASE n = m
    BY <2>1
  <2>2. CASE n = m + 1
    BY <1>1, <1>2, <2>2
  <2>3. CASE n = m - 1
    BY <1>1, <1>2, <2>3
  <2> QED
    BY <1>2, <1>7, <2>1, <2>2, <2>3
<1>9. GnssEpoch(synced, pps, tod) =
        IF ~synced \/ pps = 0 THEN 0
        ELSE IF epoch + half < pps THEN epoch + Day
        ELSE IF epoch > pps + half /\ epoch >= Day THEN epoch - Day
        ELSE epoch
  BY DEF GnssEpoch, m, half
<1>10. epoch \in Nat /\ (epoch = utc \/ epoch = utc - Day \/ epoch = utc + Day)
  BY <1>1, <1>2, <1>4, <1>8
<1> HIDE DEF epoch
<1>11. epoch = utc => GnssEpoch(synced, pps, tod) \in {0, utc}
  BY <1>1, <1>3, <1>9, <1>2
<1>12. epoch = utc - Day => GnssEpoch(synced, pps, tod) \in {0, utc}
  BY <1>1, <1>3, <1>9, <1>2
<1>13. epoch = utc + Day => GnssEpoch(synced, pps, tod) \in {0, utc}
  BY <1>1, <1>3, <1>9, <1>10, <1>2
<1>14. GnssEpoch(synced, pps, tod) \in {0, utc}
  BY <1>10, <1>11, <1>12, <1>13
<1> QED
  BY <1>14 DEF tod

\* A sentence, or what is held of one: as old by the Agent's clock as it is.
Dated(r) == r.utc <= now /\ now - r.utc = mono - r.ms

\* The clocks and the numbers stay within their bounds.
Bounded == now >= 1 /\ mono <= now /\ heard <= total

\* The cache is of the Agent's present session.
CacheDated == \A i \in DOMAIN cache : Dated(cache[i]) /\ cache[i].sequence <= heard

\* What the host holds is of a session the Agent has had; nothing comes before the
\* first answer, and what is of the present session is dated by its clock.
HeldDated(s) ==
  /\ (model.fix[s].valid /\ model.session = session) => Dated(model.fix[s])
  /\ model.fix[s].sequence # 0 => last[s] = <<model.session, model.fix[s].sequence>>

HostInSession ==
  /\ session > 0 /\ model.session <= session
  /\ model.session = session => model.cursor <= heard
  /\ model.session = 0 => \A s \in Sources : model.fix[s] = None
  /\ \A s \in Sources : HeldDated(s)
  /\ gst.valid => /\ model.session > 0 /\ gst.session = model.session
                  /\ model.session = session => Dated(gst)

\* Between its two queries a poll lasts no longer than Latency.
TimingFresh == timing.pps <= now /\ (step = "timed" => now <= timing.pps + Latency)

\* What is counted has been asked for.
CountedAsked(s) ==
  /\ last[s] # <<0, 0>> => last[s] \in counted[s]
  /\ \A x \in counted[s] :
       x[1] <= model.session /\ (x[1] = model.session => x[2] <= model.cursor)

IInv ==
  /\ TypeOK /\ Bounded /\ CacheDated /\ HostInSession /\ TimingFresh
  /\ \A s \in Sources : CountedAsked(s)
  /\ FixIsRecent /\ CovarianceMatches /\ StampIsItsTime /\ CountedOnce
LEMMA InitIInv == Init => IInv
<1> SUFFICES ASSUME Init PROVE IInv
  OBVIOUS
<1>1. /\ 1 \in Sessions /\ 0 \in Sessions /\ 0 \in Times /\ FirstTime \in Times
      /\ 1 \in Times /\ FirstTime >= 1 /\ 0 \in 0..MaxRecords /\ 0 \in 0..MaxPolls
  BY TimeAssumption, BoundsAssumption DEF Sessions, Times
<1>2. TypeOK
  <2>1. timing \in [synced : BOOLEAN, pps : Times]
    BY <1>1 DEF Init
  <2>2. None \in Solutions
    BY <1>1 DEF None, Solutions
  <2>3. model \in [session : Sessions, cursor : 0..MaxRecords, fix : [Sources -> Solutions]]
    BY <1>1, <2>2 DEF Init
  <2>4. gst \in [valid : BOOLEAN, utc : Times, ms : Times, session : Sessions]
    BY <1>1 DEF Init, NoGst
  <2>5. /\ last \in [Sources -> Sessions \X (0..MaxRecords)]
        /\ counted \in [Sources -> SUBSET (Sessions \X (0..MaxRecords))]
    BY <1>1 DEF Init
  <2>6. cache \in Seq(Sentences) /\ Len(cache) <= CacheSize
    BY TimeAssumption DEF Init
  <2> QED
    BY <1>1, <2>1, <2>3, <2>4, <2>5, <2>6 DEF Init, TypeOK
<1>3. Bounded /\ CacheDated
  BY <1>1 DEF Init, Bounded, CacheDated
<1>4. HostInSession /\ TimingFresh /\ \A s \in Sources : CountedAsked(s)
  BY <1>1, TimeAssumption
     DEF Init, HostInSession, HeldDated, TimingFresh, CountedAsked, None, NoGst
<1>5. FixIsRecent /\ CovarianceMatches /\ StampIsItsTime /\ CountedOnce
  BY DEF Init, FixIsRecent, CovarianceMatches, StampIsItsTime, CountedOnce, NoPosition,
         Sources
<1> QED
  BY <1>2, <1>3, <1>4, <1>5 DEF IInv

-----------------------------------------------------------------------------
(* The receivers and the Agent.                                             *)

\* What has been published and counted stays as it was.
LEMMA OutStays ==
  ASSUME FixIsRecent, CovarianceMatches, StampIsItsTime, CountedOnce, UNCHANGED out
  PROVE  (FixIsRecent /\ CovarianceMatches /\ StampIsItsTime /\ CountedOnce)'
BY DEF FixIsRecent, CovarianceMatches, StampIsItsTime, CountedOnce, Identity, out

LEMMA TimePassesStep == IInv /\ TimePasses => IInv'
<1> SUFFICES ASSUME IInv, TimePasses PROVE IInv'
  OBVIOUS
<1>1. /\ TypeOK /\ now' = now + 1 /\ mono' = mono + 1 /\ now < MaxTime
      /\ step = "timed" => now < timing.pps + Latency
      /\ UNCHANGED <<session, cache, heard, total, host, out>>
  BY DEF IInv, TimePasses
<1>2. now \in Nat /\ mono \in Nat /\ mono <= now /\ MaxTime \in Nat /\ Latency \in Nat
  BY <1>1, TimeAssumption, DayAssumption DEF IInv, Bounded, TypeOK, Times
<1>3. TypeOK'
  <2>1. now' \in Times /\ mono' \in Times
    BY <1>1, <1>2 DEF Times
  <2> QED
    BY <1>1, <2>1 DEF TypeOK, host, out
<1>4. ASSUME NEW r, r.utc \in Nat, r.ms \in Nat, Dated(r) PROVE Dated(r)'
  BY <1>1, <1>2, <1>4 DEF Dated
<1>5. Bounded' /\ TimingFresh'
  BY <1>1, <1>2 DEF IInv, Bounded, TimingFresh, TypeOK, Times, host
<1>6. CacheDated'
  <2> SUFFICES ASSUME NEW i \in DOMAIN cache
               PROVE  Dated(cache[i])' /\ cache[i].sequence <= heard
    BY <1>1 DEF CacheDated
  <2>1. cache[i] \in Sentences
    BY <1>1 DEF TypeOK
  <2>2. cache[i].utc \in Nat /\ cache[i].ms \in Nat
    BY <2>1 DEF Sentences, Times
  <2>3. cache' = cache /\ Dated(cache[i]) /\ cache[i].sequence <= heard
    BY <1>1 DEF IInv, CacheDated
  <2> QED
    BY <1>1, <1>2, <2>2, <2>3 DEF Dated
<1>7. HostInSession'
  <2>1. UNCHANGED <<session, heard, model, gst, last>>
    BY <1>1 DEF host, out
  <2>2. gst.utc \in Nat /\ gst.ms \in Nat
    BY <1>1 DEF TypeOK, Times
  <2>3. Dated(gst) => Dated(gst)'
    BY <1>1, <1>2, <2>1, <2>2 DEF Dated
  <2>4. ASSUME NEW s \in Sources PROVE HeldDated(s)'
    <3>1. model.fix[s] \in Solutions
      BY <1>1 DEF TypeOK
    <3>2. model.fix[s].utc \in Nat /\ model.fix[s].ms \in Nat
      BY <3>1 DEF Solutions, Times
    <3>3. Dated(model.fix[s]) => Dated(model.fix[s])'
      BY <1>1, <1>2, <2>1, <3>2 DEF Dated
    <3> QED
      BY <2>1, <3>3 DEF IInv, HostInSession, HeldDated
  <2> QED
    BY <2>1, <2>3, <2>4 DEF IInv, HostInSession
<1>8. \A s \in Sources : CountedAsked(s)'
  BY <1>1 DEF IInv, CountedAsked, host, out
<1> QED
  BY <1>1, <1>3, <1>5, <1>6, <1>7, <1>8, OutStays DEF IInv

LEMMA AgentHearsStep == IInv /\ AgentHears => IInv'
<1> SUFFICES ASSUME IInv, AgentHears PROVE IInv'
  OBVIOUS
<1>1. /\ TypeOK /\ total < MaxRecords /\ heard' = heard + 1 /\ total' = total + 1
      /\ UNCHANGED <<now, mono, session, host, out>>
  BY DEF IInv, AgentHears
<1>2. PICK h \in Heard :
        cache' = LET r == [kind |-> h[1], good |-> h[2], utc |-> now, ms |-> mono,
                           sequence |-> heard + 1]
                 IN IF Len(cache) < CacheSize THEN Append(cache, r)
                    ELSE Append(Tail(cache), r)
  BY DEF AgentHears
<1> DEFINE r == [kind |-> h[1], good |-> h[2], utc |-> now, ms |-> mono,
                 sequence |-> heard + 1]
<1>3. /\ heard \in Nat /\ total \in Nat /\ heard <= total /\ MaxRecords \in Nat
      /\ now \in Nat /\ mono \in Nat
  BY <1>1, BoundsAssumption DEF IInv, Bounded, TypeOK, Times
<1>4. r \in Sentences /\ Dated(r) /\ r.sequence = heard + 1
  <2>1. h[1] \in Sources \cup {"GST"} /\ h[2] \in BOOLEAN
    BY HeardAssumption DEF Sources
  <2>2. heard + 1 \in 1..MaxRecords /\ now \in Times /\ mono \in Times
    BY <1>1, <1>3 DEF TypeOK
  <2>3. r \in Sentences
    BY <2>1, <2>2 DEF Sentences
  <2> QED
    BY <1>3, <2>3 DEF Dated
<1>5. cache' = IF Len(cache) < CacheSize THEN Append(cache, r) ELSE Append(Tail(cache), r)
  BY <1>2
<1> HIDE DEF r
<1>6. /\ cache \in Seq(Sentences) /\ Len(cache) <= CacheSize
      /\ CacheSize \in Nat /\ CacheSize > 0
  BY <1>1, TimeAssumption DEF TypeOK
<1>7. /\ cache' \in Seq(Sentences) /\ Len(cache') <= CacheSize
      /\ \A i \in DOMAIN cache' : cache'[i] = r \/ \E j \in DOMAIN cache : cache'[i] = cache[j]
  <2>1. CASE Len(cache) < CacheSize
    BY <1>4, <1>5, <1>6, <2>1
  <2>2. CASE ~(Len(cache) < CacheSize)
    <3>1. cache # <<>> /\ cache' = Append(Tail(cache), r)
      BY <1>5, <1>6, <2>2
    <3>2. /\ Tail(cache) \in Seq(Sentences) /\ Len(Tail(cache)) = Len(cache) - 1
          /\ \A i \in DOMAIN Tail(cache) : \E j \in DOMAIN cache : Tail(cache)[i] = cache[j]
      <4>1. /\ Tail(cache) \in Seq(Sentences) /\ Len(Tail(cache)) = Len(cache) - 1
            /\ \A i \in DOMAIN Tail(cache) :
                 i + 1 \in DOMAIN cache /\ Tail(cache)[i] = cache[i + 1]
        BY <1>6, <3>1
      <4> QED
        BY <4>1
    <3>3. /\ Append(Tail(cache), r) \in Seq(Sentences)
          /\ Len(Append(Tail(cache), r)) = Len(cache)
          /\ \A i \in DOMAIN Append(Tail(cache), r) :
               \/ Append(Tail(cache), r)[i] = r
               \/ i \in DOMAIN Tail(cache) /\ Append(Tail(cache), r)[i] = Tail(cache)[i]
      BY <1>4, <1>6, <3>2
    <3> QED
      BY <1>6, <3>1, <3>2, <3>3
  <2> QED
    BY <2>1, <2>2
<1>8. TypeOK'
  <2>1. heard' \in 0..MaxRecords /\ total' \in 0..MaxRecords
    BY <1>1, <1>3
  <2> QED
    BY <1>1, <1>7, <2>1 DEF TypeOK, host, out
<1>9. Bounded' /\ TimingFresh' /\ \A s \in Sources : CountedAsked(s)'
  BY <1>1, <1>3 DEF IInv, Bounded, TimingFresh, CountedAsked, host, out
<1>10. CacheDated'
  <2> SUFFICES ASSUME NEW i \in DOMAIN cache'
               PROVE  Dated(cache'[i]) /\ cache'[i].sequence <= heard'
    BY <1>1 DEF CacheDated, Dated
  <2>1. CASE cache'[i] = r
    BY <1>1, <1>3, <1>4, <2>1
  <2>2. ASSUME NEW j \in DOMAIN cache, cache'[i] = cache[j]
        PROVE  Dated(cache'[i]) /\ cache'[i].sequence <= heard'
    <3>1. Dated(cache[j]) /\ cache[j].sequence <= heard /\ cache[j] \in Sentences
      BY <1>1 DEF IInv, CacheDated, TypeOK
    <3>2. cache[j].sequence \in Nat
      BY <3>1 DEF Sentences
    <3> QED
      BY <1>1, <1>3, <2>2, <3>1, <3>2
  <2> QED
    BY <1>7, <2>1, <2>2
<1>11. HostInSession'
  <2>1. UNCHANGED <<now, mono, session, model, gst, last>>
    BY <1>1 DEF host, out
  <2>2. model.cursor \in Nat
    BY <1>1 DEF TypeOK
  <2> QED
    BY <1>1, <1>3, <2>1, <2>2 DEF IInv, HostInSession, HeldDated, Dated
<1> QED
  BY <1>1, <1>8, <1>9, <1>10, <1>11, OutStays DEF IInv

LEMMA AgentRestartsStep == IInv /\ AgentRestarts => IInv'
<1> SUFFICES ASSUME IInv, AgentRestarts PROVE IInv'
  OBVIOUS
<1>1. /\ TypeOK /\ session <= MaxRestarts /\ session' = session + 1
      /\ cache' = <<>> /\ heard' = 0 /\ (mono' = 1 \/ mono' = mono)
      /\ UNCHANGED <<now, total, host, out>>
  BY DEF IInv, AgentRestarts
<1>2. /\ now \in Nat /\ mono \in Nat /\ mono <= now /\ now <= MaxTime
      /\ session \in Nat /\ model.session \in Nat /\ model.session <= session
      /\ total \in Nat /\ MaxRestarts \in Nat
  BY <1>1, BoundsAssumption DEF IInv, Bounded, HostInSession, TypeOK, Times, Sessions
<1>3. now >= 1
  BY DEF IInv, Bounded
<1>4. TypeOK'
  <2>1. session' \in Sessions /\ mono' \in Times /\ heard' \in 0..MaxRecords
    BY <1>1, <1>2, <1>3, BoundsAssumption, TimeAssumption DEF Sessions, TypeOK, Times
  <2>2. cache' \in Seq(Sentences) /\ Len(cache') <= CacheSize
    BY <1>1, TimeAssumption
  <2> QED
    BY <1>1, <2>1, <2>2 DEF TypeOK, host, out
<1>5. Bounded' /\ CacheDated' /\ TimingFresh' /\ \A s \in Sources : CountedAsked(s)'
  BY <1>1, <1>2, <1>3 DEF IInv, Bounded, CacheDated, TimingFresh, CountedAsked, host, out
<1>6. HostInSession'
  <2>1. UNCHANGED <<model, gst, last>> /\ session' # model.session /\ model.session <= session'
    BY <1>1, <1>2 DEF host, out
  <2> QED
    BY <1>1, <1>2, <2>1 DEF IInv, HostInSession, HeldDated
<1> QED
  BY <1>1, <1>4, <1>5, <1>6, OutStays DEF IInv

LEMMA QueryTimingStep == IInv /\ QueryTiming => IInv'
<1> SUFFICES ASSUME IInv, QueryTiming PROVE IInv'
  OBVIOUS
<1>1. /\ TypeOK /\ polls' = polls + 1 /\ polls < MaxPolls /\ step' = "timed"
      /\ UNCHANGED <<agent, model, gst, leap, out>>
  BY DEF IInv, QueryTiming
<1>2. PICK synced \in BOOLEAN : timing' = [synced |-> synced, pps |-> now]
  BY DEF QueryTiming
<1>3. TypeOK'
  <2>1. timing' \in [synced : BOOLEAN, pps : Times] /\ polls' \in 0..MaxPolls
    BY <1>1, <1>2, BoundsAssumption DEF TypeOK
  <2> QED
    BY <1>1, <2>1 DEF TypeOK, agent, out
<1>4. TimingFresh'
  <2>1. timing'.pps = now /\ now' = now /\ now \in Nat /\ Latency \in Nat
    BY <1>1, <1>2, DayAssumption DEF TypeOK, Times, agent
  <2> QED
    BY <2>1 DEF TimingFresh
<1>5. Bounded' /\ CacheDated' /\ HostInSession' /\ \A s \in Sources : CountedAsked(s)'
  BY <1>1
     DEF IInv, Bounded, CacheDated, HostInSession, HeldDated, Dated, CountedAsked, agent,
         out
<1> QED
  BY <1>1, <1>3, <1>4, <1>5, OutStays DEF IInv

LEMMA QueryFailsStep == IInv /\ (QueryFails \/ UNCHANGED vars) => IInv'
<1> SUFFICES ASSUME IInv, QueryFails \/ UNCHANGED vars PROVE IInv'
  OBVIOUS
<1>1. UNCHANGED <<agent, timing, model, gst, polls, leap, out>> /\ (step' = "idle" \/ step' = step)
  BY DEF QueryFails, vars, host
<1>2. TypeOK' /\ TimingFresh'
  BY <1>1 DEF IInv, TypeOK, TimingFresh, agent, out
<1>3. Bounded' /\ CacheDated' /\ HostInSession' /\ \A s \in Sources : CountedAsked(s)'
  BY <1>1
     DEF IInv, Bounded, CacheDated, HostInSession, HeldDated, Dated, CountedAsked, agent,
         out
<1> QED
  BY <1>1, <1>2, <1>3, OutStays DEF IInv

-----------------------------------------------------------------------------
(* What an answer makes of the model.                                       *)

\* A sentence of the batch is of the present session and has not been asked for.
LEMMA NewestRight ==
  ASSUME TypeOK, CacheDated, NEW kind, NEW r \in Newest(kind)
  PROVE  /\ r \in Sentences /\ r.kind = kind /\ Dated(r)
         /\ r.sequence <= heard /\ r.sequence > Asked
<1>1. r \in Batch /\ r.kind = kind
  BY DEF Newest
<1>2. PICK i \in DOMAIN cache : r = cache[i] /\ cache[i].sequence > Asked
  BY <1>1 DEF Batch
<1>3. cache[i] \in Sentences /\ Dated(cache[i]) /\ cache[i].sequence <= heard
  BY DEF TypeOK, CacheDated
<1> QED
  BY <1>1, <1>2, <1>3

\* The solution held of a source is dated by the present session; it is one that
\* was held before, or none, or a new one.
LEMMA HeldRight ==
  ASSUME IInv, NEW s \in Sources
  PROVE  /\ Held(s) \in Solutions
         /\ Held(s).valid => Dated(Held(s))
         /\ Held(s).sequence <= heard
         /\ \/ Held(s).sequence = 0
            \/ <<session, Held(s).sequence>> = last[s]
            \/ model.session = session => Held(s).sequence > model.cursor
<1>1. TypeOK /\ CacheDated /\ HostInSession /\ CountedAsked(s) /\ HeldDated(s)
  BY DEF IInv, HostInSession
<1>2. /\ model.fix[s] \in Solutions /\ model.session \in Nat /\ session \in Nat /\ session > 0
      /\ heard \in Nat /\ model.cursor \in Nat
      /\ 0 \in Times /\ 0 \in 0..MaxRecords
  BY <1>1, TimeAssumption, BoundsAssumption DEF TypeOK, HostInSession, Sessions, Times
<1>3. None \in Solutions /\ None.sequence = 0 /\ ~None.valid
  BY <1>2 DEF None, Solutions
<1>4. CASE Newest(s) = {}
  <2>1. Held(s) = Kept(s)
    BY <1>4 DEF Held
  <2>2. CASE model.session \notin {0, session}
    BY <1>2, <1>3, <2>1, <2>2 DEF Kept
  <2>3. CASE model.session = 0
    <3>1. model.fix[s] = None
      BY <1>1, <2>3 DEF HostInSession
    <3>2. CASE Gap
      <4>1. Kept(s) = [None EXCEPT !.valid = FALSE]
        BY <1>2, <2>3, <3>1, <3>2 DEF Kept
      <4>2. Kept(s) \in Solutions /\ Kept(s).sequence = 0 /\ ~Kept(s).valid
        BY <1>3, <4>1 DEF Solutions
      <4> QED
        BY <1>2, <2>1, <4>2
    <3>3. CASE ~Gap
      <4>1. Kept(s) = None
        BY <1>2, <2>3, <3>1, <3>3 DEF Kept
      <4> QED
        BY <1>2, <1>3, <2>1, <4>1
    <3> QED
      BY <3>2, <3>3
  <2>4. CASE model.session = session
    <3>1. /\ Kept(s) \in Solutions /\ Kept(s).sequence = model.fix[s].sequence
          /\ Kept(s).valid => Kept(s) = model.fix[s]
      <4>1. CASE Gap
        <5>1. Kept(s) = [model.fix[s] EXCEPT !.valid = FALSE]
          BY <1>2, <2>4, <4>1 DEF Kept
        <5> QED
          BY <1>2, <5>1 DEF Solutions
      <4>2. CASE ~Gap
        <5>1. Kept(s) = model.fix[s]
          BY <1>2, <2>4, <4>2 DEF Kept
        <5> QED
          BY <1>2, <5>1
      <4> QED
        BY <4>1, <4>2
    <3>2. Kept(s).valid => Dated(Kept(s))
      BY <1>1, <2>4, <3>1 DEF HeldDated
    <3>3. CASE model.fix[s].sequence = 0
      BY <1>2, <2>1, <3>1, <3>2, <3>3
    <3>4. CASE model.fix[s].sequence # 0
      <4>1. last[s] = <<session, model.fix[s].sequence>>
        BY <1>1, <2>4, <3>4 DEF HeldDated
      <4>2. last[s] \in counted[s]
        BY <1>1, <3>4, <4>1 DEF CountedAsked
      <4>3. model.fix[s].sequence <= model.cursor
        BY <1>1, <2>4, <4>1, <4>2 DEF CountedAsked
      <4>4. model.cursor <= heard
        BY <1>1, <2>4 DEF HostInSession
      <4>5. model.fix[s].sequence \in Nat
        BY <1>2 DEF Solutions
      <4> QED
        BY <1>2, <2>1, <3>1, <3>2, <4>1, <4>3, <4>4, <4>5
    <3> QED
      BY <3>3, <3>4
  <2> QED
    BY <2>2, <2>3, <2>4
<1>5. CASE Newest(s) # {}
  <2> DEFINE r == CHOOSE n \in Newest(s) : TRUE
  <2>1. r \in Newest(s)
    BY <1>5
  <2> HIDE DEF r
  <2>2. r \in Sentences /\ Dated(r) /\ r.sequence <= heard /\ r.sequence > Asked
    BY <1>1, <2>1, NewestRight
  <2>3. Held(s) = [valid |-> r.good, utc |-> r.utc, ms |-> r.ms, sequence |-> r.sequence]
    BY <1>5 DEF Held, r
  <2>4. Held(s) \in Solutions
    <3>1. r.sequence \in 0..MaxRecords /\ r.utc \in Times /\ r.ms \in Times /\ r.good \in BOOLEAN
      BY <2>2, BoundsAssumption DEF Sentences
    <3> QED
      BY <2>3, <3>1 DEF Solutions
  <2>5. Held(s).utc = r.utc /\ Held(s).ms = r.ms /\ Held(s).sequence = r.sequence
    BY <2>3
  <2>6. Dated(Held(s))
    BY <2>2, <2>5 DEF Dated
  <2> QED
    BY <2>2, <2>4, <2>5, <2>6 DEF Asked
<1> QED
  BY <1>4, <1>5

\* So is the GST.
LEMMA GstRight ==
  ASSUME IInv
  PROVE  /\ Gst \in [valid : BOOLEAN, utc : Times, ms : Times, session : Sessions]
         /\ Gst.valid => Gst.session = session /\ Dated(Gst)
<1>1. TypeOK /\ CacheDated /\ HostInSession
  BY DEF IInv
<1>2. /\ NoGst \in [valid : BOOLEAN, utc : Times, ms : Times, session : Sessions]
      /\ ~NoGst.valid
  BY TimeAssumption, BoundsAssumption DEF NoGst, Times, Sessions
<1>3. CASE Newest("GST") = {} /\ ForgetsGst
  BY <1>2, <1>3 DEF Gst
<1>4. CASE Newest("GST") = {} /\ ~ForgetsGst
  <2>1. Gst = gst /\ model.session \in {0, session}
    BY <1>4 DEF Gst, ForgetsGst
  <2> QED
    BY <1>1, <2>1 DEF TypeOK, HostInSession
<1>5. CASE Newest("GST") # {}
  <2> DEFINE r == CHOOSE n \in Newest("GST") : TRUE
  <2>1. r \in Newest("GST")
    BY <1>5
  <2> HIDE DEF r
  <2>2. r \in Sentences /\ Dated(r)
    BY <1>1, <2>1, NewestRight
  <2>3. Gst = IF r.good
              THEN [valid |-> TRUE, utc |-> r.utc, ms |-> r.ms, session |-> session]
              ELSE NoGst
    BY <1>5 DEF Gst, r
  <2>4. CASE r.good
    <3>1. Gst = [valid |-> TRUE, utc |-> r.utc, ms |-> r.ms, session |-> session]
      BY <2>3, <2>4
    <3>2. r.utc \in Times /\ r.ms \in Times /\ session \in Sessions
      BY <1>1, <2>2 DEF Sentences, TypeOK
    <3>3. Gst \in [valid : BOOLEAN, utc : Times, ms : Times, session : Sessions]
      BY <3>1, <3>2
    <3>4. Gst.utc = r.utc /\ Gst.ms = r.ms /\ Gst.session = session
      BY <3>1
    <3> QED
      BY <2>2, <3>3, <3>4 DEF Dated
  <2>5. CASE ~r.good
    BY <1>2, <2>3, <2>5
  <2> QED
    BY <2>4, <2>5
<1> QED
  BY <1>3, <1>4, <1>5

\* A position that is valid is recent, has the deviations of its own epoch and is
\* stamped with its own time or not at all.
LEMMA PositionRight ==
  ASSUME TypeOK, Bounded, TimingFresh, step = "timed",
         NEW s \in Sources, NEW p \in Solutions, p.valid => Dated(p),
         NEW g \in [valid : BOOLEAN, utc : Times, ms : Times, session : Sessions],
         g.valid => g.session = session /\ Dated(g)
  PROVE  /\ Position(s, p, g).valid => Position(s, p, g).age <= Fresh
         /\ s = "GGA" /\ Position(s, p, g).covariance =>
              /\ Position(s, p, g).gst.session = Position(s, p, g).session
              /\ Position(s, p, g).gst.utc = Position(s, p, g).utc
         /\ Position(s, p, g).valid /\ Position(s, p, g).epoch # 0 =>
              Position(s, p, g).epoch = Position(s, p, g).utc
<1> DEFINE q == Position(s, p, g)
<1>1. /\ q.valid = Valid(p)
      /\ q.covariance = (Valid(p) /\ (s = "GGA" => Serves(p, g)))
      /\ q.epoch = IF s = "ADRNAV" THEN AdrnavEpoch(p.utc)
                   ELSE GnssEpoch(timing.synced, timing.pps, TimeOfDay(p.utc))
      /\ q.utc = p.utc /\ q.age = now - p.utc /\ q.session = session /\ q.gst = g
  BY DEF Position
<1> HIDE DEF q
<1>2. /\ p.utc \in Nat /\ p.ms \in Nat /\ g.utc \in Nat /\ g.ms \in Nat
      /\ now \in Nat /\ mono \in Nat /\ timing.pps \in Nat /\ timing.synced \in BOOLEAN
      /\ Fresh \in Nat /\ Latency \in Nat /\ Day \in Nat /\ 2 * (Fresh + Latency) < Day
  BY DayAssumption DEF TypeOK, Solutions, Times
<1>3. Valid(p) => p.utc <= now /\ now - p.utc <= Fresh
  BY <1>2 DEF Valid, Dated
<1>4. Serves(p, g) => /\ g.utc <= now /\ now - g.utc <= Fresh /\ g.session = session
                      /\ TimeOfDay(g.utc) = TimeOfDay(p.utc)
  BY <1>2 DEF Serves, Dated
<1>5. ASSUME Valid(p), Serves(p, g) PROVE g.utc = p.utc
  <2>1. g.utc - p.utc < Day /\ p.utc - g.utc < Day
    BY <1>2, <1>3, <1>4, <1>5
  <2> QED
    BY <1>2, <1>4, <1>5, <2>1, SameTimeOfDay
<1>6. ASSUME Valid(p)
      PROVE  GnssEpoch(timing.synced, timing.pps, TimeOfDay(p.utc)) \in {0, p.utc}
  <2>1. timing.pps <= now /\ now <= timing.pps + Latency
    BY DEF TimingFresh
  <2>2. p.utc - timing.pps <= Fresh + Latency /\ timing.pps - p.utc <= Fresh + Latency
    BY <1>2, <1>3, <1>6, <2>1
  <2> QED
    BY <1>2, <2>2, NearestDay
<1>7. AdrnavEpoch(p.utc) \in {0, p.utc}
  BY <1>2, LeapAssumption DEF AdrnavEpoch, TypeOK
<1>8. /\ q.valid => q.age <= Fresh
      /\ s = "GGA" /\ q.covariance => q.gst.session = q.session /\ q.gst.utc = q.utc
      /\ q.valid /\ q.epoch # 0 => q.epoch = q.utc
  BY <1>1, <1>3, <1>4, <1>5, <1>6, <1>7
<1> QED
  BY <1>8 DEF q

LEMMA QueryObservationsStep == IInv /\ QueryObservations => IInv'
<1> SUFFICES ASSUME IInv, QueryObservations PROVE IInv'
  OBVIOUS
<1> DEFINE positions == [s \in Sources |-> Position(s, Held(s), Gst)]
           new == NewSolutions(positions)
           id(s) == <<session, Held(s).sequence>>
<1>1. /\ step = "timed" /\ step' = "idle"
      /\ model' = [session |-> session, cursor |-> heard, fix |-> [s \in Sources |-> Held(s)]]
      /\ gst' = Gst
      /\ published' = positions
      /\ UNCHANGED <<agent, timing, polls, leap>>
  BY DEF QueryObservations
<1>2. /\ last' = [s \in Sources |-> IF s \in new THEN Identity(positions[s]) ELSE last[s]]
      /\ counted' = [s \in Sources |-> IF s \in new
                       THEN counted[s] \cup {Identity(positions[s])} ELSE counted[s]]
      /\ recounted' = (recounted \/ \E s \in new : Identity(positions[s]) \in counted[s])
  BY DEF QueryObservations
<1>3. /\ TypeOK /\ Bounded /\ CacheDated /\ HostInSession /\ TimingFresh
      /\ \A s \in Sources : CountedAsked(s)
  BY DEF IInv
<1>4. ASSUME NEW s \in Sources
      PROVE  /\ positions[s].sequence = Held(s).sequence
             /\ Identity(positions[s]) = id(s)
             /\ s \in new <=> Held(s).sequence # 0 /\ id(s) # last[s]
  BY <1>4 DEF Position, Identity, NewSolutions
<1>5. \A s \in Sources :
        /\ Held(s) \in Solutions /\ Held(s).sequence \in Nat
        /\ Held(s).valid => Dated(Held(s))
        /\ Held(s).sequence <= heard
        /\ \/ Held(s).sequence = 0
           \/ id(s) = last[s]
           \/ model.session = session => Held(s).sequence > model.cursor
  BY HeldRight DEF Solutions
<1>6. /\ Gst \in [valid : BOOLEAN, utc : Times, ms : Times, session : Sessions]
      /\ Gst.valid => Gst.session = session /\ Dated(Gst)
  BY GstRight
<1>7. /\ session \in Sessions /\ session \in Nat /\ session > 0
      /\ heard \in 0..MaxRecords /\ heard \in Nat
      /\ model.session \in Nat /\ model.session <= session /\ model.cursor \in Nat
      /\ model.session = session => model.cursor <= heard
  BY <1>3 DEF TypeOK, HostInSession, Sessions
<1>8. \A s \in Sources : positions[s] = Position(s, Held(s), Gst)
  OBVIOUS
<1> HIDE DEF positions, new
<1>9. FixIsRecent' /\ CovarianceMatches' /\ StampIsItsTime'
  <2>1. ASSUME NEW s \in Sources
        PROVE  /\ published'[s].valid => published'[s].age <= Fresh
               /\ s = "GGA" /\ published'[s].covariance =>
                    /\ published'[s].gst.session = published'[s].session
                    /\ published'[s].gst.utc = published'[s].utc
               /\ published'[s].valid /\ published'[s].epoch # 0 =>
                    published'[s].epoch = published'[s].utc
    <3>1. published'[s] = Position(s, Held(s), Gst)
      BY <1>1, <1>8
    <3> QED
      BY <1>1, <1>3, <1>5, <1>6, <3>1, PositionRight
  <2>2. "GGA" \in Sources
    BY DEF Sources
  <2> QED
    BY <2>1, <2>2 DEF FixIsRecent, CovarianceMatches, StampIsItsTime
\* A new solution has not been counted.
<1>10. ASSUME NEW s \in Sources, s \in new PROVE id(s) \notin counted[s]
  <2>1. model.session = session => Held(s).sequence > model.cursor
    BY <1>4, <1>5, <1>10
  <2> SUFFICES ASSUME id(s) \in counted[s] PROVE FALSE
    OBVIOUS
  <2>2. session <= model.session /\ (session = model.session => Held(s).sequence <= model.cursor)
    BY <1>3 DEF CountedAsked
  <2> QED
    BY <1>5, <1>7, <2>1, <2>2
<1>11. \A s \in Sources : /\ last'[s] = (IF s \in new THEN id(s) ELSE last[s])
                          /\ counted'[s] = (IF s \in new THEN counted[s] \cup {id(s)}
                                            ELSE counted[s])
  BY <1>2, <1>4
<1>12. CountedOnce'
  <2>1. ~recounted'
    <3>1. ~recounted
      BY DEF IInv, CountedOnce
    <3>2. \A s \in new : s \in Sources
      BY DEF new, NewSolutions
    <3> QED
      BY <1>2, <1>4, <1>10, <3>1, <3>2
  <2>2. ASSUME NEW s \in Sources, published'[s].sequence # 0
        PROVE  Identity(published'[s]) \in counted'[s]
    <3>1. Identity(published'[s]) = id(s) /\ Held(s).sequence # 0
      BY <1>1, <1>4, <2>2
    <3>2. CASE s \in new
      BY <1>11, <3>1, <3>2
    <3>3. CASE s \notin new
      <4>1. id(s) = last[s] /\ last[s] # <<0, 0>>
        BY <1>4, <1>7, <3>1, <3>3
      <4>2. last[s] \in counted[s]
        BY <1>3, <4>1 DEF CountedAsked
      <4> QED
        BY <1>11, <3>1, <3>3, <4>1, <4>2
    <3> QED
      BY <3>2, <3>3
  <2>3. \A s \in Sources : Identity(published[s])' = Identity(published'[s])
    BY DEF Identity
  <2> QED
    BY <2>1, <2>2, <2>3 DEF CountedOnce
<1>13. ASSUME NEW s \in Sources PROVE CountedAsked(s)'
  <2>1. model'.session = session /\ model'.cursor = heard
    BY <1>1
  <2>2. last'[s] # <<0, 0>> => last'[s] \in counted'[s]
    BY <1>3, <1>11 DEF CountedAsked
  <2>3. ASSUME NEW x \in counted'[s]
        PROVE  x[1] <= session /\ (x[1] = session => x[2] <= heard)
    <3>1. CASE x \in counted[s]
      <4>1. x[1] <= model.session /\ (x[1] = model.session => x[2] <= model.cursor)
        BY <1>3, <3>1 DEF CountedAsked
      <4>2. x[1] \in Nat /\ x[2] \in Nat
        <5>1. x \in Sessions \X (0..MaxRecords)
          BY <1>3, <3>1 DEF TypeOK
        <5> QED
          BY <5>1 DEF Sessions
      <4> QED
        BY <1>7, <4>1, <4>2
    <3>2. CASE x = id(s)
      BY <1>5, <1>7, <3>2
    <3> QED
      BY <1>11, <2>3, <3>1, <3>2
  <2> QED
    BY <2>1, <2>2, <2>3 DEF CountedAsked
<1>14. HostInSession'
  <2>1. /\ model'.session = session /\ model'.cursor = heard
        /\ \A s \in Sources : model'.fix[s] = Held(s)
        /\ session' = session /\ heard' = heard /\ now' = now /\ mono' = mono
    BY <1>1 DEF agent
  <2>2. ASSUME NEW s \in Sources PROVE HeldDated(s)'
    <3>1. Held(s).valid => Dated(Held(s))
      BY <1>5
    <3>2. (model'.fix[s].valid /\ model'.session = session') => Dated(model.fix[s])'
      BY <2>1, <3>1 DEF Dated
    <3>3. Held(s).sequence # 0 => last'[s] = id(s)
      BY <1>4, <1>11
    <3> QED
      BY <2>1, <3>2, <3>3 DEF HeldDated
  <2>3. gst'.valid => /\ gst'.session = session /\ Dated(gst)'
    BY <1>1, <1>6, <2>1 DEF Dated
  <2> QED
    BY <1>7, <2>1, <2>2, <2>3 DEF HostInSession
<1>15. TypeOK'
  <2>1. model' \in [session : Sessions, cursor : 0..MaxRecords, fix : [Sources -> Solutions]]
    BY <1>1, <1>5, <1>7
  <2>2. \A s \in Sources : id(s) \in Sessions \X (0..MaxRecords)
    BY <1>5, <1>7 DEF Solutions
  <2>3. /\ last' \in [Sources -> Sessions \X (0..MaxRecords)]
        /\ counted' \in [Sources -> SUBSET (Sessions \X (0..MaxRecords))]
    <3>1. /\ last' = [s \in Sources |-> last'[s]]
          /\ counted' = [s \in Sources |-> counted'[s]]
      BY <1>2
    <3>2. ASSUME NEW s \in Sources
          PROVE  /\ last'[s] \in Sessions \X (0..MaxRecords)
                 /\ counted'[s] \in SUBSET (Sessions \X (0..MaxRecords))
      <4>1. /\ last[s] \in Sessions \X (0..MaxRecords)
            /\ counted[s] \in SUBSET (Sessions \X (0..MaxRecords))
        BY <1>3 DEF TypeOK
      <4>2. id(s) \in Sessions \X (0..MaxRecords)
        BY <2>2
      <4>3. /\ last'[s] = (IF s \in new THEN id(s) ELSE last[s])
            /\ counted'[s] = (IF s \in new THEN counted[s] \cup {id(s)} ELSE counted[s])
        BY <1>11
      <4> HIDE DEF id
      <4> QED
        BY <4>1, <4>2, <4>3
    <3> QED
      BY <3>1, <3>2
  <2>4. recounted' \in BOOLEAN
    BY <1>2, Zenon
  <2> QED
    BY <1>1, <1>3, <1>6, <2>1, <2>3, <2>4 DEF TypeOK, agent
<1>16. Bounded' /\ CacheDated' /\ TimingFresh'
  BY <1>1, <1>3 DEF Bounded, CacheDated, Dated, TimingFresh, agent
<1> QED
  BY <1>9, <1>12, <1>13, <1>14, <1>15, <1>16 DEF IInv

LEMMA NextIInv == IInv /\ [Next]_vars => IInv'
BY TimePassesStep, AgentHearsStep, AgentRestartsStep, QueryTimingStep, QueryFailsStep,
   QueryObservationsStep DEF Next

LEMMA Invariance == Spec => []IInv
BY InitIInv, NextIInv, PTL DEF Spec

-----------------------------------------------------------------------------
(* The theorems.                                                            *)

\* The state of the receivers, the Agent and the host has its types.
THEOREM TypeCorrect == Spec => []TypeOK
BY Invariance, PTL DEF IInv

\* A position published as valid was computed no longer than Fresh before, by true
\* time, whatever is forgotten and restarted.
THEOREM Recent == Spec => []FixIsRecent
BY Invariance, PTL DEF IInv

\* The deviations published with a GGA position are those of its own epoch.
THEOREM OwnCovariance == Spec => []CovarianceMatches
BY Invariance, PTL DEF IInv

\* A valid position is stamped with the time it was computed at or not at all, at
\* midnight as well.
THEOREM OwnTime == Spec => []StampIsItsTime
BY Invariance, PTL DEF IInv

\* Every solution published is counted, and none is counted twice.
THEOREM Counted == Spec => []CountedOnce
BY Invariance, PTL DEF IInv

-----------------------------------------------------------------------------
(* DeviceTime.                                                              *)

-----------------------------------------------------------------------------
(* The inductive invariant. *)

\* A time that was measured within Delay before a sample was handled at host
\* time t.
Timely(timestamp, t) ==
  timestamp >= (t + shift) - Delay /\ timestamp <= t + shift

\* What is remembered of the streams since their start was measured by the
\* device's present clock.
Remembered(r) ==
  r # NoReference => r.arrival <= steady /\ Timely(r.timestamp, r.arrival)

\* The reference is no older than the last board sample.
BoardIsBoard ==
  board # NoReference =>
    /\ board.source = "board" /\ board.arrival <= steady
    /\ reference # NoReference /\ board.arrival <= reference.arrival

\* A resolved time is near the time of the sample, and is that time when the
\* sample has it.
Resolved ==
  sample.resolved # 0 =>
    /\ Distance(sample.resolved, sample.measured) <= MaxDelta + Delay
    /\ InDomain => sample.resolved = sample.measured

DeviceTimeIInv ==
  /\ DeviceTimeTypeOK
  /\ steady > 0
  /\ Remembered(reference)
  /\ BoardIsBoard
  /\ BoardLeads
  /\ Resolved

USE LimitsAssumption, DelayAssumption, ClocksAssumption

LEMMA DeviceTimeInitIInv == DeviceTimeInit => DeviceTimeIInv
<1> SUFFICES ASSUME DeviceTimeInit PROVE DeviceTimeIInv
  OBVIOUS
<1>1. DeviceTimeTypeOK
  BY DEF DeviceTimeInit, DeviceTimeTypeOK, ReferenceSources, Sample, NoSample, NoReference,
         Reference
<1>2. Remembered(reference) /\ BoardIsBoard /\ BoardLeads
  BY DEF DeviceTimeInit, Remembered, BoardIsBoard, BoardLeads
<1>3. Resolved
  BY DEF DeviceTimeInit, Resolved, NoSample
<1> QED
  BY <1>1, <1>2, <1>3 DEF DeviceTimeInit, DeviceTimeIInv

\* A sample handled now has a positive time by the device's clock.
LEMMA MeasuredTimely ==
  ASSUME DeviceTimeIInv, NEW m \in Measured
  PROVE  m \in Nat /\ m > 0 /\ Timely(m, steady)
<1>1. steady \in Nat /\ steady > 0 /\ shift \in Nat /\ shift > Delay
  BY DEF DeviceTimeIInv, DeviceTimeTypeOK
<1> QED
  BY <1>1 DEF Measured, Device, Timely

\* The resolver's answer for a sample of which each time is the device's, that of
\* another domain, or zero.
LEMMA ResolvedRight ==
  ASSUME DeviceTimeIInv, NEW m \in Measured,
         NEW sdk \in Candidates(m), NEW raw \in Candidates(m),
         ResolveLidar(sdk, raw, steady) # 0
  PROVE  /\ Distance(ResolveLidar(sdk, raw, steady), m) <= MaxDelta + Delay
         /\ sdk = m \/ raw = m => ResolveLidar(sdk, raw, steady) = m
<1> DEFINE e == Expected(steady)
           best == Nearer(sdk, raw, e)
<1>1. steady \in Nat /\ shift \in Nat /\ m \in Nat /\ m > 0
  BY MeasuredTimely DEF DeviceTimeIInv, DeviceTimeTypeOK
<1>2. m >= (steady + shift) - Delay /\ m <= steady + shift
  BY MeasuredTimely DEF Timely
<1>3. Placeable(steady) /\ Near(best, e) /\ ResolveLidar(sdk, raw, steady) = best
  BY DEF ResolveLidar
<1>4. reference # NoReference /\ reference \in Reference
  BY <1>3 DEF Placeable, HasReference, DeviceTimeIInv, DeviceTimeTypeOK
<1>5. reference.timestamp \in Nat /\ reference.arrival \in Nat
  BY <1>4 DEF Reference
<1>6. /\ reference.timestamp >= (reference.arrival + shift) - Delay
      /\ reference.timestamp <= reference.arrival + shift
  BY <1>4 DEF DeviceTimeIInv, Remembered, Timely
<1>7. e \in Int /\ e >= (steady + shift) - Delay /\ e <= steady + shift /\ e <= LargestTime
  BY <1>1, <1>3, <1>5, <1>6 DEF Expected, Elapsed, Placeable
<1>8. /\ sdk \in Int /\ raw \in Int
      /\ sdk = 0 \/ sdk = m \/ (\E d \in Domains : sdk = m + d)
      /\ raw = 0 \/ raw = m \/ (\E d \in Domains : raw = m + d)
  BY <1>1, DomainsAssumption DEF Candidates
<1> HIDE DEF e
<1>9. best \in Int /\ best # 0 /\ (best = sdk \/ best = raw)
  BY <1>3, <1>8 DEF Nearer
<1>10. Distance(best, e) <= MaxDelta
  BY <1>3, <1>9 DEF Near, Delta
<1>11. Distance(best, m) <= MaxDelta + Delay
  BY <1>1, <1>2, <1>7, <1>9, <1>10 DEF Distance
\* A time of another domain is farther from what is expected than the device's.
<1>12. Distance(m, e) <= Delay
  BY <1>1, <1>2, <1>7 DEF Distance
<1>13. ASSUME NEW d \in Domains PROVE Distance(m + d, e) > Delay
  BY <1>1, <1>2, <1>7, DomainsAssumption DEF Distance
<1>14. ASSUME sdk = m \/ raw = m PROVE best = m
  <2>1. CASE sdk = m /\ raw = m
    BY <2>1, <1>9
  <2>2. CASE sdk = m /\ raw # m
    <3>1. CASE raw = 0
      BY <3>1, <2>2, <1>9
    <3>2. CASE raw # 0
      <4>1. Delta(raw, e) > Delay
        BY <3>2, <2>2, <1>8, <1>13 DEF Delta
      <4>2. Delta(sdk, e) <= Delay
        BY <2>2, <1>1, <1>12 DEF Delta
      <4>3. Delta(raw, e) \in Int /\ Delta(sdk, e) \in Int
        BY <1>7, <1>8 DEF Delta, Distance
      <4> QED
        BY <4>1, <4>2, <4>3, <2>2 DEF Nearer
    <3> QED
      BY <3>1, <3>2
  <2>3. CASE sdk # m /\ raw = m
    <3>1. CASE sdk = 0
      BY <3>1, <2>3, <1>9
    <3>2. CASE sdk # 0
      <4>1. Delta(sdk, e) > Delay
        BY <3>2, <2>3, <1>8, <1>13 DEF Delta
      <4>2. Delta(raw, e) <= Delay
        BY <2>3, <1>1, <1>12 DEF Delta
      <4>3. Delta(raw, e) \in Int /\ Delta(sdk, e) \in Int
        BY <1>7, <1>8 DEF Delta, Distance
      <4> QED
        BY <4>1, <4>2, <4>3, <2>3 DEF Nearer
    <3> QED
      BY <3>1, <3>2
  <2> QED
    BY <1>14, <2>1, <2>2, <2>3
<1> QED
  BY <1>3, <1>11, <1>14

-----------------------------------------------------------------------------
(* One step for each action. *)

LEMMA BoardImuStep == DeviceTimeIInv /\ BoardImu => DeviceTimeIInv'
<1> SUFFICES ASSUME DeviceTimeIInv, BoardImu PROVE DeviceTimeIInv'
  OBVIOUS
<1>1. PICK timestamp \in Measured \cup {0} :
        /\ Observe("board", timestamp)
        /\ board' = IF timestamp = 0 THEN board
                    ELSE [source |-> "board", timestamp |-> timestamp, arrival |-> steady]
  BY DEF BoardImu
<1>2. UNCHANGED <<required, enabled, steady, shift, phase, started, sample>>
  BY DEF BoardImu
<1>3. steady \in Nat /\ steady > 0 /\ shift \in Nat
  BY DEF DeviceTimeIInv, DeviceTimeTypeOK
<1>4. Resolved'
  BY <1>2 DEF DeviceTimeIInv, Resolved, InDomain
<1>5. CASE timestamp = 0
  <2>1. reference' = reference /\ board' = board
    BY <1>1, <1>5 DEF Observe
  <2> QED
    BY <2>1, <1>2, <1>4
       DEF DeviceTimeIInv, DeviceTimeTypeOK, Remembered, Timely, BoardIsBoard, BoardLeads
<1>6. CASE timestamp # 0
  <2> DEFINE r == [source |-> "board", timestamp |-> timestamp, arrival |-> steady]
  <2>1. timestamp \in Nat /\ Timely(timestamp, steady)
    BY <1>1, <1>6, MeasuredTimely
  <2>2. reference' = r /\ board' = r
    BY <1>1, <1>3, <1>6 DEF Observe
  <2>3. r \in Reference
    BY <2>1, <1>3 DEF Reference, ReferenceSources
  <2>4. DeviceTimeTypeOK'
    BY <2>2, <2>3, <1>2 DEF DeviceTimeIInv, DeviceTimeTypeOK
  <2>5. Remembered(reference)'
    BY <2>1, <2>2, <1>2, <1>3 DEF Remembered, Timely
  <2>6. BoardIsBoard' /\ BoardLeads'
    <3>1. r # NoReference /\ r.source = "board" /\ r.arrival = steady /\ steady' = steady
      BY <1>2 DEF NoReference
    <3> HIDE DEF r
    <3> QED
      BY <2>2, <3>1, <1>3 DEF BoardIsBoard, BoardLeads
  <2> QED
    BY <2>4, <2>5, <2>6, <1>2, <1>3, <1>4 DEF DeviceTimeIInv
<1> QED
  BY <1>5, <1>6

LEMMA VideoMetaStep == DeviceTimeIInv /\ VideoMeta => DeviceTimeIInv'
<1> SUFFICES ASSUME DeviceTimeIInv, VideoMeta PROVE DeviceTimeIInv'
  OBVIOUS
<1>1. PICK timestamp \in Measured \ {0} :
        IF BoardHolds THEN UNCHANGED reference ELSE Observe("camera", timestamp)
  BY DEF VideoMeta
<1>2. UNCHANGED <<required, enabled, steady, shift, phase, started, sample, board>>
  BY DEF VideoMeta
<1>3. steady \in Nat /\ steady > 0 /\ shift \in Nat
  BY DEF DeviceTimeIInv, DeviceTimeTypeOK
<1>4. Resolved'
  BY <1>2 DEF DeviceTimeIInv, Resolved, InDomain
<1>5. CASE BoardHolds
  BY <1>1, <1>2, <1>4, <1>5 DEF DeviceTimeIInv, DeviceTimeTypeOK, Remembered, Timely,
                                BoardIsBoard, BoardLeads
<1>6. CASE ~BoardHolds
  <2> DEFINE r == [source |-> "camera", timestamp |-> timestamp, arrival |-> steady]
  <2>1. timestamp \in Nat /\ timestamp # 0 /\ Timely(timestamp, steady)
    BY MeasuredTimely
  <2>2. reference' = r
    BY <1>1, <1>3, <1>6, <2>1 DEF Observe
  <2>3. r \in Reference
    BY <2>1, <1>3 DEF Reference, ReferenceSources
  <2>4. DeviceTimeTypeOK'
    BY <2>2, <2>3, <1>2 DEF DeviceTimeIInv, DeviceTimeTypeOK
  <2>5. Remembered(reference)'
    BY <2>1, <2>2, <1>2, <1>3 DEF Remembered, Timely
  \* A board reference that is still held would have held the camera's off.
  <2>6. ~(board # NoReference /\ steady - board.arrival <= Hold)
    <3> SUFFICES ASSUME board # NoReference, steady - board.arrival <= Hold PROVE FALSE
      OBVIOUS
    <3>1. reference = board /\ board.source = "board"
      BY DEF DeviceTimeIInv, BoardLeads, BoardIsBoard
    <3>2. steady >= reference.arrival
      BY <3>1 DEF DeviceTimeIInv, Remembered
    <3> QED
      BY <3>1, <3>2, <1>6 DEF BoardHolds, Elapsed
  <2>7. BoardLeads'
    BY <2>6, <1>2 DEF BoardLeads
  <2>8. BoardIsBoard'
    <3>1. r # NoReference /\ r.arrival = steady
      BY DEF NoReference
    <3> HIDE DEF r
    <3> QED
      BY <2>2, <3>1, <1>2 DEF DeviceTimeIInv, BoardIsBoard
  <2> QED
    BY <2>4, <2>5, <2>7, <2>8, <1>2, <1>3, <1>4 DEF DeviceTimeIInv
<1> QED
  BY <1>5, <1>6

LEMMA LidarStep == DeviceTimeIInv /\ Lidar => DeviceTimeIInv'
<1> SUFFICES ASSUME DeviceTimeIInv, Lidar PROVE DeviceTimeIInv'
  OBVIOUS
<1>0. PICK m \in Measured : \E sdk, raw \in Candidates(m) :
        sample' = [measured |-> m, sdk |-> sdk, raw |-> raw,
                   resolved |-> ResolveLidar(sdk, raw, steady)]
  BY DEF Lidar
<1>1. PICK sdk \in Candidates(m), raw \in Candidates(m) :
        sample' = [measured |-> m, sdk |-> sdk, raw |-> raw,
                   resolved |-> ResolveLidar(sdk, raw, steady)]
  BY <1>0
<1>2. UNCHANGED <<required, enabled, steady, shift, phase, started, reference, board>>
  BY DEF Lidar
<1>3. m \in Nat /\ sdk \in Int /\ raw \in Int
  BY MeasuredTimely, DomainsAssumption DEF Candidates
<1>4. ResolveLidar(sdk, raw, steady) \in Int
  BY <1>3 DEF ResolveLidar, Nearer
<1>5. DeviceTimeTypeOK'
  BY <1>1, <1>2, <1>3, <1>4 DEF DeviceTimeIInv, DeviceTimeTypeOK, Sample
<1>6. Resolved'
  BY <1>1, <1>2, ResolvedRight DEF Resolved, InDomain, Distance
<1>7. Remembered(reference)' /\ BoardIsBoard' /\ BoardLeads' /\ (steady > 0)'
  BY <1>2 DEF DeviceTimeIInv, Remembered, Timely, BoardIsBoard, BoardLeads
<1> QED
  BY <1>5, <1>6, <1>7 DEF DeviceTimeIInv

LEMMA DeviceTimeNextIInv == DeviceTimeIInv /\ [DeviceTimeNext]_deviceTimeVars => DeviceTimeIInv'
<1> SUFFICES ASSUME DeviceTimeIInv, [DeviceTimeNext]_deviceTimeVars PROVE DeviceTimeIInv'
  OBVIOUS
<1>1. CASE Established
  BY <1>1 DEF Established, DeviceTimeIInv, DeviceTimeTypeOK, Remembered, Timely,
              BoardIsBoard, BoardLeads,
              Resolved, InDomain
<1>2. CASE Restart
  BY <1>2 DEF Restart, DeviceTimeIInv, DeviceTimeTypeOK, Remembered, BoardIsBoard,
              BoardLeads, Resolved,
              InDomain
<1>3. CASE Tick
  <2>1. /\ steady' = steady + 1 /\ steady \in Nat
        /\ UNCHANGED <<required, enabled, shift, phase, started, reference, sample, board>>
    BY <1>3 DEF Tick, DeviceTimeIInv, DeviceTimeTypeOK
  <2>2. DeviceTimeTypeOK'
    BY <2>1 DEF DeviceTimeIInv, DeviceTimeTypeOK
  <2>3. Remembered(reference)'
    BY <2>1 DEF DeviceTimeIInv, DeviceTimeTypeOK, Reference, Remembered, Timely
  <2>4. BoardLeads'
    BY <2>1 DEF DeviceTimeIInv, DeviceTimeTypeOK, Reference, BoardLeads
  <2>5. BoardIsBoard'
    BY <2>1 DEF DeviceTimeIInv, DeviceTimeTypeOK, Reference, BoardIsBoard
  <2> QED
    BY <2>1, <2>2, <2>3, <2>4, <2>5 DEF DeviceTimeIInv, Resolved, InDomain
<1>4. CASE BoardImu
  BY <1>4, BoardImuStep
<1>5. CASE VideoMeta
  BY <1>5, VideoMetaStep
<1>6. CASE Lidar
  BY <1>6, LidarStep
<1>7. CASE DropLidar
  BY <1>7 DEF DropLidar, DeviceTimeIInv, DeviceTimeTypeOK, Remembered, Timely,
              BoardIsBoard, BoardLeads,
              Resolved, NoSample, Sample
<1>8. CASE SendLidar
  BY <1>8 DEF SendLidar, DeviceTimeIInv, DeviceTimeTypeOK, Remembered, Timely,
              BoardIsBoard, BoardLeads,
              Resolved, NoSample, Sample
<1>9. CASE UNCHANGED deviceTimeVars
  BY <1>9 DEF deviceTimeVars, DeviceTimeIInv, DeviceTimeTypeOK, Remembered, Timely,
              BoardIsBoard, BoardLeads, Resolved,
              InDomain
<1> QED
  BY <1>1, <1>2, <1>3, <1>4, <1>5, <1>6, <1>7, <1>8, <1>9 DEF DeviceTimeNext

LEMMA DeviceTimeInvariance == DeviceTimeSpec => []DeviceTimeIInv
BY DeviceTimeInitIInv, DeviceTimeNextIInv, PTL DEF DeviceTimeSpec

-----------------------------------------------------------------------------
(* The theorems. *)

\* The state of the resolver and of its callers has its types; no time that is
\* remembered is negative.
THEOREM DeviceTimeTypeCorrect == DeviceTimeSpec => []DeviceTimeTypeOK
<1>1. DeviceTimeIInv => DeviceTimeTypeOK
  BY DEF DeviceTimeIInv
<1> QED
  BY <1>1, DeviceTimeInvariance, PTL

\* The reference is the last board sample as long as that is no older than the
\* hold: no camera time replaces it.
THEOREM BoardLeading == DeviceTimeSpec => []BoardLeads
<1>1. DeviceTimeIInv => BoardLeads
  BY DEF DeviceTimeIInv
<1> QED
  BY <1>1, DeviceTimeInvariance, PTL

\* A resolved LiDAR time is the device's whenever the sample has it.
THEOREM ChosenRight == DeviceTimeSpec => []DeviceTimeChosen
<1>1. DeviceTimeIInv => DeviceTimeChosen
  BY DEF DeviceTimeIInv, Resolved, DeviceTimeChosen, Output
<1> QED
  BY <1>1, DeviceTimeInvariance, PTL

\* A placed LiDAR sample goes out near the device's time, also when the reference
\* grows old between the two reads of the clock, and while board samples keep coming
\* one that must be synchronised and was not placed is dropped.
THEOREM SentRight == DeviceTimeSpec => []DeviceTimeSent
<1>1. DeviceTimeIInv => DeviceTimeSent
  <2> SUFFICES ASSUME DeviceTimeIInv, sample # NoSample, ~Refused,
                      sample.resolved # 0 \/ (required /\ BoardRecent)
               PROVE  Distance(Output, sample.measured) <= MaxDelta + Delay
    BY DEF DeviceTimeSent
  <2>1. CASE sample.resolved # 0
    BY <2>1 DEF DeviceTimeIInv, Resolved, Output
  <2>2. CASE sample.resolved = 0
    <3>1. required /\ board # NoReference /\ steady - board.arrival <= MaxAge
      BY <2>2 DEF BoardRecent
    <3>2. reference # NoReference /\ board.arrival <= reference.arrival
      BY <3>1 DEF DeviceTimeIInv, BoardIsBoard
    <3>3. /\ reference.arrival \in Nat /\ board.arrival \in Nat /\ steady \in Nat
          /\ reference.arrival <= steady
      BY <3>1, <3>2 DEF DeviceTimeIInv, DeviceTimeTypeOK, Reference, Remembered
    <3>4. HasFreshReference(steady)
      BY <3>1, <3>2, <3>3 DEF HasFreshReference, HasReference, Elapsed
    <3> QED
      BY <2>2, <3>1, <3>4 DEF Refused
  <2> QED
    BY <2>1, <2>2
<1> QED
  BY <1>1, DeviceTimeInvariance, PTL
=============================================================================
