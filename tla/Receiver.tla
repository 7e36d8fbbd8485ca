------------------------------ MODULE Receiver ------------------------------
(***************************************************************************)
(* The positions of the two GNSS receivers, from the sentences the Agent    *)
(* keeps to the messages the nodes publish (docs/navigation.md): the        *)
(* navigation poll of Driver::Impl::run and getReceiverPosition, which both *)
(* ask for the timing status and then for new sentences; ReceiverModel      *)
(* (receiver_model.hpp) and gnssEpochUs (navigation_fix.hpp), which make a  *)
(* position of them; and dispatchReceiverBatch.                             *)
(*                                                                         *)
(* GGA carries a position and the time of day, GST the precision of the     *)
(* position of the same time of day, ADRNAV (the RTK receiver) a position,  *)
(* its precision and a full epoch, in GPS time.  The receivers, the Agent   *)
(* with its monotonic clock, and prism::gnss_plot::Model, which keeps the   *)
(* last GGA and ADRNAV of a session, are outside src/.                      *)
(*                                                                         *)
(* Time is counted in one unit, on a true UTC scale and on the Agent's      *)
(* monotonic clock; a position is named by the UTC time it was computed at, *)
(* which the code does not know and the properties compare with.            *)
(***************************************************************************)
EXTENDS Integers, Sequences

CONSTANTS Day,          \* 86400000000 us
          Fresh,        \* 2000 ms
          Latency,      \* bound on the time between the two queries of a poll
          FirstTime,    \* UTC when the session begins
          MaxTime,      \* bound on it
          GpsAhead,     \* how far GPS time is ahead of UTC
          LeapSettings, \* what gps_utc_leap_seconds can be configured to
          Heard,        \* the sentences there are: their kinds, good or not
          CacheSize,    \* sentences the Agent keeps
          MaxRecords,   \* bound on the sentences of all sessions
          MaxRestarts,  \* bound on the Agent's restarts
          MaxPolls      \* bound on the polls

ASSUME DayAssumption ==
  /\ Day \in Nat /\ Fresh \in Nat /\ Latency \in Nat
  /\ 2 * (Fresh + Latency) < Day
ASSUME TimeAssumption ==
  MaxTime \in Nat /\ FirstTime \in 1..MaxTime /\ CacheSize \in Nat \ {0}
\* README.md:676: the verified offset, or -1 when it is not known.
ASSUME LeapAssumption ==
  GpsAhead \in Nat /\ LeapSettings \subseteq {-1, GpsAhead}
ASSUME HeardAssumption == Heard \subseteq {"GGA", "ADRNAV", "GST"} \X BOOLEAN
ASSUME BoundsAssumption ==
  MaxRecords \in Nat /\ MaxRestarts \in Nat /\ MaxPolls \in Nat

VARIABLES
  now,        \* true UTC
  mono,       \* the Agent's monotonic clock
  session,    \* the Agent's session
  cache,      \* the last sentences of it
  heard,      \* the number of its sentences
  total,      \* the number of those of all sessions
  polls,      \* the polls so far
  step,       \* "idle", or "timed": the timing status of a poll has been read
  timing,     \* receiver_model.timing: time_synced and last_pps_epoch_us
  model,      \* prism::gnss_plot::Model
  gst,        \* receiver_model.gst_
  leap,       \* receiver_model.gps_utc_leap_seconds
  last,       \* last_receiver_sequence
  published,  \* the last position of each receiver that was pushed
  counted,    \* history: the solutions observed by health
  recounted   \* history: one of them was observed twice

agent == <<now, mono, session, cache, heard, total>>
host == <<step, timing, model, gst, polls, leap>>
out == <<last, published, counted, recounted>>
vars == <<agent, host, out>>

Sources == {"GGA", "ADRNAV"}
Times == 0..MaxTime

\* A sentence: good if its quality (GGA, ADRNAV) or its deviations (GST) are.
Sentences == [kind : Sources \cup {"GST"}, good : BOOLEAN, utc : Times, ms : Times,
              sequence : 1..MaxRecords]

\* A solution the model holds, and a GST; sequence 0 is none.
None == [valid |-> FALSE, utc |-> 0, ms |-> 0, sequence |-> 0]
Solutions == [valid : BOOLEAN, utc : Times, ms : Times, sequence : 0..MaxRecords]
NoGst == [valid |-> FALSE, utc |-> 0, ms |-> 0, session |-> 0]
Sessions == 0..(MaxRestarts + 1)

TypeOK ==
  /\ now \in Times /\ mono \in Times
  /\ session \in Sessions
  /\ cache \in Seq(Sentences) /\ Len(cache) <= CacheSize
  /\ heard \in 0..MaxRecords /\ total \in 0..MaxRecords
  /\ polls \in 0..MaxPolls
  /\ step \in {"idle", "timed"}
  /\ timing \in [synced : BOOLEAN, pps : Times]
  /\ model \in [session : Sessions, cursor : 0..MaxRecords, fix : [Sources -> Solutions]]
  /\ gst \in [valid : BOOLEAN, utc : Times, ms : Times, session : Sessions]
  /\ leap \in LeapSettings
  /\ last \in [Sources -> Sessions \X (0..MaxRecords)]
  /\ counted \in [Sources -> SUBSET (Sessions \X (0..MaxRecords))]
  /\ recounted \in BOOLEAN

NoPosition == [valid |-> FALSE, covariance |-> FALSE, epoch |-> 0, utc |-> 0,
               age |-> 0, session |-> 0, sequence |-> 0, gst |-> NoGst]

Init ==
  /\ now = FirstTime /\ mono = 1
  /\ session = 1 /\ cache = <<>> /\ heard = 0 /\ total = 0
  /\ step = "idle" /\ polls = 0
  /\ timing = [synced |-> FALSE, pps |-> 0]
  /\ model = [session |-> 0, cursor |-> 0, fix |-> [s \in Sources |-> None]]
  /\ gst = NoGst
  /\ leap \in LeapSettings
  /\ last = [s \in Sources |-> <<0, 0>>]
  /\ published = [s \in Sources |-> NoPosition]
  /\ counted = [s \in Sources |-> {}]
  /\ recounted = FALSE

-----------------------------------------------------------------------------
(* The receivers and the Agent. *)

\* The last poll ends what is of interest.
More == polls < MaxPolls \/ step = "timed"

TimePasses ==
  /\ More /\ now < MaxTime
  /\ step = "timed" => now < timing.pps + Latency
  /\ now' = now + 1
  /\ mono' = mono + 1
  /\ UNCHANGED <<session, cache, heard, total, host, out>>

AgentHears ==
  /\ More /\ total < MaxRecords
  /\ \E h \in Heard :
       LET r == [kind |-> h[1], good |-> h[2], utc |-> now, ms |-> mono,
                 sequence |-> heard + 1]
       IN cache' = IF Len(cache) < CacheSize THEN Append(cache, r)
                   ELSE Append(Tail(cache), r)
  /\ heard' = heard + 1
  /\ total' = total + 1
  /\ UNCHANGED <<now, mono, session, host, out>>

\* The Agent alone, or the RK and its clock.
AgentRestarts ==
  /\ More /\ session <= MaxRestarts
  /\ session' = session + 1
  /\ cache' = <<>> /\ heard' = 0
  /\ mono' \in {1, mono}
  /\ UNCHANGED <<now, total, host, out>>

\* Its answer to a query: the sentences after the cursor, and gap when some of
\* them are forgotten.
Asked == IF model.session = session THEN model.cursor ELSE 0
Gap == Asked + Len(cache) < heard
Batch == {cache[i] : i \in {j \in DOMAIN cache : cache[j].sequence > Asked}}

-----------------------------------------------------------------------------
(* receiver_model.hpp and navigation_fix.hpp. *)

\* The last sentence of a kind in the batch, if it has one.
Newest(kind) ==
  {r \in Batch : r.kind = kind /\ \A q \in Batch : q.kind = kind => q.sequence <= r.sequence}

\* prism::gnss_plot::Model::apply: a new session and a gap invalidate what is
\* held, the sentences of the batch replace it.
Kept(s) == CASE model.session \notin {0, session} -> None
             [] model.session \in {0, session} /\ Gap -> [model.fix[s] EXCEPT !.valid = FALSE]
             [] OTHER -> model.fix[s]

Held(s) ==
  IF Newest(s) = {} THEN Kept(s)
  ELSE LET r == CHOOSE n \in Newest(s) : TRUE
       IN [valid |-> r.good, utc |-> r.utc, ms |-> r.ms, sequence |-> r.sequence]

\* ReceiverModel::apply: gst_ is forgotten with a session and at a gap, and it
\* is the last GST of the batch, if that is good (mutated form: it is kept).
KeepsGst == FALSE
ForgetsGst == model.session \notin {0, session} \/ Gap

Gst ==
  IF Newest("GST") = {} THEN IF ForgetsGst THEN NoGst ELSE gst
  ELSE LET r == CHOOSE n \in Newest("GST") : TRUE
       IN IF r.good
          THEN [valid |-> TRUE, utc |-> r.utc, ms |-> r.ms, session |-> session]
          ELSE NoGst

\* gnssEpochUs: the day of the last PPS, or the one before or after it if that
\* is nearer (mutated form: the day of the PPS).
EpochOfPpsDay(synced, pps, timeOfDay) ==
  IF ~synced \/ pps = 0 THEN 0 ELSE (pps \div Day) * Day + timeOfDay

GnssEpoch(synced, pps, timeOfDay) ==
  LET epoch == (pps \div Day) * Day + timeOfDay
  IN IF ~synced \/ pps = 0 THEN 0
     ELSE IF epoch + Day \div 2 < pps THEN epoch + Day
     ELSE IF epoch > pps + Day \div 2 /\ epoch >= Day THEN epoch - Day
     ELSE epoch

\* out.valid: age_ms is at most 2000 (mutated form: any age will do).
ValidAtAnyAge(p) == p.valid /\ p.sequence # 0
Valid(p) == p.valid /\ p.sequence # 0 /\ mono >= p.ms /\ mono - p.ms <= Fresh

TimeOfDay(utc) == utc % Day

\* A GST serves a GGA of the same time of day that is not old.
Serves(p, g) ==
  /\ g.valid
  /\ TimeOfDay(g.utc) = TimeOfDay(p.utc)
  /\ mono >= g.ms /\ mono - g.ms <= Fresh

\* The epoch of an ADRNAV is in GPS time; with no known offset there is none in UTC
\* (mutated form: it is taken for UTC).
TakenForUtc(utc) == utc + GpsAhead
AdrnavEpoch(utc) == IF leap < 0 THEN 0 ELSE (utc + GpsAhead) - leap

\* ReceiverModel::position.  ADRNAV has its precision and its epoch with it.
Position(s, p, g) ==
  [valid |-> Valid(p),
   covariance |-> Valid(p) /\ (s = "GGA" => Serves(p, g)),
   epoch |-> IF s = "ADRNAV" THEN AdrnavEpoch(p.utc)
             ELSE GnssEpoch(timing.synced, timing.pps, TimeOfDay(p.utc)),
   utc |-> p.utc,
   age |-> now - p.utc,
   session |-> session,
   sequence |-> p.sequence,
   gst |-> g]

-----------------------------------------------------------------------------
(* A poll, of the navigation block of run() or of getReceiverPosition.  Either *)
(* of its queries may fail, and the poll ends.                                 *)

\* client.gnssTimingStatus(): with live PPS, its last epoch is the present one.
QueryTiming ==
  /\ step = "idle" /\ step' = "timed"
  /\ polls < MaxPolls /\ polls' = polls + 1
  /\ \E synced \in BOOLEAN : timing' = [synced |-> synced, pps |-> now]
  /\ UNCHANGED <<agent, model, gst, leap, out>>

QueryFails ==
  /\ step = "timed" /\ step' = "idle"
  /\ UNCHANGED <<agent, timing, model, gst, polls, leap, out>>

\* The sources whose solution is observed by health (mutated form: all of them
\* at each poll).
NewAtEachPoll(positions) == {s \in Sources : positions[s].sequence # 0}

Identity(p) == <<p.session, p.sequence>>
NewSolutions(positions) ==
  {s \in Sources : positions[s].sequence # 0 /\ Identity(positions[s]) # last[s]}

\* client.gnssObservations() and dispatchReceiverBatch.
QueryObservations ==
  LET positions == [s \in Sources |-> Position(s, Held(s), Gst)]
      new == NewSolutions(positions)
  IN /\ step = "timed" /\ step' = "idle"
     /\ model' = [session |-> session, cursor |-> heard, fix |-> [s \in Sources |-> Held(s)]]
     /\ gst' = Gst
     /\ published' = positions
     /\ last' = [s \in Sources |-> IF s \in new THEN Identity(positions[s]) ELSE last[s]]
     /\ counted' = [s \in Sources |-> IF s \in new
                      THEN counted[s] \cup {Identity(positions[s])} ELSE counted[s]]
     /\ recounted' = (recounted \/ \E s \in new : Identity(positions[s]) \in counted[s])
     /\ UNCHANGED <<agent, timing, polls, leap>>

-----------------------------------------------------------------------------
Next == \/ TimePasses \/ AgentHears \/ AgentRestarts
        \/ QueryTiming \/ QueryFails \/ QueryObservations

Spec == Init /\ [][Next]_vars

-----------------------------------------------------------------------------
(* Properties. *)

\* A position published as valid was computed no longer ago, by true time, than the
\* docs say, whatever was forgotten or restarted meanwhile.
FixIsRecent ==
  \A s \in Sources : published[s].valid => published[s].age <= Fresh

\* The deviations published with a GGA position are those of that very position:
\* of its session and of its epoch, not of the same time of another day.
CovarianceMatches ==
  published["GGA"].covariance =>
    /\ published["GGA"].gst.session = published["GGA"].session
    /\ published["GGA"].gst.utc = published["GGA"].utc

\* A valid position that is stamped is stamped with the UTC time it was computed at:
\* a GGA also when midnight lies between it and the PPS that gives the date, an
\* ADRNAV also when its offset from GPS time is not configured.
StampIsItsTime ==
  \A s \in Sources :
    published[s].valid /\ published[s].epoch # 0 => published[s].epoch = published[s].utc

\* Every solution published is counted by the health of its stream, and once,
\* however often it is polled and whatever restarts.
CountedOnce ==
  /\ ~recounted
  /\ \A s \in Sources : published[s].sequence # 0 => Identity(published[s]) \in counted[s]
=============================================================================
