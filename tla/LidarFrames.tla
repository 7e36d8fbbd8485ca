---------------------------- MODULE LidarFrames ----------------------------
(***************************************************************************)
(* LidarFrameAccumulator (common/src/lidar_frame_accumulator.cpp) and the   *)
(* loop of Driver::Impl::dispatchLidarPoints that feeds it: the transport   *)
(* batches of the LiDAR, their points sorted by time, become clouds of one  *)
(* window of kFramePeriodNs each.  A step is one turn of append's loop over *)
(* the points of a batch; the clouds it completes leave when the batch is   *)
(* through, and are lost with the exception when a time overflows, which    *)
(* ends the session.                                                        *)
(*                                                                         *)
(* A point is its number in the stream and its time.  Coordinates, and the  *)
(* batch_id, timestamp_raw and time_interval_100ns that a cloud inherits,   *)
(* are left out.  Times and offsets keep their (scaled) widths.             *)
(***************************************************************************)
EXTENDS Naturals, Sequences, FiniteSets

CONSTANTS Period,      \* kFramePeriodNs
          MaxTime,     \* the largest uint64_t
          OffsetSize,  \* 2^32, the values of a uint32_t
          MaxPoints,   \* bound on the points ever appended
          MaxBatch     \* bound on the points of one batch

ASSUME PeriodAssumption == Period \in Nat \ {0}
ASSUME MaxTimeAssumption == MaxTime \in Nat
ASSUME OffsetSizeAssumption == OffsetSize \in Nat /\ OffsetSize > Period
ASSUME BoundsAssumption == MaxPoints \in Nat /\ MaxBatch \in Nat

VARIABLES
  active,        \* active_
  window_start,  \* window_start_ns_
  window_end,    \* window_end_ns_
  frame,         \* frame_: its timestamp and its points
  batch,         \* the times of the points of the batch still to be appended
  completed,     \* the clouds append is about to return
  failed,        \* an overflow has ended the session
  sent,          \* history: the clouds pushed to the dispatch queue
  appended,      \* history: the number of points appended
  discarded,     \* history: the number of points thrown away
  grid,          \* history: the first window_start of this run of windows
  newest,        \* history: the time of the newest point
  ordered        \* history: no point was older than the one before it

window == <<active, window_start, window_end, frame>>
history == <<sent, appended, discarded, grid, newest, ordered>>
vars == <<window, batch, completed, failed, history>>

Times == 0..MaxTime
Point == [number : Nat, time : Nat, offset : Nat]
Cloud == [timestamp : Nat, points : Seq(Point)]
NoCloud == [timestamp |-> 0, points |-> <<>>]

TypeOK ==
  /\ active \in BOOLEAN
  /\ window_start \in Times /\ window_end \in Times
  /\ frame \in Cloud
  /\ batch \in Seq(Times)
  /\ completed \in Seq(Cloud) /\ sent \in Seq(Cloud)
  /\ failed \in BOOLEAN
  /\ appended \in Nat /\ discarded \in Nat
  /\ grid \in Times /\ newest \in Times
  /\ ordered \in BOOLEAN

Init ==
  /\ active = FALSE
  /\ window_start = 0 /\ window_end = 0
  /\ frame = NoCloud
  /\ batch = <<>>
  /\ completed = <<>>
  /\ failed = FALSE
  /\ sent = <<>> /\ appended = 0 /\ discarded = 0
  /\ grid = 0 /\ newest = 0 /\ ordered = TRUE

-----------------------------------------------------------------------------
\* convertLidarBatch sorts the points of a batch by time, and throws when an
\* offset cannot say their span.  An empty batch does nothing.
Sorted(times) == \A i, j \in DOMAIN times : i <= j => times[i] <= times[j]

Batches == {times \in UNION {[1..n -> Times] : n \in 1..MaxBatch} : Sorted(times)}

Fits(times) == times[Len(times)] - times[1] < OffsetSize

Receive ==
  /\ batch = <<>> /\ completed = <<>> /\ ~failed
  /\ \E times \in Batches :
       /\ Fits(times)
       /\ appended + Len(times) <= MaxPoints
       /\ batch' = times
  /\ UNCHANGED <<window, completed, failed, history>>

RefuseBatch ==
  /\ batch = <<>> /\ completed = <<>> /\ ~failed
  /\ \E times \in Batches : ~Fits(times)
  /\ failed' = TRUE
  /\ UNCHANGED <<window, batch, completed, history>>

-----------------------------------------------------------------------------
(* One turn of the loop, for the first of the points still to be appended. *)

\* The offset of a point: a uint32_t.
Offset(time, timestamp) == ((time + OffsetSize) - timestamp) % OffsetSize

\* (Mutated form: the offset is that from the start of the window.)
NumberedFromWindow(time, timestamp) ==
  [number |-> appended + 1, time |-> time, offset |-> Offset(time, window_start)]
Numbered(time, timestamp) ==
  [number |-> appended + 1, time |-> time, offset |-> Offset(time, timestamp)]

\* A cloud begun with its first point.
Begun(time) == [timestamp |-> time, points |-> <<Numbered(time, time)>>]

Turn(time) ==
  /\ batch' = Tail(batch)
  /\ appended' = appended + 1
  /\ newest' = time
  /\ ordered' = (ordered /\ time >= newest)
  /\ UNCHANGED <<failed, sent>>

\* A point older than the window: the epoch has changed, the cloud is dropped
\* (mutated form: it is not).
NeverBackwards(time) == FALSE
Backwards(time) == time < window_start

First(time) == ~active \/ Backwards(time)

AppendFirst(time) ==
  /\ First(time)
  /\ time + Period <= MaxTime
  /\ active' = TRUE
  /\ window_start' = time
  /\ window_end' = time + Period
  /\ frame' = Begun(time)
  /\ grid' = time
  /\ discarded' = discarded + Len(frame.points)
  /\ UNCHANGED completed
  /\ Turn(time)

AppendWithin(time) ==
  /\ ~First(time)
  /\ time < window_end
  /\ frame' = [frame EXCEPT !.points = Append(@, Numbered(time, frame.timestamp))]
  /\ UNCHANGED <<active, window_start, window_end, completed, discarded, grid>>
  /\ Turn(time)

\* The start of the window a point falls in, on the grid of the windows before.
Start(time) == window_start + ((time - window_start) \div Period) * Period

\* Mutated form: the cloud so far is not returned.
ReturnNothing == completed
Return == IF frame.points # <<>> THEN Append(completed, frame) ELSE completed

AppendAfter(time) ==
  /\ ~First(time)
  /\ time >= window_end
  /\ Start(time) + Period <= MaxTime
  /\ completed' = Return
  /\ window_start' = Start(time)
  /\ window_end' = Start(time) + Period
  /\ frame' = Begun(time)
  /\ UNCHANGED <<active, discarded, grid>>
  /\ Turn(time)

\* beginFrame throws: what append had completed goes with it, and the session
\* ends.  What the accumulator is left with is never used: run() resets it.
Overflow(time) ==
  /\ \/ First(time) /\ time + Period > MaxTime
     \/ ~First(time) /\ time >= window_end /\ Start(time) + Period > MaxTime
  /\ failed' = TRUE
  /\ batch' = <<>>
  /\ completed' = <<>>
  /\ UNCHANGED <<window, history>>

AppendPoint ==
  /\ batch # <<>>
  /\ LET time == Head(batch)
     IN AppendFirst(time) \/ AppendWithin(time) \/ AppendAfter(time) \/ Overflow(time)

\* The clouds that append returned are pushed.
Push ==
  /\ batch = <<>> /\ completed # <<>>
  /\ sent' = sent \o completed
  /\ completed' = <<>>
  /\ UNCHANGED <<window, batch, failed, appended, discarded, grid, newest, ordered>>

\* reset(): before a start and after a stop of the LiDAR.
Reset ==
  /\ batch = <<>> /\ completed = <<>> /\ ~failed
  /\ active
  /\ active' = FALSE
  /\ window_start' = 0 /\ window_end' = 0
  /\ frame' = NoCloud
  /\ discarded' = discarded + Len(frame.points)
  /\ UNCHANGED <<batch, completed, failed, sent, appended, grid, newest, ordered>>

Next == Receive \/ RefuseBatch \/ AppendPoint \/ Push \/ Reset

Spec == Init /\ [][Next]_vars

-----------------------------------------------------------------------------
(* Properties. *)

\* The clouds that were sent, are about to be, or are being filled.
Clouds == sent \o completed \o (IF active THEN <<frame>> ELSE <<>>)

\* No cloud spans a window's length or more, however the LiDAR's time jumps:
\* points of two epochs meet in one cloud only if they are that close.
InOneWindow ==
  \A i \in DOMAIN Clouds : \A p, q \in DOMAIN Clouds[i].points :
    Clouds[i].points[p].time < Clouds[i].points[q].time + Period

\* Gaps do not shift the windows: they stay on the grid of the first one, and
\* the current one is where the cloud's points are.
OnGrid ==
  active => /\ window_end = window_start + Period
            /\ (window_start - grid) % Period = 0
            /\ \A p \in DOMAIN frame.points :
                 frame.points[p].time \in window_start..(window_end - 1)

\* Every point appended is in exactly one cloud, or went with a cloud that was
\* dropped on purpose; clouds and points keep the order they came in.
Numbers(cloud) == {cloud.points[p].number : p \in DOMAIN cloud.points}
NothingLost ==
  ~failed =>
    /\ appended =
         discarded + Cardinality(UNION {Numbers(Clouds[i]) : i \in DOMAIN Clouds})
    /\ \A i \in DOMAIN Clouds : \A p, q \in DOMAIN Clouds[i].points :
         p < q => Clouds[i].points[p].number < Clouds[i].points[q].number
    /\ \A i, j \in DOMAIN Clouds : i < j =>
         \A m \in Numbers(Clouds[i]), n \in Numbers(Clouds[j]) : m < n

\* README.md:242 and 854: what a reader of a cloud computes, its stamp plus the
\* offset of a point, is the time of that point, and the offset lies within the
\* window.  (After a gap it need not: Start can precede the cloud's first point.)
OffsetsRight ==
  \A i \in DOMAIN Clouds : \A p \in DOMAIN Clouds[i].points :
    /\ Clouds[i].points[p].offset < Period
    /\ Clouds[i].timestamp + Clouds[i].points[p].offset = Clouds[i].points[p].time

\* It is so as long as the LiDAR's time does not step back.
OffsetsRightIfOrdered == ordered => OffsetsRight
=============================================================================
