------------------------- MODULE LidarFramesProofs -------------------------
(***************************************************************************)
(* Proofs about LidarFrames, for every period, width and bound.             *)
(***************************************************************************)
EXTENDS LidarFrames, FiniteSetTheorems, SequenceTheorems, TLAPS

\* The start of the window that a point falls in: at or before the point, less
\* than a period before it, and a whole number of periods after the old start.
LEMMA WindowOfPoint ==
  ASSUME NEW s \in Nat, NEW t \in Nat, t >= s
  PROVE  LET w == s + ((t - s) \div Period) * Period
         IN w \in Nat /\ w <= t /\ t < w + Period /\ s <= w
<1> DEFINE d == t - s
           q == d \div Period
<1>1. d \in Nat /\ Period \in Nat /\ Period > 0
  BY PeriodAssumption
<1>2. q \in Nat /\ d = Period * q + (d % Period) /\ d % Period \in 0..(Period - 1)
  BY <1>1
<1>3. Period * q = q * Period /\ q * Period \in Nat
  BY <1>1, <1>2
<1> HIDE DEF q
<1> QED
  BY <1>1, <1>2, <1>3 DEF q

\* Adding whole periods keeps a time on the grid.
LEMMA GridStep ==
  ASSUME NEW g \in Nat, NEW s \in Nat, NEW q \in Nat, g <= s,
         (s - g) % Period = 0
  PROVE  ((s + q * Period) - g) % Period = 0
<1> DEFINE k == (s - g) \div Period
<1>1. Period \in Nat /\ Period > 0 /\ s - g \in Nat
  BY PeriodAssumption
<1>2. k \in Nat /\ s - g = Period * k
  BY <1>1
<1>3. (s + q * Period) - g = Period * (k + q)
  <2>1. Period * (k + q) = Period * k + Period * q
    BY <1>1, <1>2
  <2>2. Period * q = q * Period /\ q * Period \in Nat
    BY <1>1
  <2> HIDE DEF k
  <2> QED
    BY <1>1, <1>2, <2>1, <2>2
<1>4. (Period * (k + q)) % Period = 0
  <2> HIDE DEF k
  <2>1. k + q \in Nat
    BY <1>2
  <2> QED
    BY <1>1, <2>1
<1> QED
  BY <1>3, <1>4

-----------------------------------------------------------------------------
(* The inductive invariant. *)

Spread(c) == \A p, q \in DOMAIN c.points : c.points[p].time < c.points[q].time + Period

Exact(c) == \A p \in DOMAIN c.points :
  /\ c.points[p].offset < Period
  /\ c.timestamp + c.points[p].offset = c.points[p].time

\* The cloud being filled begins, and has all its points, inside its window,
\* and the window is on the grid.
FillsItsWindow ==
  active => /\ window_end = window_start + Period
            /\ grid <= window_start /\ (window_start - grid) % Period = 0
            /\ window_start <= frame.timestamp /\ frame.timestamp < window_end
            /\ frame.points # <<>>
            /\ \A p \in DOMAIN frame.points :
                 /\ window_start <= frame.points[p].time
                 /\ frame.points[p].time < window_end

DoneInOneWindow == /\ \A i \in DOMAIN completed : Spread(completed[i])
                   /\ \A i \in DOMAIN sent : Spread(sent[i])

\* As long as time has not stepped back no point is older than its cloud.
ExactIfOrdered ==
  ordered => /\ \A i \in DOMAIN completed : Exact(completed[i])
             /\ \A i \in DOMAIN sent : Exact(sent[i])
             /\ active => Exact(frame) /\ frame.timestamp <= newest

IInv == TypeOK /\ FillsItsWindow /\ DoneInOneWindow /\ ExactIfOrdered

LEMMA OffsetOfPoint ==
  ASSUME NEW t \in Nat, NEW s \in Nat, s <= t, t < s + Period
  PROVE  Offset(t, s) = t - s
<1>1. OffsetSize \in Nat /\ Period \in Nat /\ Period < OffsetSize
  BY PeriodAssumption, OffsetSizeAssumption
<1> DEFINE d == t - s
<1>2. d \in Nat /\ d < OffsetSize /\ (t + OffsetSize) - s = d + OffsetSize
  BY <1>1
<1>3. (d + OffsetSize) % OffsetSize = d
  <2> HIDE DEF d
  <2> QED
    BY <1>1, <1>2
<1> QED
  BY <1>2, <1>3 DEF Offset

LEMMA OffsetIsNat ==
  ASSUME NEW t \in Nat, NEW s \in Nat, s < t + OffsetSize
  PROVE  Offset(t, s) \in Nat
<1> DEFINE d == (t + OffsetSize) - s
<1>1. d \in Nat /\ OffsetSize \in Nat /\ OffsetSize > 0
  BY OffsetSizeAssumption, PeriodAssumption
<1> HIDE DEF d
<1>2. d % OffsetSize \in Nat
  BY <1>1
<1> QED
  BY <1>2 DEF Offset, d

LEMMA InitIInv == Init => IInv
<1> SUFFICES ASSUME Init PROVE IInv
  OBVIOUS
<1>1. 0 \in Times
  BY MaxTimeAssumption DEF Times
<1>2. NoCloud \in Cloud
  BY DEF NoCloud, Cloud
<1>3. TypeOK
  <2>1. batch = <<>> /\ completed = <<>> /\ sent = <<>>
    BY DEF Init
  <2>2. batch \in Seq(Times) /\ completed \in Seq(Cloud) /\ sent \in Seq(Cloud)
    BY <2>1
  <2>3. active \in BOOLEAN /\ failed \in BOOLEAN /\ ordered \in BOOLEAN
    BY DEF Init
  <2>4. frame \in Cloud
    BY <1>2 DEF Init
  <2>5. /\ window_start \in Times /\ window_end \in Times
        /\ appended \in Nat /\ discarded \in Nat
        /\ grid \in Times /\ newest \in Times
    BY <1>1 DEF Init
  <2> QED
    BY <2>2, <2>3, <2>4, <2>5 DEF TypeOK
<1>4. ~active /\ DOMAIN completed = {} /\ DOMAIN sent = {}
  BY DEF Init
<1>5. FillsItsWindow /\ DoneInOneWindow /\ ExactIfOrdered
  BY <1>4 DEF FillsItsWindow, DoneInOneWindow, ExactIfOrdered
<1> QED
  BY <1>3, <1>5 DEF IInv

\* A cloud begun with a point: its type, and what holds of it.
LEMMA BegunFacts ==
  ASSUME NEW t \in Times, appended \in Nat
  PROVE  /\ Begun(t) \in Cloud
         /\ Begun(t).timestamp = t
         /\ Begun(t).points # <<>>
         /\ \A p \in DOMAIN Begun(t).points : Begun(t).points[p].time = t
         /\ Exact(Begun(t))
<1>1. t \in Nat
  BY MaxTimeAssumption DEF Times
<1>2. Offset(t, t) = 0
  BY <1>1, OffsetOfPoint, PeriodAssumption
<1>3. Numbered(t, t) = [number |-> appended + 1, time |-> t, offset |-> 0]
  BY <1>2 DEF Numbered
<1>4. Numbered(t, t) \in Point
  BY <1>1, <1>3 DEF Point
<1>5. Begun(t).points = <<Numbered(t, t)>> /\ Begun(t).timestamp = t
  BY DEF Begun
<1>6. \A p \in DOMAIN Begun(t).points : Begun(t).points[p] = Numbered(t, t)
  BY <1>5
<1>7. Begun(t) \in Cloud
  BY <1>1, <1>4 DEF Begun, Cloud
<1> QED
  BY <1>1, <1>3, <1>5, <1>6, <1>7, PeriodAssumption DEF Exact

-----------------------------------------------------------------------------
(* One lemma for each step of append. *)

LEMMA TurnTypes ==
  ASSUME TypeOK, batch # <<>>, NEW t, t = Head(batch), Turn(t)
  PROVE  /\ t \in Times /\ t \in Nat
         /\ batch' \in Seq(Times) /\ appended' \in Nat /\ newest' \in Times
         /\ ordered' \in BOOLEAN /\ failed' \in BOOLEAN /\ sent' \in Seq(Cloud)
BY MaxTimeAssumption DEF TypeOK, Turn, Times

LEMMA AppendFirstStep ==
  ASSUME IInv, batch # <<>>, NEW t, t = Head(batch), AppendFirst(t)
  PROVE  IInv'
<1>1. TypeOK /\ Turn(t)
  BY DEF IInv, AppendFirst
<1>2. t \in Times /\ t \in Nat
  BY <1>1, TurnTypes
<1>3. /\ frame' = Begun(t) /\ active' = TRUE /\ window_start' = t
      /\ window_end' = t + Period /\ grid' = t /\ completed' = completed
      /\ t + Period <= MaxTime
  BY DEF AppendFirst
<1>4. /\ Begun(t) \in Cloud /\ Begun(t).timestamp = t
      /\ Begun(t).points # <<>>
      /\ \A p \in DOMAIN Begun(t).points : Begun(t).points[p].time = t
      /\ Exact(Begun(t))
  BY <1>1, <1>2, BegunFacts DEF TypeOK
<1>5. TypeOK'
  <2>1. discarded' \in Nat
    BY <1>1 DEF TypeOK, AppendFirst, Cloud
  <2>2. t + Period \in Times
    BY <1>2, <1>3, PeriodAssumption, MaxTimeAssumption DEF Times
  <2>3. /\ batch' \in Seq(Times) /\ appended' \in Nat /\ newest' \in Times
        /\ ordered' \in BOOLEAN /\ failed' \in BOOLEAN /\ sent' \in Seq(Cloud)
    BY <1>1, TurnTypes
  <2> QED
    BY <1>1, <1>2, <1>3, <1>4, <2>1, <2>2, <2>3 DEF TypeOK
<1>6. FillsItsWindow'
  BY <1>2, <1>3, <1>4, PeriodAssumption DEF FillsItsWindow
<1>7. DoneInOneWindow'
  BY <1>3, <1>1 DEF DoneInOneWindow, IInv, Turn, Spread
<1>8. ExactIfOrdered'
  <2>1. ordered' => ordered
    BY <1>1 DEF Turn
  <2>2. sent' = sent /\ newest' = t
    BY <1>1 DEF Turn
  <2>3. Exact(frame)' /\ (frame.timestamp <= newest)'
    BY <1>2, <1>3, <1>4, <2>2 DEF Exact
  <2>4. ordered => /\ \A i \in DOMAIN completed : Exact(completed[i])
                   /\ \A i \in DOMAIN sent : Exact(sent[i])
    BY DEF IInv, ExactIfOrdered
  <2> QED
    BY <1>3, <2>1, <2>2, <2>3, <2>4 DEF ExactIfOrdered, Exact
<1> QED
  BY <1>5, <1>6, <1>7, <1>8 DEF IInv

LEMMA AppendWithinStep ==
  ASSUME IInv, batch # <<>>, NEW t, t = Head(batch), AppendWithin(t)
  PROVE  IInv'
<1>1. TypeOK /\ FillsItsWindow /\ ExactIfOrdered /\ DoneInOneWindow /\ Turn(t)
  BY DEF IInv, AppendWithin
<1>2. t \in Times /\ t \in Nat
  BY <1>1, TurnTypes
<1> DEFINE n == Numbered(t, frame.timestamp)
<1>3. /\ frame' = [frame EXCEPT !.points = Append(@, n)]
      /\ active /\ window_start <= t /\ t < window_end
      /\ UNCHANGED <<active, window_start, window_end, completed, discarded, grid>>
  BY <1>1, <1>2 DEF AppendWithin, First, Backwards, TypeOK, Times
<1>4. /\ window_start \in Nat /\ window_end = window_start + Period
      /\ frame \in Cloud /\ frame.timestamp \in Nat /\ frame.points \in Seq(Point)
      /\ frame.timestamp < window_end /\ window_start <= frame.timestamp
      /\ appended \in Nat
  BY <1>1, <1>3, MaxTimeAssumption DEF FillsItsWindow, TypeOK, Times, Cloud
<1>5. n = [number |-> appended + 1, time |-> t, offset |-> Offset(t, frame.timestamp)]
  BY DEF Numbered
<1>6. Offset(t, frame.timestamp) \in Nat
  BY <1>2, <1>3, <1>4, OffsetIsNat, OffsetSizeAssumption, PeriodAssumption
<1>7. n \in Point /\ n.time = t /\ n.offset = Offset(t, frame.timestamp)
  BY <1>2, <1>4, <1>5, <1>6 DEF Point
<1> HIDE DEF n
<1>8. /\ frame' \in Cloud /\ frame'.timestamp = frame.timestamp
      /\ frame'.points = Append(frame.points, n)
  <2>1. frame' = [timestamp |-> frame.timestamp, points |-> Append(frame.points, n)]
    BY <1>3, <1>4 DEF Cloud
  <2>2. Append(frame.points, n) \in Seq(Point)
    BY <1>4, <1>7
  <2> QED
    BY <1>4, <2>1, <2>2 DEF Cloud
<1>9. /\ frame'.points # <<>>
      /\ \A p \in DOMAIN frame'.points :
            \/ p \in DOMAIN frame.points /\ frame'.points[p] = frame.points[p]
            \/ frame'.points[p] = n
  BY <1>4, <1>7, <1>8
<1>10. TypeOK'
  BY <1>1, <1>3, <1>8, TurnTypes DEF TypeOK
<1>11. FillsItsWindow'
  BY <1>1, <1>2, <1>3, <1>4, <1>7, <1>8, <1>9 DEF FillsItsWindow
<1>12. DoneInOneWindow'
  BY <1>1, <1>3 DEF DoneInOneWindow, Turn, Spread
<1>13. ExactIfOrdered'
  <2> SUFFICES ASSUME ordered' PROVE ExactIfOrdered'
    BY DEF ExactIfOrdered
  <2>1. ordered /\ t >= newest /\ newest' = t /\ sent' = sent
    BY <1>1 DEF Turn
  <2>2. Exact(frame) /\ frame.timestamp <= newest
    BY <1>1, <1>3, <2>1 DEF ExactIfOrdered
  <2>3. newest \in Nat
    BY <1>1, MaxTimeAssumption DEF TypeOK, Times
  <2>4. n.offset = t - frame.timestamp /\ t - frame.timestamp < Period
    <3>1. frame.timestamp <= t /\ t < frame.timestamp + Period
      BY <1>2, <1>3, <1>4, <2>1, <2>2, <2>3, PeriodAssumption
    <3>2. Offset(t, frame.timestamp) = t - frame.timestamp
      BY <1>2, <1>4, <3>1, OffsetOfPoint
    <3> QED
      BY <1>2, <1>4, <1>7, <3>1, <3>2, PeriodAssumption
  <2>5. Exact(frame)'
    BY <1>2, <1>4, <1>7, <1>8, <1>9, <2>2, <2>4 DEF Exact
  <2> QED
    BY <1>1, <1>2, <1>3, <1>4, <1>8, <2>1, <2>2, <2>3, <2>5 DEF ExactIfOrdered, Exact
<1> QED
  BY <1>10, <1>11, <1>12, <1>13 DEF IInv

LEMMA AppendAfterStep ==
  ASSUME IInv, batch # <<>>, NEW t, t = Head(batch), AppendAfter(t)
  PROVE  IInv'
<1>1. TypeOK /\ FillsItsWindow /\ ExactIfOrdered /\ DoneInOneWindow /\ Turn(t)
  BY DEF IInv, AppendAfter
<1>2. t \in Times /\ t \in Nat
  BY <1>1, TurnTypes
<1>3. /\ active /\ window_start <= t /\ window_end <= t
      /\ Start(t) + Period <= MaxTime
      /\ completed' = Return
      /\ window_start' = Start(t) /\ window_end' = Start(t) + Period
      /\ frame' = Begun(t)
      /\ UNCHANGED <<active, discarded, grid>>
  BY <1>1, <1>2, MaxTimeAssumption
  DEF AppendAfter, First, Backwards, TypeOK, Times
<1>4. /\ window_start \in Nat /\ grid \in Nat /\ grid <= window_start
      /\ window_end = window_start + Period
      /\ (window_start - grid) % Period = 0
      /\ frame \in Cloud /\ frame.points # <<>>
      /\ appended \in Nat
  BY <1>1, <1>3, MaxTimeAssumption DEF FillsItsWindow, TypeOK, Times
<1>5. completed' = Append(completed, frame)
  BY <1>3, <1>4 DEF Return
<1>6. /\ Start(t) \in Nat /\ Start(t) <= t /\ t < Start(t) + Period
      /\ window_start <= Start(t)
  BY <1>2, <1>3, <1>4, WindowOfPoint DEF Start
<1>7. (Start(t) - grid) % Period = 0
  <2> DEFINE q == (t - window_start) \div Period
  <2>1. q \in Nat
    BY <1>2, <1>3, <1>4, PeriodAssumption
  <2>2. Start(t) = window_start + q * Period
    BY DEF Start
  <2> HIDE DEF q
  <2>3. ((window_start + q * Period) - grid) % Period = 0
    BY <1>4, <2>1, GridStep
  <2> QED
    BY <2>2, <2>3, Zenon
<1>8. /\ Begun(t) \in Cloud /\ Begun(t).timestamp = t
      /\ Begun(t).points # <<>>
      /\ \A p \in DOMAIN Begun(t).points : Begun(t).points[p].time = t
      /\ Exact(Begun(t))
  BY <1>2, <1>4, BegunFacts
<1>9. TypeOK'
  <2>1. Start(t) \in Times /\ Start(t) + Period \in Times
    BY <1>3, <1>6, PeriodAssumption, MaxTimeAssumption DEF Times
  <2>2. completed' \in Seq(Cloud)
    BY <1>1, <1>4, <1>5 DEF TypeOK
  <2>3. /\ batch' \in Seq(Times) /\ appended' \in Nat /\ newest' \in Times
        /\ ordered' \in BOOLEAN /\ failed' \in BOOLEAN /\ sent' \in Seq(Cloud)
    BY <1>1, TurnTypes
  <2> QED
    BY <1>1, <1>3, <1>8, <2>1, <2>2, <2>3 DEF TypeOK
<1>10. FillsItsWindow'
  BY <1>2, <1>3, <1>4, <1>6, <1>7, <1>8, PeriodAssumption DEF FillsItsWindow
<1>11. \A i \in DOMAIN completed' :
         \/ i \in DOMAIN completed /\ completed'[i] = completed[i]
         \/ completed'[i] = frame
  BY <1>1, <1>4, <1>5 DEF TypeOK
<1>12. sent' = sent /\ newest' = t /\ (ordered' => ordered)
  BY <1>1 DEF Turn
<1>13. Spread(frame)
  <2>1. \A p \in DOMAIN frame.points : frame.points[p].time \in Nat
    <3>1. frame.points \in Seq(Point)
      BY <1>4 DEF Cloud
    <3>2. \A p \in DOMAIN frame.points : frame.points[p] \in Point
      BY <3>1
    <3> QED
      BY <3>2 DEF Point
  <2> QED
    BY <1>1, <1>3, <1>4, <2>1, PeriodAssumption DEF FillsItsWindow, Spread
<1>14. DoneInOneWindow'
  <2>1. \A i \in DOMAIN completed' : Spread(completed'[i])
    BY <1>1, <1>11, <1>13 DEF DoneInOneWindow
  <2>2. \A i \in DOMAIN sent' : Spread(sent'[i])
    BY <1>1, <1>12 DEF DoneInOneWindow
  <2> QED
    BY <2>1, <2>2 DEF DoneInOneWindow, Spread
<1>15. ExactIfOrdered'
  <2> SUFFICES ASSUME ordered' PROVE ExactIfOrdered'
    BY DEF ExactIfOrdered
  <2>1. /\ \A i \in DOMAIN completed : Exact(completed[i])
        /\ \A i \in DOMAIN sent : Exact(sent[i])
        /\ Exact(frame)
    BY <1>1, <1>3, <1>12 DEF ExactIfOrdered
  <2>2. \A i \in DOMAIN completed' : Exact(completed'[i])
    BY <1>11, <2>1
  <2>3. \A i \in DOMAIN sent' : Exact(sent'[i])
    BY <1>12, <2>1
  <2>4. Exact(frame') /\ frame'.timestamp <= newest'
    BY <1>2, <1>3, <1>8, <1>12
  <2> QED
    BY <2>2, <2>3, <2>4 DEF ExactIfOrdered, Exact
<1> QED
  BY <1>9, <1>10, <1>14, <1>15 DEF IInv

-----------------------------------------------------------------------------
(* The steps between the points. *)

LEMMA ReceiveStep == IInv /\ Receive => IInv'
<1> SUFFICES ASSUME IInv, Receive PROVE IInv'
  OBVIOUS
<1>1. /\ batch' \in Batches
      /\ UNCHANGED <<active, window_start, window_end, frame, completed, failed,
                     sent, appended, discarded, grid, newest, ordered>>
  BY DEF Receive, window, history
<1>2. batch' \in Seq(Times)
  BY <1>1, BoundsAssumption DEF Batches
<1>3. TypeOK'
  BY <1>1, <1>2 DEF IInv, TypeOK
<1>4. FillsItsWindow' /\ DoneInOneWindow' /\ ExactIfOrdered'
  BY <1>1 DEF IInv, FillsItsWindow, DoneInOneWindow, ExactIfOrdered, Spread, Exact
<1> QED
  BY <1>3, <1>4 DEF IInv

LEMMA RefuseBatchStep == IInv /\ RefuseBatch => IInv'
<1> SUFFICES ASSUME IInv, RefuseBatch PROVE IInv'
  OBVIOUS
<1>1. /\ failed' = TRUE
      /\ UNCHANGED <<active, window_start, window_end, frame, batch, completed,
                     sent, appended, discarded, grid, newest, ordered>>
  BY DEF RefuseBatch, window, history
<1>2. TypeOK'
  BY <1>1 DEF IInv, TypeOK
<1>3. FillsItsWindow' /\ DoneInOneWindow' /\ ExactIfOrdered'
  BY <1>1 DEF IInv, FillsItsWindow, DoneInOneWindow, ExactIfOrdered, Spread, Exact
<1> QED
  BY <1>2, <1>3 DEF IInv

LEMMA OverflowStep ==
  ASSUME IInv, NEW t, Overflow(t)
  PROVE  IInv'
<1>1. /\ failed' = TRUE /\ batch' = <<>> /\ completed' = <<>>
      /\ UNCHANGED <<active, window_start, window_end, frame,
                     sent, appended, discarded, grid, newest, ordered>>
  BY DEF Overflow, window, history
<1>2. batch' \in Seq(Times) /\ completed' \in Seq(Cloud) /\ DOMAIN completed' = {}
  BY <1>1
<1>3. TypeOK'
  BY <1>1, <1>2 DEF IInv, TypeOK
<1>4. FillsItsWindow'
  BY <1>1 DEF IInv, FillsItsWindow
<1>5. DoneInOneWindow'
  BY <1>1, <1>2 DEF IInv, DoneInOneWindow, Spread
<1>6. ExactIfOrdered'
  BY <1>1, <1>2 DEF IInv, ExactIfOrdered, Exact
<1> QED
  BY <1>3, <1>4, <1>5, <1>6 DEF IInv

LEMMA PushStep == IInv /\ Push => IInv'
<1> SUFFICES ASSUME IInv, Push PROVE IInv'
  OBVIOUS
<1>1. /\ sent' = sent \o completed /\ completed' = <<>>
      /\ UNCHANGED <<active, window_start, window_end, frame, batch, failed,
                     appended, discarded, grid, newest, ordered>>
  BY DEF Push, window
<1>2. sent \in Seq(Cloud) /\ completed \in Seq(Cloud)
  BY DEF IInv, TypeOK
<1>3. /\ sent' \in Seq(Cloud) /\ completed' \in Seq(Cloud) /\ DOMAIN completed' = {}
      /\ \A i \in DOMAIN sent' :
           \/ i \in DOMAIN sent /\ sent'[i] = sent[i]
           \/ i - Len(sent) \in DOMAIN completed /\ sent'[i] = completed[i - Len(sent)]
  BY <1>1, <1>2
<1>4. TypeOK'
  BY <1>1, <1>3 DEF IInv, TypeOK
<1>5. FillsItsWindow'
  BY <1>1 DEF IInv, FillsItsWindow
<1>6. DoneInOneWindow'
  <2>1. \A i \in DOMAIN sent' : Spread(sent'[i])
    BY <1>3 DEF IInv, DoneInOneWindow
  <2> QED
    BY <1>3, <2>1 DEF DoneInOneWindow, Spread
<1>7. ExactIfOrdered'
  <2> SUFFICES ASSUME ordered' PROVE ExactIfOrdered'
    BY DEF ExactIfOrdered
  <2>1. \A i \in DOMAIN sent' : Exact(sent'[i])
    BY <1>1, <1>3 DEF IInv, ExactIfOrdered
  <2>2. active' => Exact(frame') /\ frame'.timestamp <= newest'
    BY <1>1 DEF IInv, ExactIfOrdered
  <2> QED
    BY <1>3, <2>1, <2>2 DEF ExactIfOrdered, Exact
<1> QED
  BY <1>4, <1>5, <1>6, <1>7 DEF IInv

LEMMA ResetStep == IInv /\ Reset => IInv'
<1> SUFFICES ASSUME IInv, Reset PROVE IInv'
  OBVIOUS
<1>1. /\ active' = FALSE /\ window_start' = 0 /\ window_end' = 0 /\ frame' = NoCloud
      /\ discarded' = discarded + Len(frame.points)
      /\ UNCHANGED <<batch, completed, failed, sent, appended, grid, newest, ordered>>
  BY DEF Reset
<1>2. discarded' \in Nat
  BY <1>1 DEF IInv, TypeOK, Cloud
<1>3. 0 \in Times /\ NoCloud \in Cloud
  BY MaxTimeAssumption DEF Times, NoCloud, Cloud
<1>4. TypeOK'
  BY <1>1, <1>2, <1>3 DEF IInv, TypeOK
<1>5. FillsItsWindow'
  BY <1>1 DEF FillsItsWindow
<1>6. DoneInOneWindow'
  BY <1>1 DEF IInv, DoneInOneWindow, Spread
<1>7. ExactIfOrdered'
  BY <1>1 DEF IInv, ExactIfOrdered, Exact
<1> QED
  BY <1>4, <1>5, <1>6, <1>7 DEF IInv

LEMMA StutterStep == IInv /\ UNCHANGED vars => IInv'
<1> SUFFICES ASSUME IInv, UNCHANGED vars PROVE IInv'
  OBVIOUS
<1>1. UNCHANGED <<active, window_start, window_end, frame, batch, completed, failed,
                  sent, appended, discarded, grid, newest, ordered>>
  BY DEF vars, window, history
<1>2. TypeOK'
  BY <1>1 DEF IInv, TypeOK
<1>3. FillsItsWindow' /\ DoneInOneWindow' /\ ExactIfOrdered'
  BY <1>1 DEF IInv, FillsItsWindow, DoneInOneWindow, ExactIfOrdered, Spread, Exact
<1> QED
  BY <1>2, <1>3 DEF IInv

LEMMA NextIInv == IInv /\ [Next]_vars => IInv'
<1> SUFFICES ASSUME IInv, [Next]_vars PROVE IInv'
  OBVIOUS
<1>1. CASE Receive
  BY <1>1, ReceiveStep
<1>2. CASE AppendPoint
  <2> DEFINE t == Head(batch)
  <2>1. batch # <<>> /\ (AppendFirst(t) \/ AppendWithin(t) \/ AppendAfter(t) \/ Overflow(t))
    BY <1>2 DEF AppendPoint
  <2> HIDE DEF t
  <2>2. t = Head(batch)
    BY DEF t
  <2>3. CASE AppendFirst(t)
    BY <2>1, <2>2, <2>3, AppendFirstStep
  <2>4. CASE AppendWithin(t)
    BY <2>1, <2>2, <2>4, AppendWithinStep
  <2>5. CASE AppendAfter(t)
    BY <2>1, <2>2, <2>5, AppendAfterStep
  <2>6. CASE Overflow(t)
    BY <2>6, OverflowStep
  <2> QED
    BY <2>1, <2>3, <2>4, <2>5, <2>6
<1>3. CASE Push
  BY <1>3, PushStep
<1>4. CASE Reset
  BY <1>4, ResetStep
<1>5. CASE RefuseBatch
  BY <1>5, RefuseBatchStep
<1>6. CASE UNCHANGED vars
  BY <1>6, StutterStep
<1> QED
  BY <1>1, <1>2, <1>3, <1>4, <1>5, <1>6 DEF Next

-----------------------------------------------------------------------------
(* The theorems. *)

LEMMA Invariance == Spec => []IInv
BY InitIInv, NextIInv, PTL DEF Spec

\* The clouds are those that were sent, those completed and the one being filled.
LEMMA EveryCloud ==
  ASSUME TypeOK
  PROVE  \A i \in DOMAIN Clouds :
           \/ \E j \in DOMAIN sent : Clouds[i] = sent[j]
           \/ \E j \in DOMAIN completed : Clouds[i] = completed[j]
           \/ active /\ Clouds[i] = frame
<1> DEFINE last == IF active THEN <<frame>> ELSE <<>>
<1>1. sent \in Seq(Cloud) /\ completed \in Seq(Cloud) /\ frame \in Cloud
  BY DEF TypeOK
<1>2. /\ last \in Seq(Cloud)
      /\ \A i \in DOMAIN last : active /\ last[i] = frame
  BY <1>1
<1>3. Clouds = (sent \o completed) \o last
  BY DEF Clouds
<1> HIDE DEF last
<1>4. /\ sent \o completed \in Seq(Cloud)
      /\ \A i \in DOMAIN (sent \o completed) :
           \/ \E j \in DOMAIN sent : (sent \o completed)[i] = sent[j]
           \/ \E j \in DOMAIN completed : (sent \o completed)[i] = completed[j]
  BY <1>1
<1> DEFINE done == sent \o completed
<1> HIDE DEF done
<1>5. done \in Seq(Cloud) /\ Clouds = done \o last
  BY <1>3, <1>4 DEF done
<1>6. \A i \in DOMAIN Clouds :
        \/ i \in DOMAIN done /\ Clouds[i] = done[i]
        \/ i - Len(done) \in DOMAIN last /\ Clouds[i] = last[i - Len(done)]
  BY <1>2, <1>5
<1> QED
  BY <1>2, <1>4, <1>6 DEF done

\* The type invariant: in particular the ends of the windows never leave the
\* range of a uint64_t.
THEOREM TypeCorrect == Spec => []TypeOK
<1>1. IInv => TypeOK
  BY DEF IInv
<1> QED
  BY <1>1, Invariance, PTL

\* No cloud that append ever completes or fills spans a window's length or
\* more, whatever the LiDAR's time does.
THEOREM OneWindow == Spec => []InOneWindow
<1>1. IInv => InOneWindow
  <2> SUFFICES ASSUME IInv, NEW i \in DOMAIN Clouds PROVE Spread(Clouds[i])
    BY DEF InOneWindow, Spread
  <2>1. TypeOK /\ DoneInOneWindow /\ FillsItsWindow
    BY DEF IInv
  <2>2. active => Spread(frame)
    <3> SUFFICES ASSUME active PROVE Spread(frame)
      OBVIOUS
    <3>1. frame.points \in Seq(Point) /\ window_start \in Nat
      BY <2>1, MaxTimeAssumption DEF TypeOK, Times, Cloud
    <3>2. \A p \in DOMAIN frame.points : frame.points[p] \in Point
      BY <3>1
    <3>3. \A p \in DOMAIN frame.points : frame.points[p].time \in Nat
      BY <3>2 DEF Point
    <3> QED
      BY <2>1, <3>1, <3>3, PeriodAssumption DEF FillsItsWindow, Spread
  <2> QED
    BY <2>1, <2>2, EveryCloud DEF DoneInOneWindow
<1> QED
  BY <1>1, Invariance, PTL

\* The windows stay on the grid of the first one over every gap, and the points
\* of the cloud being filled are in the current window.
THEOREM Grid == Spec => []OnGrid
<1>1. IInv => OnGrid
  <2> SUFFICES ASSUME IInv, active PROVE OnGrid
    BY DEF OnGrid
  <2>1. TypeOK /\ FillsItsWindow
    BY DEF IInv
  <2>2. frame.points \in Seq(Point) /\ window_start \in Nat
    BY <2>1, MaxTimeAssumption DEF TypeOK, Times, Cloud
  <2>3. \A p \in DOMAIN frame.points : frame.points[p] \in Point
    BY <2>2
  <2>4. \A p \in DOMAIN frame.points : frame.points[p].time \in Nat
    BY <2>3 DEF Point
  <2> QED
    BY <2>1, <2>2, <2>4, PeriodAssumption DEF FillsItsWindow, OnGrid
<1> QED
  BY <1>1, Invariance, PTL

\* As long as the LiDAR's time does not step back, every stamp plus offset is
\* the time of the point, although the offset is a uint32_t.
THEOREM Offsets == Spec => []OffsetsRightIfOrdered
<1>1. IInv => OffsetsRightIfOrdered
  <2> SUFFICES ASSUME IInv, ordered, NEW i \in DOMAIN Clouds PROVE Exact(Clouds[i])
    BY DEF OffsetsRightIfOrdered, OffsetsRight, Exact
  <2>1. TypeOK /\ ExactIfOrdered
    BY DEF IInv
  <2> QED
    BY <2>1, EveryCloud DEF ExactIfOrdered
<1> QED
  BY <1>1, Invariance, PTL

-----------------------------------------------------------------------------
(* The points in the clouds: a second invariant, on top of the first.        *)

Increasing(c) == \A p, q \in DOMAIN c.points :
  p < q => c.points[p].number < c.points[q].number

NumbersOf(clouds) == UNION {Numbers(clouds[i]) : i \in DOMAIN clouds}

InOrder(clouds) ==
  /\ \A i \in DOMAIN clouds : Increasing(clouds[i])
  /\ \A i, j \in DOMAIN clouds : i < j =>
       \A m \in Numbers(clouds[i]), n \in Numbers(clouds[j]) : m < n

Before(clouds, c) == \A m \in NumbersOf(clouds), n \in Numbers(c) : m < n

\* The clouds that append has completed, pushed or not.
Finished == sent \o completed

\* The numbers are in order, none is beyond the last one given, and the finished
\* clouds, the one being filled and the dropped ones make up all of them.
CountedIn(clouds, c, given, dropped) ==
  /\ InOrder(clouds) /\ Increasing(c) /\ Before(clouds, c)
  /\ NumbersOf(clouds) \subseteq 1..given
  /\ Numbers(c) \subseteq 1..given
  /\ given = dropped + Cardinality(NumbersOf(clouds)) + Len(c.points)

Counted == CountedIn(Finished, frame, appended, discarded)

CountIInv == /\ ~active => frame = NoCloud
             /\ ~failed => Counted

\* A cloud has as many numbers as points: they increase.
LEMMA NumbersOfCloud ==
  ASSUME NEW c \in Cloud, Increasing(c)
  PROVE  /\ IsFiniteSet(Numbers(c)) /\ Cardinality(Numbers(c)) = Len(c.points)
         /\ Numbers(c) \subseteq Nat
<1> DEFINE n == Len(c.points)
           f == [p \in 1..n |-> c.points[p].number]
<1>1. c.points \in Seq(Point) /\ n \in Nat /\ DOMAIN c.points = 1..n
  BY DEF Cloud
<1>2. \A p \in 1..n : c.points[p].number \in Nat
  <2>1. \A p \in 1..n : c.points[p] \in Point
    BY <1>1
  <2> QED
    BY <2>1 DEF Point
<1>3. Numbers(c) \subseteq Nat
  BY <1>1, <1>2 DEF Numbers
<1>4. f \in Bijection(1..n, Numbers(c))
  <2>1. f \in [1..n -> Numbers(c)]
    BY <1>1 DEF Numbers
  <2>2. \A a, b \in 1..n : f[a] = f[b] => a = b
    <3> SUFFICES ASSUME NEW a \in 1..n, NEW b \in 1..n, a # b PROVE f[a] # f[b]
      OBVIOUS
    <3>1. a < b \/ b < a
      OBVIOUS
    <3>2. c.points[a].number < c.points[b].number \/ c.points[b].number < c.points[a].number
      BY <1>1, <3>1 DEF Increasing
    <3>3. c.points[a].number # c.points[b].number
      BY <1>2, <3>2
    <3> QED
      BY <3>3
  <2>3. \A t \in Numbers(c) : \E a \in 1..n : f[a] = t
    BY <1>1 DEF Numbers
  <2> QED
    BY <2>1, <2>2, <2>3 DEF Bijection, Injection, Surjection, IsInjective
<1>5. IsFiniteSet(1..n) /\ Cardinality(1..n) = n
  BY <1>1, FS_Interval
<1> QED
  BY <1>3, <1>4, <1>5, FS_Bijection DEF ExistsBijection

\* A cloud put behind the others, all its numbers after theirs.
LEMMA CloudBehind ==
  ASSUME NEW clouds \in Seq(Cloud), NEW c \in Cloud, InOrder(clouds), Increasing(c),
         Before(clouds, c), IsFiniteSet(NumbersOf(clouds))
  PROVE  /\ InOrder(Append(clouds, c))
         /\ NumbersOf(Append(clouds, c)) = NumbersOf(clouds) \cup Numbers(c)
         /\ Cardinality(NumbersOf(Append(clouds, c)))
              = Cardinality(NumbersOf(clouds)) + Len(c.points)
<1> DEFINE new == Append(clouds, c)
<1>1. /\ DOMAIN new = DOMAIN clouds \cup {Len(clouds) + 1}
      /\ \A i \in DOMAIN clouds : new[i] = clouds[i]
      /\ new[Len(clouds) + 1] = c
      /\ DOMAIN clouds = 1..Len(clouds) /\ Len(clouds) \in Nat
  OBVIOUS
<1> HIDE DEF new
<1>2. InOrder(new)
  <2>1. \A i \in DOMAIN new : Increasing(new[i])
    BY <1>1 DEF InOrder
  <2>2. ASSUME NEW i \in DOMAIN new, NEW j \in DOMAIN new, i < j,
               NEW m \in Numbers(new[i]), NEW n \in Numbers(new[j])
        PROVE  m < n
    <3>1. i \in DOMAIN clouds /\ new[i] = clouds[i]
      BY <1>1, <2>2
    <3>2. CASE j \in DOMAIN clouds
      BY <1>1, <2>2, <3>1, <3>2 DEF InOrder
    <3>3. CASE j = Len(clouds) + 1
      <4>1. m \in NumbersOf(clouds)
        BY <2>2, <3>1 DEF NumbersOf
      <4> QED
        BY <1>1, <2>2, <3>3, <4>1 DEF Before
    <3> QED
      BY <1>1, <2>2, <3>2, <3>3
  <2> QED
    BY <2>1, <2>2 DEF InOrder
<1>3. NumbersOf(new) = NumbersOf(clouds) \cup Numbers(c)
  BY <1>1 DEF NumbersOf
<1>4. /\ IsFiniteSet(Numbers(c)) /\ Cardinality(Numbers(c)) = Len(c.points)
      /\ Numbers(c) \subseteq Nat
  BY NumbersOfCloud
<1>5. NumbersOf(clouds) \cap Numbers(c) = {}
  <2>1. \A n \in Numbers(c) : ~(n < n)
    BY <1>4
  <2> QED
    BY <2>1 DEF Before
<1>6. Cardinality(NumbersOf(clouds)) \in Nat /\ Len(c.points) \in Nat
  BY FS_CardinalityType DEF Cloud
<1>7. Cardinality(NumbersOf(new))
        = Cardinality(NumbersOf(clouds)) + Cardinality(Numbers(c)) - Cardinality({})
  BY <1>3, <1>4, <1>5, FS_Union
<1> QED
  BY <1>2, <1>3, <1>4, <1>6, <1>7, FS_EmptySet DEF new

\* The numbers that have been given are finitely many.
LEMMA FinishedFacts ==
  ASSUME TypeOK, Counted
  PROVE  /\ Finished \in Seq(Cloud) /\ IsFiniteSet(NumbersOf(Finished))
         /\ Cardinality(NumbersOf(Finished)) \in Nat
         /\ appended \in Nat /\ discarded \in Nat
         /\ frame \in Cloud /\ frame.points \in Seq(Point) /\ Len(frame.points) \in Nat
<1>1. /\ Finished \in Seq(Cloud) /\ appended \in Nat /\ discarded \in Nat
      /\ frame \in Cloud
  BY DEF TypeOK, Finished
<1>2. IsFiniteSet(1..appended)
  BY <1>1, FS_Interval
<1>3. IsFiniteSet(NumbersOf(Finished))
  BY <1>2, FS_Subset DEF Counted, CountedIn
<1> QED
  BY <1>1, <1>3, FS_CardinalityType DEF Cloud

\* A cloud that is begun has one number, the next.
LEMMA BegunNumbers ==
  ASSUME NEW t
  PROVE  /\ Begun(t).points = <<Numbered(t, t)>> /\ Len(Begun(t).points) = 1
         /\ Numbers(Begun(t)) = {appended + 1}
         /\ Increasing(Begun(t))
<1>1. Begun(t).points = <<Numbered(t, t)>> /\ Numbered(t, t).number = appended + 1
  BY DEF Begun, Numbered
<1>2. DOMAIN Begun(t).points = {1} /\ Begun(t).points[1] = Numbered(t, t)
  BY <1>1
<1> QED
  BY <1>1, <1>2 DEF Numbers, Increasing

LEMMA InitCount == Init => CountIInv
<1> SUFFICES ASSUME Init PROVE CountIInv
  OBVIOUS
<1>1. frame = NoCloud /\ Finished = <<>> /\ appended = 0 /\ discarded = 0
  BY DEF Init, Finished
<1>2. frame.points = <<>> /\ DOMAIN frame.points = {} /\ DOMAIN Finished = {}
  BY <1>1 DEF NoCloud
<1>3. NumbersOf(Finished) = {} /\ Numbers(frame) = {}
  BY <1>2 DEF NumbersOf, Numbers
<1>4. InOrder(Finished) /\ Increasing(frame) /\ Before(Finished, frame)
  BY <1>2, <1>3 DEF InOrder, Increasing, Before
<1>5. Cardinality({}) = 0 /\ Len(<<>>) = 0
  BY FS_EmptySet
<1>6. CountedIn(Finished, frame, 0, 0)
  BY <1>2, <1>3, <1>4, <1>5, <1>1 DEF CountedIn, NoCloud
<1> QED
  BY <1>1, <1>6, Zenon DEF CountIInv, Counted

\* What was being filled is dropped, and a cloud is begun.
LEMMA AppendFirstCount ==
  ASSUME IInv, CountIInv, NEW t, AppendFirst(t)
  PROVE  CountIInv'
<1> SUFFICES ASSUME ~failed' PROVE Counted'
  BY DEF CountIInv, AppendFirst
<1>1. /\ ~failed /\ frame' = Begun(t) /\ Finished' = Finished /\ appended' = appended + 1
      /\ discarded' = discarded + Len(frame.points)
  BY DEF AppendFirst, Turn, Finished
<1>2. TypeOK /\ Counted
  BY <1>1 DEF IInv, CountIInv
<1>3. /\ Finished \in Seq(Cloud) /\ IsFiniteSet(NumbersOf(Finished))
      /\ Cardinality(NumbersOf(Finished)) \in Nat
      /\ appended \in Nat /\ discarded \in Nat /\ Len(frame.points) \in Nat
  BY <1>2, FinishedFacts
<1>4. /\ Len(Begun(t).points) = 1 /\ Numbers(Begun(t)) = {appended + 1}
      /\ Increasing(Begun(t))
  BY BegunNumbers
<1>5. Before(Finished, Begun(t))
  BY <1>2, <1>3, <1>4 DEF Before, Counted, CountedIn
<1>6. NumbersOf(Finished) \subseteq 1..(appended + 1)
  BY <1>2, <1>3 DEF Counted, CountedIn
<1>7. appended + 1 \in 1..(appended + 1)
  BY <1>3
<1>8. appended + 1 = (discarded + Len(frame.points))
                       + Cardinality(NumbersOf(Finished)) + Len(Begun(t).points)
  BY <1>2, <1>3, <1>4 DEF Counted, CountedIn
<1>9. CountedIn(Finished, Begun(t), appended + 1, discarded + Len(frame.points))
  BY <1>2, <1>4, <1>5, <1>6, <1>7, <1>8 DEF Counted, CountedIn
<1> QED
  BY <1>1, <1>9, Zenon DEF Counted

\* A point is put behind the others of its cloud.
LEMMA AppendWithinCount ==
  ASSUME IInv, CountIInv, NEW t, t \in Times, AppendWithin(t)
  PROVE  CountIInv'
<1> SUFFICES ASSUME ~failed' PROVE Counted'
  BY DEF CountIInv, AppendWithin, First
<1> DEFINE n == Numbered(t, frame.timestamp)
           c == [frame EXCEPT !.points = Append(@, n)]
<1>1. /\ ~failed /\ frame' = c /\ Finished' = Finished /\ appended' = appended + 1
      /\ discarded' = discarded
  BY DEF AppendWithin, Turn, Finished
<1>2. TypeOK /\ Counted
  BY <1>1 DEF IInv, CountIInv
<1>3. /\ Finished \in Seq(Cloud) /\ IsFiniteSet(NumbersOf(Finished))
      /\ Cardinality(NumbersOf(Finished)) \in Nat
      /\ appended \in Nat /\ discarded \in Nat
      /\ frame \in Cloud /\ frame.points \in Seq(Point) /\ Len(frame.points) \in Nat
  BY <1>2, FinishedFacts
<1>4. n.number = appended + 1
  BY DEF Numbered
<1>5. c.points = Append(frame.points, n)
  BY <1>3 DEF Cloud
<1> HIDE DEF n, c
<1>6. /\ DOMAIN c.points = DOMAIN frame.points \cup {Len(frame.points) + 1}
      /\ \A p \in DOMAIN frame.points : c.points[p] = frame.points[p]
      /\ c.points[Len(frame.points) + 1] = n
      /\ DOMAIN frame.points = 1..Len(frame.points)
      /\ Len(c.points) = Len(frame.points) + 1
  BY <1>3, <1>5
<1>7. Numbers(c) = Numbers(frame) \cup {appended + 1}
  BY <1>4, <1>6 DEF Numbers
<1>8. \A m \in Numbers(frame) : m < appended + 1
  BY <1>2, <1>3 DEF Counted, CountedIn
<1>9. Increasing(c)
  <2> SUFFICES ASSUME NEW p \in DOMAIN c.points, NEW q \in DOMAIN c.points, p < q
               PROVE  c.points[p].number < c.points[q].number
    BY DEF Increasing
  <2>1. p \in DOMAIN frame.points
    BY <1>3, <1>6
  <2>2. CASE q \in DOMAIN frame.points
    BY <1>2, <1>6, <2>1, <2>2 DEF Counted, CountedIn, Increasing
  <2>3. CASE q = Len(frame.points) + 1
    <3>1. c.points[p].number \in Numbers(frame)
      BY <1>6, <2>1 DEF Numbers
    <3> QED
      BY <1>4, <1>6, <1>8, <2>3, <3>1
  <2> QED
    BY <1>6, <2>2, <2>3
<1>10. Before(Finished, c)
  <2>1. \A m \in NumbersOf(Finished) : m < appended + 1
    BY <1>2, <1>3 DEF Counted, CountedIn
  <2> QED
    BY <1>2, <1>7, <2>1 DEF Before, Counted, CountedIn
<1>11. /\ NumbersOf(Finished) \subseteq 1..(appended + 1)
       /\ Numbers(c) \subseteq 1..(appended + 1)
  <2>1. 1..appended \subseteq 1..(appended + 1) /\ appended + 1 \in 1..(appended + 1)
    BY <1>3
  <2> QED
    BY <1>2, <1>7, <2>1 DEF Counted, CountedIn
<1>12. appended + 1 = discarded + Cardinality(NumbersOf(Finished)) + Len(c.points)
  BY <1>2, <1>3, <1>6 DEF Counted, CountedIn
<1>13. CountedIn(Finished, c, appended + 1, discarded)
  BY <1>2, <1>9, <1>10, <1>11, <1>12 DEF Counted, CountedIn
<1> QED
  BY <1>1, <1>13, Zenon DEF Counted

\* The cloud is finished, and the next one begun.
LEMMA AppendAfterCount ==
  ASSUME IInv, CountIInv, NEW t, AppendAfter(t)
  PROVE  CountIInv'
<1> SUFFICES ASSUME ~failed' PROVE Counted'
  BY DEF CountIInv, AppendAfter, First
<1>1. /\ active /\ ~failed /\ frame' = Begun(t) /\ appended' = appended + 1
      /\ discarded' = discarded /\ sent' = sent /\ completed' = Return
  BY DEF AppendAfter, Turn, First
<1>2. TypeOK /\ Counted
  BY <1>1 DEF IInv, CountIInv
<1>3. /\ Finished \in Seq(Cloud) /\ IsFiniteSet(NumbersOf(Finished))
      /\ Cardinality(NumbersOf(Finished)) \in Nat
      /\ appended \in Nat /\ discarded \in Nat
      /\ frame \in Cloud /\ Len(frame.points) \in Nat
  BY <1>2, FinishedFacts
<1> DEFINE done == Append(Finished, frame)
<1>4. Finished' = done
  <2>1. sent \in Seq(Cloud) /\ completed \in Seq(Cloud)
    BY <1>2 DEF TypeOK
  <2>2. completed' = Append(completed, frame)
    BY <1>1 DEF Return, IInv, FillsItsWindow
  <2>3. sent \o Append(completed, frame) = Append(sent \o completed, frame)
    <3>1. <<frame>> \in Seq(Cloud) /\ sent \o completed \in Seq(Cloud)
      BY <1>3, <2>1
    <3>2. /\ Append(completed, frame) = completed \o <<frame>>
          /\ Append(sent \o completed, frame) = (sent \o completed) \o <<frame>>
      BY <1>3, <2>1, <3>1, AppendIsConcat
    <3> QED
      BY <2>1, <3>1, <3>2, ConcatAssociative
  <2> QED
    BY <1>1, <2>2, <2>3 DEF Finished
<1>5. /\ InOrder(done) /\ NumbersOf(done) = NumbersOf(Finished) \cup Numbers(frame)
      /\ Cardinality(NumbersOf(done))
           = Cardinality(NumbersOf(Finished)) + Len(frame.points)
  BY <1>2, <1>3, CloudBehind DEF Counted, CountedIn
<1> HIDE DEF done
<1>6. /\ Len(Begun(t).points) = 1 /\ Numbers(Begun(t)) = {appended + 1}
      /\ Increasing(Begun(t))
  BY BegunNumbers
<1>7. NumbersOf(done) \subseteq 1..appended
  BY <1>2, <1>5 DEF Counted, CountedIn
<1>8. Before(done, Begun(t))
  BY <1>3, <1>6, <1>7 DEF Before
<1>9. /\ NumbersOf(done) \subseteq 1..(appended + 1)
      /\ Numbers(Begun(t)) \subseteq 1..(appended + 1)
  BY <1>3, <1>6, <1>7
<1>10. appended + 1 = discarded + Cardinality(NumbersOf(done)) + Len(Begun(t).points)
  BY <1>2, <1>3, <1>5, <1>6 DEF Counted, CountedIn
<1>11. CountedIn(done, Begun(t), appended + 1, discarded)
  BY <1>5, <1>6, <1>8, <1>9, <1>10 DEF CountedIn
<1> QED
  BY <1>1, <1>4, <1>11, Zenon DEF Counted

\* The cloud being filled is dropped with its points.
LEMMA ResetCount == IInv /\ CountIInv /\ Reset => CountIInv'
<1> SUFFICES ASSUME IInv, CountIInv, Reset PROVE CountIInv'
  OBVIOUS
<1>1. /\ ~failed /\ frame' = NoCloud /\ Finished' = Finished /\ appended' = appended
      /\ discarded' = discarded + Len(frame.points)
  BY DEF Reset, Finished
<1>2. TypeOK /\ Counted
  BY <1>1 DEF IInv, CountIInv
<1>3. /\ Finished \in Seq(Cloud) /\ Cardinality(NumbersOf(Finished)) \in Nat
      /\ appended \in Nat /\ discarded \in Nat /\ Len(frame.points) \in Nat
  BY <1>2, FinishedFacts
<1>4. NoCloud.points = <<>> /\ DOMAIN NoCloud.points = {} /\ Len(NoCloud.points) = 0
  BY DEF NoCloud
<1>5. Numbers(NoCloud) = {} /\ Increasing(NoCloud) /\ Before(Finished, NoCloud)
  BY <1>4 DEF Numbers, Increasing, Before
<1>6. appended = (discarded + Len(frame.points))
                   + Cardinality(NumbersOf(Finished)) + Len(NoCloud.points)
  BY <1>2, <1>3, <1>4 DEF Counted, CountedIn
<1>7. CountedIn(Finished, NoCloud, appended, discarded + Len(frame.points))
  BY <1>2, <1>5, <1>6 DEF Counted, CountedIn
<1>8. Counted'
  BY <1>1, <1>7, Zenon DEF Counted
<1> QED
  BY <1>1, <1>8 DEF CountIInv

\* No other step touches a point, but for the one that ends the session.
LEMMA OtherCount ==
  ASSUME IInv, CountIInv,
         Receive \/ RefuseBatch \/ Push \/ UNCHANGED vars \/ \E t \in Times : Overflow(t)
  PROVE  CountIInv'
<1>1. UNCHANGED <<active, frame, appended, discarded>>
  BY DEF Receive, RefuseBatch, Push, Overflow, vars, window, history
<1>2. CASE failed'
  BY <1>1, <1>2 DEF CountIInv
<1>3. CASE ~failed'
  <2>1. ~failed
    BY <1>3 DEF Receive, RefuseBatch, Push, Overflow, vars
  <2>2. Finished' = Finished
    <3>1. CASE Push
      <4>1. sent' = sent \o completed /\ completed' = <<>>
        BY <3>1 DEF Push
      <4>2. sent \o completed \in Seq(Cloud)
        BY DEF IInv, TypeOK
      <4>3. (sent \o completed) \o <<>> = sent \o completed
        BY <4>2
      <4> QED
        BY <4>1, <4>3 DEF Finished
    <3> QED
      BY <1>3, <3>1 DEF Receive, RefuseBatch, Overflow, vars, history, Finished
  <2>3. Counted'
    <3>1. Counted
      BY <2>1 DEF CountIInv
    <3> QED
      BY <1>1, <2>2, <3>1, Zenon DEF Counted
  <2> QED
    BY <1>1, <2>3 DEF CountIInv
<1> QED
  BY <1>2, <1>3

LEMMA NextCount == IInv /\ CountIInv /\ [Next]_vars => CountIInv'
<1> SUFFICES ASSUME IInv, CountIInv, [Next]_vars PROVE CountIInv'
  OBVIOUS
<1>1. CASE AppendPoint
  <2> DEFINE t == Head(batch)
  <2>1. AppendFirst(t) \/ AppendWithin(t) \/ AppendAfter(t) \/ Overflow(t)
    BY <1>1 DEF AppendPoint
  <2>2. t \in Times
    BY <1>1 DEF AppendPoint, IInv, TypeOK
  <2> QED
    BY <2>1, <2>2, AppendFirstCount, AppendWithinCount, AppendAfterCount, OtherCount
<1> QED
  BY <1>1, ResetCount, OtherCount DEF Next

\* Every point appended is in one cloud or was dropped with one, and numbers
\* increase within the clouds and from one cloud to the next.
THEOREM PointsKept == Spec => []NothingLost
<1>1. IInv /\ CountIInv => NothingLost
  <2> SUFFICES ASSUME IInv, CountIInv, ~failed PROVE NothingLost
    BY DEF NothingLost
  <2>1. TypeOK /\ Counted
    BY DEF IInv, CountIInv
  <2>2. /\ Finished \in Seq(Cloud) /\ IsFiniteSet(NumbersOf(Finished))
        /\ Cardinality(NumbersOf(Finished)) \in Nat
        /\ frame \in Cloud
    BY <2>1, FinishedFacts
  <2>3. /\ InOrder(Clouds)
        /\ Cardinality(NumbersOf(Clouds))
             = Cardinality(NumbersOf(Finished)) + Len(frame.points)
    <3>1. CASE active
      <4>1. Clouds = Append(Finished, frame)
        BY <2>2, <3>1 DEF Clouds, Finished
      <4> QED
        BY <2>1, <2>2, <4>1, CloudBehind DEF Counted, CountedIn
    <3>2. CASE ~active
      <4>1. Clouds = Finished
        BY <2>2, <3>2 DEF Clouds, Finished
      <4>2. Len(frame.points) = 0
        BY <3>2 DEF CountIInv, NoCloud
      <4> QED
        BY <2>1, <2>2, <4>1, <4>2 DEF Counted, CountedIn
    <3> QED
      BY <3>1, <3>2
  <2>4. appended = discarded + Cardinality(NumbersOf(Clouds))
    BY <2>1, <2>2, <2>3, FinishedFacts DEF Counted, CountedIn
  <2> QED
    BY <2>3, <2>4 DEF NothingLost, NumbersOf, InOrder, Increasing
<1>2. Spec => []CountIInv
  BY InitCount, NextCount, Invariance, PTL DEF Spec
<1> QED
  BY <1>1, <1>2, Invariance, PTL
=============================================================================
