------------------------ MODULE StreamControlProofs ------------------------
(***************************************************************************)
(* Proofs about StreamControl, for every set of faults and both builds.     *)
(*                                                                         *)
(* The operators of StreamControl take a state to the set of its results.   *)
(* For each of them, from the single start and stop up to the whole command,*)
(* a lemma says what holds of every result: what stays as it was, what is   *)
(* established, and that three predicates survive it: Fresh, whatever fails,*)
(* and Backed and Sound, as long as no stop does.  Next preserves IInv      *)
(* because of these.                                                        *)
(***************************************************************************)
EXTENDS StreamControl, TLAPS

-----------------------------------------------------------------------------
(* What the operators preserve. *)

Shared == {"camera", "imu"}       \* the streams of the one session they share

\* A helper that has been started exists and is active.
Helped(s) == s.started \cap Helpers \subseteq s.active \cap s.objects

\* Nothing runs on a closed client.
ClosedIdle(s) == ~s.open => s.started = {} /\ s.active = {}

\* If no start is answered with other settings, the device runs what the flags say
\* it does, no other helper is active, and no operation has met a session.
Accounted(s) ==
  "mismatch" \notin faults => s.owed = s.started /\ s.active \subseteq s.started /\ ~s.busy

\* What is flagged as started runs on the device, and the next start of a configured
\* helper is not taken for one that is active already.
Backed(s) == s.started \subseteq s.owed /\ s.cfg \cap s.active \subseteq s.started

\* What holds throughout a session in which no stop fails.
Sound(s) == s.started \subseteq s.cfg /\ Helped(s) /\ ClosedIdle(s) /\ Accounted(s)

Watched(s) == s.monitored = s.started \cap Capture

\* No frame of an earlier capture session is left where one is about to start.
SharedRun(s) == s.cfg \cap Shared \subseteq s.started
NothingHeld(s) == s.held \cap {"assembler", "resolver"} = {}
Fresh(s) == ~s.stale /\ (SharedRun(s) \/ NothingHeld(s))

Equipped(s) == s.cfg \cap Helpers \subseteq s.objects

Keeps(s, t) == /\ t.cfg = s.cfg /\ t.up = s.up /\ t.open = s.open
               /\ t.fatal = s.fatal /\ t.busy = s.busy

\* Nothing but what is held and what is watched differs.
SameStreams(s, t) ==
  /\ Keeps(s, t) /\ t.started = s.started /\ t.active = s.active
  /\ t.objects = s.objects /\ t.owed = s.owed /\ t.stale = s.stale

\* One stage of startConfiguredStreams: r is what comes of s.
Starts(s, r) ==
  /\ r.state \in State /\ Keeps(s, r.state)
  /\ s.started \subseteq r.state.started
  /\ Equipped(s) => Equipped(r.state)
  /\ Sound(s) /\ Equipped(s) => Sound(r.state)
  /\ Fresh(s) => Fresh(r.state)
  /\ r.ok /\ Watched(s) => Watched(r.state)
  /\ r.ok /\ Backed(s) => Backed(r.state)

\* startConfiguredStreams: r is what comes of s.
Resumes(s, r) ==
  /\ r.state \in State /\ Keeps(s, r.state)
  /\ Sound(s) => Sound(r.state)
  /\ Fresh(s) => Fresh(r.state)
  /\ r.ok => /\ s.cfg \subseteq r.state.started
             /\ Watched(s) => Watched(r.state)
             /\ Backed(s) => Backed(r.state)

\* One stage of stopConfiguredStreams: r is what comes of s.
Stops(s, r) ==
  /\ r.state \in State /\ Keeps(s, r.state)
  /\ r.state.stale = s.stale /\ r.state.held \subseteq s.held
  /\ r.state.monitored = s.monitored /\ r.state.started \subseteq s.started
  /\ r.state.active \subseteq s.active
  /\ r.state.active \cap (s.started \ r.state.started) = {}
  /\ StopsWork /\ Sound(s) => r.ok /\ Sound(r.state)

\* No stream is started and none is watched.
Quiet(s) == s.started = {} /\ s.monitored = {}

\* stopConfiguredStreams: r is what comes of s.
Pauses(s, r) ==
  /\ r.state \in State /\ Keeps(s, r.state) /\ r.state.stale = s.stale
  /\ ~r.ok => /\ Fresh(s) => Fresh(r.state)
              /\ SharedRun(s) => SharedRun(r.state)
  /\ StopsWork /\ Sound(s) => /\ r.ok /\ Sound(r.state) /\ Quiet(r.state)
                              /\ r.state.active \cap s.started = {}

-----------------------------------------------------------------------------
(* Results. *)

LEMMA Results ==
  ASSUME NEW s
  PROVE  /\ Returned(s).state = s /\ Returned(s).ok
         /\ Thrown(s).state = s /\ ~Thrown(s).ok
BY DEF Returned, Thrown

LEMMA CallCases ==
  ASSUME NEW s, NEW f, NEW fault, NEW r \in Call(s, f, fault)
  PROVE  \/ s.open /\ r = Returned(s)
         \/ (fault \in faults \/ ~s.open) /\ r = Thrown(f)
BY DEF Call

LEMMA AcknowledgedPost ==
  ASSUME NEW s \in State, NEW x \in Streams, NEW remains
  PROVE  /\ Acknowledged(s, x, remains) \in State /\ Keeps(s, Acknowledged(s, x, remains))
         /\ Acknowledged(s, x, remains).owed = s.owed \cup {x}
         /\ Acknowledged(s, x, remains).stale = (s.stale \/ s.held \cap remains # {})
         /\ \A f \in {"started", "objects", "active", "monitored", "held"} :
              Acknowledged(s, x, remains)[f] = s[f]
<1> DEFINE b == s.stale \/ s.held \cap remains # {}
<1>1. b \in BOOLEAN
  BY Zenon
<1>2. Acknowledged(s, x, remains) = [s EXCEPT !.owed = s.owed \cup {x}, !.stale = b]
  BY Zenon DEF Acknowledged
<1> HIDE DEF b
<1>3. [s EXCEPT !.owed = s.owed \cup {x}, !.stale = b] \in State
  BY <1>1 DEF State
<1>4. \A f \in {"started", "objects", "active", "monitored", "held"} :
        [s EXCEPT !.owed = s.owed \cup {x}, !.stale = b][f] = s[f]
  BY DEF State
<1>5. /\ Keeps(s, [s EXCEPT !.owed = s.owed \cup {x}, !.stale = b])
      /\ [s EXCEPT !.owed = s.owed \cup {x}, !.stale = b].owed = s.owed \cup {x}
      /\ [s EXCEPT !.owed = s.owed \cup {x}, !.stale = b].stale = b
  BY DEF State, Keeps
<1> QED
  BY <1>2, <1>3, <1>4, <1>5, Zenon DEF b

\* A state that a start stage leaves alone.
LEMMA StartsNothing ==
  ASSUME NEW s \in State, NEW r, r = Returned(s) \/ r = Thrown(s)
  PROVE  Starts(s, r)
BY Results DEF Starts, Keeps

LEMMA StartsCompose ==
  ASSUME NEW s, NEW q, NEW r, q.ok, Starts(s, q), Starts(q.state, r)
  PROVE  Starts(s, r)
BY DEF Starts, Keeps

-----------------------------------------------------------------------------
(* The stages of startConfiguredStreams. *)

LEMMA EnsurePost ==
  ASSUME NEW s \in State
  PROVE  LET t == EnsureStreamObjects(s)
         IN /\ t \in State /\ Keeps(s, t) /\ Equipped(t) /\ t.owed = s.owed
            /\ Sound(s) => Sound(t)
            /\ Fresh(s) => Fresh(t)
            /\ Watched(s) => Watched(t)
            /\ Backed(s) => Backed(t)
<1> DEFINE t == EnsureStreamObjects(s)
<1>1. t \in State /\ Keeps(s, t) /\ Equipped(t)
  BY DEF EnsureStreamObjects, State, Keeps, Equipped
<1>2. t.started = s.started /\ t.monitored = s.monitored /\ t.held = s.held
      /\ t.owed = s.owed /\ t.stale = s.stale /\ t.active = s.active
      /\ t.objects = s.objects \cup (s.cfg \cap Helpers)
  BY DEF EnsureStreamObjects, State
<1> HIDE DEF t
<1>3. Sound(s) => Sound(t)
  BY <1>1, <1>2 DEF Sound, Helped, ClosedIdle, Accounted, Keeps
<1>4. (Fresh(s) => Fresh(t)) /\ (Watched(s) => Watched(t)) /\ (Backed(s) => Backed(t))
  BY <1>1, <1>2 DEF Fresh, SharedRun, NothingHeld, Watched, Backed, Keeps
<1> QED
  BY <1>1, <1>2, <1>3, <1>4 DEF t

LEMMA StartCameraPost ==
  ASSUME NEW s \in State, NEW r \in StartCamera(s)
  PROVE  Starts(s, r) /\ (r.ok => s.cfg \cap {"camera"} \subseteq r.state.started)
<1> DEFINE t == [Acknowledged(s, "camera", {"assembler", "resolver"}) EXCEPT
                   !.started = @ \cup {"camera"}, !.monitored = @ \cup {"camera"}]
<1> DEFINE a == Acknowledged(s, "camera", {"assembler", "resolver"})
<1>0. a \in State
  BY AcknowledgedPost DEF Streams, Capture
<1>1. t \in State /\ Keeps(s, t)
  <2>1. t \in State
    BY <1>0 DEF State, Streams, Capture
  <2>2. Keeps(s, t)
    BY DEF Acknowledged, State, Keeps
  <2> QED
    BY <2>1, <2>2
<1>2. /\ t.started = s.started \cup {"camera"} /\ t.active = s.active
      /\ t.objects = s.objects /\ t.owed = s.owed \cup {"camera"}
      /\ t.monitored = s.monitored \cup {"camera"} /\ t.held = s.held
      /\ t.stale = (s.stale \/ s.held \cap {"assembler", "resolver"} # {})
  BY DEF Acknowledged, State
<1>3. \/ ~Wanted(s, "camera") /\ r = Returned(s)
      \/ r = Thrown(s)
      \/ Wanted(s, "camera") /\ s.open /\ r = Returned(t)
  <2>1. CASE ~Wanted(s, "camera")
    BY <2>1 DEF StartCamera
  <2>2. CASE Wanted(s, "camera") /\ r \in Call(t, s, "start")
    BY <2>2, <1>1, CallCases DEF Keeps
  <2>3. CASE r \in Refused(s)
    BY <2>3 DEF Refused
  <2> QED
    BY <2>1, <2>2, <2>3 DEF StartCamera
<1> HIDE DEF t
<1>4. CASE ~Wanted(s, "camera") /\ r = Returned(s)
  BY <1>4, StartsNothing, Results DEF Wanted
<1>5. CASE r = Thrown(s)
  BY <1>5, StartsNothing, Results
<1>6. CASE Wanted(s, "camera") /\ s.open /\ r = Returned(t)
  <2>1. Sound(s) => Sound(t)
    BY <1>1, <1>2, <1>6 DEF Sound, Helped, ClosedIdle, Accounted, Keeps, Wanted, Helpers
  <2>2. Fresh(s) => Fresh(t)
    BY <1>1, <1>2, <1>6 DEF Fresh, SharedRun, NothingHeld, Shared, Wanted, Keeps
  <2>3. Watched(s) => Watched(t)
    BY <1>2 DEF Watched, Capture
  <2>4. Backed(s) => Backed(t)
    BY <1>1, <1>2 DEF Backed, Keeps
  <2> QED
    BY <1>1, <1>2, <1>6, <2>1, <2>2, <2>3, <2>4, Results DEF Starts, Equipped, Keeps
<1> QED
  BY <1>3, <1>4, <1>5, <1>6

LEMMA StartsTouch ==
  ASSUME NEW s, NEW r, r.state \in State, SameStreams(s, r.state),
         Fresh(s) => SharedRun(s) \/ NothingHeld(r.state),
         r.ok => r.state.monitored = s.monitored
  PROVE  Starts(s, r)
<1> DEFINE t == r.state
<1> HIDE DEF t
<1>1. SameStreams(s, t)
  BY DEF t
<1>2. Sound(s) => Sound(t)
  BY <1>1 DEF SameStreams, Sound, Helped, ClosedIdle, Accounted, Keeps
<1>3. Fresh(s) => Fresh(t)
  BY <1>1 DEF SameStreams, Fresh, SharedRun, Keeps, t
<1> QED
  BY <1>1, <1>2, <1>3 DEF SameStreams, Starts, Equipped, Watched, Backed, Keeps, t

LEMMA StartHelpedPost ==
  ASSUME NEW s \in State, NEW x \in Helpers, NEW remains \in SUBSET FrameState,
         Wanted(s, x), Fresh(s) => s.held \cap remains = {},
         NEW r \in StartHelped(s, x, remains)
  PROVE  Starts(s, r) /\ (r.ok => x \in r.state.started)
<1> DEFINE w == [s EXCEPT !.monitored = @ \cup {x}]
           t == [Acknowledged(w, x, remains) EXCEPT !.active = @ \cup {x}]
           Flagged(u) == [u EXCEPT !.started = @ \cup {x}]
<1>1. w \in State /\ t \in State /\ Flagged(w) \in State /\ Flagged(t) \in State
  <2>1. w \in State
    BY DEF State, Capture, Helpers
  <2>2. Acknowledged(w, x, remains) \in State
    BY <2>1, AcknowledgedPost DEF Streams, Capture, Helpers
  <2>3. t \in State
    BY <2>2 DEF State, Helpers
  <2>4. \A u \in State : Flagged(u) \in State
    BY DEF State, Streams, Capture, Helpers
  <2> QED
    BY <2>1, <2>3, <2>4
<1>2. /\ w.started = s.started /\ w.active = s.active /\ w.objects = s.objects
      /\ w.owed = s.owed /\ w.stale = s.stale /\ w.held = s.held
      /\ w.monitored = s.monitored \cup {x} /\ Keeps(s, w)
  BY DEF State, Keeps
<1>3. /\ t.started = s.started /\ t.active = s.active \cup {x} /\ t.objects = s.objects
      /\ t.owed = s.owed \cup {x} /\ t.stale = (s.stale \/ s.held \cap remains # {})
      /\ t.held = s.held /\ t.monitored = w.monitored /\ Keeps(s, t)
  BY <1>2 DEF State, Keeps, Acknowledged
<1>4. \A u \in {w, t} :
        /\ Flagged(u).started = s.started \cup {x} /\ Flagged(u).active = u.active
        /\ Flagged(u).objects = s.objects /\ Flagged(u).owed = u.owed
        /\ Flagged(u).stale = u.stale /\ Flagged(u).held = s.held
        /\ Flagged(u).monitored = s.monitored \cup {x} /\ Keeps(s, Flagged(u))
  BY <1>1, <1>2, <1>3 DEF State, Keeps
<1>5. \/ x \in s.active /\ r = Returned(Flagged(w))
      \/ r = Thrown(w)
      \/ s.open /\ r = Returned(Flagged(t))
      \/ s.open /\ "mismatch" \in faults /\ r = Thrown(t)
  <2>0. \/ r \in HelperStart(w, x, remains) /\ ~r.ok
        \/ \E q \in HelperStart(w, x, remains) :
             q.ok /\ r = Returned(Flagged(q.state))
    BY DEF StartHelped, Then
  <2> HIDE DEF Flagged
  <2>1. PICK q \in HelperStart(w, x, remains) :
          (q = r /\ ~q.ok) \/ (q.ok /\ r = Returned(Flagged(q.state)))
    BY <2>0, Zenon
  <2>2. \/ x \in s.active /\ q = Returned(w)
        \/ q \in Call(t, w, "start")
        \/ "mismatch" \in faults /\ s.open /\ q = Thrown(t)
    BY <1>2 DEF HelperStart, Keeps
  <2>3. CASE q \in Call(t, w, "start")
    <3>0. (IF t.open THEN {Returned(t)} ELSE {})
            \cup (IF "start" \in faults \/ ~t.open THEN {Thrown(w)} ELSE {})
          = Call(t, w, "start")
      BY Zenon DEF Call
    <3>1. q = Thrown(w) \/ (s.open /\ q = Returned(t))
      <4> HIDE DEF t, w
      <4> QED
        BY <1>2, <1>3, <2>3, <3>0 DEF Keeps
    <3> HIDE DEF t, w, Flagged
    <3> QED
      BY <2>1, <3>1, Results
  <2> HIDE DEF t, w, Flagged
  <2> QED
    BY <2>1, <2>2, <2>3, Results
<1> HIDE DEF t, w, Flagged
<1>6. CASE r = Thrown(w)
  <2>1. r.state = w /\ ~r.ok
    BY <1>6, Results
  <2>2. SameStreams(s, r.state) /\ (Fresh(s) => SharedRun(s) \/ NothingHeld(r.state))
    BY <1>2, <2>1 DEF SameStreams, Fresh, NothingHeld
  <2> QED
    BY <1>1, <2>1, <2>2, StartsTouch
<1>7. CASE s.open /\ "mismatch" \in faults /\ r = Thrown(t)
  <2>1. Sound(s) => Sound(t)
    BY <1>3, <1>7 DEF Sound, Helped, ClosedIdle, Accounted, Keeps
  <2>2. Fresh(s) => Fresh(t)
    BY <1>3 DEF Fresh, SharedRun, NothingHeld, Keeps
  <2> QED
    BY <1>1, <1>3, <1>7, <2>1, <2>2, Results DEF Starts, Equipped, Keeps
<1>8. ASSUME NEW u, (u = w /\ x \in s.active) \/ (u = t /\ s.open), r = Returned(Flagged(u))
      PROVE  Starts(s, r) /\ (r.ok => x \in r.state.started)
  <2> DEFINE v == Flagged(u)
  <2>1. /\ v \in State /\ Keeps(s, v) /\ v.started = s.started \cup {x}
        /\ v.active = u.active /\ v.objects = s.objects /\ v.owed = u.owed
        /\ v.stale = u.stale /\ v.held = s.held /\ v.monitored = s.monitored \cup {x}
    BY <1>1, <1>4, <1>8
  <2> HIDE DEF v
  <2>2. ASSUME Sound(s), Equipped(s)
        PROVE  Sound(v)
    <3>1. x \in s.cfg /\ x \in v.active /\ x \in v.objects /\ s.active \subseteq v.active
      BY <1>2, <1>3, <1>8, <2>1, <2>2 DEF Wanted, Equipped
    <3>2. v.started \subseteq v.cfg /\ Helped(v)
      BY <2>1, <2>2, <3>1 DEF Sound, Helped, Keeps
    <3>3. ClosedIdle(v)
      BY <1>8, <2>1, <2>2 DEF Sound, ClosedIdle, Keeps
    <3>4. Accounted(v)
      BY <1>2, <1>3, <1>8, <2>1, <2>2 DEF Sound, Accounted, Keeps
    <3> QED
      BY <3>2, <3>3, <3>4 DEF Sound
  <2>3. Fresh(s) => Fresh(v)
    BY <1>2, <1>3, <1>8, <2>1 DEF Fresh, SharedRun, NothingHeld, Keeps
  <2>4. Watched(s) => Watched(v)
    BY <2>1 DEF Watched, Capture, Helpers
  <2>5. Backed(s) => Backed(v)
    BY <1>2, <1>3, <1>8, <2>1 DEF Backed, Keeps, Wanted
  <2> QED
    BY <1>8, <2>1, <2>2, <2>3, <2>4, <2>5, Results DEF Starts, Equipped, Keeps, v
<1>9. CASE x \in s.active /\ r = Returned(Flagged(w))
  BY <1>8, <1>9
<1>10. CASE s.open /\ r = Returned(Flagged(t))
  BY <1>8, <1>10
<1> QED
  BY <1>5, <1>6, <1>7, <1>9, <1>10, Results

LEMMA StartImuPost ==
  ASSUME NEW s \in State, NEW r \in StartImu(s)
  PROVE  Starts(s, r) /\ (r.ok => s.cfg \cap {"imu"} \subseteq r.state.started)
<1>1. CASE ~Wanted(s, "imu")
  BY <1>1, StartsNothing, Results DEF StartImu, Wanted
<1>2. CASE Wanted(s, "imu")
  <2>1. Fresh(s) => s.held \cap {"resolver"} = {}
    BY <1>2 DEF Fresh, SharedRun, NothingHeld, Shared, Wanted
  <2>2. "imu" \in Helpers /\ {"resolver"} \in SUBSET FrameState
    BY DEF Helpers, FrameState
  <2>3. r \in StartHelped(s, "imu", {"resolver"})
    BY <1>2 DEF StartImu
  <2> QED
    BY <1>2, <2>1, <2>2, <2>3, StartHelpedPost
<1> QED
  BY <1>1, <1>2

LEMMA EstablishPost ==
  ASSUME NEW s \in State, SharedRun(s), NEW r \in EstablishDeviceTimeReference(s)
  PROVE  Starts(s, r)
<1> DEFINE read == [s EXCEPT !.held = @ \cup {"assembler", "resolver"}]
<1>1. r = Returned(s) \/ r = Returned(read) \/ r = Thrown(read)
  BY CallCases DEF EstablishDeviceTimeReference
<1>2. read \in State /\ read.monitored = s.monitored /\ SameStreams(s, read)
  BY DEF State, FrameState, SameStreams, Keeps
<1> HIDE DEF read
<1>3. CASE r = Returned(s)
  BY <1>3, StartsNothing
<1>4. CASE r.state = read
  BY <1>2, <1>4, StartsTouch
<1> QED
  BY <1>1, <1>3, <1>4, Results

LEMMA StartRoverPost ==
  ASSUME NEW s \in State, NEW r \in StartRover(s)
  PROVE  Starts(s, r) /\ (r.ok => s.cfg \cap {"rover"} \subseteq r.state.started)
<1> DEFINE t == [Acknowledged(s, "rover", {}) EXCEPT !.started = @ \cup {"rover"}]
<1>1. t \in State /\ Keeps(s, t)
  BY DEF Acknowledged, State, Streams, Capture, Keeps
<1>2. /\ t.started = s.started \cup {"rover"} /\ t.active = s.active
      /\ t.objects = s.objects /\ t.owed = s.owed \cup {"rover"}
      /\ t.monitored = s.monitored /\ t.held = s.held /\ t.stale = s.stale
  BY DEF Acknowledged, State
<1>3. \/ ~Wanted(s, "rover") /\ r = Returned(s)
      \/ r = Thrown(s)
      \/ Wanted(s, "rover") /\ s.open /\ r = Returned(t)
  <2>1. CASE ~Wanted(s, "rover")
    BY <2>1 DEF StartRover
  <2>2. CASE Wanted(s, "rover") /\ r \in Call(t, s, "start")
    BY <2>2, <1>1, CallCases DEF Keeps
  <2>3. CASE r \in Refused(s)
    BY <2>3 DEF Refused
  <2> QED
    BY <2>1, <2>2, <2>3 DEF StartRover
<1> HIDE DEF t
<1>4. CASE ~Wanted(s, "rover") /\ r = Returned(s)
  BY <1>4, StartsNothing, Results DEF Wanted
<1>5. CASE r = Thrown(s)
  BY <1>5, StartsNothing, Results
<1>6. CASE Wanted(s, "rover") /\ s.open /\ r = Returned(t)
  <2>1. Sound(s) => Sound(t)
    BY <1>1, <1>2, <1>6 DEF Sound, Helped, ClosedIdle, Accounted, Keeps, Wanted, Helpers
  <2>2. Fresh(s) => Fresh(t)
    BY <1>1, <1>2 DEF Fresh, SharedRun, NothingHeld, Keeps
  <2>3. Watched(s) => Watched(t)
    BY <1>2 DEF Watched, Capture
  <2>4. Backed(s) => Backed(t)
    BY <1>1, <1>2 DEF Backed, Keeps
  <2> QED
    BY <1>1, <1>2, <1>6, <2>1, <2>2, <2>3, <2>4, Results DEF Starts, Equipped, Keeps
<1> QED
  BY <1>3, <1>4, <1>5, <1>6

LEMMA StartLidarPost ==
  ASSUME NEW s \in State, NEW r \in StartLidar(s)
  PROVE  Starts(s, r) /\ (r.ok => s.cfg \cap {"lidar"} \subseteq r.state.started)
<1> DEFINE f == [s EXCEPT !.held = @ \ {"accumulator"}]
           m == [f EXCEPT !.monitored = @ \cup {"lidar"}]
<1>1. /\ f \in State /\ m \in State /\ f.monitored = s.monitored
      /\ f.held = s.held \ {"accumulator"} /\ m.held = f.held
      /\ f.cfg = s.cfg /\ f.started = s.started
  BY DEF State, Capture
<1>2. SameStreams(s, f) /\ SameStreams(s, m)
  BY DEF State, SameStreams, Keeps
<1>3. \/ ~Wanted(s, "lidar") /\ r = Returned(s)
      \/ Wanted(s, "lidar") /\ r \in StartHelped(f, "lidar", {"accumulator"})
      \/ r = Thrown(m)
  BY DEF StartLidar, Refused
<1> HIDE DEF f, m
<1>4. CASE ~Wanted(s, "lidar") /\ r = Returned(s)
  BY <1>4, StartsNothing, Results DEF Wanted
<1>5. Fresh(s) => SharedRun(s) \/ (NothingHeld(f) /\ NothingHeld(m))
  BY <1>1 DEF Fresh, NothingHeld
<1>6. CASE r = Thrown(m)
  <2>1. r.state = m /\ ~r.ok
    BY <1>6, Results
  <2> QED
    BY <1>1, <1>2, <1>5, <2>1, StartsTouch
<1>7. CASE Wanted(s, "lidar") /\ r \in StartHelped(f, "lidar", {"accumulator"})
  <2>1. Starts(s, Returned(f))
    <3>1. Returned(f).state = f
      BY Results
    <3> QED
      BY <1>1, <1>2, <1>5, <3>1, StartsTouch
  <2>2. Wanted(f, "lidar") /\ f.held \cap {"accumulator"} = {}
    BY <1>1, <1>7 DEF Wanted
  <2>3. "lidar" \in Helpers /\ {"accumulator"} \in SUBSET FrameState
    BY DEF Helpers, FrameState
  <2>4. Starts(f, r) /\ (r.ok => "lidar" \in r.state.started)
    BY <1>1, <1>7, <2>2, <2>3, StartHelpedPost
  <2> QED
    BY <2>1, <2>4, StartsCompose, Results
<1> QED
  BY <1>3, <1>4, <1>6, <1>7

LEMMA StartConfiguredStreamsPost ==
  ASSUME NEW s \in State, NEW r \in StartConfiguredStreams(s)
  PROVE  Resumes(s, r)
<1> DEFINE e == EnsureStreamObjects(s)
           A == StartCamera(e)
           B == Then(A, StartImu)
           C == Then(B, EstablishDeviceTimeReference)
           D == Then(C, StartRover)
<1>1. /\ e \in State /\ Keeps(s, e) /\ Equipped(e)
      /\ (Sound(s) => Sound(e)) /\ (Fresh(s) => Fresh(e)) /\ (Watched(s) => Watched(e))
      /\ (Backed(s) => Backed(e))
  BY EnsurePost
<1> HIDE DEF e
<1>2. ASSUME NEW q \in A
      PROVE  Starts(e, q) /\ (q.ok => e.cfg \cap {"camera"} \subseteq q.state.started)
  BY <1>1, <1>2, StartCameraPost DEF A
<1> HIDE DEF A
<1>3. ASSUME NEW q \in B
      PROVE  Starts(e, q) /\ (q.ok => e.cfg \cap Shared \subseteq q.state.started)
  <2>1. CASE q \in A /\ ~q.ok
    BY <1>2, <2>1
  <2>2. CASE \E p \in A : p.ok /\ q \in StartImu(p.state)
    <3>1. PICK p \in A : p.ok /\ q \in StartImu(p.state)
      BY <2>2
    <3>2. p.state \in State /\ Starts(p.state, q)
          /\ (q.ok => p.state.cfg \cap {"imu"} \subseteq q.state.started)
      BY <1>2, <3>1, StartImuPost DEF Starts
    <3> QED
      BY <1>2, <3>1, <3>2, StartsCompose DEF Starts, Keeps, Shared
  <2> QED
    BY <2>1, <2>2 DEF Then
<1> HIDE DEF B
<1>4. ASSUME NEW q \in C
      PROVE  Starts(e, q) /\ (q.ok => e.cfg \cap Shared \subseteq q.state.started)
  <2>1. CASE q \in B /\ ~q.ok
    BY <1>3, <2>1
  <2>2. CASE \E p \in B : p.ok /\ q \in EstablishDeviceTimeReference(p.state)
    <3>1. PICK p \in B : p.ok /\ q \in EstablishDeviceTimeReference(p.state)
      BY <2>2
    <3>2. p.state \in State /\ SharedRun(p.state)
      BY <1>3, <3>1 DEF Starts, Keeps, SharedRun
    <3>3. Starts(p.state, q)
      BY <3>1, <3>2, EstablishPost
    <3> QED
      BY <1>3, <3>1, <3>3, StartsCompose DEF Starts, Keeps
  <2> QED
    BY <2>1, <2>2 DEF Then
<1> HIDE DEF C
<1>5. ASSUME NEW q \in D
      PROVE  /\ Starts(e, q)
             /\ q.ok => e.cfg \cap (Shared \cup {"rover"}) \subseteq q.state.started
  <2>1. CASE q \in C /\ ~q.ok
    BY <1>4, <2>1
  <2>2. CASE \E p \in C : p.ok /\ q \in StartRover(p.state)
    <3>1. PICK p \in C : p.ok /\ q \in StartRover(p.state)
      BY <2>2
    <3>2. p.state \in State /\ Starts(p.state, q)
          /\ (q.ok => p.state.cfg \cap {"rover"} \subseteq q.state.started)
      BY <1>4, <3>1, StartRoverPost DEF Starts
    <3> QED
      BY <1>4, <3>1, <3>2, StartsCompose DEF Starts, Keeps
  <2> QED
    BY <2>1, <2>2 DEF Then
<1> HIDE DEF D
<1>6. r \in Then(D, StartLidar)
  BY DEF StartConfiguredStreams, D, C, B, A, e
<1>7. Starts(e, r) /\ (r.ok => e.cfg \subseteq r.state.started)
  <2>1. CASE r \in D /\ ~r.ok
    BY <1>5, <2>1
  <2>2. CASE \E p \in D : p.ok /\ r \in StartLidar(p.state)
    <3>1. PICK p \in D : p.ok /\ r \in StartLidar(p.state)
      BY <2>2
    <3>2. p.state \in State /\ Starts(p.state, r)
          /\ (r.ok => p.state.cfg \cap {"lidar"} \subseteq r.state.started)
      BY <1>5, <3>1, StartLidarPost DEF Starts
    <3>3. Starts(e, r) /\ p.state.cfg = e.cfg /\ p.state.started \subseteq r.state.started
      BY <1>5, <3>1, <3>2, StartsCompose DEF Starts, Keeps
    <3>4. e.cfg \subseteq Shared \cup {"rover", "lidar"}
      BY <1>1 DEF State, Streams, Capture, Shared
    <3> QED
      BY <1>5, <3>1, <3>2, <3>3, <3>4
  <2> QED
    BY <1>6, <2>1, <2>2 DEF Then
<1> QED
  BY <1>1, <1>7 DEF Starts, Resumes, Keeps

-----------------------------------------------------------------------------
(* The stages of stopConfiguredStreams. *)

LEMMA HelperStopPost ==
  ASSUME NEW s \in State, NEW x \in Helpers, NEW r \in HelperStop(s, x)
  PROVE  /\ r.state \in State /\ Keeps(s, r.state)
         /\ r.state.active = s.active \ {x} /\ r.state.owed \subseteq s.owed
         /\ \A f \in {"started", "objects", "monitored", "held", "stale"} :
              r.state[f] = s[f]
         /\ StopsWork => r.ok
         /\ x \in s.active /\ s.open => r.state.owed = s.owed \ Together(x)
<1> DEFINE inactive == [s EXCEPT !.active = @ \ {x}]
           sent == [inactive EXCEPT !.owed = @ \ Together(x)]
<1>1. \/ x \notin s.active /\ r = Returned(s)
      \/ ~s.open /\ r = Returned(inactive)
      \/ r \in Call(sent, sent, "stop")
  BY DEF HelperStop
<1>2. /\ inactive \in State /\ Keeps(s, inactive) /\ inactive.active = s.active \ {x}
      /\ inactive.owed = s.owed
      /\ \A f \in {"started", "objects", "monitored", "held", "stale"} :
           inactive[f] = s[f]
  BY DEF State, Keeps
<1>3. /\ sent \in State /\ Keeps(s, sent) /\ sent.active = s.active \ {x}
      /\ sent.owed = s.owed \ Together(x)
      /\ \A f \in {"started", "objects", "monitored", "held", "stale"} : sent[f] = s[f]
  <2> HIDE DEF inactive
  <2> QED
    BY <1>2 DEF State, Keeps
<1> HIDE DEF inactive, sent
<1>4. CASE x \notin s.active /\ r = Returned(s)
  BY <1>4, Results DEF Keeps, State
<1>5. CASE ~s.open /\ r = Returned(inactive)
  BY <1>2, <1>5, Results
<1>6. CASE s.open /\ r \in Call(sent, sent, "stop")
  <2>1. r.state = sent /\ (StopsWork => r.ok)
    <3>1. r = Returned(sent) \/ (("stop" \in faults \/ ~sent.open) /\ r = Thrown(sent))
      BY <1>6, CallCases
    <3> QED
      BY <1>3, <1>6, <3>1, Results DEF Keeps, StopsWork
  <2> QED
    BY <1>3, <2>1
<1>7. r \in Call(sent, sent, "stop") => s.open \/ (x \notin s.active /\ r = Returned(s))
                                     \/ (~s.open /\ r = Returned(inactive))
  BY DEF HelperStop, inactive, sent
<1> QED
  BY <1>1, <1>4, <1>5, <1>6, <1>7

LEMMA StopRoverPost ==
  ASSUME NEW s \in State, NEW r \in StopRover(s)
  PROVE  /\ Stops(s, r) /\ (SharedRun(s) => SharedRun(r.state))
         /\ r.ok => "rover" \notin r.state.started
<1> DEFINE sent == [s EXCEPT !.owed = @ \ {"rover"}]
           done == [sent EXCEPT !.started = @ \ {"rover"}]
<1>1. /\ sent \in State /\ Keeps(s, sent) /\ sent.owed = s.owed \ {"rover"}
      /\ sent.objects = s.objects /\ sent.active = s.active /\ sent.started = s.started
      /\ sent.monitored = s.monitored /\ sent.held = s.held /\ sent.stale = s.stale
  BY DEF State, Keeps
<1>2. /\ done \in State /\ Keeps(s, done) /\ done.owed = s.owed \ {"rover"}
      /\ done.objects = s.objects /\ done.active = s.active
      /\ done.started = s.started \ {"rover"}
      /\ done.monitored = s.monitored /\ done.held = s.held /\ done.stale = s.stale
  <2> HIDE DEF sent
  <2> QED
    BY <1>1 DEF State, Keeps
<1>3. \/ "rover" \notin s.started /\ r = Returned(s)
      \/ "rover" \in s.started /\ r \in Call(done, sent, "stop")
  BY DEF StopRover
<1> HIDE DEF sent, done
<1>4. CASE "rover" \notin s.started /\ r = Returned(s)
  BY <1>4, Results DEF Stops, Keeps
<1>5. CASE r = Returned(done)
  <2>1. Sound(s) => Sound(done)
    BY <1>2 DEF Sound, Helped, ClosedIdle, Accounted, Keeps, State, Helpers
  <2>2. SharedRun(s) => SharedRun(done)
    BY <1>2 DEF SharedRun, Shared, Keeps
  <2> QED
    BY <1>2, <1>5, <2>1, <2>2, Results DEF Stops, State, Helpers
<1>6. CASE ("stop" \in faults \/ ~s.open) /\ "rover" \in s.started /\ r = Thrown(sent)
  <2>1. ~(StopsWork /\ Sound(s))
    BY <1>6 DEF StopsWork, Sound, ClosedIdle
  <2>2. SharedRun(s) => SharedRun(sent)
    BY <1>1 DEF SharedRun, Keeps
  <2> QED
    BY <1>1, <1>6, <2>1, <2>2, Results DEF Stops
<1>7. CASE "rover" \in s.started /\ r \in Call(done, sent, "stop")
  <2>1. r = Returned(done) \/ (("stop" \in faults \/ ~done.open) /\ r = Thrown(sent))
    BY <1>7, CallCases
  <2> QED
    BY <1>2, <1>5, <1>6, <1>7, <2>1 DEF Keeps
<1> QED
  BY <1>3, <1>4, <1>7

LEMMA StopLidarPost ==
  ASSUME NEW s \in State, NEW r \in StopLidar(s)
  PROVE  /\ Stops(s, r) /\ (SharedRun(s) => SharedRun(r.state))
         /\ r.ok /\ Helped(s) => "lidar" \notin r.state.started
<1> DEFINE Flagged(u) == [u EXCEPT !.started = @ \ {"lidar"}, !.held = @ \ {"accumulator"}]
<1>1. CASE "lidar" \notin s.started \cap s.objects
  <2>1. r = Returned(s)
    BY <1>1, Zenon DEF StopLidar, Then
  <2> QED
    BY <1>1, <2>1, Results DEF Stops, Keeps, Helped, Helpers
<1>2. CASE "lidar" \in s.started \cap s.objects
  <2>1. \/ r \in HelperStop(s, "lidar") /\ ~r.ok
        \/ \E q \in HelperStop(s, "lidar") : q.ok /\ r = Returned(Flagged(q.state))
    BY <1>2, Zenon DEF StopLidar, Then
  <2> HIDE DEF Flagged
  <2>2. "lidar" \in Helpers
    BY DEF Helpers
  <2>3. CASE r \in HelperStop(s, "lidar") /\ ~r.ok
    <3>1. /\ r.state \in State /\ Keeps(s, r.state) /\ r.state.started = s.started
          /\ r.state.monitored = s.monitored /\ r.state.held = s.held
          /\ r.state.stale = s.stale /\ r.state.active \subseteq s.active /\ ~StopsWork
      BY <2>2, <2>3, HelperStopPost
    <3> QED
      BY <2>3, <3>1 DEF Stops, SharedRun, Keeps
  <2>4. ASSUME NEW q \in HelperStop(s, "lidar"), q.ok, r = Returned(Flagged(q.state))
        PROVE  /\ Stops(s, r) /\ (SharedRun(s) => SharedRun(r.state))
               /\ r.ok /\ Helped(s) => "lidar" \notin r.state.started
    <3> DEFINE u == q.state
               v == Flagged(u)
    <3>1. /\ u \in State /\ Keeps(s, u) /\ u.started = s.started
          /\ u.objects = s.objects /\ u.monitored = s.monitored /\ u.held = s.held
          /\ u.stale = s.stale /\ u.active = s.active \ {"lidar"}
          /\ u.owed \subseteq s.owed
          /\ "lidar" \in s.active /\ s.open => u.owed = s.owed \ Together("lidar")
      BY <2>2, HelperStopPost
    <3> HIDE DEF u
    <3>2. /\ v \in State /\ Keeps(s, v) /\ v.started = s.started \ {"lidar"}
          /\ v.objects = s.objects /\ v.monitored = s.monitored
          /\ v.held \subseteq s.held /\ v.stale = s.stale
          /\ v.active = s.active \ {"lidar"} /\ v.owed = u.owed
      BY <3>1 DEF State, Keeps, Flagged
    <3>3. r.state = v /\ r.ok
      BY <2>4, Results DEF u
    <3> HIDE DEF v
    <3>4. ASSUME Sound(s)
          PROVE  Sound(v)
      <4>1. "lidar" \in s.active /\ s.open
        BY <1>2, <3>4 DEF Sound, Helped, Helpers, ClosedIdle
      <4>2. u.owed = s.owed \ {"lidar"}
        BY <3>1, <4>1 DEF Together
      <4>3. v.started \subseteq v.cfg /\ Helped(v) /\ ClosedIdle(v)
        BY <3>2, <3>4 DEF Sound, Helped, ClosedIdle, Keeps
      <4>4. Accounted(v)
        BY <3>2, <3>4, <4>2 DEF Sound, Accounted, Keeps
      <4> QED
        BY <4>3, <4>4 DEF Sound
    <3>5. SharedRun(s) => SharedRun(v)
      BY <3>2 DEF SharedRun, Shared, Keeps
    <3> QED
      BY <3>2, <3>3, <3>4, <3>5 DEF Stops
  <2> QED
    BY <2>1, <2>3, <2>4
<1> QED
  BY <1>1, <1>2

LEMMA StopImuOrCameraPost ==
  ASSUME NEW s \in State, NEW r \in StopImuOrCamera(s)
  PROVE  /\ Stops(s, r) /\ (~r.ok /\ SharedRun(s) => SharedRun(r.state))
         /\ r.ok /\ Helped(s) => r.state.started \cap Shared = {}
<1> DEFINE Flagged(u) == [u EXCEPT !.started = @ \ {"imu", "camera"}]
           sent == [s EXCEPT !.owed = @ \ Together("camera")]
           done == [sent EXCEPT !.started = @ \ {"camera"}]
<1>1. CASE "imu" \in s.started \cap s.objects
  <2>1. \/ r \in HelperStop(s, "imu") /\ ~r.ok
        \/ \E q \in HelperStop(s, "imu") : q.ok /\ r = Returned(Flagged(q.state))
    BY <1>1 DEF StopImuOrCamera, Then
  <2> HIDE DEF Flagged
  <2>2. "imu" \in Helpers
    BY DEF Helpers
  <2>3. CASE r \in HelperStop(s, "imu") /\ ~r.ok
    <3>1. /\ r.state \in State /\ Keeps(s, r.state) /\ r.state.started = s.started
          /\ r.state.monitored = s.monitored /\ r.state.held = s.held
          /\ r.state.stale = s.stale /\ r.state.active \subseteq s.active /\ ~StopsWork
      BY <2>2, <2>3, HelperStopPost
    <3> QED
      BY <2>3, <3>1 DEF Stops, SharedRun, Keeps
  <2>4. ASSUME NEW q \in HelperStop(s, "imu"), q.ok, r = Returned(Flagged(q.state))
        PROVE  /\ Stops(s, r) /\ r.ok /\ r.state.started \cap Shared = {}
    <3> DEFINE u == q.state
               v == Flagged(u)
    <3>1. /\ u \in State /\ Keeps(s, u) /\ u.started = s.started
          /\ u.objects = s.objects /\ u.monitored = s.monitored /\ u.held = s.held
          /\ u.stale = s.stale /\ u.active = s.active \ {"imu"}
          /\ u.owed \subseteq s.owed
          /\ "imu" \in s.active /\ s.open => u.owed = s.owed \ Together("imu")
      BY <2>2, HelperStopPost
    <3> HIDE DEF u
    <3>2. /\ v \in State /\ Keeps(s, v) /\ v.started = s.started \ {"imu", "camera"}
          /\ v.objects = s.objects /\ v.monitored = s.monitored
          /\ v.held \subseteq s.held /\ v.stale = s.stale
          /\ v.active = s.active \ {"imu"} /\ v.owed = u.owed
      BY <3>1 DEF State, Keeps, Flagged
    <3>3. r.state = v /\ r.ok
      BY <2>4, Results DEF u
    <3> HIDE DEF v
    <3>4. ASSUME Sound(s)
          PROVE  Sound(v)
      <4>1. "imu" \in s.active /\ s.open
        BY <1>1, <3>4 DEF Sound, Helped, Helpers, ClosedIdle
      <4>2. u.owed = s.owed \ {"imu", "camera"}
        BY <3>1, <4>1 DEF Together
      <4>3. v.started \subseteq v.cfg /\ Helped(v) /\ ClosedIdle(v)
        BY <3>2, <3>4 DEF Sound, Helped, ClosedIdle, Keeps
      <4>4. Accounted(v)
        BY <3>2, <3>4, <4>2 DEF Sound, Accounted, Keeps
      <4> QED
        BY <4>3, <4>4 DEF Sound
    <3> QED
      BY <3>2, <3>3, <3>4 DEF Stops, Shared, State, Helpers
  <2> QED
    BY <2>1, <2>3, <2>4
<1>2. CASE "imu" \notin s.started \cap s.objects
  <2>1. /\ sent \in State /\ Keeps(s, sent) /\ sent.owed = s.owed \ {"camera", "imu"}
        /\ sent.objects = s.objects /\ sent.active = s.active
        /\ sent.started = s.started /\ sent.monitored = s.monitored
        /\ sent.held = s.held /\ sent.stale = s.stale
    BY DEF State, Keeps, Together
  <2>2. /\ done \in State /\ Keeps(s, done) /\ done.owed = s.owed \ {"camera", "imu"}
        /\ done.objects = s.objects /\ done.active = s.active
        /\ done.started = s.started \ {"camera"} /\ done.monitored = s.monitored
        /\ done.held = s.held /\ done.stale = s.stale
    <3> HIDE DEF sent
    <3> QED
      BY <2>1 DEF State, Keeps
  <2>3. \/ "camera" \notin s.started /\ r = Returned(s)
        \/ "camera" \in s.started /\ r \in Call(done, sent, "stop")
    BY <1>2 DEF StopImuOrCamera, Then
  <2> HIDE DEF sent, done
  <2>4. Helped(s) => "imu" \notin s.started
    BY <1>2 DEF Helped, Helpers
  <2>5. CASE "camera" \notin s.started /\ r = Returned(s)
    BY <2>4, <2>5, Results DEF Stops, Keeps, Shared
  <2>6. CASE r = Returned(done)
    <3>1. Sound(s) => Sound(done)
      BY <2>2, <2>4 DEF Sound, Helped, ClosedIdle, Accounted, Keeps, State, Helpers
    <3> QED
      BY <2>2, <2>4, <2>6, <3>1, Results DEF Stops, Shared, State, Helpers
  <2>7. CASE ("stop" \in faults \/ ~s.open) /\ "camera" \in s.started /\ r = Thrown(sent)
    <3>1. ~(StopsWork /\ Sound(s))
      BY <2>7 DEF StopsWork, Sound, ClosedIdle
    <3>2. SharedRun(s) => SharedRun(sent)
      BY <2>1 DEF SharedRun, Keeps
    <3> QED
      BY <2>1, <2>7, <3>1, <3>2, Results DEF Stops
  <2>8. CASE "camera" \in s.started /\ r \in Call(done, sent, "stop")
    <3>1. r = Returned(done) \/ (("stop" \in faults \/ ~done.open) /\ r = Thrown(sent))
      BY <2>8, CallCases
    <3> QED
      BY <2>2, <2>6, <2>7, <2>8, <3>1 DEF Keeps
  <2> QED
    BY <2>3, <2>5, <2>8
<1> QED
  BY <1>1, <1>2

LEMMA StopsCompose ==
  ASSUME NEW s, NEW q, NEW r, q.ok, Stops(s, q), Stops(q.state, r)
  PROVE  Stops(s, r)
BY DEF Stops, Keeps

LEMMA DisablePost ==
  ASSUME NEW s \in State
  PROVE  LET t == DisableCaptureHealth(s)
         IN /\ t \in State /\ Keeps(s, t) /\ t.monitored = {}
            /\ t.started = s.started /\ t.held = s.held /\ t.stale = s.stale
            /\ Sound(s) => Sound(t)
<1> DEFINE t == DisableCaptureHealth(s)
<1>1. /\ t \in State /\ Keeps(s, t) /\ t.monitored = {} /\ t.started = s.started
      /\ t.held = s.held /\ t.stale = s.stale /\ t.active = s.active
      /\ t.objects = s.objects /\ t.owed = s.owed
  BY DEF DisableCaptureHealth, State, Keeps
<1> HIDE DEF t
<1>2. Sound(s) => Sound(t)
  BY <1>1 DEF Sound, Helped, ClosedIdle, Accounted, Keeps
<1> QED
  BY <1>1, <1>2 DEF t

LEMMA StopConfiguredStreamsPost ==
  ASSUME NEW s \in State, NEW r \in StopConfiguredStreams(s)
  PROVE  Pauses(s, r)
<1> DEFINE d == DisableCaptureHealth(s)
           A == StopRover(d)
           B == Then(A, StopLidar)
<1>1. /\ d \in State /\ Keeps(s, d) /\ d.monitored = {} /\ d.started = s.started
      /\ d.held = s.held /\ d.stale = s.stale /\ (Sound(s) => Sound(d))
  BY DisablePost
<1> HIDE DEF d
<1>2. ASSUME NEW q \in A
      PROVE  /\ Stops(d, q) /\ (SharedRun(d) => SharedRun(q.state))
             /\ q.ok => "rover" \notin q.state.started
  BY <1>1, StopRoverPost
<1> HIDE DEF A
<1>3. ASSUME NEW q \in B
      PROVE  /\ Stops(d, q) /\ (SharedRun(d) => SharedRun(q.state))
             /\ q.ok /\ StopsWork /\ Sound(d) =>
                  q.state.started \cap {"rover", "lidar"} = {}
  <2>1. CASE q \in A /\ ~q.ok
    BY <1>2, <2>1
  <2>2. CASE \E p \in A : p.ok /\ q \in StopLidar(p.state)
    <3>1. PICK p \in A : p.ok /\ q \in StopLidar(p.state)
      BY <2>2
    <3>2. /\ p.state \in State /\ "rover" \notin p.state.started
          /\ StopsWork /\ Sound(d) => Helped(p.state)
      BY <1>2, <3>1 DEF Stops, Sound
    <3>3. /\ Stops(p.state, q) /\ (SharedRun(p.state) => SharedRun(q.state))
          /\ q.ok /\ Helped(p.state) => "lidar" \notin q.state.started
          /\ q.state.started \subseteq p.state.started
      BY <3>1, <3>2, StopLidarPost DEF Stops
    <3> QED
      BY <1>2, <3>1, <3>2, <3>3, StopsCompose
  <2> QED
    BY <2>1, <2>2 DEF Then
<1> HIDE DEF B
<1>4. r \in Then(B, StopImuOrCamera)
  BY DEF StopConfiguredStreams, B, A, d
<1>5. /\ Stops(d, r) /\ (~r.ok /\ SharedRun(d) => SharedRun(r.state))
      /\ r.ok /\ StopsWork /\ Sound(d) => r.state.started = {}
  <2>1. CASE r \in B /\ ~r.ok
    BY <1>3, <2>1
  <2>2. CASE \E p \in B : p.ok /\ r \in StopImuOrCamera(p.state)
    <3>1. PICK p \in B : p.ok /\ r \in StopImuOrCamera(p.state)
      BY <2>2
    <3>2. /\ p.state \in State
          /\ StopsWork /\ Sound(d) =>
               Helped(p.state) /\ p.state.started \cap {"rover", "lidar"} = {}
      BY <1>3, <3>1 DEF Stops, Sound
    <3>3. /\ Stops(p.state, r) /\ (~r.ok /\ SharedRun(p.state) => SharedRun(r.state))
          /\ r.ok /\ Helped(p.state) => r.state.started \cap Shared = {}
          /\ r.state.started \subseteq p.state.started
      BY <3>1, <3>2, StopImuOrCameraPost DEF Stops
    <3>4. Stops(d, r) /\ r.state.started \subseteq Streams
      BY <1>3, <3>1, <3>3, StopsCompose DEF Stops, State
    <3>5. Streams = Shared \cup {"rover", "lidar"}
      BY DEF Streams, Capture, Shared
    <3> QED
      BY <1>3, <3>1, <3>2, <3>3, <3>4, <3>5
  <2> QED
    BY <1>4, <2>1, <2>2 DEF Then
<1>6. ASSUME ~r.ok, SharedRun(s)
      PROVE  SharedRun(r.state)
  BY <1>1, <1>5, <1>6 DEF SharedRun, Keeps
<1>7. ASSUME ~r.ok, Fresh(s)
      PROVE  Fresh(r.state)
  BY <1>1, <1>5, <1>6, <1>7 DEF Fresh, NothingHeld, Stops
<1> QED
  BY <1>1, <1>5, <1>6, <1>7 DEF Stops, Pauses, Quiet, Keeps

-----------------------------------------------------------------------------
(* The commands.  A pausing command takes the session from s to a pause p,   *)
(* whatever it does then changes the pause, and it ends by starting again.   *)

\* p is a pause of s, perhaps with another configuration.
HaltOf(s, p) ==
  /\ p \in State /\ p.up = s.up /\ p.fatal = s.fatal
  /\ Fresh(s) => Fresh(p)
  /\ StopsWork /\ Sound(s) => Sound(p) /\ Quiet(p)

\* What is true of s when all its streams are started, and of its pauses.
Stoppable(s) == StopsWork /\ Sound(s) /\ s.cfg \subseteq s.started

\* p is a pause of s in which no configured helper is active.
PauseOf(s, p) ==
  /\ HaltOf(s, p)
  /\ Stoppable(s) => p.cfg \cap p.active = {}

\* t has gone on from the pause p: with all streams, or to end the session.
Resumed(p, t) ==
  /\ t \in State /\ t.up = p.up /\ (p.fatal => t.fatal) /\ t.cfg = p.cfg
  /\ Sound(p) => Sound(t)
  /\ Fresh(p) => Fresh(t)
  /\ ~t.fatal => /\ t.cfg \subseteq t.started
                 /\ Watched(p) => Watched(t)
                 /\ Backed(p) => Backed(t)

\* t is what a command may leave of s.
Restored(s, t) ==
  /\ t \in State /\ t.up = s.up /\ (s.fatal => t.fatal)
  /\ Fresh(s) => Fresh(t)
  /\ StopsWork /\ Sound(s) => Sound(t)
  /\ ~t.fatal => /\ t.cfg \subseteq t.started
                 /\ StopsWork /\ Sound(s) => Watched(t)
                 /\ Stoppable(s) => t.started \subseteq t.owed

LEMMA RestoredFromPause ==
  ASSUME NEW s, NEW p, NEW t, PauseOf(s, p), Resumed(p, t)
  PROVE  Restored(s, t)
<1>1. Stoppable(s) => Backed(p)
  BY DEF PauseOf, HaltOf, Stoppable, Quiet, Backed
<1> QED
  BY <1>1 DEF PauseOf, HaltOf, Resumed, Restored, Quiet, Watched, Backed

LEMMA FatalPost ==
  ASSUME NEW s \in State, NEW r \in Fatal(s)
  PROVE  /\ r.state \in State /\ ~r.ok /\ r.state.fatal
         /\ r.state.cfg = s.cfg /\ r.state.up = s.up
         /\ Sound(s) => Sound(r.state)
         /\ Fresh(s) => Fresh(r.state)
<1> DEFINE t == [s EXCEPT !.fatal = TRUE]
<1>1. r = Thrown(t)
  BY DEF Fatal
<1>2. /\ t \in State /\ t.fatal /\ t.cfg = s.cfg /\ t.up = s.up /\ t.open = s.open
      /\ t.started = s.started /\ t.active = s.active /\ t.objects = s.objects
      /\ t.owed = s.owed /\ t.busy = s.busy /\ t.stale = s.stale /\ t.held = s.held
  BY DEF State
<1> HIDE DEF t
<1>3. (Sound(s) => Sound(t)) /\ (Fresh(s) => Fresh(t))
  BY <1>2 DEF Sound, Helped, ClosedIdle, Accounted, Fresh, SharedRun, NothingHeld
<1> QED
  BY <1>1, <1>2, <1>3, Results

LEMMA StartOrFatalPost ==
  ASSUME NEW s \in State, NEW r \in StartOrFatal(s)
  PROVE  Resumed(s, r.state) /\ (~r.ok => r.state.fatal)
<1>1. \/ r \in StartConfiguredStreams(s) /\ r.ok
      \/ \E q \in StartConfiguredStreams(s) : ~q.ok /\ r \in Fatal(q.state)
  BY Zenon DEF StartOrFatal, Catch
<1>2. CASE r \in StartConfiguredStreams(s) /\ r.ok
  BY <1>2, StartConfiguredStreamsPost DEF Resumes, Resumed, Keeps
<1>3. CASE \E q \in StartConfiguredStreams(s) : ~q.ok /\ r \in Fatal(q.state)
  <2>1. PICK q \in StartConfiguredStreams(s) : ~q.ok /\ r \in Fatal(q.state)
    BY <1>3
  <2>2. Resumes(s, q)
    BY StartConfiguredStreamsPost
  <2>3. /\ r.state \in State /\ ~r.ok /\ r.state.fatal
        /\ r.state.cfg = q.state.cfg /\ r.state.up = q.state.up
        /\ Sound(q.state) => Sound(r.state)
        /\ Fresh(q.state) => Fresh(r.state)
    BY <2>1, <2>2, FatalPost DEF Resumes
  <2> QED
    BY <2>2, <2>3 DEF Resumes, Resumed, Keeps
<1> QED
  BY <1>1, <1>2, <1>3

LEMMA RecoverPost ==
  ASSUME NEW s \in State, NEW r \in Recover(s)
  PROVE  Resumed(s, r.state) /\ ~r.ok
<1>1. PICK q \in StartOrFatal(s) : r = Thrown(q.state)
  BY DEF Recover, Throw
<1> QED
  BY <1>1, StartOrFatalPost, Results

LEMMA ResetFrameStatePost ==
  ASSUME NEW s \in State
  PROVE  LET t == ResetFrameState(s)
         IN /\ t \in State /\ Keeps(s, t) /\ t.started = s.started
            /\ t.monitored = s.monitored /\ t.active = s.active
            /\ (Sound(s) => Sound(t)) /\ (~s.stale => Fresh(t))
<1> DEFINE t == ResetFrameState(s)
<1>1. /\ t \in State /\ Keeps(s, t) /\ t.started = s.started /\ t.active = s.active
      /\ t.objects = s.objects /\ t.monitored = s.monitored /\ t.owed = s.owed
      /\ t.stale = s.stale /\ t.held = s.held \ {"assembler", "resolver"}
  BY DEF ResetFrameState, State, Keeps
<1> HIDE DEF t
<1>2. (Sound(s) => Sound(t)) /\ (~s.stale => Fresh(t))
  BY <1>1 DEF Sound, Helped, ClosedIdle, Accounted, Fresh, NothingHeld, Keeps
<1> QED
  BY <1>1, <1>2 DEF t

\* A stop that returned and a reset make a pause.
LEMMA PauseByStop ==
  ASSUME NEW s \in State, NEW q, q.ok, Pauses(s, q)
  PROVE  /\ PauseOf(s, ResetFrameState(q.state))
         /\ ResetFrameState(q.state).cfg = s.cfg
<1>1. HaltOf(s, ResetFrameState(q.state)) /\ ResetFrameState(q.state).cfg = s.cfg
  BY ResetFrameStatePost DEF Pauses, HaltOf, Quiet, Keeps, Fresh
<1>2. Stoppable(s) => s.cfg \cap ResetFrameState(q.state).active = {}
  BY ResetFrameStatePost DEF Pauses, Stoppable
<1> QED
  BY <1>1, <1>2 DEF PauseOf

\* A stop that threw does too.
LEMMA PauseByFailure ==
  ASSUME NEW s \in State, NEW q, ~q.ok, Pauses(s, q)
  PROVE  PauseOf(s, q.state) /\ q.state.cfg = s.cfg
BY DEF Pauses, PauseOf, HaltOf, Stoppable, Keeps

LEMMA IdleOnlyPost ==
  ASSUME NEW s \in State, NEW r \in IdleOnly(s)
  PROVE  /\ r.state \in State /\ r.state.up = s.up /\ r.state.fatal = s.fatal
         /\ r.state.open = s.open
         /\ r.state.cfg = s.cfg /\ r.state.started = s.started
         /\ r.state.monitored = s.monitored /\ r.state.stale = s.stale
         /\ r.state.held = s.held /\ r.state.owed = s.owed
         /\ r.state.active = s.active
         /\ Fresh(s) => Fresh(r.state)
         /\ Sound(s) /\ s.started \cap Capture = {} => Sound(r.state)
         /\ s.owed \cap Capture = {} => r.state.busy = s.busy
<1> DEFINE b == s.busy \/ s.owed \cap Capture # {}
           t == [s EXCEPT !.busy = @ \/ (s.owed \cap Capture # {})]
<1>1. r = Returned(t) \/ r = Thrown(t)
  BY CallCases DEF IdleOnly
<1>2. b \in BOOLEAN /\ t = [s EXCEPT !.busy = b]
  BY Zenon
<1>3. s.owed \cap Capture = {} => b = s.busy
  BY DEF State
<1> HIDE DEF b, t
<1>4. /\ t \in State /\ t.up = s.up /\ t.fatal = s.fatal /\ t.open = s.open
      /\ t.cfg = s.cfg /\ t.started = s.started /\ t.monitored = s.monitored
      /\ t.stale = s.stale /\ t.held = s.held /\ t.active = s.active
      /\ t.objects = s.objects /\ t.owed = s.owed /\ t.busy = b
  BY <1>2 DEF State
<1>5. Fresh(s) => Fresh(t)
  BY <1>4 DEF Fresh, SharedRun, NothingHeld
<1>6. ASSUME Sound(s), s.started \cap Capture = {}
      PROVE  Sound(t)
  <2>1. Accounted(t)
    <3>1. CASE "mismatch" \in faults
      BY <3>1 DEF Accounted
    <3>2. CASE "mismatch" \notin faults
      <4>1. s.owed \cap Capture = {}
        BY <1>6, <3>2 DEF Sound, Accounted
      <4> QED
        BY <1>3, <1>4, <1>6, <4>1 DEF Sound, Accounted
    <3> QED
      BY <3>1, <3>2
  <2> QED
    BY <1>4, <1>6, <2>1 DEF Sound, Helped, ClosedIdle
<1> QED
  BY <1>1, <1>3, <1>4, <1>5, <1>6, Results

LEMMA IdleOnlyPause ==
  ASSUME NEW s, NEW p, PauseOf(s, p), NEW r \in IdleOnly(p)
  PROVE  PauseOf(s, r.state) /\ r.state.cfg = p.cfg
<1>1. /\ r.state \in State /\ r.state.up = p.up /\ r.state.fatal = p.fatal
      /\ r.state.cfg = p.cfg /\ r.state.started = p.started
      /\ r.state.monitored = p.monitored /\ r.state.active = p.active
      /\ Fresh(p) => Fresh(r.state)
      /\ Sound(p) /\ p.started \cap Capture = {} => Sound(r.state)
  BY IdleOnlyPost DEF PauseOf, HaltOf
<1> QED
  BY <1>1 DEF PauseOf, HaltOf, Quiet

LEMMA RunIdleOperationPost ==
  ASSUME NEW s \in State, NEW r \in RunIdleOperation(s)
  PROVE  Restored(s, r.state) /\ r.state.cfg = s.cfg
<1> DEFINE Operate(t) == Then(IdleOnly(t), StartOrFatal)
           AfterOperation(t) == IF t.fatal THEN {Thrown(t)} ELSE Recover(t)
           Body(t) == Catch(Operate(ResetFrameState(t)), AfterOperation)
           Stopped == Catch(StopConfiguredStreams(s), Recover)
<1>1. \/ r \in Stopped /\ ~r.ok
      \/ \E q \in Stopped : q.ok /\ r \in Body(q.state)
  BY Zenon DEF RunIdleOperation, Then
<1>2. ASSUME NEW q \in Stopped
      PROVE  \/ q.ok /\ PauseOf(s, ResetFrameState(q.state))
                     /\ ResetFrameState(q.state).cfg = s.cfg
             \/ ~q.ok /\ Restored(s, q.state) /\ q.state.cfg = s.cfg
  <2>1. \/ q \in StopConfiguredStreams(s) /\ q.ok
        \/ \E a \in StopConfiguredStreams(s) : ~a.ok /\ q \in Recover(a.state)
    BY Zenon DEF Catch
  <2>2. CASE q \in StopConfiguredStreams(s) /\ q.ok
    BY <2>2, StopConfiguredStreamsPost, PauseByStop
  <2>3. CASE \E a \in StopConfiguredStreams(s) : ~a.ok /\ q \in Recover(a.state)
    <3>1. PICK a \in StopConfiguredStreams(s) : ~a.ok /\ q \in Recover(a.state)
      BY <2>3
    <3>2. PauseOf(s, a.state) /\ a.state.cfg = s.cfg
      BY <3>1, StopConfiguredStreamsPost, PauseByFailure
    <3>3. Resumed(a.state, q.state) /\ ~q.ok
      BY <3>1, <3>2, RecoverPost DEF PauseOf, HaltOf
    <3> QED
      BY <3>2, <3>3, RestoredFromPause DEF Resumed
  <2> QED
    BY <2>1, <2>2, <2>3
<1>3. ASSUME NEW t, PauseOf(s, ResetFrameState(t)), ResetFrameState(t).cfg = s.cfg,
             r \in Body(t)
      PROVE  Restored(s, r.state) /\ r.state.cfg = s.cfg
  <2> DEFINE p == ResetFrameState(t)
  <2> HIDE DEF p
  <2>1. ASSUME NEW u \in Operate(p)
        PROVE  \/ PauseOf(s, u.state) /\ ~u.ok /\ u.state.cfg = s.cfg
               \/ Restored(s, u.state) /\ u.state.cfg = s.cfg
                  /\ (~u.ok => u.state.fatal)
    <3>1. \/ u \in IdleOnly(p) /\ ~u.ok
          \/ \E a \in IdleOnly(p) : a.ok /\ u \in StartOrFatal(a.state)
      BY Zenon DEF Then
    <3>2. PauseOf(s, p) /\ p.cfg = s.cfg
      BY <1>3, Zenon DEF p
    <3>3. CASE u \in IdleOnly(p) /\ ~u.ok
      BY <3>2, <3>3, IdleOnlyPause
    <3>4. CASE \E a \in IdleOnly(p) : a.ok /\ u \in StartOrFatal(a.state)
      <4>1. PICK a \in IdleOnly(p) : a.ok /\ u \in StartOrFatal(a.state)
        BY <3>4
      <4>2. PauseOf(s, a.state) /\ a.state.cfg = s.cfg
        BY <3>2, <4>1, IdleOnlyPause
      <4>3. Resumed(a.state, u.state) /\ (~u.ok => u.state.fatal)
        BY <4>1, <4>2, StartOrFatalPost DEF PauseOf, HaltOf
      <4> QED
        BY <4>2, <4>3, RestoredFromPause DEF Resumed
    <3> QED
      BY <3>1, <3>3, <3>4
  <2>2. \/ r \in Operate(p) /\ r.ok
        \/ \E u \in Operate(p) : ~u.ok /\ r \in AfterOperation(u.state)
    <3> HIDE DEF Operate, AfterOperation
    <3> QED
      BY <1>3, Zenon DEF Catch, p
  <2> HIDE DEF Operate
  <2>3. CASE r \in Operate(p) /\ r.ok
    BY <2>1, <2>3
  <2>4. CASE \E u \in Operate(p) : ~u.ok /\ r \in AfterOperation(u.state)
    <3>1. PICK u \in Operate(p) : ~u.ok /\ r \in AfterOperation(u.state)
      BY <2>4
    <3>2. CASE u.state.fatal /\ r = Thrown(u.state)
      <4>1. r.state = u.state
        BY <3>2, Results
      <4> QED
        BY <2>1, <3>1, <3>2, <4>1 DEF Restored, PauseOf, HaltOf
    <3>3. CASE ~u.state.fatal /\ r \in Recover(u.state)
      <4>1. PauseOf(s, u.state) /\ u.state.cfg = s.cfg
        BY <2>1, <3>1, <3>3
      <4> QED
        BY <3>3, <4>1, RecoverPost, RestoredFromPause DEF PauseOf, HaltOf, Resumed
    <3> QED
      BY <3>1, <3>2, <3>3
  <2> QED
    BY <2>2, <2>3, <2>4
<1> HIDE DEF Body, Stopped
<1> QED
  BY <1>1, <1>2, <1>3

\* What keeps a pause: less active, less owed, other objects, a client closed or
\* opened while no helper is active.
LEMMA PauseChange ==
  ASSUME NEW s, NEW p, NEW t \in State, PauseOf(s, p),
         t.up = p.up, t.fatal = p.fatal, t.cfg = p.cfg, t.started = p.started,
         t.monitored = p.monitored, t.held = p.held, t.stale = p.stale, t.busy = p.busy,
         t.owed \subseteq p.owed, t.active \subseteq p.active,
         t.open = p.open \/ t.active = {}
  PROVE  PauseOf(s, t)
<1>1. Fresh(p) => Fresh(t)
  BY DEF Fresh, SharedRun, NothingHeld
<1>2. Sound(p) /\ Quiet(p) => Sound(t) /\ Quiet(t)
  BY DEF Sound, Helped, ClosedIdle, Accounted, Quiet
<1> QED
  BY <1>1, <1>2 DEF PauseOf, HaltOf, HaltOf

LEMMA DestroyHelpersPost ==
  ASSUME NEW s, NEW p, PauseOf(s, p), NEW r \in DestroyHelpers(p)
  PROVE  r.ok /\ PauseOf(s, r.state) /\ r.state.active = {} /\ r.state.cfg = p.cfg
<1> DEFINE Both == Then(Always(HelperStop(p, "imu")),
                        LAMBDA t : Always(HelperStop(t, "lidar")))
           None(t) == [t EXCEPT !.objects = {}]
<1>0. "imu" \in Helpers /\ "lidar" \in Helpers /\ Helpers = {"imu", "lidar"}
  BY DEF Helpers
<1>1. PICK b \in Both : r = Returned(None(b.state))
  BY Zenon DEF DestroyHelpers
<1>2. \/ b \in Always(HelperStop(p, "imu")) /\ ~b.ok
      \/ \E a \in Always(HelperStop(p, "imu")) :
           a.ok /\ b \in Always(HelperStop(a.state, "lidar"))
  BY Zenon DEF Then
<1> HIDE DEF Both, None
<1>3. \A a \in Always(HelperStop(p, "imu")) :
        /\ a.ok /\ PauseOf(s, a.state) /\ a.state.cfg = p.cfg
        /\ a.state.active = p.active \ {"imu"}
  <2> SUFFICES ASSUME NEW q \in HelperStop(p, "imu"), NEW a, a = Returned(q.state)
               PROVE  /\ a.ok /\ PauseOf(s, a.state) /\ a.state.cfg = p.cfg
                      /\ a.state.active = p.active \ {"imu"}
    BY DEF Always
  <2>1. a.state = q.state /\ a.ok
    BY Results
  <2>2. /\ q.state \in State /\ Keeps(p, q.state)
        /\ q.state.active = p.active \ {"imu"} /\ q.state.owed \subseteq p.owed
        /\ q.state.started = p.started /\ q.state.monitored = p.monitored
        /\ q.state.held = p.held /\ q.state.stale = p.stale
    BY <1>0, HelperStopPost DEF PauseOf, HaltOf
  <2> QED
    BY <2>1, <2>2, PauseChange DEF Keeps
<1>4. PICK a \in Always(HelperStop(p, "imu")) : b \in Always(HelperStop(a.state, "lidar"))
  BY <1>2, <1>3
<1>5. b.ok /\ PauseOf(s, b.state) /\ b.state.active = {} /\ b.state.cfg = p.cfg
  <2>1. PICK q \in HelperStop(a.state, "lidar") : b = Returned(q.state)
    BY <1>4 DEF Always
  <2>2. b.state = q.state /\ b.ok
    BY <2>1, Results
  <2>3. /\ q.state \in State /\ Keeps(a.state, q.state)
        /\ q.state.active = a.state.active \ {"lidar"}
        /\ q.state.owed \subseteq a.state.owed
        /\ q.state.started = a.state.started /\ q.state.monitored = a.state.monitored
        /\ q.state.held = a.state.held /\ q.state.stale = a.state.stale
    BY <1>0, <1>3, HelperStopPost DEF PauseOf, HaltOf
  <2>4. p.active \subseteq Helpers
    BY DEF PauseOf, HaltOf, State
  <2> QED
    BY <1>0, <1>3, <2>2, <2>3, <2>4, PauseChange DEF Keeps
<1>6. /\ None(b.state) \in State /\ Keeps(b.state, None(b.state))
      /\ None(b.state).started = b.state.started /\ None(b.state).held = b.state.held
      /\ None(b.state).monitored = b.state.monitored
      /\ None(b.state).stale = b.state.stale
      /\ None(b.state).owed = b.state.owed /\ None(b.state).active = b.state.active
  BY <1>5 DEF None, PauseOf, HaltOf, State, Keeps
<1>7. PauseOf(s, None(b.state)) /\ None(b.state).cfg = b.state.cfg
  BY <1>5, <1>6, PauseChange DEF Keeps
<1>8. r.ok /\ r.state = None(b.state)
  BY <1>1, Results
<1> QED
  BY <1>5, <1>6, <1>7, <1>8

LEMMA ReopenControlClientPost ==
  ASSUME NEW s, NEW p, PauseOf(s, p), NEW r \in ReopenControlClient(p)
  PROVE  PauseOf(s, r.state) /\ r.state.cfg = p.cfg
<1> DEFINE Opened(t) == [t EXCEPT !.open = TRUE]
           Closed(t) == [t EXCEPT !.open = FALSE]
           Reopen(t) ==
             {Returned(EnsureStreamObjects(Opened(t)))}
               \cup (IF "open" \in faults THEN {Thrown(Closed(t)), Thrown(Opened(t))} ELSE {})
<1>0. \/ r \in DestroyHelpers(p) /\ ~r.ok
      \/ \E q \in DestroyHelpers(p) : q.ok /\ r \in Reopen(q.state)
  BY Zenon DEF ReopenControlClient, Then
<1> HIDE DEF Opened, Closed
<1>1. \/ r \in DestroyHelpers(p) /\ ~r.ok
      \/ \E q \in DestroyHelpers(p) : q.ok /\ r.state \in
           {EnsureStreamObjects(Opened(q.state)), Opened(q.state), Closed(q.state)}
  BY <1>0, Results
<1>2. PICK q \in DestroyHelpers(p) : r.state \in
        {EnsureStreamObjects(Opened(q.state)), Opened(q.state), Closed(q.state)}
  BY <1>1, DestroyHelpersPost
<1>3. PauseOf(s, q.state) /\ q.state.active = {} /\ q.state.cfg = p.cfg
  BY DestroyHelpersPost
<1>4. /\ \A t \in {Opened(q.state), Closed(q.state)} :
           /\ t \in State /\ t.up = q.state.up /\ t.fatal = q.state.fatal
           /\ t.cfg = q.state.cfg /\ t.started = q.state.started
           /\ t.monitored = q.state.monitored /\ t.held = q.state.held
           /\ t.stale = q.state.stale /\ t.busy = q.state.busy
           /\ t.owed = q.state.owed /\ t.active = q.state.active
  BY <1>3 DEF PauseOf, HaltOf, State, Opened, Closed
<1>5. \A t \in {Opened(q.state), Closed(q.state)} : PauseOf(s, t) /\ t.cfg = p.cfg
  BY <1>3, <1>4, PauseChange
<1>6. CASE r.state = EnsureStreamObjects(Opened(q.state))
  <2> DEFINE o == Opened(q.state)
  <2>1. o \in State /\ PauseOf(s, o) /\ o.cfg = p.cfg /\ o.active = {}
    BY <1>3, <1>4, <1>5
  <2> HIDE DEF o
  <2>2. LET t == EnsureStreamObjects(o)
        IN /\ t \in State /\ Keeps(o, t) /\ t.started = o.started
           /\ t.monitored = o.monitored /\ t.held = o.held /\ t.stale = o.stale
           /\ t.owed = o.owed /\ t.active = o.active
    BY <2>1 DEF EnsureStreamObjects, State, Keeps
  <2>3. PauseOf(s, EnsureStreamObjects(o))
    BY <2>1, <2>2, PauseChange DEF Keeps
  <2> QED
    BY <1>6, <2>1, <2>2, <2>3 DEF Keeps, o
<1> QED
  BY <1>2, <1>5, <1>6

\* The end of synchronizeSystemTime, from the pause p.
Restart(p) == Catch(Then(ReopenControlClient(p), StartConfiguredStreams), Fatal)

LEMMA RestartPost ==
  ASSUME NEW s, NEW p, PauseOf(s, p), NEW r \in Restart(p)
  PROVE  Restored(s, r.state)
<1> DEFINE X == Then(ReopenControlClient(p), StartConfiguredStreams)
<1>1. \/ r \in X /\ r.ok
      \/ \E x \in X : ~x.ok /\ r \in Fatal(x.state)
  BY Zenon DEF Restart, Catch
<1>2. \A x \in X : \/ x \in ReopenControlClient(p) /\ ~x.ok
                   \/ \E q \in ReopenControlClient(p) :
                        q.ok /\ x \in StartConfiguredStreams(q.state)
  BY Zenon DEF Then
<1> HIDE DEF X
<1>3. ASSUME NEW x \in X
      PROVE  /\ x.state \in State /\ x.state.up = s.up /\ (s.fatal => x.state.fatal)
             /\ Fresh(s) => Fresh(x.state)
             /\ StopsWork /\ Sound(s) => Sound(x.state)
             /\ x.ok => Restored(s, x.state)
  <2>1. CASE x \in ReopenControlClient(p) /\ ~x.ok
    BY <2>1, ReopenControlClientPost DEF PauseOf, HaltOf
  <2>2. CASE \E q \in ReopenControlClient(p) :
               q.ok /\ x \in StartConfiguredStreams(q.state)
    <3>1. PICK q \in ReopenControlClient(p) :
                 q.ok /\ x \in StartConfiguredStreams(q.state)
      BY <2>2
    <3>2. PauseOf(s, q.state)
      BY ReopenControlClientPost
    <3>3. Resumes(q.state, x)
      BY <3>1, <3>2, StartConfiguredStreamsPost DEF PauseOf, HaltOf
    <3>4. x.ok => Resumed(q.state, x.state)
      BY <3>3 DEF Resumes, Resumed, Keeps
    <3> QED
      BY <3>2, <3>3, <3>4, RestoredFromPause DEF PauseOf, HaltOf, Resumes, Keeps
  <2> QED
    BY <1>2, <2>1, <2>2
<1>4. CASE \E x \in X : ~x.ok /\ r \in Fatal(x.state)
  <2>1. PICK x \in X : ~x.ok /\ r \in Fatal(x.state)
    BY <1>4
  <2>2. /\ r.state \in State /\ r.state.fatal /\ r.state.up = x.state.up
        /\ Sound(x.state) => Sound(r.state)
        /\ Fresh(x.state) => Fresh(r.state)
    BY <1>3, <2>1, FatalPost
  <2> QED
    BY <1>3, <2>2 DEF Restored
<1> QED
  BY <1>1, <1>3, <1>4

LEMMA SynchronizeSystemTimePost ==
  ASSUME NEW s \in State, NEW r \in SynchronizeSystemTime(s)
  PROVE  Restored(s, r.state)
<1> DEFINE Stopped == Catch(StopConfiguredStreams(s), Recover)
           Failed(u) == Throw(Restart(u))
           Attempt(p) == Catch(IdleOnly(p), Failed)
           Body(t) == Then(Attempt(ResetFrameState(t)), Restart)
<1>1. \/ r \in Stopped /\ ~r.ok
      \/ \E q \in Stopped : q.ok /\ r \in Body(q.state)
  BY Zenon DEF SynchronizeSystemTime, Then, Restart
<1>2. ASSUME NEW q \in Stopped
      PROVE  \/ q.ok /\ PauseOf(s, ResetFrameState(q.state))
             \/ ~q.ok /\ Restored(s, q.state)
  <2>1. \/ q \in StopConfiguredStreams(s) /\ q.ok
        \/ \E a \in StopConfiguredStreams(s) : ~a.ok /\ q \in Recover(a.state)
    BY Zenon DEF Catch
  <2>2. CASE q \in StopConfiguredStreams(s) /\ q.ok
    BY <2>2, StopConfiguredStreamsPost, PauseByStop
  <2>3. CASE \E a \in StopConfiguredStreams(s) : ~a.ok /\ q \in Recover(a.state)
    <3>1. PICK a \in StopConfiguredStreams(s) : ~a.ok /\ q \in Recover(a.state)
      BY <2>3
    <3>2. PauseOf(s, a.state)
      BY <3>1, StopConfiguredStreamsPost, PauseByFailure
    <3>3. Resumed(a.state, q.state) /\ ~q.ok
      BY <3>1, <3>2, RecoverPost DEF PauseOf, HaltOf
    <3> QED
      BY <3>2, <3>3, RestoredFromPause
  <2> QED
    BY <2>1, <2>2, <2>3
<1>3. ASSUME NEW p, PauseOf(s, p), NEW a \in Attempt(p)
      PROVE  \/ a.ok /\ PauseOf(s, a.state)
             \/ ~a.ok /\ Restored(s, a.state)
  <2>1. \/ a \in IdleOnly(p) /\ a.ok
        \/ \E u \in IdleOnly(p) : ~u.ok /\ a \in Failed(u.state)
    BY Zenon DEF Catch
  <2>2. CASE a \in IdleOnly(p) /\ a.ok
    BY <1>3, <2>2, IdleOnlyPause
  <2>3. CASE \E u \in IdleOnly(p) : ~u.ok /\ a \in Failed(u.state)
    <3>1. PICK u \in IdleOnly(p) : a \in Failed(u.state)
      BY <2>3
    <3>2. PICK v \in Restart(u.state) : a = Thrown(v.state)
      BY <3>1, Zenon DEF Throw
    <3>3. Restored(s, v.state)
      BY <1>3, IdleOnlyPause, RestartPost
    <3> QED
      BY <3>2, <3>3, Results
  <2> QED
    BY <2>1, <2>2, <2>3
<1> HIDE DEF Attempt
<1>4. ASSUME NEW t, PauseOf(s, ResetFrameState(t)), r \in Body(t)
      PROVE  Restored(s, r.state)
  <2>1. \/ r \in Attempt(ResetFrameState(t)) /\ ~r.ok
        \/ \E a \in Attempt(ResetFrameState(t)) : a.ok /\ r \in Restart(a.state)
    BY <1>4, Zenon DEF Then
  <2> HIDE DEF Body
  <2> QED
    BY <1>3, <1>4, <2>1, RestartPost
<1> HIDE DEF Body, Stopped
<1> QED
  BY <1>1, <1>2, <1>4

\* t is what applyStreamCommand may leave of s.
Applied(s, t) ==
  /\ t \in State /\ t.up = s.up /\ (s.fatal => t.fatal)
  /\ Fresh(s) => Fresh(t)
  /\ StopsWork /\ Sound(s) => Sound(t)
  /\ ~t.fatal => /\ SharedRun(s) => SharedRun(t)
                 /\ StopsWork /\ Sound(s) => t.cfg \subseteq t.started /\ Watched(t)

LEMMA AppliedFromHalt ==
  ASSUME NEW s, NEW p, NEW t, HaltOf(s, p), Resumed(p, t)
  PROVE  Applied(s, t)
BY DEF HaltOf, Resumed, Applied, SharedRun, Quiet, Watched

\* A stop that returned, another configuration and a reset halt it.
LEMMA PauseWith ==
  ASSUME NEW s, NEW u \in State, NEW c \in SUBSET Streams, u.up = s.up, u.fatal = s.fatal,
         Fresh(s) => ~u.stale, StopsWork /\ Sound(s) => Sound(u) /\ Quiet(u)
  PROVE  /\ HaltOf(s, ResetFrameState([u EXCEPT !.cfg = c]))
         /\ ResetFrameState([u EXCEPT !.cfg = c]).cfg = c
<1> DEFINE t == [u EXCEPT !.cfg = c]
<1>1. /\ t \in State /\ t.cfg = c /\ t.up = u.up /\ t.open = u.open /\ t.fatal = u.fatal
      /\ t.started = u.started /\ t.active = u.active /\ t.objects = u.objects
      /\ t.owed = u.owed /\ t.busy = u.busy /\ t.stale = u.stale
      /\ t.monitored = u.monitored
  BY DEF State
<1> HIDE DEF t
<1>2. Sound(u) /\ Quiet(u) => Sound(t) /\ Quiet(t)
  BY <1>1 DEF Sound, Quiet, Helped, ClosedIdle, Accounted
<1>3. HaltOf(s, ResetFrameState(t)) /\ ResetFrameState(t).cfg = c
  BY <1>1, <1>2, ResetFrameStatePost DEF HaltOf, Quiet, Keeps
<1> QED
  BY <1>3 DEF t

LEMMA ApplyStreamCommandPost ==
  ASSUME NEW s \in State, NEW cfg \in SUBSET Streams, NEW r \in ApplyStreamCommand(s, cfg)
  PROVE  Applied(s, r.state) /\ (~r.ok => r.state.cfg = s.cfg)
<1> DEFINE New(t) == [t EXCEPT !.cfg = cfg]
           Old(t) == WithConfiguration(t, s.cfg)
           Previous(t) == Recover(ResetFrameState(Old(t)))
           Restore(t) == Then(Always(StopConfiguredStreams(t)), Previous)
           Change(t) == Catch(StartConfiguredStreams(ResetFrameState(New(t))), Restore)
<1>1. \/ r \in StopConfiguredStreams(s) /\ ~r.ok
      \/ \E q \in StopConfiguredStreams(s) : q.ok /\ r \in Change(q.state)
  BY Zenon DEF ApplyStreamCommand, Then
<1>2. CASE r \in StopConfiguredStreams(s) /\ ~r.ok
  <2>1. Pauses(s, r)
    BY <1>2, StopConfiguredStreamsPost
  <2> QED
    BY <1>2, <2>1 DEF Pauses, Applied, Keeps
<1>3. ASSUME NEW q \in StopConfiguredStreams(s), q.ok, r \in Change(q.state)
      PROVE  Applied(s, r.state) /\ (~r.ok => r.state.cfg = s.cfg)
  <2> DEFINE p == ResetFrameState(New(q.state))
             X == StartConfiguredStreams(p)
  <2>1. \/ r \in X /\ r.ok
        \/ \E x \in X : ~x.ok /\ r \in Restore(x.state)
    BY <1>3, Zenon DEF Catch
  <2>2. HaltOf(s, p) /\ p.cfg = cfg
    <3>1. Pauses(s, q)
      BY StopConfiguredStreamsPost
    <3> QED
      BY <1>3, <3>1, PauseWith DEF Pauses, Keeps, Fresh
  <2> HIDE DEF p
  <2>3. \A x \in X : Resumes(p, x)
    BY <2>2, StartConfiguredStreamsPost DEF HaltOf
  <2> HIDE DEF X, Restore, Change
  <2>4. CASE r \in X /\ r.ok
    <3>1. Resumed(p, r.state)
      BY <2>3, <2>4 DEF Resumes, Resumed, Keeps
    <3> QED
      BY <2>2, <2>4, <3>1, AppliedFromHalt
  <2>5. CASE \E x \in X : ~x.ok /\ r \in Restore(x.state)
    <3>1. PICK x \in X : r \in Restore(x.state)
      BY <2>5
    <3>2. PICK z \in Always(StopConfiguredStreams(x.state)) :
            (z = r /\ ~r.ok) \/ r \in Previous(z.state)
      BY <3>1, Zenon DEF Restore, Then
    <3>3. PICK y \in StopConfiguredStreams(x.state) : z = Returned(y.state)
      BY <3>2, Zenon DEF Always
    <3>4. z.ok /\ z.state = y.state
      BY <3>3, Results
    <3>5. r \in Recover(ResetFrameState(Old(y.state)))
      BY <3>2, <3>4
    <3>6. Resumes(p, x) /\ Pauses(x.state, y)
      BY <2>3, StopConfiguredStreamsPost DEF Resumes
    <3>7. /\ HaltOf(s, ResetFrameState(Old(y.state)))
          /\ ResetFrameState(Old(y.state)).cfg = s.cfg
      <4>1. s.cfg \in SUBSET Streams
        BY DEF State
      <4>2. /\ y.state \in State /\ y.state.up = s.up /\ y.state.fatal = s.fatal
            /\ Fresh(s) => ~y.state.stale
            /\ StopsWork /\ Sound(s) => Sound(y.state) /\ Quiet(y.state)
        BY <2>2, <3>6 DEF HaltOf, Resumes, Pauses, Keeps, Fresh
      <4> QED
        BY <4>1, <4>2, PauseWith DEF WithConfiguration
    <3> HIDE DEF Old
    <3>8. Resumed(ResetFrameState(Old(y.state)), r.state)
      BY <3>5, <3>7, RecoverPost DEF HaltOf
    <3>9. r.state.cfg = s.cfg
      BY <3>7, <3>8 DEF Resumed
    <3> QED
      BY <3>7, <3>8, <3>9, AppliedFromHalt
  <2> QED
    BY <2>1, <2>4, <2>5
<1> HIDE DEF Change
<1> QED
  BY <1>1, <1>2, <1>3

-----------------------------------------------------------------------------
(* The commands that do not pause. *)

LEMMA SetRoverRtcmPost ==
  ASSUME NEW s \in State, NEW enable \in BOOLEAN, NEW r \in SetRoverRtcm(s, enable)
  PROVE  /\ r.state \in State /\ r.state.up = s.up /\ r.state.fatal = s.fatal
         /\ Fresh(s) => Fresh(r.state)
         /\ SharedRun(s) => SharedRun(r.state)
         /\ StopsWork /\ Sound(s) =>
              /\ Sound(r.state)
              /\ s.cfg \subseteq s.started => r.state.cfg \subseteq r.state.started
              /\ Watched(s) => Watched(r.state)
<1> DEFINE less == [s EXCEPT !.owed = @ \ {"rover"}]
           sent == IF enable THEN s ELSE less
           on == [Acknowledged(sent, "rover", {}) EXCEPT
                    !.started = @ \cup {"rover"}, !.cfg = @ \cup {"rover"}]
           off == [s EXCEPT !.owed = @ \ {"rover"}, !.started = @ \ {"rover"},
                            !.cfg = @ \ {"rover"}]
           Same(t) == /\ t \in State /\ t.up = s.up /\ t.open = s.open
                      /\ t.fatal = s.fatal /\ t.busy = s.busy
                      /\ t.active = s.active /\ t.objects = s.objects
                      /\ t.monitored = s.monitored /\ t.held = s.held
                      /\ t.stale = s.stale
           Post(t) == /\ t \in State /\ t.up = s.up /\ t.fatal = s.fatal
                      /\ Fresh(s) => Fresh(t)
                      /\ SharedRun(s) => SharedRun(t)
                      /\ StopsWork /\ Sound(s) =>
                           /\ s.cfg \subseteq s.started => t.cfg \subseteq t.started
                           /\ Watched(s) => Watched(t)
<1>0. "rover" \in Streams
  BY DEF Streams
<1>1. Same(less) /\ less.cfg = s.cfg /\ less.started = s.started
      /\ less.owed = s.owed \ {"rover"}
  BY DEF State
<1>2. Same(sent) /\ sent.cfg = s.cfg /\ sent.started = s.started
      /\ sent.owed = IF enable THEN s.owed ELSE s.owed \ {"rover"}
  <2> HIDE DEF less
  <2> QED
    BY <1>1
<1>3. Same(off) /\ off.cfg = s.cfg \ {"rover"} /\ off.started = s.started \ {"rover"}
      /\ off.owed = s.owed \ {"rover"}
  BY DEF State
<1>4. Same(on) /\ on.cfg = s.cfg \cup {"rover"} /\ on.started = s.started \cup {"rover"}
      /\ on.owed = s.owed \cup {"rover"}
  <2> DEFINE a == Acknowledged(sent, "rover", {})
  <2> HIDE DEF less, sent
  <2>1. /\ a \in State /\ Keeps(sent, a) /\ a.owed = sent.owed \cup {"rover"}
        /\ a.stale = sent.stale /\ a.started = sent.started /\ a.objects = sent.objects
        /\ a.active = sent.active /\ a.monitored = sent.monitored /\ a.held = sent.held
    <3>1. sent \in State
      BY <1>2
    <3>2. a.stale = (sent.stale \/ sent.held \cap {} # {})
      BY <1>0, <3>1, AcknowledgedPost
    <3>3. sent.stale \in BOOLEAN /\ sent.held \cap {} = {}
      BY <3>1 DEF State
    <3>4. /\ a \in State /\ Keeps(sent, a) /\ a.owed = sent.owed \cup {"rover"}
          /\ \A f \in {"started", "objects", "active", "monitored", "held"} :
               a[f] = sent[f]
      BY <1>0, <3>1, AcknowledgedPost
    <3> HIDE DEF a
    <3>5. a.stale = sent.stale
      BY <3>2, <3>3
    <3> QED
      BY <3>4, <3>5
  <2> HIDE DEF a
  <2>2. on = [a EXCEPT !.started = @ \cup {"rover"}, !.cfg = @ \cup {"rover"}]
    BY DEF a
  <2> HIDE DEF on
  <2> QED
    BY <1>0, <1>2, <2>1, <2>2 DEF State, Keeps
<1>5. \/ s.open /\ (r.state = on \/ r.state = off)
      \/ r.state = sent /\ (~enable => "stop" \in faults \/ ~s.open)
  <2>1. \/ r \in Call(IF enable THEN on ELSE off, sent, IF enable THEN "start" ELSE "stop")
        \/ s.open /\ r = Thrown(IF enable THEN off ELSE on)
    <3> HIDE DEF less
    <3> QED
      BY Zenon DEF SetRoverRtcm, less
  <2> HIDE DEF on, off, sent, less
  <2>2. CASE s.open /\ r = Thrown(IF enable THEN off ELSE on)
    BY <2>2, Results
  <2>3. CASE r \in Call(IF enable THEN on ELSE off, sent, IF enable THEN "start" ELSE "stop")
    <3> DEFINE g == IF enable THEN on ELSE off
               f == IF enable THEN "start" ELSE "stop"
    <3>1. \/ g.open /\ r = Returned(g)
          \/ (f \in faults \/ ~g.open) /\ r = Thrown(sent)
      <4> HIDE DEF g, f
      <4> QED
        BY <2>3, CallCases DEF g, f
    <3>2. g.open = s.open
      BY <1>3, <1>4
    <3> QED
      BY <3>1, <3>2, Results
  <2> QED
    BY <2>1, <2>2, <2>3
<1> HIDE DEF on, off, sent, less
<1>6. \A t \in {on, off, sent} : Post(t)
  BY <1>2, <1>3, <1>4 DEF Fresh, SharedRun, NothingHeld, Watched, Shared, Capture
<1>7. ASSUME StopsWork, Sound(s)
      PROVE  Sound(r.state)
  <2>1. CASE s.open /\ (r.state = on \/ r.state = off)
    <3> DEFINE t == r.state
    <3> HIDE DEF t
    <3>1. Same(t) /\ ((t.cfg = s.cfg \cup {"rover"} /\ t.started = s.started \cup {"rover"}
                       /\ t.owed = s.owed \cup {"rover"})
                    \/ (t.cfg = s.cfg \ {"rover"} /\ t.started = s.started \ {"rover"}
                       /\ t.owed = s.owed \ {"rover"}))
      BY <1>3, <1>4, <2>1 DEF t
    <3>2. s.started \subseteq s.cfg /\ Helped(s) /\ Accounted(s)
      BY <1>7 DEF Sound
    <3>3. t.started \subseteq t.cfg
      BY <3>1, <3>2
    <3>4. Helped(t)
      BY <3>1, <3>2 DEF Helped, Helpers
    <3>5. ClosedIdle(t)
      BY <2>1, <3>1 DEF ClosedIdle
    <3>6. Accounted(t)
      <4> SUFFICES ASSUME "mismatch" \notin faults
                   PROVE  t.owed = t.started /\ t.active \subseteq t.started /\ ~t.busy
        BY DEF Accounted
      <4>1. s.owed = s.started /\ s.active \subseteq s.started /\ ~s.busy
        BY <3>2 DEF Accounted
      <4>2. "rover" \notin s.active
        BY DEF State, Helpers
      <4> QED
        BY <3>1, <4>1, <4>2
    <3> QED
      BY <3>3, <3>4, <3>5, <3>6 DEF Sound, t
  <2>2. CASE r.state = sent /\ (~enable => ~s.open)
    <3>1. sent.owed = s.owed \/ (s.started = {} /\ sent.owed = s.owed \ {"rover"})
      BY <1>2, <1>7, <2>2 DEF StopsWork, Sound, ClosedIdle
    <3>2. Sound(sent)
      BY <1>2, <1>7, <3>1 DEF Sound, Helped, ClosedIdle, Accounted
    <3> QED
      BY <2>2, <3>2
  <2> QED
    BY <1>5, <1>7, <2>1, <2>2 DEF StopsWork
<1> QED
  BY <1>5, <1>6, <1>7

LEMMA LidarPowerPost ==
  ASSUME NEW s \in State, NEW r \in LidarPower(s)
  PROVE  /\ r.state \in State /\ r.state.up = s.up /\ r.state.fatal = s.fatal
         /\ r.state.cfg = s.cfg /\ r.state.started = s.started
         /\ r.state.monitored = s.monitored
         /\ Fresh(s) => Fresh(r.state)
         /\ Sound(s) => Sound(r.state)
BY IdleOnlyPost, Results DEF LidarPower

-----------------------------------------------------------------------------
(* The inductive invariant. *)

\* While run() is inside its try; what no stop may fail for is said apart.
InSession(s) ==
  s.up => /\ Fresh(s)
          /\ ~s.fatal => SharedRun(s)
          /\ StopsWork => /\ Sound(s)
                          /\ ~s.fatal => s.cfg \subseteq s.started /\ Watched(s)

\* Before it, and after cleanup.
AfterSession(s) ==
  ~s.up => ~s.stale /\ (StopsAndAnswersWork => ~s.busy /\ s.owed = {})

NotYetRun == last = "none" => st = Configuration(st.cfg)
PausedRestored == last = "paused" /\ Serving /\ StopsWork => StreamsRestored(st)

IInv == TypeOK /\ InSession(st) /\ AfterSession(st) /\ NotYetRun /\ PausedRestored

LEMMA InSessionRestored ==
  ASSUME NEW s \in State, NEW t, s.up, InSession(s), Restored(s, t)
  PROVE  t \in State /\ InSession(t) /\ AfterSession(t)
         /\ (~t.fatal /\ StopsWork => StreamsRestored(t))
<1>1. t \in State /\ InSession(t) /\ AfterSession(t)
  BY DEF InSession, AfterSession, Restored, SharedRun
<1>2. ASSUME ~t.fatal, StopsWork
      PROVE  StreamsRestored(t)
  <2>1. ~s.fatal /\ Sound(s) /\ s.cfg \subseteq s.started
    BY <1>2 DEF Restored, InSession
  <2>2. t.cfg \subseteq t.started /\ t.started \subseteq t.owed /\ Sound(t)
    BY <1>2, <2>1 DEF Restored, Stoppable
  <2> QED
    BY <2>2 DEF Sound, Helped, StreamsRestored
<1> QED
  BY <1>1, <1>2

LEMMA InSessionApplied ==
  ASSUME NEW s \in State, NEW t, s.up, InSession(s), Applied(s, t)
  PROVE  t \in State /\ InSession(t) /\ AfterSession(t)
BY DEF InSession, AfterSession, Applied

LEMMA CleanupPost ==
  ASSUME NEW s \in State, ~s.stale, StopsWork => Sound(s)
  PROVE  /\ Cleanup(s) \in State /\ ~Cleanup(s).up
         /\ AfterSession(Cleanup(s)) /\ InSession(Cleanup(s))
<1> DEFINE helped == (s.started \cap {"rover"})
                       \cup (s.started \cap s.active)
                       \cup (UNION {Together(x) : x \in s.started \cap s.active})
           sent == helped \cup (IF "camera" \in s.started THEN Together("camera") ELSE {})
           t == Cleanup(s)
<1>1. /\ t \in State /\ ~t.up /\ t.stale = s.stale /\ t.busy = s.busy
      /\ t.owed = IF s.open THEN s.owed \ sent ELSE s.owed
  <2>1. t = [s EXCEPT !.owed = IF s.open THEN @ \ sent ELSE @,
                      !.started = {}, !.active = {}, !.objects = {}, !.monitored = {},
                      !.open = FALSE, !.up = FALSE]
    BY Zenon DEF Cleanup
  <2> HIDE DEF sent, t
  <2> QED
    BY <2>1 DEF State
<1>2. ASSUME StopsAndAnswersWork
      PROVE  ~s.busy /\ t.owed = {}
  <2>1. Sound(s) /\ ~s.busy /\ s.owed \subseteq s.started
    BY <1>2 DEF StopsAndAnswersWork, Sound, Accounted
  <2>2. s.open => s.started \subseteq sent
    <3>1. s.started \subseteq Helpers \cup {"camera", "rover"}
      BY DEF State, Streams, Capture, Helpers
    <3>2. s.started \cap Helpers \subseteq s.active
      BY <2>1 DEF Sound, Helped
    <3>3. "camera" \in Together("camera")
      BY DEF Together
    <3>4. Together("camera") \subseteq sent \/ "camera" \notin s.started
      <4> HIDE DEF helped
      <4> QED
        OBVIOUS
    <3>5. ASSUME NEW x \in s.started
          PROVE  x \in sent
      <4>1. CASE x = "rover"
        BY <4>1
      <4>2. CASE x = "camera"
        BY <3>3, <3>4, <4>2
      <4>3. CASE x \in Helpers
        BY <3>2, <4>3
      <4> QED
        BY <3>1, <4>1, <4>2, <4>3
    <3> HIDE DEF sent
    <3> QED
      BY <3>5
  <2>3. ~s.open => s.started = {}
    BY <2>1 DEF Sound, ClosedIdle
  <2> HIDE DEF sent
  <2> QED
    BY <1>1, <2>1, <2>2, <2>3
<1> HIDE DEF sent, t
<1>3. AfterSession(t) /\ InSession(t)
  BY <1>1, <1>2 DEF AfterSession, InSession
<1> QED
  BY <1>1, <1>3 DEF t

\* What Run may come to.
RunResults(s) ==
  LET begun == EnsureStreamObjects([s EXCEPT !.up = TRUE, !.open = TRUE])
      CleanUp(t) == {Thrown(Cleanup(t))}
  IN Catch(Then(IdleOnly(begun), StartConfiguredStreams), CleanUp)

LEMMA RunPost ==
  ASSUME NEW s, s = Configuration(s.cfg), s.cfg \in SUBSET Streams, NEW r \in RunResults(s)
  PROVE  r.state \in State /\ InSession(r.state) /\ AfterSession(r.state)
<1> DEFINE u == [s EXCEPT !.up = TRUE, !.open = TRUE]
           b == EnsureStreamObjects(u)
           X == Then(IdleOnly(b), StartConfiguredStreams)
<1>1. \/ r \in X /\ r.ok
      \/ \E x \in X : ~x.ok /\ r = Thrown(Cleanup(x.state))
  BY Zenon DEF RunResults, Catch
<1>2. /\ u \in State /\ u.up /\ u.open /\ ~u.fatal /\ ~u.stale /\ ~u.busy
      /\ u.started = {} /\ u.monitored = {} /\ u.held = {} /\ u.owed = {}
      /\ u.active = {}
  <2>1. PICK cfg \in SUBSET Streams : s = Configuration(cfg)
    OBVIOUS
  <2>2. /\ s \in State /\ ~s.fatal /\ ~s.stale /\ ~s.busy /\ s.started = {}
        /\ s.monitored = {} /\ s.held = {} /\ s.owed = {} /\ s.active = {}
    BY <2>1 DEF Configuration, State
  <2> QED
    BY <2>2 DEF State
<1> HIDE DEF u
<1>3. PauseOf(u, u) /\ Sound(u) /\ Fresh(u)
  BY <1>2 DEF PauseOf, HaltOf, Sound, Helped, ClosedIdle, Accounted, Quiet, Fresh, NothingHeld
<1>4. PauseOf(u, b) /\ Sound(b) /\ Fresh(b)
  <2>1. /\ b \in State /\ Keeps(u, b) /\ b.started = u.started
        /\ b.monitored = u.monitored /\ b.held = u.held /\ b.stale = u.stale
        /\ b.owed = u.owed /\ b.active = u.active
    BY <1>2 DEF EnsureStreamObjects, State, Keeps
  <2>2. Sound(b) /\ Fresh(b)
    BY <1>2, <1>3, EnsurePost
  <2> HIDE DEF b
  <2> QED
    BY <1>3, <2>1, <2>2, PauseChange DEF Keeps
<1>5. b.owed = {} /\ b.started = {} /\ b.monitored = {} /\ b.up
  BY <1>2 DEF EnsureStreamObjects, State
<1>6. \A x \in X : \/ x \in IdleOnly(b) /\ ~x.ok
                   \/ \E q \in IdleOnly(b) : q.ok /\ x \in StartConfiguredStreams(q.state)
  BY Zenon DEF Then
<1> HIDE DEF b, X
<1>7. ASSUME NEW x \in X
      PROVE  /\ x.state \in State /\ Sound(x.state) /\ Fresh(x.state) /\ x.state.up
             /\ x.ok => x.state.cfg \subseteq x.state.started /\ Watched(x.state)
  <2>1. \A q \in IdleOnly(b) : /\ q.state \in State /\ Sound(q.state) /\ Fresh(q.state)
                               /\ q.state.up /\ Watched(q.state)
    BY <1>4, <1>5, IdleOnlyPost DEF PauseOf, HaltOf, Watched
  <2>2. CASE x \in IdleOnly(b) /\ ~x.ok
    BY <2>1, <2>2
  <2>3. CASE \E q \in IdleOnly(b) : q.ok /\ x \in StartConfiguredStreams(q.state)
    <3>1. PICK q \in IdleOnly(b) : q.ok /\ x \in StartConfiguredStreams(q.state)
      BY <2>3
    <3> QED
      BY <2>1, <3>1, StartConfiguredStreamsPost DEF Resumes, Keeps
  <2> QED
    BY <1>6, <2>2, <2>3
<1>8. CASE r \in X /\ r.ok
  BY <1>7, <1>8 DEF InSession, AfterSession, SharedRun
<1>9. CASE \E x \in X : ~x.ok /\ r = Thrown(Cleanup(x.state))
  <2>1. PICK x \in X : r = Thrown(Cleanup(x.state))
    BY <1>9
  <2>2. ~x.state.stale
    BY <1>7 DEF Fresh
  <2>3. r.state = Cleanup(x.state)
    BY <2>1, Results
  <2> QED
    BY <1>7, <2>2, <2>3, CleanupPost
<1> QED
  BY <1>1, <1>8, <1>9

LEMMA InitIInv == Init => IInv
<1> SUFFICES ASSUME Init
             PROVE  IInv
  OBVIOUS
<1>1. PICK cfg \in SUBSET Streams : st = Configuration(cfg)
  BY DEF Init
<1>2. st \in State /\ ~st.up /\ ~st.stale /\ ~st.busy /\ st.owed = {} /\ st.cfg = cfg
  BY <1>1 DEF Configuration, State
<1>3. TypeOK
  BY <1>2 DEF Init, TypeOK
<1>4. InSession(st) /\ AfterSession(st)
  BY <1>2 DEF InSession, AfterSession
<1>5. NotYetRun /\ PausedRestored
  BY <1>1, <1>2 DEF NotYetRun, PausedRestored, Serving
<1> QED
  BY <1>3, <1>4, <1>5 DEF IInv

\* What a command that leaves t and is remembered as c has to show.
LEMMA StepIInv ==
  ASSUME TypeOK, UNCHANGED faults, st' \in State, InSession(st'), AfterSession(st'),
         last' \in {"run", "paused", "changed", "unchanged", "other"},
         last' = "paused" /\ st'.up /\ ~st'.fatal /\ StopsWork => StreamsRestored(st')
  PROVE  IInv'
<1>1. TypeOK'
  BY DEF TypeOK
<1>2. InSession(st)' /\ AfterSession(st)'
  BY DEF InSession, AfterSession, Fresh, SharedRun, NothingHeld, Sound, Helped, ClosedIdle,
         Accounted, Watched, StopsWork, StopsAndAnswersWork
<1>3. NotYetRun' /\ PausedRestored'
  BY DEF NotYetRun, PausedRestored, Serving, StreamsRestored, StopsWork
<1> QED
  BY <1>1, <1>2, <1>3 DEF IInv

LEMMA ControlStreamsCases ==
  ASSUME st.cfg \in SUBSET Streams, ControlStreams
  PROVE  /\ st.up /\ UNCHANGED faults
         /\ \/ last' = "changed"
            \/ last' = "unchanged" /\ st' = st
            \/ last' = "unchanged" /\ \E cfg \in SUBSET Streams :
                                       \E r \in ApplyStreamCommand(st, cfg) :
                                         ~r.ok /\ st' = r.state
         /\ \/ st' = st
            \/ \E cfg \in SUBSET Streams : \E r \in ApplyStreamCommand(st, cfg) : st' = r.state
<1> DEFINE wanted == {Reconfigured(st.cfg, c[1], c[2]) : c \in ValidCommands(st)}
           results == {Thrown(st)} \cup UNION {ApplyStreamCommand(st, cfg) : cfg \in wanted}
<1>1. wanted \subseteq SUBSET Streams
  <2>1. \A c \in ValidCommands(st) : /\ c[1] \in {"start", "stop", "restart"}
                                     /\ c[2] \in SUBSET Capture
    BY DEF ValidCommands
  <2>2. \A c \in ValidCommands(st) : Reconfigured(st.cfg, c[1], c[2]) \in SUBSET Streams
    <3> SUFFICES ASSUME NEW command \in {"start", "stop", "restart"},
                        NEW selected \in SUBSET Capture
                 PROVE  Reconfigured(st.cfg, command, selected) \in SUBSET Streams
      BY <2>1
    <3>1. CASE command = "start"
      BY <3>1 DEF Reconfigured, Streams
    <3>2. CASE command = "stop"
      BY <3>2 DEF Reconfigured
    <3>3. CASE command = "restart"
      BY <3>3 DEF Reconfigured
    <3> QED
      BY <3>1, <3>2, <3>3
  <2> QED
    BY <2>2
<1>2. \/ Do({r \in results : r.ok}, "changed")
      \/ Do({r \in results : ~r.ok}, "unchanged")
  BY Zenon DEF ControlStreams
<1>3. st.up
  BY DEF ControlStreams
<1> HIDE DEF wanted
<1>4. \A r \in results : r = Thrown(st) \/ \E cfg \in SUBSET Streams :
                                              r \in ApplyStreamCommand(st, cfg)
  BY <1>1
<1> HIDE DEF results
<1>5. PICK r \in results : st' = r.state /\ UNCHANGED faults
                           /\ (last' = "changed" \/ (last' = "unchanged" /\ ~r.ok))
  BY <1>2 DEF Do
<1>6. CASE r = Thrown(st)
  BY <1>3, <1>5, <1>6, Results
<1>7. CASE \E cfg \in SUBSET Streams : r \in ApplyStreamCommand(st, cfg)
  BY <1>3, <1>5, <1>7
<1> QED
  BY <1>4, <1>6, <1>7

LEMMA NextIInv == IInv /\ [Next]_vars => IInv'
<1> SUFFICES ASSUME IInv, [Next]_vars
             PROVE  IInv'
  OBVIOUS
<1> USE DEF IInv
<1>1. st \in State /\ st.cfg \in SUBSET Streams
  BY DEF TypeOK, State
<1>2. CASE Run
  <2>1. last = "none" /\ Do(RunResults(st), "run")
    BY <1>2, Zenon DEF Run, RunResults
  <2>2. PICK r \in RunResults(st) : st' = r.state
    BY <2>1 DEF Do
  <2>3. st = Configuration(st.cfg)
    BY <2>1 DEF NotYetRun
  <2>4. st' \in State /\ InSession(st') /\ AfterSession(st')
    BY <1>1, <2>2, <2>3, RunPost
  <2> QED
    BY <2>1, <2>4, StepIInv DEF Do
<1>3. CASE Idle
  <2>1. PICK r \in RunIdleOperation(st) : st' = r.state
    BY <1>3 DEF Idle, Do
  <2>2. Restored(st, st') /\ st.up
    BY <1>1, <1>3, <2>1, RunIdleOperationPost DEF Idle
  <2> QED
    BY <1>1, <1>3, <2>2, InSessionRestored, StepIInv DEF Idle, Do
<1>4. CASE Synchronize
  <2>1. CASE Do({Thrown(st)}, "other")
    <3>1. st' = st
      BY <2>1, Results DEF Do
    <3> QED
      BY <1>1, <2>1, <3>1, StepIInv DEF Do
  <2>2. CASE Do(SynchronizeSystemTime(st), "paused")
    <3>1. PICK r \in SynchronizeSystemTime(st) : st' = r.state
      BY <2>2 DEF Do
    <3>2. Restored(st, st') /\ st.up
      BY <1>1, <1>4, <3>1, SynchronizeSystemTimePost DEF Synchronize
    <3> QED
      BY <1>1, <2>2, <3>2, InSessionRestored, StepIInv DEF Do
  <2> QED
    BY <1>4, <2>1, <2>2 DEF Synchronize
<1>5. CASE ControlStreams
  <2>1. /\ st.up
        /\ \/ st' = st
           \/ \E cfg \in SUBSET Streams : \E r \in ApplyStreamCommand(st, cfg) : st' = r.state
        /\ last' \in {"changed", "unchanged"} /\ UNCHANGED faults
    BY <1>1, <1>5, ControlStreamsCases
  <2>2. CASE st' = st
    BY <1>1, <2>1, <2>2, StepIInv
  <2>3. CASE \E cfg \in SUBSET Streams : \E r \in ApplyStreamCommand(st, cfg) : st' = r.state
    <3>1. Applied(st, st')
      BY <1>1, <2>3, ApplyStreamCommandPost
    <3> QED
      BY <1>1, <2>1, <3>1, InSessionApplied, StepIInv
  <2> QED
    BY <2>1, <2>2, <2>3
<1>6. CASE ControlRover
  <2>1. PICK enable \in BOOLEAN : Do(SetRoverRtcm(st, enable), "other")
    BY <1>6 DEF ControlRover
  <2>2. PICK r \in SetRoverRtcm(st, enable) : st' = r.state
    BY <2>1 DEF Do
  <2>3. st' \in State /\ InSession(st') /\ AfterSession(st')
    BY <1>1, <1>6, <2>2, SetRoverRtcmPost DEF ControlRover, InSession, AfterSession
  <2> QED
    BY <2>1, <2>3, StepIInv DEF Do
<1>7. CASE ControlLidarPower
  <2>1. PICK r \in LidarPower(st) : st' = r.state
    BY <1>7 DEF ControlLidarPower, Do
  <2>2. st' \in State /\ InSession(st') /\ AfterSession(st')
    BY <1>1, <1>7, <2>1, LidarPowerPost
       DEF ControlLidarPower, InSession, AfterSession, SharedRun, Watched
  <2> QED
    BY <1>7, <2>2, StepIInv DEF ControlLidarPower, Do
<1>8. CASE ReadFrames
  <2>1. /\ st' \in State /\ st'.up = st.up /\ st'.fatal = st.fatal /\ st'.cfg = st.cfg
        /\ st'.started = st.started /\ st'.active = st.active /\ st'.open = st.open
        /\ st'.objects = st.objects /\ st'.monitored = st.monitored
        /\ st'.stale = st.stale /\ st'.owed = st.owed /\ st'.busy = st.busy
        /\ UNCHANGED <<faults, last>>
    BY <1>1, <1>8 DEF ReadFrames, State, FrameState
  <2>2. InSession(st') /\ AfterSession(st')
    BY <1>8, <2>1 DEF ReadFrames, InSession, AfterSession, Fresh, SharedRun, Watched, Sound,
                      Helped, ClosedIdle, Accounted
  <2>3. st.up /\ ~st.fatal
    BY <1>8 DEF ReadFrames
  <2>4. last # "none"
    BY <2>3 DEF NotYetRun, Configuration
  <2>5. last' = "paused" /\ st'.up /\ ~st'.fatal /\ StopsWork => StreamsRestored(st')
    BY <2>1 DEF PausedRestored, Serving, StreamsRestored
  <2> QED
    BY <2>1, <2>2, <2>4, <2>5, StepIInv DEF TypeOK
<1>9. CASE End
  <2>1. st' = Cleanup(st) /\ st.up /\ last' = "other" /\ UNCHANGED faults
    BY <1>9 DEF End
  <2>2. st' \in State /\ InSession(st') /\ AfterSession(st')
    BY <1>1, <2>1, CleanupPost DEF InSession, Fresh
  <2> QED
    BY <2>1, <2>2, StepIInv
<1>10. CASE UNCHANGED vars
  BY <1>10 DEF vars, TypeOK, InSession, AfterSession, Fresh, SharedRun, NothingHeld, Sound,
     Helped, ClosedIdle, Accounted, Watched, StopsWork, StopsAndAnswersWork, NotYetRun,
     PausedRestored, Serving, StreamsRestored
<1> QED
  BY <1>2, <1>3, <1>4, <1>5, <1>6, <1>7, <1>8, <1>9, <1>10 DEF Next

-----------------------------------------------------------------------------
(* The theorems. *)

LEMMA SpecIInv == Spec => []IInv
<1>1. Init => IInv
  BY InitIInv
<1>2. IInv /\ [Next]_vars => IInv'
  BY NextIInv
<1> QED
  BY <1>1, <1>2, PTL DEF Spec

\* The session, what may fail and the history keep their types.
THEOREM TypeCorrect == Spec => []TypeOK
<1>1. IInv => TypeOK
  BY DEF IInv
<1> QED
  BY <1>1, SpecIInv, PTL

\* As long as no stop fails and no start is answered with other settings, whatever
\* else fails: between commands exactly the configured streams are flagged as
\* started and run on the device, they and no others are watched for silence, and
\* each helper delivers.
THEOREM Served == Spec => []StreamsServedIfStopsAndAnswersWork
<1>1. IInv => StreamsServedIfStopsAndAnswersWork
  BY DEF IInv, InSession, Sound, Helped, Accounted, Watched, Serving,
         StreamsServedIfStopsAndAnswersWork, StopsAndAnswersWork,
         ConfiguredStreamsRun, ActiveStreamsMonitored, ActiveStreamsDeliver
<1> QED
  BY <1>1, SpecIInv, PTL

\* Each session the device acknowledged has been asked to stop when run() ends,
\* if stops work and no start is answered with other settings.
THEOREM NothingLeft == Spec => []NothingLeftRunningIfStopsAndAnswersWork
<1>1. IInv => NothingLeftRunningIfStopsAndAnswersWork
  BY DEF IInv, AfterSession, NothingLeftRunningIfStopsAndAnswersWork, NothingLeftRunning
<1> QED
  BY <1>1, SpecIInv, PTL

\* An operation that needs an idle device never meets a session of this driver,
\* under the same two conditions.
THEOREM IdleIsIdle == Spec => []IdleOperationsAreIdleIfStopsAndAnswersWork
<1>1. IInv => IdleOperationsAreIdleIfStopsAndAnswersWork
  BY DEF IInv, InSession, AfterSession, Sound, Accounted, StopsAndAnswersWork,
         IdleOperationsAreIdleIfStopsAndAnswersWork
<1> QED
  BY <1>1, SpecIInv, PTL

\* Whatever fails, a capture session starts with no frame of an earlier one in the
\* assembler, the resolver or the accumulator.
THEOREM StartsFresh == Spec => []CaptureStartsFresh
<1>1. IInv => CaptureStartsFresh
  BY DEF IInv, InSession, AfterSession, Fresh, CaptureStartsFresh
<1> QED
  BY <1>1, SpecIInv, PTL

\* As long as no stop fails, whatever else does and whatever ran before: an operation
\* that pauses the streams leaves every configured stream flagged, running on the
\* device and delivered by its helper, or ends the session.
THEOREM PausesEnd == Spec => PausedStreamsRestored
<1>1. IInv' => (last' = "paused" /\ Serving' /\ StopsWork' => StreamsRestored(st'))
  BY DEF IInv, PausedRestored, StreamsRestored
<1>2. IInv /\ [Next]_vars => IInv'
  BY NextIInv
<1> QED
  BY <1>1, <1>2, SpecIInv, PTL DEF Spec, PausedStreamsRestored

\* Only a command about the streams can end in "unchanged", and it restores the
\* configuration it found.
LEMMA FailedStep ==
  ASSUME IInv, Next, last' = "unchanged"
  PROVE  st'.cfg = st.cfg
<1>1. st \in State /\ st.cfg \in SUBSET Streams
  BY DEF IInv, TypeOK, State
<1>2. CASE ReadFrames
  BY <1>1, <1>2 DEF ReadFrames, State
<1>3. CASE ControlStreams
  BY <1>1, <1>3, ControlStreamsCases, ApplyStreamCommandPost
<1>4. Run => last' = "run"
  BY Zenon DEF Run, Do
<1>5. Idle => last' = "paused"
  BY Zenon DEF Idle, Do
<1>6. Synchronize => last' = "other" \/ last' = "paused"
  BY Zenon DEF Synchronize, Do
<1>7. ControlRover \/ ControlLidarPower \/ End => last' = "other"
  BY Zenon DEF ControlRover, ControlLidarPower, End, Do
<1> QED
  BY <1>2, <1>3, <1>4, <1>5, <1>6, <1>7 DEF Next

\* Whatever fails, and however often: a stream command that fails leaves the
\* configuration of before.
THEOREM FailureKeepsConfiguration == Spec => FailedCommandKeepsConfiguration
<1>1. IInv /\ [Next]_vars => [last' = "unchanged" => st'.cfg = st.cfg]_vars
  BY FailedStep
<1> QED
  BY <1>1, SpecIInv, PTL DEF Spec, FailedCommandKeepsConfiguration
=============================================================================
