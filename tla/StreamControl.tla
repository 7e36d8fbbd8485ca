--------------------------- MODULE StreamControl ---------------------------
(***************************************************************************)
(* What a session of Driver::run (common/src/driver.cpp) does with the      *)
(* capture streams: startConfiguredStreams, stopConfiguredStreams, and the  *)
(* commands that pause, restart or reconfigure them, when any call to the   *)
(* device may fail.  Every command runs to its end on the sensor thread     *)
(* before anything else does, so a command is one step; which of its SDK    *)
(* calls fail is chosen by the operators below, which follow the code's     *)
(* try and catch: an operator takes a state to the SET of its results, a    *)
(* result being the state left behind and whether it returned or threw.     *)
(*                                                                         *)
(* The device and the SDK client are external: a call answers or throws,    *)
(* and a start may be answered by a refusal or by other settings than asked *)
(* for.  The stream helpers are those of sdk_transport.hpp (RK-local); the  *)
(* SDK's own, used over USB, are taken to have the same lifecycle.          *)
(***************************************************************************)
EXTENDS Naturals, FiniteSets

CONSTANTS RkLocal,   \* built with PRISM_ROS_RKLOCAL
          FaultSets  \* what may fail in a session: each a subset of AllFaults

AllFaults == {"start", "refusal", "mismatch", "stop", "read", "operation", "open"}

ASSUME RkLocalAssumption == RkLocal \in BOOLEAN
ASSUME FaultSetsAssumption == FaultSets \subseteq SUBSET AllFaults

Helpers == {"imu", "lidar"}              \* the streams with a helper object
Capture == {"camera", "imu", "lidar"}    \* the capture streams
Streams == Capture \cup {"rover"}
FrameState == {"assembler", "resolver", "accumulator"}

VARIABLES
  st,      \* the state of the session, a record
  faults,  \* what may fail in this session
  last     \* history: what the last command was

vars == <<st, faults, last>>

\* cfg: the enable_ flags of config.  started: video_started, imu_started,
\* lidar_started and rover_started.  objects and active: the helper objects
\* that exist, and their active_.  monitored: streams whose silence_ns is set.
\* held: which of camera_assembler, device_time_resolver and
\* lidar_frame_accumulator may hold frames of an earlier start.  up: inside the
\* try of run().  open: the client is.  fatal: fatal_control_error is set.
\* History: owed, the sessions the device has acknowledged and that no stop has
\* been sent for since; stale, a capture session was started with held frame
\* state; busy, an operation that needs an idle session ran with one owed.
State ==
  [cfg : SUBSET Streams, started : SUBSET Streams, objects : SUBSET Helpers,
   active : SUBSET Helpers, monitored : SUBSET Capture,
   held : SUBSET FrameState, up : BOOLEAN, open : BOOLEAN, fatal : BOOLEAN,
   owed : SUBSET Streams, stale : BOOLEAN, busy : BOOLEAN]

TypeOK == /\ st \in State
          /\ faults \in FaultSets
          /\ last \in {"none", "run", "paused", "changed", "unchanged", "other"}

-----------------------------------------------------------------------------
(* Results: return, throw, sequence, try and catch. *)

Returned(s) == [state |-> s, ok |-> TRUE]
Thrown(s) == [state |-> s, ok |-> FALSE]

\* A call to the device that may return with s, or throw and leave f behind:
\* it throws when the fault is possible, and always on a closed client.
Call(s, f, fault) ==
  (IF s.open THEN {Returned(s)} ELSE {})
    \cup (IF fault \in faults \/ ~s.open THEN {Thrown(f)} ELSE {})

\* results; op.  What op returns where results returned.
Then(results, Op(_)) ==
  {r \in results : ~r.ok} \cup UNION {Op(r.state) : r \in {q \in results : q.ok}}

\* try { results } catch (...) { handler }.
Catch(results, Handler(_)) ==
  {r \in results : r.ok} \cup UNION {Handler(r.state) : r \in {q \in results : ~q.ok}}

Throw(results) == {Thrown(r.state) : r \in results}
Always(results) == {Returned(r.state) : r \in results}

\* fatal_control_error = ...; throw.
Fatal(s) == {Thrown([s EXCEPT !.fatal = TRUE])}

-----------------------------------------------------------------------------
(* startConfiguredStreams. *)

Wanted(s, x) == x \in s.cfg /\ x \notin s.started

EnsureStreamObjects(s) == [s EXCEPT !.objects = @ \cup (s.cfg \cap Helpers)]

\* A start the device has acknowledged; it is stale if earlier frames remain.
Acknowledged(s, x, remains) ==
  [s EXCEPT !.owed = @ \cup {x}, !.stale = @ \/ (s.held \cap remains # {})]

Refused(s) == IF "refusal" \in faults /\ s.open THEN {Thrown(s)} ELSE {}

StartCamera(s) ==
  LET started == [Acknowledged(s, "camera", {"assembler", "resolver"}) EXCEPT
                    !.started = @ \cup {"camera"},
                    !.monitored = @ \cup {"camera"}]
  IN IF Wanted(s, "camera") THEN Call(started, s, "start") \cup Refused(s)
     ELSE {Returned(s)}

\* Mutated form: active_ is not set.
HelperStartInactive(s, x, remains) ==
  IF x \in s.active THEN {Returned(s)}
  ELSE Call(Acknowledged(s, x, remains), s, "start")

\* The start of a stream helper: nothing when it is active already; else the
\* device's answer makes it active, and other settings make it throw after that.
HelperStart(s, x, remains) ==
  LET running == [Acknowledged(s, x, remains) EXCEPT !.active = @ \cup {x}]
  IN IF x \in s.active THEN {Returned(s)}
     ELSE Call(running, s, "start")
            \cup (IF "mismatch" \in faults /\ s.open THEN {Thrown(running)} ELSE {})

\* health.reset comes before the call, *_started after it.
StartHelped(s, x, remains) ==
  LET Flag(t) == {Returned([t EXCEPT !.started = @ \cup {x}])}
  IN Then(HelperStart([s EXCEPT !.monitored = @ \cup {x}], x, remains), Flag)

StartImu(s) ==
  IF Wanted(s, "imu") THEN StartHelped(s, "imu", {"resolver"}) ELSE {Returned(s)}

\* Reads frames for up to five seconds, those of the camera and the IMU only.
EstablishDeviceTimeReference(s) ==
  IF s.cfg \cap {"camera", "imu"} = {} THEN {Returned(s)}
  ELSE LET read == [s EXCEPT !.held = @ \cup {"assembler", "resolver"}]
       IN Call(read, read, "read")

StartRover(s) ==
  IF Wanted(s, "rover")
  THEN Call([Acknowledged(s, "rover", {}) EXCEPT !.started = @ \cup {"rover"}], s, "start")
         \cup Refused(s)
  ELSE {Returned(s)}

StartLidar(s) ==
  IF Wanted(s, "lidar")
  THEN LET fresh == [s EXCEPT !.held = @ \ {"accumulator"}]
       IN StartHelped(fresh, "lidar", {"accumulator"})
            \cup (IF "lidar" \in s.active THEN {}
                  ELSE Refused([fresh EXCEPT !.monitored = @ \cup {"lidar"}]))
  ELSE {Returned(s)}

StartConfiguredStreams(s) ==
  Then(Then(Then(Then(StartCamera(EnsureStreamObjects(s)), StartImu),
                 EstablishDeviceTimeReference),
            StartRover),
       StartLidar)

-----------------------------------------------------------------------------
(* stopConfiguredStreams. *)

DisableCaptureHealth(s) == [s EXCEPT !.monitored = {}]

StopRover(s) ==
  IF "rover" \in s.started
  THEN LET sent == [s EXCEPT !.owed = @ \ {"rover"}]
       IN Call([sent EXCEPT !.started = @ \ {"rover"}], sent, "stop")
  ELSE {Returned(s)}

\* The stop of a helper: nothing when it is not active; else it is inactive
\* from then on, and asks the device if the client is open.  Stopping either
\* the camera or the IMU stops the one session they share.
Together(x) == IF x \in {"camera", "imu"} THEN {"camera", "imu"} ELSE {x}

HelperStop(s, x) ==
  LET inactive == [s EXCEPT !.active = @ \ {x}]
      sent == [inactive EXCEPT !.owed = @ \ Together(x)]
  IN IF x \notin s.active THEN {Returned(s)}
     ELSE IF ~s.open THEN {Returned(inactive)}
     ELSE Call(sent, sent, "stop")

StopLidar(s) ==
  LET Flag(t) == {Returned([t EXCEPT !.started = @ \ {"lidar"},
                                     !.held = @ \ {"accumulator"}])}
  IN IF "lidar" \in s.started \cap s.objects
     THEN Then(HelperStop(s, "lidar"), Flag) ELSE {Returned(s)}

StopImuOrCamera(s) ==
  LET Flag(t) == {Returned([t EXCEPT !.started = @ \ {"imu", "camera"}])}
      sent == [s EXCEPT !.owed = @ \ Together("camera")]
  IN IF "imu" \in s.started \cap s.objects THEN Then(HelperStop(s, "imu"), Flag)
     ELSE IF "camera" \in s.started
          THEN Call([sent EXCEPT !.started = @ \ {"camera"}], sent, "stop")
     ELSE {Returned(s)}

StopConfiguredStreams(s) ==
  Then(Then(StopRover(DisableCaptureHealth(s)), StopLidar), StopImuOrCamera)

-----------------------------------------------------------------------------
(* The commands. *)

\* Mutated form: no reset.
ResetNoFrameState(s) == s

\* camera_assembler.reset() and device_time_resolver.reset().
ResetFrameState(s) == [s EXCEPT !.held = @ \ {"assembler", "resolver"}]

\* An SDK call that the Agent permits only while no capture session runs.
IdleOnly(s) ==
  LET after == [s EXCEPT !.busy = @ \/ (s.owed \cap Capture # {})]
  IN Call(after, after, "operation")

StartOrFatal(s) == Catch(StartConfiguredStreams(s), Fatal)

\* Mutated form: the error is rethrown and nothing is started again.
RecoverNothing(s) == {Thrown(s)}

\* The catch (...) of an operation: start again and rethrow.
Recover(s) == Throw(StartOrFatal(s))

\* runIdleOperation: the network, Wi-Fi, RTK, TimeSync and device configuration
\* services.
RunIdleOperation(s) ==
  LET Operate(t) == Then(IdleOnly(t), StartOrFatal)
      AfterOperation(t) == IF t.fatal THEN {Thrown(t)} ELSE Recover(t)
      Stopped == Catch(StopConfiguredStreams(s), Recover)
      Body(t) == Catch(Operate(ResetFrameState(t)), AfterOperation)
  IN Then(Stopped, Body)

\* The helpers' destructors stop what is active, and swallow a failure.
DestroyHelpers(s) ==
  LET stopped == {t.state : t \in Then(Always(HelperStop(s, "imu")),
                                       LAMBDA t : Always(HelperStop(t, "lidar")))}
  IN {Returned([t EXCEPT !.objects = {}]) : t \in stopped}

ReopenControlClient(s) ==
  LET Reopen(t) == LET opened == [t EXCEPT !.open = TRUE]
                       closed == [t EXCEPT !.open = FALSE]
                   IN {Returned(EnsureStreamObjects(opened))}
                        \cup (IF "open" \in faults
                              THEN {Thrown(closed), Thrown(opened)} ELSE {})
  IN Then(DestroyHelpers(s), Reopen)

\* synchronizeSystemTime, once it is not refused.
SynchronizeSystemTime(s) ==
  LET Restart(t) == Catch(Then(ReopenControlClient(t), StartConfiguredStreams), Fatal)
      Body(t) == Then(Catch(IdleOnly(ResetFrameState(t)), LAMBDA u : Throw(Restart(u))),
                      Restart)
  IN Then(Catch(StopConfiguredStreams(s), Recover), Body)

\* What a StreamCommand makes of the enable_ flags.
Reconfigured(cfg, command, selected) ==
  CASE command = "start" -> cfg \cup selected
    [] command = "stop" -> cfg \ selected
    [] command = "restart" -> cfg

\* The commands that pass applyStreamCommand's validation.
ValidCommands(s) ==
  {c \in {"start", "stop", "restart"} \X (SUBSET Capture \ {{}}) :
     c[1] = "restart" => c[2] \subseteq s.cfg}

\* The previous flags are put back (mutated form: they are not).
WithNewConfiguration(s, cfg) == s

WithConfiguration(s, cfg) == [s EXCEPT !.cfg = cfg]

\* applyStreamCommand, once it is validated: the first stop is outside its try.
ApplyStreamCommand(s, cfg) ==
  LET Previous(t) == Recover(ResetFrameState(WithConfiguration(t, s.cfg)))
      Restore(t) == Then(Always(StopConfiguredStreams(t)), Previous)
      Change(t) == Catch(StartConfiguredStreams(ResetFrameState([t EXCEPT !.cfg = cfg])),
                         Restore)
  IN Then(StopConfiguredStreams(s), Change)

\* setRoverRtcm: the flags become what the device answers, asked for or not.
SetRoverRtcm(s, enable) ==
  LET sent == IF enable THEN s ELSE [s EXCEPT !.owed = @ \ {"rover"}]
      enabled == [Acknowledged(sent, "rover", {}) EXCEPT
                    !.started = @ \cup {"rover"}, !.cfg = @ \cup {"rover"}]
      disabled == [s EXCEPT !.owed = @ \ {"rover"},
                            !.started = @ \ {"rover"}, !.cfg = @ \ {"rover"}]
      granted == IF enable THEN enabled ELSE disabled
      denied == IF enable THEN disabled ELSE enabled
  IN Call(granted, sent, IF enable THEN "start" ELSE "stop")
       \cup (IF "refusal" \in faults /\ s.open THEN {Thrown(denied)} ELSE {})

\* Mutated form: nothing is refused.
LidarPowerUnguarded(s) == IdleOnly(s)

\* getLidarPower, setLidarStandby, getLidarSpeed and setLidarSpeed never pause
\* the streams: they refuse while one is started.
LidarPower(s) ==
  IF s.started \cap Capture # {} THEN {Thrown(s)} ELSE IdleOnly(s)

\* Mutated form: the rover is forgotten.
CleanupWithoutRover(s) ==
  [s EXCEPT !.owed = IF s.open THEN @ \cap {"rover"} ELSE @,
            !.started = {}, !.active = {}, !.objects = {}, !.monitored = {},
            !.open = FALSE, !.up = FALSE]

\* cleanup(): what the flags say is started is asked to stop, whatever fails;
\* then the client is closed, the helpers are destroyed and nothing is watched.
Cleanup(s) ==
  LET sent == (s.started \cap {"rover"})
                \cup (s.started \cap s.active)
                \cup (UNION {Together(x) : x \in s.started \cap s.active})
                \cup (IF "camera" \in s.started THEN Together("camera") ELSE {})
  IN [s EXCEPT !.owed = IF s.open THEN @ \ sent ELSE @,
               !.started = {}, !.active = {}, !.objects = {}, !.monitored = {},
               !.open = FALSE, !.up = FALSE]

-----------------------------------------------------------------------------
(* The session. *)

Configuration(cfg) ==
  [cfg |-> cfg, started |-> {}, objects |-> {}, active |-> {}, monitored |-> {},
   held |-> {}, up |-> FALSE, open |-> FALSE, fatal |-> FALSE, owed |-> {},
   stale |-> FALSE, busy |-> FALSE]

Init == /\ st \in {Configuration(cfg) : cfg \in SUBSET Streams}
        /\ faults \in FaultSets
        /\ last = "none"

Do(results, command) ==
  /\ \E r \in results : st' = r.state
  /\ last' = command
  /\ UNCHANGED faults

\* run() up to enableControls: the LiDAR network, then the streams; an
\* exception leaves through cleanup.
Run ==
  /\ last = "none"
  /\ LET begun == EnsureStreamObjects([st EXCEPT !.up = TRUE, !.open = TRUE])
         network == IdleOnly(begun)
         CleanUp(t) == {Thrown(Cleanup(t))}
     IN Do(Catch(Then(network, StartConfiguredStreams), CleanUp), "run")

Idle == st.up /\ Do(RunIdleOperation(st), "paused")

\* It is refused over RK-local, under GNSS time, and when that cannot be read.
Synchronize ==
  /\ st.up
  /\ \/ Do({Thrown(st)}, "other")
     \/ ~RkLocal /\ st.open /\ Do(SynchronizeSystemTime(st), "paused")

ControlStreams ==
  /\ st.up
  /\ LET wanted == {Reconfigured(st.cfg, c[1], c[2]) : c \in ValidCommands(st)}
         results == {Thrown(st)} \cup UNION {ApplyStreamCommand(st, cfg) : cfg \in wanted}
     IN \/ Do({r \in results : r.ok}, "changed")
        \/ Do({r \in results : ~r.ok}, "unchanged")

ControlRover == st.up /\ \E enable \in BOOLEAN : Do(SetRoverRtcm(st, enable), "other")
ControlLidarPower == st.up /\ Do(LidarPower(st), "other")

\* Frames arrive between the commands and leave state behind.
ReadFrames ==
  /\ st.up /\ ~st.fatal
  /\ st' = [st EXCEPT !.held =
              @ \cup (IF st.started \cap {"camera", "imu"} # {}
                     THEN {"assembler", "resolver"} ELSE {})
                \cup (IF "lidar" \in st.active THEN {"accumulator"} ELSE {})]
  /\ UNCHANGED <<faults, last>>

\* The loop ends: a stop was requested, a command was fatal or a read failed.
End == /\ st.up
       /\ st' = Cleanup(st)
       /\ last' = "other"
       /\ UNCHANGED faults

Next == \/ Run \/ Idle \/ Synchronize \/ ControlStreams \/ ControlRover
        \/ ControlLidarPower \/ ReadFrames \/ End

Spec == Init /\ [][Next]_vars

-----------------------------------------------------------------------------
(* Properties. *)

Serving == st.up /\ ~st.fatal

\* In a session in which no stop fails; in which, moreover, no start is answered
\* with other settings than asked for.
StopsWork == "stop" \notin faults
StopsAndAnswersWork == StopsWork /\ "mismatch" \notin faults

\* Between commands the streams that run are the ones that are configured, by the
\* driver's flags and by the device, which has acknowledged the start of each and
\* has not been asked to stop it since, and runs no other.
ConfiguredStreamsRun == Serving => st.started = st.cfg /\ st.owed = st.cfg

\* The capture streams that run, and no others, are watched for silence.
ActiveStreamsMonitored == Serving => st.monitored = st.started \cap Capture

\* A helper delivers the frames of its stream as long as the stream is started.
ActiveStreamsDeliver == Serving => st.started \cap Helpers \subseteq st.active

\* All of it holds, whatever else fails, as long as no stop does and no start is
\* answered with other settings: every command that fails leaves the streams as
\* they should be, or ends the session.
StreamsServedIfStopsAndAnswersWork ==
  StopsAndAnswersWork => /\ ConfiguredStreamsRun
                         /\ ActiveStreamsMonitored /\ ActiveStreamsDeliver

\* README.md:425: after a stream command that succeeded the state follows the
\* selection, that is, the device runs every configured capture stream.
SelectedStreamsRun ==
  last = "changed" /\ Serving => st.cfg \cap Capture \subseteq st.owed

\* Each session the device has acknowledged is asked to stop before run() ends.
NothingLeftRunning == ~st.up => st.owed = {}
NothingLeftRunningIfStopsAndAnswersWork == StopsAndAnswersWork => NothingLeftRunning

\* What the Agent permits only while idle is never asked of it while a capture
\* session that it has acknowledged has not been asked to stop.
IdleOperationsAreIdleIfStopsAndAnswersWork == StopsAndAnswersWork => ~st.busy

\* A capture session never starts with the assembler's, the resolver's or the
\* accumulator's frames of the one before, whatever fails.
CaptureStartsFresh == ~st.stale

\* README.md:419: an operation that pauses the streams leaves every configured
\* stream flagged, running on the device and delivered by its helper, or ends the
\* session, whether it succeeded or not, and also where a stream was not running
\* before; as long as no stop fails.
StreamsRestored(s) == /\ s.cfg \subseteq s.started \cap s.owed
                      /\ s.cfg \cap Helpers \subseteq s.active
PausedStreamsRestored ==
  [][last' = "paused" /\ Serving' /\ StopsWork' => StreamsRestored(st')]_vars

\* A stream command that failed has not changed the configuration.
FailedCommandKeepsConfiguration ==
  [][last' = "unchanged" => st'.cfg = st.cfg]_vars
=============================================================================
