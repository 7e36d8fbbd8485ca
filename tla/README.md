# A verification of the Prism ROS adapter

TLA+ models of the parts of the adapter that have behaviour of their own, TLC
runs that check them on small instances, and TLAPS proofs that hold for every
value of the constants. Line numbers without a path are those of
`src/common/src/driver.cpp`. `PROJECT.json` maps each definition to the lines it
translates, lists the runs with the properties each checks and the mutation of
the code each property catches, the hazards, the disagreements found, and the
theorems.

    tlc -workers 2 -config dispatch.cfg MCDispatchQueue.tla    # one run
    tlapm QueueProofs.tla                              # one proof module

## The system

The adapter connects one Prism device to ROS 1 or ROS 2. `Driver`
(`common/`) owns the device; two nodes (`ros1_ws/`, `ros2_ws/`) turn its
callbacks into publications and ROS services into calls of its methods. The
protocol is in the Prism SDK, a submodule whose contents are not in the
repository; it is modelled only from how the adapter uses it.

Threads:

- The **sensor thread** is in `Driver::run` (1273-1504). It makes every SDK
  call: it opens the client, starts the streams, then in a loop serves the
  control commands, reads a bounded batch of frames, polls GNSS and publishes
  the status once a second.
- Eleven **workers**, one for each `DispatchQueue`, call the publishers.
- The **service threads** of ROS call `Driver`'s methods, which wait for the
  sensor thread. In both nodes this is one thread, the spinner (`executor.spin()`
  on a thread of its own, `AsyncSpinner(1)`).

| Component | State | Operations | Talks to |
| --- | --- | --- | --- |
| Dispatch queue (308-386) | `running_`, `queue_`, mutex, condition variable, worker thread, four counters | `start`, `push`, `stop`, `workerMain` | fed by the sensor thread; calls a publisher on its worker; counters read by status and health |
| Control queue (438-495, 1587-1592) | `accepting_controls`, the deque of at most 64 commands, `fatal_control_error`, `stop_requested` | `invokeControl`, `enableControls`, `processControls`, `cancelControls`, `requestStop` | service threads block on a future that the sensor thread sets |
| Run loop (1273-1504) | the phase of the session | open, start, serve, read, leave, clean up | everything below |
| Stream control (497-870, 1240-1271, 1546-1569) | `enable_` flags, `*_started` flags, helper objects | start, stop, pause for an idle operation, reconfigure, synchronize time, rover, LiDAR power, clean up | SDK client, helpers, health, the three holders of frame state |
| Stream helpers (`sdk_transport.hpp`) | `active_` | `start`, `stop`, `handleFrame`, destructor | SDK client; callbacks of the sensor thread |
| LiDAR frame accumulator (`lidar_frame_accumulator.cpp`, `lidar_conversion.hpp`) | the open window and its cloud | `append`, `reset` | fed by `dispatchLidarPoints`, feeds a dispatch queue |
| Sensor data health (`sensor_data_health.hpp`, 871-950) | per stream: last number and arrival, pending and total counts, throttle | `observe`, `add`, `counter`, `reset`, `disable`, `reports`, ... | every data path; the log |
| Device time resolver (`device_time_resolver.hpp`) | one reference: time, arrival, source | `observeBoard`, `observeCamera`, `resolveLidar`, `reset` | IMU and camera feed it, the LiDAR paths ask it |
| GNSS raw feed, rover RTCM (1383-1396, 1424-1449) | cursor, session, next poll | page, mark gaps and failures | SDK queries; a dispatch queue; two topics |
| Navigation polling, receiver model (1450-1463, 1506-1544, `receiver_model.hpp`, `navigation_fix.hpp`) | cursors, the last position and its precision, the sequence | poll, fold, position, count | SDK queries; dispatch queues; health |
| Publication ACK window (`publication_ack.hpp`, `prism_ros2_node.cpp` 956-1018) | pending publications of a lane | `published` | the camera and IMU workers and DDS |
| Camera assembly and credits (1138-1202, 1407-1419) | in the SDK's assembler | chunk, metadata, expire, ack | SDK; a dispatch queue |
| Driver's methods (1623-1996) | none of their own | 33: test, queue, ask the device, check its answer | control queue |
| ROS nodes | publishers, services, parameters, the process | `main`, spinner, 32 service callbacks each | `Driver`'s methods |
| Options, conversions, messages, packaging | none that changes | | |

What is hard here:

- **Two threads around one condition variable**, with a flag that changes
  without the mutex (dispatch queue).
- **Blocking without a time-out**: a service waits on a future for ever unless
  each way out of `run` sets it.
- **Partial failure**: a command is up to ten SDK calls, any of which may
  throw, with recovery that makes more of them; several flags describe the same
  stream and must agree afterwards.
- **State that outlives a restart** of the streams it was gathered from.
- **Time that jumps**: gaps, steps back, resets, widths that wrap.
- **Reports that are held back** and must still say everything.
- **Peers that forget, restart or do not answer**: the Agent's caches, the
  device's credits, DDS subscribers.
- **Several clocks**: two time domains of a LiDAR, a date and a time of day that
  come from different messages, ages on a monotonic clock.
- **Sixty-four service handlers** that must all ask for consent and all tell the
  truth.

What makes each component correct is stated as properties of its module, below.
The hazards in `PROJECT.json` name the line where each can go wrong and the
properties that would show it.

## Modules

| Module | Role |
| --- | --- |
| `DropOldestQueue` | the contract of a dispatch queue: no thread, lock or flag |
| `DispatchQueue` | the queue as it is coded; implements `DropOldestQueue` |
| `ControlQueue` | service threads, command deque and the control flow of `run` |
| `StreamControl` | what the commands do to the streams, with failing SDK calls |
| `LidarFrames` | the accumulator and the loop that feeds it |
| `SensorHealth` | the loss accounting of one stream |
| `RawFeed` | raw GNSS bytes from the Agent's cache through the poll and a dispatch queue to two topics |
| `DeviceTime` | the resolver, its sources, and what the LiDAR handlers do with its answer |
| `CameraCredits` | camera sets on the sensor thread and the credits of the device |
| `Publication` | the publication workers of the ROS 2 node and DDS |
| `Receiver` | the positions of both GNSS receivers |
| `DriverMethods` | each method of `Driver` as a record: where it tests, how it stands to the streams, what it asks, who checks |
| `Ros1Services`, `Ros2Services` | each service of a node as a record: confirm, methods, what success means |
| `Node` | the process of either node: `main`, spinner, requests, composed with `ControlQueue` |
| `MC...` | the instances TLC checks |
| `...Proofs` | the theorems |

**DispatchQueue.** A step is one atomic access, one critical section, or one
wait or notify. The variable `driver` is where the sensor thread is inside
`push` or `stop`, `worker` where the worker is in `workerMain`. Evaluating the
predicate of `cv_.wait` and falling asleep are two steps with the mutex held,
because `stop` clears `running_` without it; `SpuriousWakeup` wakes a sleeper at
any time. The test of `running_` in `push` is part of the push: only the thread
that pushes changes it. Values are numbers in the order they were accepted.
`handed`, `accepted`, `taken` and `cleared` are history.

**DropOldestQueue** has a buffer and a handler that is busy or not. The
refinement maps `running_` and the place of the driver to open, closing or
closed, and the worker's handler call to busy.

**ControlQueue.** A command is its caller, who has one at a time; what it does
is the value, error, or fatal error it ends in. `phase` follows `run` from its
first line to its last, with the three ways out: before the `try` (`OpenFails`),
through the `catch` (`StartFails`, failing `Read`, a fatal command) and the end
of the loop. `TakeCommands` is the swap under the lock; `Execute` is one command
outside it, while callers go on adding.

**StreamControl.** The sensor thread runs a command to its end before anything
else, so a command is one step; what can differ is which SDK call in it fails.
The operators follow the code's control flow: each takes a state to the set of
its results, a result being a state and whether it returned or threw; `Then` is
sequencing, `Catch` is `try`/`catch`. `faults`, chosen once per behaviour, says
what kinds of call may fail: a start that throws, is refused, or is acknowledged
with other settings; a stop; a read; an idle-only operation; reopening the
client. A call that fails may or may not fail the next time. `owed` (what the
device has acknowledged and no stop was sent for), `stale` and `busy` are
history: a stop that fails counts as sent.

**LidarFrames.** A step is one turn of `append`'s loop; the clouds it completes
leave when the batch is through. A batch is any sorted sequence of times, as
`convertLidarBatch` produces; one whose span an offset cannot express, and a
time whose window would overflow, throw and end the session. The arithmetic of
offsets keeps its width.

**SensorHealth.** One stream with numbered samples. The numbers have their
width; time is a counter. Samples are lost in bursts before they arrive, or
arrive twice; the stream is restarted and disabled; the dispatch queue drops;
reports come at any moment. All that `observe` derives from time stamps, and the
other issues the driver adds, are the one issue "other".

**RawFeed.** The Agent appends records to the log of a session, remembers the last
few, and may restart. One poll is page after page (`PageArrives`), each page's
chunks pushed one at a time (`Push`) while the worker takes one (`Pop`) and stamps
it with the drop counter as it is *then* (`HandOver`). A query fails before or
after the Agent has answered (`QueryFails`). The state is one `run()`: the cursor
is local to it. `log` is the truth the properties compare the topics with.

**DeviceTime.** A step is a sample handled: `BoardImu`, `VideoMeta` (which the
resolver sees whatever `enable_camera` says), `Lidar`; a LiDAR sample is resolved in
one step and refused or sent in another, because the steady clock is read again in
between. `Restart` is the pause and restart of the streams around a synchronisation,
which sets the device's clock; `Waits` and `Established` are the wait of a start. Each
sample carries the time it was measured at, which the code does not know.

**CameraCredits.** The device sends a set while it has a credit. The parts of a set
are an image of each camera and the metadata, with a trigger time or without; each
gets lost on its own, so that a set given up has any of them. The assembler retires a
set when it is complete, or gives up any others with it; `result` is what is left to
do of its answer, call by call, so that an acknowledgement that throws leaves the rest
of it undone, as in the code. `Publishable` is what `publishCameraFrame` asks before
it pushes a set, complete or not.

**Publication.** A worker's publication and the check after it are two steps. The
camera worker goes through the lanes of a set in their order, whichever of them the
set has.

**DriverMethods, Ros1Services, Ros2Services.** No state: sixty-four handlers and
thirty-three methods are tables, a row each, translated from the handler it maps. What
a row says is what `Node` interprets.

**Node.** The spinner takes any request to any service, with or without confirm,
with good or bad arguments; the handler calls its methods one after the other
through the control queue, whose steps are those of `ControlQueue` with the spinner
as its only caller (`Q == INSTANCE ControlQueue`; a step of `Node` that touches the
queue is a `Q!` action and more). The device does what it is asked, declines, fails, or
does it without being heard. `main` is each line from the spinner's start to the
return.

**Receiver.** UTC and the Agent's monotonic clock advance; sentences are heard, kept
and forgotten; a poll is two queries between which time passes and anything may
happen. Positions are named by the UTC time they were computed at, which the code
does not know. An ADRNAV has its epoch in GPS time, and `gps_utc_leap_seconds` is the
offset to UTC or, by default, unknown.

`Node` composes with `ControlQueue`, `RawFeed` and `Publication` contain what they
need of a dispatch queue. Otherwise modules meet at points that each takes from the
other as an assumption: the handlers of `DispatchQueue` return or
throw, any command of `ControlQueue` ends (in `StreamControl` each does, by
construction), and a session that ends goes through the clean-up that
`StreamControl` models and the cancellation that `ControlQueue` models.

## Runs

Each property of a passing run has a mutation of the code in the module (kept
beside the original, marked *mutated form*) under which TLC finds it violated.

| Run | Instance | Shows |
| --- | --- | --- |
| `dispatch` | capacity 2, 5 pushes; 12,586 states | Every value is accounted for, `stop` returns, what waits leaves, and the contract holds |
| `control` | 3 callers, limit 2; 17,196 states | Every waiter is in exactly one deque, nobody is left blocked, a fatal failure ends the session |
| `streams` | all 16 configurations, all selections, sessions of any length; 36,461 states | Configuration, flags, helpers, watches and the device agree after every command, under the failures stated |
| `lidar_frames` | windows of 3 units, 11 times, 8 offsets, 5 points in batches of at most 3; 175,551 states | Clouds of one window, no point lost, exact offsets in order |
| `sensor_health` | 6 numbers, 7 samples, bursts up to 3, silence and interval of 2 in 5 units; 592,550 states | Nothing forgotten or counted twice, losses counted across the wrap, long silences told |
| `raw_feed` | queue of 1, cache of 2, 2 pages of 1, 3 records, one restart, one failure; 307,354 states | Each topic in order and once, every splice shows, the feed catches up |
| `device_time` | units of a second: hold 2, age 5, distance 2, delay 1, domains at +-37 s; 490,764 states | The board leads, the device's time is chosen, and what was placed, or must be and the board's samples keep coming, is sent with it |
| `camera_credits` | 2 cameras, 2 credits, 2 sets, one failed acknowledgement; 674,852 states | One credit for each set, every publishable set and no other, credits come back |
| `publication` | 2 camera lanes, one IMU with a window of 2; 5,760 states | Nothing unconfirmed goes unreported, no lane costs another its image, workers go on |
| `node` | both nodes, all services, any number of requests; 54,075 states | No write without consent or twice, success is the device's, the process ends |
| `receiver` | a day of 5 units, midnight and the next day, 3 sentences, cache of 1, one restart, 2 polls, leap offset known or not; 2,207,184 states | Valid fixes are recent, carry their own precision and time, and are counted once |
| `swallowed_after_failed_stop` | `streams` with stops that fail, on the RK | a counterexample, see Disagreements |

The bounds:

- `dispatch`: five pushes over a capacity of two overflow twice, once more after
  a value was taken, and leave values of two runs of the queue in flight; the
  bound on pushes bounds only history. Deadlock is checked.
- `control`: a third caller finds the deque full while a second waits; a batch of
  two is served while a third command is queued. Nothing is unbounded. Deadlock
  is checked.
- `streams`: nothing is bounded; only the kinds of fault are enumerated (all;
  all but stops; all but stops and mismatched answers). After the end of a
  session nothing happens, so deadlock is not checked.
- `lidar_frames`: eleven times are four windows: one can be empty, a step back
  can stay in the window or leave it, and the last windows overflow. The points
  are bounded, so the model stops.
- `sensor_health`: a burst of 1 is less than half the six numbers, 2 is half and
  3 more; the silence can begin while a report is held back and outlast it. Time
  is bounded, so the model stops.
- `raw_feed`: with a cache of two, a third record makes a gap unless it was asked
  for; a queue of one overflows while the worker holds the chunk before, which is
  the only case in which the stamp runs ahead of the queue; the Agent's answer ends
  within a poll, at its end, or goes on past the pages of one. A restart and a
  failure fall between any two steps. Bounds on records, restarts and failures only
  stop the Agent.
- `device_time`: the clock runs for 8 s, longer than hold plus age, so that the
  board is given up for the camera and the camera for nothing. The two settings of
  the device's clock differ by 37 s, so that a forgotten reset would make one domain
  look like the other. Nothing else is bounded.
- `camera_credits`: two cameras make the set that has its metadata and lacks an
  image, and the one that has both images and waits for metadata; two sets, one given
  up for the other, also entirely missing; with both credits out the device waits. A
  third set of the same kinds is past what TLC's liveness check does in the time. The
  sets end, so deadlock is not checked.
- `publication`: two camera lanes are enough for one to time out while the other is
  still to be published; the IMU's window of two is neither empty nor full after one
  sample. Nothing is bounded: what waits at DDS stays below the window's limit by
  itself.
- `node`: only the deque is bounded, at two, and one caller never fills it. The
  process ends, so deadlock is not checked.
- `receiver`: the session begins before midnight and lasts past the same time of the
  next day; a position becomes stale on the way; the cache forgets; the Agent, or
  with it the monotonic clock, restarts. The day is longer than twice what the code
  lets a position and a query age, as the real one is. GPS time is ahead by more than
  a position may age, so that an epoch taken for UTC would show. Time is bounded, so
  the model stops.

What the main properties say, beyond the types (those marked T are theorems that
no run checks):

- *DispatchQueue.* `Accounting`: accepted = taken + waiting + dropped + cleared, and
  the published depth and peak agree with the queue. `StopReturns` and `ValueLeaves`
  are liveness. `PopFindsValue` (T): `front()` is never taken of an empty queue.
  `QueueIsNewest` (T): overflow costs the oldest. `SilentWhenStopped` (T): after
  `stop` there is no worker, no handler, no value. `HandedInOrder` (T), over
  restarts.
- *ControlQueue.* `EveryWaiterHeldOnce`: a waiting thread's promise is in exactly
  one place, so none is set twice or dropped. `NobodyWaitsWhenDown` is what lets
  `main` join the spinner. `FatalEndsSession`; `AnsweredInOrder` (T).
  `EveryCallReturns` is liveness.
- *StreamControl.* `StreamsServedIfStopsAndAnswersWork`: after every command the
  configured streams, and no others, are flagged and running on the device (`owed`),
  the capture streams among them are watched, and their helpers deliver; whatever else
  fails, as long as no stop does and no start is answered with other settings, which
  "nothing is left running" and "idle operations are idle" need too.
  `PausedStreamsRestored`: the same of flags, device and helpers after an idle
  operation, succeeded or not, as long as no stop fails. `CaptureStartsFresh` and
  `FailedCommandKeepsConfiguration` hold whatever fails.
- *LidarFrames.* `InOneWindow`, `NothingLost`, and `OffsetsRightIfOrdered`: right as
  long as time does not step back. `OnGrid` (T).
- *SensorHealth.* `NothingForgotten`: total = written + pending over restarts,
  and nothing pending at the end. `LossCounted`: never more than was lost, and
  all of it while bursts stay below half the numbers. `LongSilenceReported`: a
  report that sees a silence longer than silence + interval leaves it told.
- *RawFeed.* `InOrderOnce`. `LossAnnounced`: a decoder that compares the drop counter
  of a message with that of the message before the last one, or looks for a marker,
  never joins two fragments that do not belong together; comparing with the last one
  only would not do, because a chunk may be stamped after the loss that follows it
  (416). `CatchesUp` is liveness.
- *DeviceTime.* `BoardLeads`: no camera time replaces a board sample within the
  hold. `DeviceTimeChosen`: of two times the device's is taken.
  `DeviceTimeSent`: a sample that was placed leaves near the device's time, also when
  its reference grows old between the two reads of the clock; by default, one that was
  not placed does not leave while the board's samples keep coming, whatever the
  camera's times have done to the reference.
- *CameraCredits.* `OneCreditIfAcksWork`. `ImagesPublished`: a retired set is published
  exactly if an image of it came and, where samples must be synchronised, a trigger
  time, however the assembler retired it. `CreditsComeBack` is liveness.
- *Publication.* `UnconfirmedReported`, `LanesAllPublished`; `FenceStays` (T): a lane
  found unconfirmed is only found confirmed when nothing is waiting; and
  `WorkerGoesOn`, liveness.
- *Node.* `WritesAreConfirmed`, `SuccessMeansDone`, `OneWriteAtMost` over all
  services of both nodes; `ProcessEnds` is liveness. It begins inside `run`, which
  clears `stop_requested` (1277): the stop of a spinner that failed before that is
  lost, and the process waits for a signal (a hazard without a property).
- *Receiver.* `FixIsRecent`, `CovarianceMatches`, `StampIsItsTime`, `CountedOnce`.

Fairness:

- `DispatchQueue`: weak fairness of the steps of a `push` or `stop` already
  begun, and of the worker: the operating system schedules both threads, and a
  publisher returns or throws. Nobody has to push or stop, nothing has to wake
  spuriously.
- `ControlQueue`: weak fairness of the steps of `run`: each SDK call it makes has
  a time-out of its own, so a command, a read and a clean-up end. None for
  callers, `requestStop` or the end of ROS.
- `RawFeed`: weak fairness of the poll, of a push and of the worker's two steps: the
  loop of `run` polls every 50 ms or 5 s. None for the Agent, and none for a failure,
  of which there are finitely many.
- `CameraCredits`: weak fairness of reading a part that has arrived, of each step of
  handling an answer, and of giving up each set: the loop calls `expire` on every
  turn (1419). None for the device, the link or the failures.
- `Publication`: weak fairness of each publication and each check, which waits for
  100 ms at most. None for subscribers, acknowledgements or new sets.
- `Node`: weak fairness of the two threads; none for requests, signals or the
  failure of the spinner.
- `StreamControl`, `LidarFrames`, `SensorHealth`, `DeviceTime`, `Receiver`: no
  liveness properties and no fairness.

## Disagreements

One is kept as a run that TLC must find violated, with the shortest failure:
`swallowed_after_failed_stop`. `sdk_transport.hpp:51` clears `active_` before the
stop that throws; the flag still says started, nobody starts the stream again, and
its frames are dropped. README.md:419 says that the requested stream state is
restored.

Three more are formulas that no run checks and that TLC finds violated as an
`INVARIANT` of the instance named:

- `StreamControl!SelectedStreamsRun`, in `streams` with `FaultSets <-
  OnlyAnswersDiffer`: an IMU acknowledged at another rate is active but not
  flagged started (`sdk_transport.hpp:43-47`); with the camera running the shared
  session is stopped through the camera's branch (698-707), which leaves the helper
  active; the next command that starts the IMU returns at once from `start()`
  (`sdk_transport.hpp:40`), succeeds and flags it, and the device is never asked.
  README.md:425 says that the final state follows the requested selection.
- `DeviceTime!OnlyPlacedIsSent`, in `device_time`: a LiDAR sample that could not be
  placed is dropped only while there is a fresh reference (1078-1085, 1114-1122).
  When the reference has grown old, before the sample or between the two reads of the
  clock, it is sent with the SDK's time, in whatever domain that is.
  README.md:260-262 says that such samples are dropped so that clock domains are not
  mixed silently.
- `LidarFrames!OffsetsRight`, in `lidar_frames`: after a gap the window starts before
  the cloud's first point (`lidar_frame_accumulator.cpp:48-52`); a point that steps
  back in between gets an offset of about 4.29 s (56-57). README.md:854 says that
  offsets are below 100 ms, and `lidar_frame_accumulator_test.cpp:76` requires it of
  each cloud.

The others are of the same kind, a failure in the middle of a recovery or a report
that is held back; a formula of the module named shows each when it is checked
without its condition:

- `StreamControl!ActiveStreamsMonitored`: 687 disarms every watch before stops that
  may throw; the recovery arms only streams it starts, so one that never stopped is
  unwatched (README.md:216: active paths warn after five seconds without data).
- `StreamControl!ConfiguredStreamsRun`: the first stop of a stream command (824) is
  outside its `try`: what stopped before the failure stays stopped and the session
  goes on (README.md:425: the final state follows the requested selection).
- `StreamControl!NothingLeftRunning`: an IMU acknowledged at another rate is active
  but not flagged started; the clean-up closes the client before the helper could
  stop it (`sdk_transport.hpp:42`: tracked so that cleanup stops it).
- `SensorHealth`, a silence that becomes due while its stream's reports are held back
  and ends before the next report is forgotten (`sensor_data_health.hpp:136`); counts
  are kept, the silence is not (README.md:216).
- `CameraCredits!OneCredit`: an acknowledgement that throws (1407-1416) is swallowed
  with the rest of its answer: credits of other sets and partial images of the same
  answer are lost, and the session goes on (1166: one credit per retired set).
- `RawFeed`: a drop counter that has risen between two messages in a row does not
  say that a record is missing between these two; it may be missing after the second
  (416).

## Proofs

| Module | Theorems | Inductive invariant |
| --- | --- | --- |
| `QueueProofs`, on `DispatchQueue` | types, `PopSafe`, `Newest`, `Accounted`, `Silent`, `Ordered`, `Refines` | the properties, plus where the two threads can be together (`Rendezvous`), that a predicate once true stays true until the worker acts (`PredicateHolds`), and that what waits is newer than what was handed over (`HandedIsOlder`) |
| `QueueProofs`, on `ControlQueue` | types, `HeldOnce`, `NobodyWaits`, `FatalEnds`, `InOrder` | the properties, plus in which phases each deque can hold a command (`Doors`) |
| `NodeProofs` | types, `ServesQueue`, `Confirmed`, `PromisesKept`, `OneWrite` | the spinner's command is in the line exactly while it waits (`Held`), a call is made only behind the gate (`Gatekept`), nothing is sent before its command is executed and then once (`SentOnce`), and what the device said, or a return nobody checks, means that it is done (`Promised`) |
| `StreamControlProofs` | types, `Served`, `NothingLeft`, `IdleIsIdle`, `StartsFresh`, `PausesEnd`, `FailureKeepsConfiguration` | inside a session no frame of an earlier capture is where one is to start (`Fresh`) and camera and IMU run if configured (`SharedRun`); while stops work, every flagged stream runs on the device and no start of a configured one can be swallowed (`Backed`), and flags, helpers, device and client agree (`Sound`) (all in `InSession`); what is left after it (`AfterSession`), and a pause has ended in running streams (`PausedRestored`) |
| `LidarFramesProofs` | types, `OneWindow`, `Grid`, `Offsets`, `PointsKept` | the open cloud and its stamp lie in the window, the window on the grid (`FillsItsWindow`), finished clouds are short (`DoneInOneWindow`), and while time is ordered every finished point is exact and the stamp is not newer than the newest point (`ExactIfOrdered`); for `PointsKept` a second one on top: numbers ascend within and between clouds, and finished, open and dropped clouds make up all that were given (`CountedIn`) |
| `SensorHealthProofs` | types, `EverythingCounted`, `LongSilence`, `Losses` | total = written + pending (`Tallied`), drops counted up to the last look (`DropsCounted`), nothing left at the end (`Flushed`), and a report that came late enough in a silence has told of it (`Told`); for `Losses` a second one on top: the baseline is the last number, cut to its width (`Baseline`) |
| `RawFeedProofs` | types, `RecordsInOrder`, `LossShows` | what a topic has carried, what the worker holds, the queue and the rest of the page ascend in this order (`Delivered`, `Flight`), all of it is at or before the cursor (`Asked`), and the cursor is within its session (`CursorReal`); and behind each chunk on its way, and behind the last message of a topic, a missing record is followed by a marker or by the cursor not having reached it, or the counter has risen since the message before (`LineTells`, `LastTells`) |
| `TimeProofs`, on `DeviceTime` | types, `BoardLeading`, `ChosenRight`, `SentRight` | the reference is a device time no older than the delay (`Remembered`), it is the board's if it says so (`BoardIsBoard`), and an answer is near the reference it was resolved with (`Resolved`) |
| `TimeProofs`, on `Receiver` | types, `Recent`, `OwnCovariance`, `OwnTime`, `Counted` | what is of the Agent's present session is as old by its clock as by UTC (`CacheDated`, `HostInSession`), between its two queries a poll lasts no longer than the latency (`TimingFresh`), and what is counted has been asked for (`CountedAsked`) |
| `CameraProofs`, on `CameraCredits` | types, `CreditsRight`, `Publishes` | a set is credited or its credit is still to be called (`Credited`, `CreditedByAgent`), published or still to be (`Pushed`), and an answer names only retired sets (`AnswerRight`) |
| `CameraProofs`, on `Publication` | types, `Reported`, `Fence`, `LanesPublished` | what waits at DDS is within what the window counts (`Covered`), a full window is an unconfirmed lane (`FullIfUnconfirmed`), and a lane that never waits has nothing waiting (`OwedByNobody`) |

Why strengthening is needed, once per module. `PopFindsValue` alone is not inductive:
nothing in it says that `stop` cannot clear the queue between the predicate and the
pop; `PredicateHolds` with the places where the mutex is held does.
`NobodyWaitsWhenDown` needs that a batch is empty outside the two phases that empty
it. An offset is right only if the point is not older than the cloud's stamp, which
follows from order through the newest point seen. A throttled report may be silent
only because the report that throttles it spoke, which `Told` remembers. The order of
a topic needs the order of everything on its way to it. A loss shows only because the
records between two neighbours on the line from the Agent to the topics were announced
or counted when they went missing: by the marker of the answer, which goes before its
page, or by `dropped`, which rises while the chunk before the loss is still held by
the worker or has been stamped already. That an answer of the resolver is the device's
time needs the distance of the reference from it, through the delays of both. A credit
per set is not inductive while an answer is half done: the calls still to be made take
its place. That the streams are served after a command needs what holds in the middle
of it, after each call that may fail: `Fresh` survives every call, `Backed` and
`Sound` every call but a stop that throws; a lemma for each operator carries the three
through sequencing and `catch`. A position's day is found from the PPS only if the two
are less than half a day apart, which follows from its age, which is known by the
Agent's clock; so the invariant relates that clock to UTC for all that is kept. That
success is the device's needs what the tables say of all sixty-four services (`Sound`
in `NodeProofs`, proved row by row): one that promises makes one call, which writes,
and either the handler or the method looks at what the device said. A missing count is
right across a wrap because the difference of two cut numbers is the cut difference
(`DeltaOfDistance`).

`Refines` proves that each behaviour of `DispatchQueue` satisfies
`DropOldestQueue!SafeSpec` under the mapping; that it also satisfies the
contract's fairness is checked by TLC in `dispatch`. `ServesQueue` does the same for
`Node` and `ControlQueue!SafeSpec`: each step of the process is a step of the queue
with one caller or leaves it alone, so what is proved of the queue holds in the
process.

`QueueProofs`, `CameraProofs` and `TimeProofs` hold the theorems of two modules each
and extend both, so that no name may be in the two: `DispatchQueue`, `Publication` and
`DeviceTime` carry their own name in `Init`, `Next`, `TypeOK` and the specification
(`DispatchSpec`).

The assumptions are those named in the modules: capacities, limits, periods and
widths are positive naturals, the offset type is wider than a window
(2^32 > 10^8), a number has an even count of values, a sample is handled within the
distance the resolver allows, another domain is more than twice as far away as a
sample is old (37 s for TAI), and a day is more than twice what a position and a poll
may be off. TLC evaluates each. The proofs hold for every number of callers, values,
points, samples, sets, lanes, records, failures and restarts: the `Max...` bounds
only limit how far TLC explores.

Every safety property of a passing run is a theorem. Model-checked only are the liveness
properties (`StopReturns`, `ValueLeaves`, `EveryCallReturns`, `CatchesUp`,
`CreditsComeBack`, `WorkerGoesOn`, `ProcessEnds`) and the fairness that `dispatch`
checks of the contract: they need fairness and `ENABLED`, which the prover does not
reason about. The operators of `StreamControl` that take operators as arguments
(`Then`, `Catch`) are expanded where they are used, so that the prover never meets
one.

## Not modelled

`PROJECT.json` lists every component with its reason. Inside the modelled ones:

- `publishStatus` between the steps (its callback is the caller's), the counters of
  `DriverStatus` other than the dispatch queues', log text.
- The RTCM chunks of the rover stream: they carry no position in their source that
  could be followed, so a loss could not be told from silence.
- The RTK status and the raw observations that the navigation batch carries beside
  the positions, and the conversion of angles.
- In `SensorHealth` the operations only the navigation streams use (`session`,
  `condition`, `resetCounter`, `queryError`), and what `observe` derives from time
  stamps beyond "some other issue".
- The publishers of the nodes that only copy fields, parameters, options, message
  definitions, packaging.
- The ROS 2 builds without an acknowledgement API, which never wait.
- The SDK's own buffers and keep-alive; `prism::CameraFrameSetAssembler`,
  `prism::gnss_plot::Model`, the Agent, DDS and the device are external and modelled
  from how the adapter uses them. Over USB the SDK's stream helpers are taken to have
  the lifecycle of the RK-local ones, which the adapter wrote to replace them.

## Plan

Done: the queues, the streams, the LiDAR clouds, the health accounting, the raw feed,
the resolver, the camera credits, publication, the process with its services and the
receivers. What would add most now:

1. **An abstract session** that `StreamControl` implements when stops work
   (configured, running, paused, ended); `Sound` and `InSession` are the invariants
   its step-by-step proof would rest on.
2. **More proofs**: the contract's consequences proved once for `DropOldestQueue` and
   carried over by `Refines`; action properties of the commands of `StreamControl`
   (what a failed start may change); that `RawFeed`'s queue implements the contract.
3. **The navigation health**: conditions and query errors of `SensorHealth`, with
   the status and observation streams of the receiver batch.
4. **The rover feed** beside the raw one, if its chunks are given a position.
