-------------------------------- MODULE Node --------------------------------
(***************************************************************************)
(* The process of a node: main() of prism_ros2_node.cpp and of              *)
(* prism_ros1_node.cpp, its two threads, and a service request on its way   *)
(* through both.  The main thread is in Driver::run; one other thread, the  *)
(* spinner, executes the handlers of the services one after the other, and  *)
(* a handler that calls the Driver blocks on the control queue, which is    *)
(* ControlQueue with the spinner as its only caller: each step of a thread  *)
(* that touches the queue is a step of that module, Q!..., and more.        *)
(*                                                                         *)
(* External: the executors of rclcpp and roscpp, and the device, which does *)
(* what a write asks, declines it, fails, or does it without being heard.   *)
(***************************************************************************)
EXTENDS Naturals, Sequences, DriverMethods

CONSTANTS Versions,   \* the nodes: a subset of {1, 2}
          Limit       \* the 64 of invokeControl

ASSUME VersionsAssumption == Versions \subseteq {1, 2}
ASSUME LimitAssumption == Limit \in Nat \ {0}

Ros1 == INSTANCE Ros1Services
Ros2 == INSTANCE Ros2Services

VARIABLES
  ros,         \* which node this is
  main,        \* where the main thread is in main()
  run_failed,  \* Driver::run threw
  exit_code,   \* what main() returned
  spinner,     \* what the spinner does
  spinning,    \* the executor's flag: cancel() and stop() clear it
  spin_error,  \* the spinner's exception
  capturing,   \* a capture stream is started
  request,     \* the request being handled
  at,          \* the method of its service that is called, an index
  sent,        \* history: the writes sent to the device for the request
  applied,     \* history: the device has done what was asked
  said,        \* the device's answer says so
  reply,       \* what the last request was answered
  \* Those of ControlQueue.
  accepting_controls, control_commands, pending, fatal_control_error,
  stop_requested, keep_running, phase, call

Spinner == "spinner"

Q == INSTANCE ControlQueue WITH Callers <- {Spinner}

process == <<ros, main, run_failed, exit_code>>
executor == <<spinner, spinning, spin_error>>
service == <<request, at, sent, applied, said, reply>>
queue == <<accepting_controls, control_commands, pending, fatal_control_error,
           stop_requested, keep_running, phase, call>>
vars == <<process, executor, capturing, service, queue>>

OfferedBy(version) == IF version = 2 THEN Ros2!Services ELSE Ros1!Services
Offered == OfferedBy(ros)

\* The services the README and docs/navigation.md say need confirm: true, those
\* whose request has that field.
ConfirmedServices ==
  {"system/sync_time", "system/set_timesync_port", "device/set_configuration",
   "lidar/set_network", "lidar/set_standby", "lidar/set_speed",
   "wifi/set_hotspot", "rtk/set_cors", "rtk/control"}

\* A request: valid if its arguments pass the tests of the method.
Request(s, confirm, valid) == [service |-> s, confirm |-> confirm, valid |-> valid]

Requests(services) ==
  {Request(s, TRUE, TRUE) : s \in services}
    \cup {Request(s, FALSE, TRUE) : s \in {t \in services : t.name \in ConfirmedServices}}
    \cup {Request(s, TRUE, FALSE) : s \in {t \in services : t.methods[1].args # "none"}}
NoRequest == Request(Service("none", Open, <<getStreamState>>, "call"), TRUE, TRUE)

Called == request.service.methods[at]

TypeOK ==
  /\ Q!TypeOK
  /\ ros \in Versions
  /\ main \in {"ready", "run", "over", "stopped", "shut", "exited"}
  /\ run_failed \in BOOLEAN
  /\ exit_code \in {0, 1}
  /\ spinner \in {"started", "idle", "handling", "gone"}
  /\ spinning \in BOOLEAN
  /\ spin_error \in BOOLEAN
  /\ capturing \in BOOLEAN
  /\ request \in Requests(Offered) \cup {NoRequest}
  /\ at \in 1..2
  /\ sent \in 0..2
  /\ applied \in BOOLEAN
  /\ said \in BOOLEAN
  /\ reply \in {"none", "success", "failure"}

\* The driver and the services exist, and the spinner's thread has been started.
\* AsyncSpinner::start sets its flag; executor.spin() will.
Init ==
  /\ Q!Init
  /\ ros \in Versions
  /\ main = "ready" /\ run_failed = FALSE /\ exit_code = 0
  /\ spinner = "started" /\ spinning = (ros = 1) /\ spin_error = FALSE
  /\ capturing = FALSE
  /\ request = NoRequest /\ at = 1 /\ sent = 0 /\ reply = "none"
  /\ applied = FALSE /\ said = FALSE

-----------------------------------------------------------------------------
(* The spinner. *)

Spin ==
  /\ spinner = "started" /\ spinner' = "idle"
  /\ spinning' = (spinning \/ ros = 2)
  /\ UNCHANGED <<process, spin_error, capturing, service, queue>>

\* spin() throws: catch, and node->requestStop().  (An exception in the thread
\* of an AsyncSpinner ends the process.)
SpinFails ==
  /\ ros = 2
  /\ spinner = "idle" /\ spinner' = "gone"
  /\ spin_error' = TRUE
  /\ Q!RequestStop
  /\ UNCHANGED <<process, spinning, capturing, service>>

SpinEnds ==
  /\ spinner = "idle" /\ spinner' = "gone"
  /\ ~spinning \/ ~keep_running
  /\ UNCHANGED <<process, spinning, spin_error, capturing, service, queue>>

\* A request is taken, and its handler begins.
Receive ==
  /\ spinner = "idle" /\ spinner' = "handling"
  /\ spinning /\ keep_running
  /\ request' \in Requests(Offered)
  /\ at' = 1 /\ sent' = 0 /\ applied' = FALSE /\ said' = FALSE /\ reply' = "none"
  /\ UNCHANGED <<process, spinning, spin_error, capturing, queue>>

\* The handler fills the response and ends.
Reply(success) ==
  /\ reply' = IF success THEN "success" ELSE "failure"
  /\ spinner' = "idle"
  /\ UNCHANGED <<at, sent, applied, said, request>>

Unconfirmed == request.service.confirm /\ ~request.confirm
BadArguments == Called.args = "before" /\ ~request.valid
AboutToCall == spinner = "handling" /\ call[Spinner] = "none"

\* The gate of the handler, and the tests a method makes before it queues.
Reject ==
  /\ AboutToCall
  /\ Unconfirmed \/ BadArguments
  /\ Reply(FALSE)
  /\ UNCHANGED <<process, spinning, spin_error, capturing, queue>>

\* invokeControl.  Its queue is never full: there is one caller.
Invoke ==
  /\ AboutToCall
  /\ ~Unconfirmed /\ ~BadArguments
  /\ Q!Enqueue(Spinner) \/ Q!Refuse(Spinner)
  /\ UNCHANGED <<process, executor, capturing, service>>

\* Whether the handler reports success when all its calls have returned.
Verdict == request.service.verdict = "device" => said

\* Mutated form: a call that failed is made again.
ResumeRetrying ==
  /\ spinner = "handling"
  /\ Q!Return(Spinner)
  /\ IF call[Spinner] # "value" THEN UNCHANGED <<service, spinner>>
     ELSE IF at < Len(request.service.methods)
     THEN at' = at + 1 /\ UNCHANGED <<spinner, request, sent, applied, said, reply>>
     ELSE Reply(Verdict)
  /\ UNCHANGED <<process, spinning, spin_error, capturing>>

\* future.get() returns or throws: the next method, or the end of the handler.
Resume ==
  /\ spinner = "handling"
  /\ Q!Return(Spinner)
  /\ IF call[Spinner] = "value" /\ at < Len(request.service.methods)
     THEN at' = at + 1 /\ UNCHANGED <<spinner, request, sent, applied, said, reply>>
     ELSE Reply(call[Spinner] = "value" /\ Verdict)
  /\ UNCHANGED <<process, spinning, spin_error, capturing>>

-----------------------------------------------------------------------------
(* A command on the main thread: what it may come to. *)

Outcome(writes, done, told, ok, fatal, started) ==
  [sent |-> writes, applied |-> done, said |-> told, ok |-> ok,
   fatal |-> fatal, capturing |-> started]

\* The command throws before the device is asked: its arguments are bad, the
\* streams may not be touched or do not stop, or a read before the write fails.
Untouched == Outcome(0, FALSE, FALSE, FALSE, FALSE, capturing)

\* A write: it is done and heard of, declined, lost, or done and not heard of.
Written(m) ==
  {Outcome(1, TRUE, TRUE, TRUE, FALSE, capturing),
   Outcome(1, FALSE, FALSE, m.check = "nobody", FALSE, capturing),
   Outcome(1, FALSE, FALSE, FALSE, FALSE, capturing),
   Outcome(1, TRUE, FALSE, FALSE, FALSE, capturing)}

Asked(m) ==
  CASE m.device = "write" -> Written(m)
    [] m.device = "read" -> {Outcome(0, FALSE, yes, TRUE, FALSE, capturing) : yes \in BOOLEAN}
    [] m.device = "host" -> {Outcome(0, FALSE, FALSE, TRUE, FALSE, capturing)}
    [] m.device = "streams" ->
         {Outcome(0, FALSE, FALSE, TRUE, FALSE, started) : started \in BOOLEAN}

\* The streams that were paused, or changed, cannot be brought back.
Lost(outcomes) == {[o EXCEPT !.ok = FALSE, !.fatal = TRUE] : o \in outcomes}

Outcomes(m) ==
  LET refused == \/ m.args = "within" /\ ~request.valid
                 \/ m.streams = Refusing /\ capturing
      failures == IF m.device = "host" THEN {} ELSE {Untouched}
      endings == IF "pausing" \in m.streams \/ m.device = "streams"
                 THEN Lost(failures \cup Asked(m)) ELSE {}
  IN IF refused THEN {Untouched} ELSE failures \cup Asked(m) \cup endings

\* Driver::run executes the command; the handler's history records it.
ExecuteCommand ==
  /\ pending # <<>>
  /\ \E o \in Outcomes(Called) :
       /\ Q!Execute
       /\ call'[Spinner] = IF o.ok THEN "value" ELSE "error"
       /\ fatal_control_error' = (fatal_control_error \/ o.fatal)
       /\ sent' = sent + o.sent
       /\ applied' = (applied \/ o.applied)
       /\ said' = o.said
       /\ capturing' = o.capturing
  /\ UNCHANGED <<process, executor, request, at, reply>>

-----------------------------------------------------------------------------
(* The main thread. *)

CallRun ==
  /\ main = "ready" /\ main' = "run"
  /\ Q!Run
  /\ UNCHANGED <<ros, run_failed, exit_code, executor, capturing, service>>

\* startConfiguredStreams has returned: the configuration says what runs.
StartServing ==
  /\ Q!EnableControls
  /\ capturing' \in BOOLEAN
  /\ UNCHANGED <<process, executor, service>>

\* The rest of run(): an exception goes out of its loop, through cancelControls
\* and cleanup; one from openClient and its checks goes straight out.
Proceed ==
  /\ \/ Q!Open \/ Q!OpenFails \/ Q!StartFails \/ Q!LeaveLoop \/ Q!TakeCommands
     \/ Q!ControlsDone \/ Q!Read \/ Q!CancelControls \/ Q!Cancel \/ Q!Cleanup
     \/ Q!RunReturns
  /\ main' = IF phase' = "down" THEN "over" ELSE main
  /\ run_failed' = \/ run_failed
                   \/ phase = "opening" /\ phase' = "down"
                   \/ phase # "top" /\ phase' = "leaving"
  /\ capturing' = (capturing /\ phase' # "closing")
  /\ UNCHANGED <<ros, exit_code, executor, service>>

\* executor.cancel(), or the stop of the AsyncSpinner's destructor (mutated
\* form: the spinner is not told).
StopSpinnerNot ==
  /\ main = "over" /\ main' = "stopped"
  /\ UNCHANGED <<ros, run_failed, exit_code, executor, capturing, service, queue>>

StopSpinner ==
  /\ main = "over" /\ main' = "stopped"
  /\ spinning' = FALSE
  /\ UNCHANGED <<ros, run_failed, exit_code, spinner, spin_error, capturing,
                 service, queue>>

\* rclcpp::shutdown(), the ROS 2 node alone.
ShutDown ==
  /\ ros = 2
  /\ main = "stopped" /\ main' = "shut"
  /\ Q!Shutdown
  /\ UNCHANGED <<ros, run_failed, exit_code, executor, capturing, service>>

\* spinner.join(), and the end of main().
Joined == main = (IF ros = 2 THEN "shut" ELSE "stopped") /\ spinner = "gone"

Exit ==
  /\ Joined
  /\ main' = "exited"
  /\ exit_code' = IF run_failed \/ spin_error THEN 1 ELSE 0
  /\ UNCHANGED <<ros, run_failed, executor, capturing, service, queue>>

\* SIGINT, or another end of ROS.
Interrupt ==
  /\ Q!Shutdown
  /\ UNCHANGED <<process, executor, capturing, service>>

-----------------------------------------------------------------------------
SpinnerStep == Spin \/ SpinEnds \/ Reject \/ Invoke \/ Resume
MainStep == CallRun \/ StartServing \/ Proceed \/ ExecuteCommand
              \/ StopSpinner \/ ShutDown \/ Exit

Next == SpinnerStep \/ Receive \/ SpinFails \/ MainStep \/ Interrupt

\* Both threads make progress: every SDK call has a timeout, and a handler only
\* waits for the main thread.  Nothing has to be received, fail or be interrupted.
Spec == Init /\ [][Next]_vars /\ WF_vars(SpinnerStep) /\ WF_vars(MainStep)

-----------------------------------------------------------------------------
(* Properties. *)

\* In neither node does a write reach the device for a request to one of the
\* documented services that does not say confirm.
WritesAreConfirmed ==
  sent > 0 /\ request.service.name \in ConfirmedServices => request.confirm

\* The services that answer with what the device has persisted, verified or
\* read back.  (The exposure services answer with the state to compare.)
PromisingServices ==
  (ConfirmedServices \cup {"gnss/set_rover_rtcm", "camera/set_unified_exposure"})

\* In either node, success is the device's: the setting has been made.
SuccessMeansDone ==
  reply = "success" /\ request.service.name \in PromisingServices => applied

\* A request writes to the device once at most, and what has not been executed
\* has not written: refused, cancelled by the end of run(), or turned down.
OneWriteAtMost ==
  /\ sent <= 1
  /\ spinner = "handling" /\ at = 1 /\ call[Spinner] \in {"waiting", "refused", "cancelled"}
       => sent = 0

\* The end of ROS, a failure of the spinner while run() runs, and the end of run()
\* end the process.  (run() forgets a stop requested before it began.)
ProcessEnds ==
  (~keep_running \/ (stop_requested /\ main = "run") \/ main = "over") ~> main = "exited"
=============================================================================
