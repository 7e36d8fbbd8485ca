----------------------------- MODULE NodeProofs -----------------------------
(***************************************************************************)
(* Proofs about Node, for either node and every limit of the control queue. *)
(*                                                                         *)
(* The tables of both nodes are read row by row, once (Sound); what follows *)
(* is about any service that is sound.  A request is then followed from the *)
(* gate through the control queue to its answer (Gatekept, SentOnce,        *)
(* Promised), for which the spinner's command must be in the line exactly   *)
(* while the spinner waits (Held).                                          *)
(***************************************************************************)
EXTENDS Node, TLAPS

-----------------------------------------------------------------------------
(* The services: what the proofs need of the two tables.                     *)

\* A service calls one method, or two that only read; the documented ones are
\* gated; one that promises an effect calls a method that writes, and answers
\* what the device said or calls a method that fails when the device declines.
Sound(s) ==
  /\ \/ Len(s.methods) = 1
     \/ Len(s.methods) = 2 /\ \A i \in 1..2 : s.methods[i].device = "read"
  /\ \A i \in 1..Len(s.methods) :
       s.methods[i].device \in {"read", "write", "host", "streams"}
  /\ s.name \in ConfirmedServices => s.confirm
  /\ s.name \in PromisingServices =>
       /\ Len(s.methods) = 1 /\ s.methods[1].device = "write"
       /\ s.verdict = "device" \/ s.methods[1].check \in {"method", "sdk"}

\* The services of the ROS 1 node are sound.
LEMMA Ros1Sound == \A s \in Ros1!Services : Sound(s)
BY DEF Sound, PromisingServices, ConfirmedServices, Ros1!Services,
   Ros1!Service, Ros1!Method, Ros1!Reads, Ros1!Open, Ros1!Gated, Ros1!GetExposure,
   Ros1!SetTargetBrightness, Ros1!SetCameraExposure, Ros1!SetExposureLimits,
   Ros1!SyncSystemTime, Ros1!GetDeviceInfo, Ros1!GetDeviceConfiguration,
   Ros1!SetDeviceConfiguration, Ros1!GetLidarStatus, Ros1!GetLidarNetwork,
   Ros1!SetLidarNetwork, Ros1!ProbeLidarNetwork, Ros1!GetStreamState,
   Ros1!ControlStreams, Ros1!GetWifiHotspot, Ros1!SetWifiHotspot,
   Ros1!GetLidarSpeed, Ros1!SetLidarSpeed, Ros1!GetLidarPower,
   Ros1!SetLidarStandby, Ros1!GetGnssTiming, Ros1!GetTimeSyncPort,
   Ros1!SetRoverRtcm, Ros1!GetGnssReception, Ros1!GetRtkModuleStatus,
   Ros1!GetRtkModuleVersions, Ros1!GetCorsConfiguration, Ros1!SetCorsConfiguration,
   Ros1!ControlRtk, Ros1!SetTimeSyncPort, Ros1!GetReceiverPosition,
   Ros1!SetUnifiedExposure, Ros1!getExposure, Ros1!setTargetBrightness,
   Ros1!setCameraExposure, Ros1!getExposureLimits, Ros1!setExposureLimits,
   Ros1!setUnifiedExposure, Ros1!getGnssTiming, Ros1!getGnssReception,
   Ros1!getRtkModuleStatus, Ros1!getRtkModuleVersions, Ros1!getCorsConfiguration,
   Ros1!getTimeSyncPort, Ros1!setCorsConfiguration, Ros1!controlRtk,
   Ros1!setTimeSyncPort, Ros1!getReceiverPosition, Ros1!setRoverRtcm,
   Ros1!synchronizeSystemTime, Ros1!getDeviceInfo, Ros1!getDeviceConfiguration,
   Ros1!setDeviceConfiguration, Ros1!getWifiHotspot, Ros1!setWifiHotspot,
   Ros1!getStreamState, Ros1!controlStreams, Ros1!getLidarStatus,
   Ros1!getLidarPower, Ros1!setLidarStandby, Ros1!getLidarSpeed,
   Ros1!setLidarSpeed, Ros1!getLidarNetwork, Ros1!setLidarNetwork,
   Ros1!probeLidarNetwork

\* The services of the ROS 2 node are sound.
LEMMA Ros2Sound == \A s \in Ros2!Services : Sound(s)
BY DEF Sound, PromisingServices, ConfirmedServices, Ros2!Services,
   Ros2!Service, Ros2!Method, Ros2!Reads, Ros2!Open, Ros2!Gated, Ros2!GetExposure,
   Ros2!SetTargetBrightness, Ros2!SetCameraExposure, Ros2!SetExposureLimits,
   Ros2!SyncSystemTime, Ros2!GetDeviceInfo, Ros2!GetDeviceConfiguration,
   Ros2!SetDeviceConfiguration, Ros2!GetLidarStatus, Ros2!GetLidarNetwork,
   Ros2!SetLidarNetwork, Ros2!ProbeLidarNetwork, Ros2!GetStreamState,
   Ros2!ControlStreams, Ros2!GetWifiHotspot, Ros2!SetWifiHotspot,
   Ros2!GetLidarSpeed, Ros2!SetLidarSpeed, Ros2!GetLidarPower,
   Ros2!SetLidarStandby, Ros2!GetGnssTiming, Ros2!GetTimeSyncPort,
   Ros2!SetRoverRtcm, Ros2!GetGnssReception, Ros2!GetRtkModuleStatus,
   Ros2!GetRtkModuleVersions, Ros2!GetCorsConfiguration, Ros2!SetCorsConfiguration,
   Ros2!ControlRtk, Ros2!SetTimeSyncPort, Ros2!GetReceiverPosition,
   Ros2!SetUnifiedExposure, Ros2!getExposure, Ros2!setTargetBrightness,
   Ros2!setCameraExposure, Ros2!getExposureLimits, Ros2!setExposureLimits,
   Ros2!setUnifiedExposure, Ros2!getGnssTiming, Ros2!getGnssReception,
   Ros2!getRtkModuleStatus, Ros2!getRtkModuleVersions, Ros2!getCorsConfiguration,
   Ros2!getTimeSyncPort, Ros2!setCorsConfiguration, Ros2!controlRtk,
   Ros2!setTimeSyncPort, Ros2!getReceiverPosition, Ros2!setRoverRtcm,
   Ros2!synchronizeSystemTime, Ros2!getDeviceInfo, Ros2!getDeviceConfiguration,
   Ros2!setDeviceConfiguration, Ros2!getWifiHotspot, Ros2!setWifiHotspot,
   Ros2!getStreamState, Ros2!controlStreams, Ros2!getLidarStatus,
   Ros2!getLidarPower, Ros2!setLidarStandby, Ros2!getLidarSpeed,
   Ros2!setLidarSpeed, Ros2!getLidarNetwork, Ros2!setLidarNetwork,
   Ros2!probeLidarNetwork

\* Whatever the spinner is asked for, in either node, is sound.
LEMMA RequestedSound ==
  ASSUME NEW version, NEW r \in Requests(OfferedBy(version))
  PROVE  Sound(r.service) /\ r.confirm \in BOOLEAN
<1>1. \A s \in OfferedBy(version) : Sound(s)
  BY Ros1Sound, Ros2Sound DEF OfferedBy
<1>2. PICK t \in OfferedBy(version), confirm \in BOOLEAN, valid \in BOOLEAN :
        r = [service |-> t, confirm |-> confirm, valid |-> valid]
  BY Zenon DEF Requests, Request
<1>3. r.service = t /\ r.confirm = confirm
  BY <1>2
<1> QED
  BY <1>1, <1>3

\* Whatever is being handled is one of those services, or nothing yet.
LEMMA RequestSound ==
  ASSUME TypeOK
  PROVE  Sound(request.service) /\ request.confirm \in BOOLEAN
<1>1. CASE request \in Requests(Offered)
  BY <1>1, RequestedSound DEF Offered
<1>2. CASE request = NoRequest
  BY <1>2 DEF NoRequest, Request, Service, getStreamState, Method, Reads, Sound,
     ConfirmedServices, PromisingServices
<1> QED
  BY <1>1, <1>2 DEF TypeOK

\* What a command may come to: only a write writes, once, and it is done if the
\* device says so, or if the method that looks at the answer returns.
LEMMA OutcomeFacts ==
  ASSUME NEW m, m.device \in {"read", "write", "host", "streams"},
         capturing \in BOOLEAN, NEW o \in Outcomes(m)
  PROVE  /\ o.sent \in {0, 1} /\ (o.sent = 1 => m.device = "write")
         /\ o.applied \in BOOLEAN /\ o.said \in BOOLEAN /\ o.ok \in BOOLEAN
         /\ o.fatal \in BOOLEAN /\ o.capturing \in BOOLEAN
         /\ m.device = "write" /\ o.said => o.applied
         /\ m.device = "write" /\ o.ok /\ m.check \in {"method", "sdk"} => o.applied
<1> DEFINE All == [sent : {0, 1}, applied : BOOLEAN, said : BOOLEAN, ok : BOOLEAN,
                   fatal : BOOLEAN, capturing : BOOLEAN]
           Fine(p) ==
             /\ p \in All
             /\ p.sent = 1 => m.device = "write"
             /\ m.device = "write" /\ p.said => p.applied
             /\ m.device = "write" /\ p.ok /\ m.check \in {"method", "sdk"} => p.applied
<1>2. Fine(Untouched)
  BY DEF Untouched, Outcome
<1>3. \A p \in Asked(m) : Fine(p)
  <2>1. CASE m.device = "write"
    <3>1. Asked(m) = Written(m)
      BY <2>1 DEF Asked
    <3>2. PICK declined \in BOOLEAN : declined = (m.check = "nobody")
      OBVIOUS
    <3>3. m.check \in {"method", "sdk"} => declined = FALSE
      BY <3>2
    <3>4. /\ Fine(Outcome(1, TRUE, TRUE, TRUE, FALSE, capturing))
          /\ Fine(Outcome(1, FALSE, FALSE, declined, FALSE, capturing))
          /\ Fine(Outcome(1, FALSE, FALSE, FALSE, FALSE, capturing))
          /\ Fine(Outcome(1, TRUE, FALSE, FALSE, FALSE, capturing))
      BY <2>1, <3>3 DEF Outcome
    <3>5. Asked(m) = {Outcome(1, TRUE, TRUE, TRUE, FALSE, capturing),
                      Outcome(1, FALSE, FALSE, declined, FALSE, capturing),
                      Outcome(1, FALSE, FALSE, FALSE, FALSE, capturing),
                      Outcome(1, TRUE, FALSE, FALSE, FALSE, capturing)}
      BY <3>1, <3>2 DEF Written
    <3> QED
      BY <3>4, <3>5
  <2>2. CASE m.device = "read"
    <3>1. Asked(m) = {Outcome(0, FALSE, yes, TRUE, FALSE, capturing) : yes \in BOOLEAN}
      BY <2>2 DEF Asked
    <3>2. \A yes \in BOOLEAN : Fine(Outcome(0, FALSE, yes, TRUE, FALSE, capturing))
      BY <2>2 DEF Outcome
    <3> HIDE DEF Fine
    <3> QED
      BY <3>1, <3>2
  <2>3. CASE m.device = "host"
    <3>1. Asked(m) = {Outcome(0, FALSE, FALSE, TRUE, FALSE, capturing)}
      BY <2>3 DEF Asked
    <3>2. Fine(Outcome(0, FALSE, FALSE, TRUE, FALSE, capturing))
      BY <2>3 DEF Outcome
    <3> QED
      BY <3>1, <3>2
  <2>4. CASE m.device = "streams"
    <3>1. Asked(m) =
            {Outcome(0, FALSE, FALSE, TRUE, FALSE, started) : started \in BOOLEAN}
      BY <2>4 DEF Asked
    <3>2. \A started \in BOOLEAN : Fine(Outcome(0, FALSE, FALSE, TRUE, FALSE, started))
      BY <2>4 DEF Outcome
    <3> HIDE DEF Fine
    <3> QED
      BY <3>1, <3>2
  <2> QED
    BY <2>1, <2>2, <2>3, <2>4
<1>4. ASSUME NEW p, Fine(p)
      PROVE  Fine([p EXCEPT !.ok = FALSE, !.fatal = TRUE])
  <2> DEFINE q == [p EXCEPT !.ok = FALSE, !.fatal = TRUE]
  <2>1. q \in All /\ q.sent = p.sent /\ q.said = p.said /\ q.applied = p.applied
        /\ q.ok = FALSE
    BY <1>4
  <2> QED
    BY <1>4, <2>1
<1>5. \/ o = Untouched
      \/ o \in Asked(m)
      \/ \E p \in Asked(m) \cup {Untouched} : o = [p EXCEPT !.ok = FALSE, !.fatal = TRUE]
  BY Zenon DEF Outcomes, Lost
<1>6. Fine(o)
  <2> HIDE DEF Fine
  <2>1. \A p \in Asked(m) \cup {Untouched} : Fine(p)
    BY <1>2, <1>3
  <2>2. CASE \E p \in Asked(m) \cup {Untouched} : o = [p EXCEPT !.ok = FALSE, !.fatal = TRUE]
    <3>1. PICK p \in Asked(m) \cup {Untouched} : o = [p EXCEPT !.ok = FALSE, !.fatal = TRUE]
      BY <2>2
    <3>2. Fine([p EXCEPT !.ok = FALSE, !.fatal = TRUE])
      BY <1>4, <2>1
    <3> QED
      BY <3>1, <3>2, Zenon
  <2> QED
    BY <1>5, <2>1, <2>2
<1> QED
  BY <1>6

-----------------------------------------------------------------------------
(* The queue: every step of the node is one of ControlQueue or leaves the    *)
(* queue alone.                                                              *)

LEMMA QueueSteps == [Next]_vars => [Q!Next]_(Q!vars)
<1> SUFFICES ASSUME [Next]_vars PROVE Q!Next \/ UNCHANGED Q!vars
  OBVIOUS
<1>1. UNCHANGED queue => UNCHANGED Q!vars
  BY DEF queue, Q!vars, Q!line, Q!session
<1>2. CASE SpinnerStep
  <2>1. CASE Spin \/ SpinEnds \/ Reject
    BY <1>1, <2>1 DEF Spin, SpinEnds, Reject
  <2>2. CASE Invoke
    BY <2>2 DEF Invoke, Q!Next, Q!CallerStep
  <2>3. CASE Resume
    BY <2>3 DEF Resume, Q!Next, Q!CallerStep
  <2> QED
    BY <1>2, <2>1, <2>2, <2>3 DEF SpinnerStep
<1>3. CASE Receive
  BY <1>1, <1>3 DEF Receive
<1>4. CASE SpinFails
  BY <1>4 DEF SpinFails, Q!Next
<1>5. CASE MainStep
  <2>1. CASE CallRun
    BY <2>1 DEF CallRun, Q!Next
  <2>2. CASE StartServing
    BY <2>2 DEF StartServing, Q!Next, Q!Running
  <2>3. CASE Proceed
    BY <2>3 DEF Proceed, Q!Next, Q!Running
  <2>4. CASE ExecuteCommand
    BY <2>4 DEF ExecuteCommand, Q!Next, Q!Running
  <2>5. CASE StopSpinner \/ Exit
    BY <1>1, <2>5 DEF StopSpinner, Exit
  <2>6. CASE ShutDown
    BY <2>6 DEF ShutDown, Q!Next
  <2> QED
    BY <1>5, <2>1, <2>2, <2>3, <2>4, <2>5, <2>6 DEF MainStep
<1>6. CASE Interrupt
  BY <1>6 DEF Interrupt, Q!Next
<1>7. CASE UNCHANGED vars
  BY <1>1, <1>7 DEF vars
<1> QED
  BY <1>2, <1>3, <1>4, <1>5, <1>6, <1>7 DEF Next

\* The node implements the control queue, with the spinner as its one caller.
THEOREM ServesQueue == Spec => Q!SafeSpec
<1>1. Init => Q!Init
  BY DEF Init
<1> QED
  BY <1>1, QueueSteps, PTL DEF Spec, Q!SafeSpec

\* The spinner's command is in the line as long as the spinner waits for it, and a
\* batch is there only while run() answers it.
Held ==
  /\ Len(control_commands) + Len(pending) = IF call[Spinner] = "waiting" THEN 1 ELSE 0
  /\ pending # <<>> => phase \in {"controls", "cancelling"}

LEMMA QueueHeld ==
  ASSUME Q!TypeOK, Held, [Q!Next]_(Q!vars)
  PROVE  Q!TypeOK' /\ Held'
<1>1. /\ control_commands \in Seq({Spinner}) /\ Len(control_commands) \in Nat
      /\ pending \in Seq({Spinner}) /\ Len(pending) \in Nat
      /\ call \in [{Spinner} -> Q!Calls]
  BY DEF Q!TypeOK
<1>2. CASE \E c \in {Spinner} : Q!Refuse(c) \/ Q!TurnAway(c) \/ Q!Return(c)
  <2>1. /\ UNCHANGED <<accepting_controls, control_commands, pending, fatal_control_error,
                       stop_requested, keep_running, phase>>
        /\ call[Spinner] # "waiting"
        /\ \E a \in Q!Calls \ {"waiting"} : call' = [call EXCEPT ![Spinner] = a]
    BY <1>2 DEF Q!Refuse, Q!TurnAway, Q!Return, Q!Answer, Q!Calls, Q!Answers,
       Q!line, Q!session
  <2> QED
    BY <1>1, <2>1 DEF Q!TypeOK, Held
<1>3. CASE Q!Enqueue(Spinner)
  <2>1. /\ control_commands' = Append(control_commands, Spinner)
        /\ call[Spinner] = "none" /\ call' = [call EXCEPT ![Spinner] = "waiting"]
        /\ Len(control_commands) < Limit
        /\ UNCHANGED <<accepting_controls, pending, fatal_control_error,
                       stop_requested, keep_running, phase>>
    BY <1>3 DEF Q!Enqueue, Q!Joined, Q!Answer, Q!session
  <2>2. /\ control_commands' \in Seq({Spinner})
        /\ Len(control_commands') = Len(control_commands) + 1
    BY <1>1, <2>1
  <2>3. "waiting" \in Q!Calls
    BY DEF Q!Calls
  <2>4. call' \in [{Spinner} -> Q!Calls] /\ call'[Spinner] = "waiting"
    BY <1>1, <2>1, <2>3
  <2>5. Len(control_commands') <= Limit
    BY <1>1, <2>1, <2>2, LimitAssumption
  <2> QED
    BY <1>1, <2>1, <2>2, <2>4, <2>5 DEF Q!TypeOK, Held
<1>4. CASE Q!Execute \/ Q!Cancel
  <2>1. /\ pending # <<>> /\ pending' = Tail(pending)
        /\ UNCHANGED <<accepting_controls, control_commands, stop_requested, keep_running,
                       phase>>
        /\ fatal_control_error' \in {fatal_control_error, TRUE}
        /\ \E a \in Q!Calls \ {"waiting"} : call' = [call EXCEPT ![Head(pending)] = a]
    BY <1>4 DEF Q!Execute, Q!Cancel, Q!Answer, Q!Calls, Q!Answers, Q!session
  <2>2. Head(pending) = Spinner /\ pending' \in Seq({Spinner})
        /\ Len(pending') = Len(pending) - 1 /\ Len(pending) > 0
    BY <1>1, <2>1
  <2>3. Q!TypeOK'
    <3>1. fatal_control_error' \in BOOLEAN
      BY <2>1 DEF Q!TypeOK
    <3>2. call' \in [{Spinner} -> Q!Calls]
      BY <1>1, <2>1, <2>2
    <3>3. Len(pending') <= Limit
      BY <1>1, <2>2, LimitAssumption DEF Q!TypeOK
    <3> QED
      BY <2>1, <2>2, <3>1, <3>2, <3>3 DEF Q!TypeOK
  <2>4. call'[Spinner] # "waiting"
    BY <1>1, <2>1, <2>2
  <2>5. Len(control_commands) + Len(pending) = 1
    BY <1>1, <2>2 DEF Held
  <2> QED
    BY <1>1, <2>1, <2>2, <2>3, <2>4, <2>5 DEF Held
<1>5. CASE Q!TakeCommands \/ Q!CancelControls
  <2>1. /\ pending' = control_commands /\ control_commands' = <<>>
        /\ accepting_controls' \in {accepting_controls, FALSE}
        /\ phase' \in Q!Phases
        /\ UNCHANGED <<fatal_control_error, stop_requested, keep_running, call>>
    BY <1>5 DEF Q!TakeCommands, Q!CancelControls, Q!Taken, Q!Move, Q!session, Q!Phases
  <2>2. Len(<<>>) = 0 /\ <<>> \in Seq({Spinner}) /\ 0 <= Limit
    BY LimitAssumption
  <2>3. pending = <<>>
    BY <1>5 DEF Held, Q!TakeCommands, Q!CancelControls, Q!Move
  <2>4. Q!TypeOK'
    BY <2>1, <2>2 DEF Q!TypeOK
  <2>5. phase' \in {"controls", "cancelling"}
    BY <1>5 DEF Q!TakeCommands, Q!CancelControls, Q!Move
  <2>6. Len(control_commands') + Len(pending') = Len(control_commands) + Len(pending)
    BY <1>1, <2>1, <2>2, <2>3
  <2> QED
    BY <2>1, <2>4, <2>5, <2>6 DEF Held
<1>6. CASE \/ Q!RequestStop \/ Q!Shutdown \/ Q!Run \/ Q!Open \/ Q!OpenFails
           \/ Q!EnableControls \/ Q!StartFails \/ Q!LeaveLoop \/ Q!ControlsDone \/ Q!Read
           \/ Q!Cleanup \/ Q!RunReturns \/ UNCHANGED Q!vars
  <2>1. UNCHANGED <<control_commands, pending, call>>
    BY <1>6 DEF Q!RequestStop, Q!Shutdown, Q!Run, Q!Open, Q!OpenFails, Q!EnableControls,
       Q!StartFails, Q!LeaveLoop, Q!ControlsDone, Q!Read, Q!Cleanup, Q!RunReturns,
       Q!line, Q!session, Q!vars
  <2>2. Q!TypeOK'
    BY <1>6, <2>1 DEF Q!TypeOK, Q!Phases, Q!Move, Q!RequestStop, Q!Shutdown, Q!Run,
       Q!Open, Q!OpenFails, Q!EnableControls, Q!StartFails, Q!LeaveLoop,
       Q!ControlsDone, Q!AfterControls, Q!Read, Q!Cleanup, Q!RunReturns, Q!line,
       Q!session, Q!vars
  <2>3. pending # <<>> => phase' \in {"controls", "cancelling"}
    BY <1>6 DEF Held, Q!Move, Q!RequestStop, Q!Shutdown, Q!Run,
       Q!Open, Q!OpenFails, Q!EnableControls, Q!StartFails, Q!LeaveLoop,
       Q!ControlsDone, Q!Read, Q!Cleanup, Q!RunReturns, Q!line,
       Q!session, Q!vars
  <2> QED
    BY <2>1, <2>2, <2>3 DEF Held
<1> QED
  BY <1>2, <1>3, <1>4, <1>5, <1>6 DEF Q!Next, Q!CallerStep, Q!Running

-----------------------------------------------------------------------------
(* The inductive invariant. *)

\* A request has passed the gate before a call is made for it; nothing is sent
\* before the command is executed, and never more than once.
Gatekept ==
  /\ call[Spinner] # "none" => spinner = "handling" /\ ~Unconfirmed
  /\ sent > 0 => ~Unconfirmed

SentOnce ==
  /\ at <= Len(request.service.methods)
  /\ sent <= 1 /\ (Len(request.service.methods) = 2 => sent = 0)
  /\ spinner = "handling" /\ call[Spinner] \notin {"value", "error"} => sent = 0

\* For a service that promises: what the device said, and a call that returned
\* where the handler does not ask what it said, mean that it is done.
Promised ==
  request.service.name \in PromisingServices =>
    /\ said => applied
    /\ call[Spinner] = "value" /\ request.service.verdict # "device" => applied
    /\ reply = "success" => applied

IInv == TypeOK /\ Held /\ Gatekept /\ SentOnce /\ Promised

LEMMA InitIInv == Init => IInv
<1> SUFFICES ASSUME Init PROVE IInv
  OBVIOUS
<1>1. Q!TypeOK /\ Held /\ call[Spinner] = "none"
  <2>1. control_commands = <<>> /\ pending = <<>> /\ call = [c \in {Spinner} |-> "none"]
        /\ phase = "down" /\ accepting_controls = FALSE /\ fatal_control_error = FALSE
        /\ stop_requested = FALSE /\ keep_running = TRUE
    BY DEF Init, Q!Init
  <2>2. Len(<<>>) = 0 /\ <<>> \in Seq({Spinner}) /\ 0 <= Limit
    BY LimitAssumption
  <2>3. call \in [{Spinner} -> Q!Calls] /\ phase \in Q!Phases
    BY <2>1 DEF Q!Calls, Q!Phases
  <2>4. Q!TypeOK
    BY <2>1, <2>2, <2>3 DEF Q!TypeOK
  <2>5. call[Spinner] = "none"
    BY <2>1
  <2> QED
    BY <2>1, <2>2, <2>4, <2>5 DEF Held
<1>2. TypeOK
  <2>1. spinning \in BOOLEAN
    BY DEF Init
  <2>2. /\ ros \in Versions /\ main = "ready" /\ run_failed = FALSE /\ exit_code = 0
        /\ spinner = "started" /\ spin_error = FALSE /\ capturing = FALSE
        /\ request = NoRequest /\ at = 1 /\ sent = 0 /\ reply = "none"
        /\ applied = FALSE /\ said = FALSE
    BY DEF Init
  <2>3. request \in Requests(Offered) \cup {NoRequest}
    BY <2>2
  <2>4. at \in 1..2 /\ sent \in 0..2
    BY <2>2
  <2> QED
    BY <1>1, <2>1, <2>2, <2>3, <2>4, Zenon DEF TypeOK
<1>3. SentOnce
  <2>1. Len(request.service.methods) = 1
    BY DEF Init, NoRequest, Request, Service
  <2> QED
    BY <2>1 DEF Init, SentOnce
<1>4. Promised /\ Gatekept
  BY <1>1 DEF Init, Promised, Gatekept
<1> QED
  BY <1>1, <1>2, <1>3, <1>4 DEF IInv

-----------------------------------------------------------------------------
(* The steps. *)

\* A command in the batch is the spinner's, and the spinner waits for it.
LEMMA BatchWaits ==
  ASSUME IInv, pending # <<>>
  PROVE  call[Spinner] = "waiting" /\ Head(pending) = Spinner
<1>1. /\ control_commands \in Seq({Spinner}) /\ pending \in Seq({Spinner})
      /\ Len(control_commands) + Len(pending) = IF call[Spinner] = "waiting" THEN 1 ELSE 0
  BY DEF IInv, TypeOK, Q!TypeOK, Held
<1>2. Len(pending) > 0 /\ Len(control_commands) >= 0 /\ Head(pending) = Spinner
  BY <1>1
<1> QED
  BY <1>1, <1>2

\* Steps that leave the request alone, and the spinner's call too but for its
\* cancellation.
LEMMA QuietStep ==
  ASSUME IInv, UNCHANGED service,
         spinner' = spinner \/ (spinner # "handling" /\ spinner' # "handling"),
         \/ call'[Spinner] = call[Spinner]
         \/ call[Spinner] = "waiting" /\ call'[Spinner] = "cancelled"
  PROVE  Gatekept' /\ SentOnce' /\ Promised'
<1>1. UNCHANGED <<request, at, sent, applied, said, reply>>
  BY DEF service
<1>2. Gatekept /\ SentOnce /\ Promised
  BY DEF IInv
<1>3. Gatekept'
  BY <1>1, <1>2 DEF Gatekept, Unconfirmed
<1>4. SentOnce'
  BY <1>1, <1>2 DEF SentOnce
<1>5. Promised'
  BY <1>1, <1>2 DEF Promised
<1> QED
  BY <1>3, <1>4, <1>5

LEMMA SpinnerQuiet ==
  ASSUME IInv, Q!TypeOK', Held', Spin \/ SpinEnds \/ SpinFails
  PROVE  IInv'
<1>1. /\ spinner # "handling" /\ spinner' \in {"idle", "gone"} /\ UNCHANGED service
      /\ UNCHANGED <<process, capturing>>
      /\ call' = call
  BY DEF Spin, SpinEnds, SpinFails, queue, Q!RequestStop
<1>2. spinning' \in BOOLEAN /\ spin_error' \in BOOLEAN
  BY DEF Spin, SpinEnds, SpinFails, IInv, TypeOK
<1>3. TypeOK'
  BY <1>1, <1>2 DEF IInv, TypeOK, process, service, Offered
<1> QED
  BY <1>1, <1>3, QuietStep DEF IInv

LEMMA ReceiveStep ==
  ASSUME IInv, Q!TypeOK', Held', Receive
  PROVE  IInv'
<1>1. /\ spinner = "idle" /\ spinner' = "handling"
      /\ request' \in Requests(Offered)
      /\ at' = 1 /\ sent' = 0 /\ applied' = FALSE /\ said' = FALSE /\ reply' = "none"
      /\ UNCHANGED <<process, spinning, spin_error, capturing>> /\ call' = call
  BY DEF Receive, queue
<1>2. TypeOK'
  <2>1. ros' = ros /\ Offered' = Offered
    BY <1>1 DEF process, Offered
  <2>2. request' \in Requests(Offered')
    BY <1>1, <2>1
  <2>3. at' \in 1..2 /\ sent' \in 0..2
    BY <1>1
  <2>4. UNCHANGED <<ros, main, run_failed, exit_code, spinning, spin_error, capturing>>
    BY <1>1 DEF process
  <2> QED
    BY <1>1, <2>2, <2>3, <2>4, Zenon DEF IInv, TypeOK
<1>3. call[Spinner] = "none"
  BY <1>1 DEF IInv, Gatekept
<1>4. Sound(request'.service)
  BY <1>1, RequestedSound DEF Offered
<1>5. Gatekept'
  BY <1>1, <1>3 DEF Gatekept
<1>6. SentOnce'
  BY <1>1, <1>4 DEF SentOnce, Sound
<1>7. Promised'
  BY <1>1, <1>3 DEF Promised
<1> QED
  BY <1>2, <1>5, <1>6, <1>7 DEF IInv

\* A handler that answers before it has called the Driver sends nothing and fails.
LEMMA RejectStep ==
  ASSUME IInv, Q!TypeOK', Held', Reject
  PROVE  IInv'
<1>1. /\ spinner = "handling" /\ spinner' = "idle" /\ call[Spinner] = "none" /\ call' = call
      /\ reply' = "failure"
      /\ UNCHANGED <<at, sent, applied, said, request, ros, main, run_failed, exit_code,
                     spinning, spin_error, capturing>>
  BY DEF Reject, AboutToCall, Reply, process, queue
<1>2. TypeOK'
  BY <1>1 DEF IInv, TypeOK, Offered
<1>3. Gatekept' /\ SentOnce' /\ Promised'
  BY <1>1 DEF IInv, Gatekept, Unconfirmed, SentOnce, Promised
<1> QED
  BY <1>2, <1>3 DEF IInv

\* A call is made, or refused, for a request that has passed the gate.
LEMMA InvokeStep ==
  ASSUME IInv, Q!TypeOK', Held', Invoke
  PROVE  IInv'
<1>1. /\ spinner = "handling" /\ spinner' = spinner /\ ~Unconfirmed
      /\ call[Spinner] = "none"
      /\ call' = [call EXCEPT ![Spinner] = "waiting"]
           \/ call' = [call EXCEPT ![Spinner] = "refused"]
      /\ UNCHANGED <<ros, main, run_failed, exit_code, spinning, spin_error, capturing,
                     request, at, sent, applied, said, reply>>
  BY DEF Invoke, AboutToCall, Q!Enqueue, Q!Refuse, Q!Answer, process, executor, service
<1>2. call'[Spinner] \in {"waiting", "refused"}
  BY <1>1 DEF IInv, TypeOK, Q!TypeOK
<1>3. TypeOK'
  BY <1>1 DEF IInv, TypeOK, Offered
<1>4. Gatekept' /\ SentOnce' /\ Promised'
  BY <1>1, <1>2 DEF IInv, Gatekept, Unconfirmed, SentOnce, Promised
<1> QED
  BY <1>3, <1>4 DEF IInv

\* A call has returned or thrown: another one, or the answer.
LEMMA ResumeStep ==
  ASSUME IInv, Q!TypeOK', Held', Resume
  PROVE  IInv'
<1> DEFINE n == Len(request.service.methods)
<1>1. /\ spinner = "handling" /\ call[Spinner] # "none"
      /\ call' = [call EXCEPT ![Spinner] = "none"]
      /\ UNCHANGED <<ros, main, run_failed, exit_code, spinning, spin_error, capturing,
                     request, sent, applied, said>>
      /\ \/ /\ call[Spinner] = "value" /\ at < n
            /\ at' = at + 1 /\ spinner' = spinner /\ reply' = reply
         \/ /\ at' = at /\ spinner' = "idle"
            /\ reply' = IF call[Spinner] = "value" /\ Verdict THEN "success" ELSE "failure"
  BY DEF Resume, Reply, Q!Return, Q!Answer, Q!Answers, process
<1>2. call'[Spinner] = "none"
  BY <1>1 DEF IInv, TypeOK, Q!TypeOK
<1>3. Sound(request.service) /\ at \in 1..2 /\ sent \in 0..2
  BY RequestSound DEF IInv, TypeOK
<1>4. at' \in 1..2 /\ at' <= n
  BY <1>1, <1>3 DEF Sound, IInv, SentOnce
<1>5. TypeOK'
  <2>1. reply' \in {"none", "success", "failure"} /\ spinner' \in {"handling", "idle"}
    BY <1>1 DEF IInv, TypeOK
  <2> QED
    BY <1>1, <1>4, <2>1 DEF IInv, TypeOK, Offered
<1>6. Gatekept'
  BY <1>1, <1>2 DEF IInv, Gatekept, Unconfirmed
<1>7. SentOnce'
  <2>1. CASE at < n /\ at' = at + 1
    <3>1. n = 2
      BY <1>3, <2>1 DEF Sound
    <3> QED
      BY <1>1, <1>4, <3>1 DEF IInv, SentOnce
  <2>2. CASE spinner' = "idle"
    BY <1>1, <1>4, <2>2 DEF IInv, SentOnce
  <2> QED
    BY <1>1, <2>1, <2>2
<1>8. Promised'
  <2> SUFFICES ASSUME request.service.name \in PromisingServices
               PROVE  (said => applied) /\ (reply' = "success" => applied)
    BY <1>1, <1>2 DEF Promised
  <2>1. /\ said => applied
        /\ call[Spinner] = "value" /\ request.service.verdict # "device" => applied
        /\ reply = "success" => applied
    BY DEF IInv, Promised
  <2>2. call[Spinner] = "value" /\ Verdict => applied
    BY <2>1 DEF Verdict
  <2>3. reply' = "success" => reply = "success" \/ (call[Spinner] = "value" /\ Verdict)
    BY <1>1
  <2> QED
    BY <2>1, <2>2, <2>3
<1> QED
  BY <1>5, <1>6, <1>7, <1>8 DEF IInv

\* The command is executed: it was not before.
LEMMA ExecuteStep ==
  ASSUME IInv, Q!TypeOK', Held', ExecuteCommand
  PROVE  IInv'
<1> DEFINE n == Len(request.service.methods)
<1>1. PICK o \in Outcomes(Called) :
        /\ Q!Execute
        /\ call'[Spinner] = IF o.ok THEN "value" ELSE "error"
        /\ sent' = sent + o.sent
        /\ applied' = (applied \/ o.applied)
        /\ said' = o.said
        /\ capturing' = o.capturing
  BY DEF ExecuteCommand
<1>2. /\ pending # <<>>
      /\ UNCHANGED <<ros, main, run_failed, exit_code, spinner, spinning, spin_error,
                     request, at, reply>>
  BY DEF ExecuteCommand, process, executor
<1>3. call[Spinner] = "waiting"
  BY <1>2, BatchWaits
<1>4. spinner = "handling" /\ ~Unconfirmed /\ sent = 0 /\ at <= n
  BY <1>3 DEF IInv, Gatekept, SentOnce
<1>5. Sound(request.service) /\ at \in 1..2 /\ (n = 1 \/ n = 2) /\ capturing \in BOOLEAN
  BY RequestSound DEF IInv, TypeOK, Sound
<1>6. at \in 1..n /\ Called = request.service.methods[at]
  BY <1>4, <1>5 DEF Called
<1>7. Called.device \in {"read", "write", "host", "streams"}
  BY <1>5, <1>6 DEF Sound
<1>8. /\ o.sent \in {0, 1} /\ (o.sent = 1 => Called.device = "write")
      /\ o.applied \in BOOLEAN /\ o.said \in BOOLEAN /\ o.capturing \in BOOLEAN
      /\ Called.device = "write" /\ o.said => o.applied
      /\ Called.device = "write" /\ o.ok /\ Called.check \in {"method", "sdk"} => o.applied
  BY <1>5, <1>7, OutcomeFacts
<1>9. n = 2 => o.sent = 0
  <2>1. n = 2 => Called.device = "read"
    BY <1>5, <1>6 DEF Sound
  <2> QED
    BY <1>8, <2>1
<1>10. TypeOK'
  <2>1. sent' \in 0..2
    BY <1>1, <1>4, <1>8
  <2>2. applied' \in BOOLEAN /\ said' \in BOOLEAN /\ capturing' \in BOOLEAN
    BY <1>1, <1>8 DEF IInv, TypeOK
  <2>3. Offered' = Offered
    BY <1>2 DEF Offered
  <2> QED
    BY <1>2, <2>1, <2>2, <2>3, Zenon DEF IInv, TypeOK
<1>11. Gatekept'
  BY <1>2, <1>4 DEF Gatekept, Unconfirmed
<1>12. SentOnce'
  <2>1. sent' <= 1 /\ (n = 2 => sent' = 0)
    BY <1>1, <1>4, <1>8, <1>9
  <2>2. call'[Spinner] \in {"value", "error"}
    BY <1>1
  <2> QED
    BY <1>2, <1>4, <2>1, <2>2 DEF SentOnce
<1>13. Promised'
  <2> SUFFICES ASSUME request.service.name \in PromisingServices
               PROVE  /\ said' => applied'
                      /\ call'[Spinner] = "value" /\ request.service.verdict # "device"
                           => applied'
                      /\ reply = "success" => applied'
    BY <1>2 DEF Promised
  <2>1. /\ Called.device = "write"
        /\ request.service.verdict = "device" \/ Called.check \in {"method", "sdk"}
    <3>1. n = 1 /\ at = 1
      BY <1>5, <1>6 DEF Sound
    <3> QED
      BY <1>5, <1>6, <3>1 DEF Sound
  <2>2. said' => applied'
    BY <1>1, <1>8, <2>1
  <2>3. call'[Spinner] = "value" => o.ok
    BY <1>1
  <2>4. reply = "success" => applied
    BY DEF IInv, Promised
  <2> QED
    BY <1>1, <1>8, <2>1, <2>2, <2>3, <2>4
<1> QED
  BY <1>10, <1>11, <1>12, <1>13 DEF IInv

\* The main thread around the commands, and the end of ROS.
LEMMA MainQuiet ==
  ASSUME IInv, Q!TypeOK', Held',
         \/ CallRun \/ StartServing \/ StopSpinner \/ ShutDown \/ Exit \/ Interrupt
  PROVE  IInv'
<1>1. /\ UNCHANGED service /\ spinner' = spinner /\ call' = call
  BY DEF CallRun, StartServing, StopSpinner, ShutDown, Exit, Interrupt, executor,
     queue, Q!Run, Q!EnableControls, Q!Shutdown
<1>2. /\ ros' = ros /\ spin_error' = spin_error /\ run_failed' = run_failed
      /\ spinning' \in BOOLEAN /\ capturing' \in BOOLEAN
      /\ main' \in {main, "run", "stopped", "shut", "exited"}
      /\ exit_code' \in {exit_code, 0, 1}
  BY DEF CallRun, StartServing, StopSpinner, ShutDown, Exit, Interrupt, executor,
     process, IInv, TypeOK
<1>3. TypeOK'
  BY <1>1, <1>2 DEF IInv, TypeOK, service, Offered
<1> QED
  BY <1>1, <1>3, QuietStep DEF IInv

LEMMA ProceedStep ==
  ASSUME IInv, Q!TypeOK', Held', Proceed
  PROVE  IInv'
<1>1. /\ UNCHANGED service /\ spinner' = spinner /\ ros' = ros /\ exit_code' = exit_code
      /\ spinning' = spinning /\ spin_error' = spin_error
      /\ main' \in {main, "over"}
      /\ run_failed' = \/ run_failed
                       \/ phase = "opening" /\ phase' = "down"
                       \/ phase # "top" /\ phase' = "leaving"
      /\ capturing' = (capturing /\ phase' # "closing")
  BY DEF Proceed, executor
<1>2. run_failed' \in BOOLEAN /\ capturing' \in BOOLEAN
  BY <1>1
<1>3. \/ call'[Spinner] = call[Spinner]
      \/ call[Spinner] = "waiting" /\ call'[Spinner] = "cancelled"
  <2>1. CASE Q!Cancel
    <3>1. pending # <<>> /\ call' = [call EXCEPT ![Head(pending)] = "cancelled"]
      BY <2>1 DEF Q!Cancel, Q!Answer
    <3>2. call[Spinner] = "waiting" /\ Head(pending) = Spinner
      BY <3>1, BatchWaits
    <3> QED
      BY <3>1, <3>2 DEF IInv, TypeOK, Q!TypeOK
  <2>2. CASE ~Q!Cancel
    BY <2>2 DEF Proceed, Q!Open, Q!OpenFails, Q!StartFails, Q!LeaveLoop, Q!TakeCommands,
       Q!ControlsDone, Q!Read, Q!CancelControls, Q!Cleanup, Q!RunReturns
  <2> QED
    BY <2>1, <2>2
<1>4. TypeOK'
  BY <1>1, <1>2 DEF IInv, TypeOK, service, Offered
<1> QED
  BY <1>1, <1>3, <1>4, QuietStep DEF IInv

LEMMA NextIInv == IInv /\ [Next]_vars => IInv'
<1> SUFFICES ASSUME IInv, [Next]_vars PROVE IInv'
  OBVIOUS
<1>1. Q!TypeOK' /\ Held'
  BY QueueSteps, QueueHeld DEF IInv, TypeOK
<1>2. CASE SpinnerStep \/ Receive \/ SpinFails
  BY <1>1, <1>2, SpinnerQuiet, RejectStep, InvokeStep, ResumeStep, ReceiveStep
  DEF SpinnerStep
<1>3. CASE MainStep \/ Interrupt
  BY <1>1, <1>3, MainQuiet, ProceedStep, ExecuteStep DEF MainStep
<1>4. CASE UNCHANGED vars
  <2>1. UNCHANGED <<process, executor, capturing, service, call>>
    BY <1>4 DEF vars, queue
  <2>2. TypeOK'
    BY <1>1, <2>1 DEF IInv, TypeOK, process, executor, service, Offered
  <2> QED
    BY <1>1, <2>1, <2>2, QuietStep DEF IInv, executor
<1> QED
  BY <1>2, <1>3, <1>4 DEF Next

LEMMA Invariance == Spec => []IInv
BY InitIInv, NextIInv, PTL DEF Spec

-----------------------------------------------------------------------------
(* The theorems. *)

\* Every variable keeps its type, those of the control queue as well.
THEOREM TypeCorrect == Spec => []TypeOK
BY Invariance, PTL DEF IInv

\* No write reaches the device for a request to a documented service that does
\* not say confirm, in either node.
THEOREM Confirmed == Spec => []WritesAreConfirmed
<1>1. IInv => WritesAreConfirmed
  <2> SUFFICES ASSUME IInv, sent > 0, request.service.name \in ConfirmedServices
               PROVE  request.confirm
    BY DEF WritesAreConfirmed
  <2>1. request.service.confirm
    BY RequestSound DEF IInv, Sound
  <2> QED
    BY <2>1 DEF IInv, Gatekept, Unconfirmed
<1> QED
  BY <1>1, Invariance, PTL

\* A service that promises an effect and answers success has had it.
THEOREM PromisesKept == Spec => []SuccessMeansDone
<1>1. IInv => SuccessMeansDone
  BY DEF IInv, Promised, SuccessMeansDone
<1> QED
  BY <1>1, Invariance, PTL

\* A request writes at most once, and not before its command is executed.
THEOREM OneWrite == Spec => []OneWriteAtMost
<1>1. IInv => OneWriteAtMost
  BY DEF IInv, SentOnce, OneWriteAtMost
<1> QED
  BY <1>1, Invariance, PTL
=============================================================================
