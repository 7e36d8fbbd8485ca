---------------------------- MODULE ControlQueue ----------------------------
(***************************************************************************)
(* The control queue of Driver::Impl (common/src/driver.cpp) and the loop   *)
(* of Driver::run that serves it.  A service thread that calls one of the   *)
(* Driver's methods puts a command under control_mutex and blocks on the    *)
(* command's future; the sensor thread takes the whole deque at the top of  *)
(* its loop and executes it between reads of sensor frames; every way out   *)
(* of run() cancels what is left.  A command is named by its caller, who    *)
(* has one at a time.  What a command does to the streams is StreamControl; *)
(* here it ends in a value, an error, or an error that sets                 *)
(* fatal_control_error.                                                     *)
(***************************************************************************)
EXTENDS Naturals, Sequences

CONSTANTS Callers,   \* the threads that call services
          Limit      \* the 64 of invokeControl

ASSUME LimitAssumption == Limit \in Nat \ {0}

VARIABLES
  accepting_controls,
  control_commands,     \* the deque, oldest first
  pending,              \* the deque taken by processControls or cancelControls
  fatal_control_error,  \* it is not empty
  stop_requested,
  keep_running,         \* what run()'s argument answers: ros::ok()
  phase,                \* where the sensor thread is in run()
  call                  \* what each caller's call has come to

line == <<accepting_controls, control_commands, pending>>
session == <<fatal_control_error, stop_requested, keep_running>>
vars == <<line, session, phase, call>>

\* "down": not in run().  "opening": from its first line to the try.
\* "starting": network configuration and first start of the streams.
\* "top": the while condition.  "controls": processControls.  "reading": the
\* rest of the loop's body.  "leaving": about to call cancelControls.
\* "cancelling": cancelControls, after the swap.  "closing": cleanup to the end.
Phases == {"down", "opening", "starting", "top", "controls", "reading",
           "leaving", "cancelling", "closing"}

Answers == {"value", "error", "cancelled", "refused", "full"}
Calls == {"none", "waiting"} \cup Answers

TypeOK ==
  /\ accepting_controls \in BOOLEAN
  /\ control_commands \in Seq(Callers) /\ Len(control_commands) <= Limit
  /\ pending \in Seq(Callers) /\ Len(pending) <= Limit
  /\ fatal_control_error \in BOOLEAN
  /\ stop_requested \in BOOLEAN
  /\ keep_running \in BOOLEAN
  /\ phase \in Phases
  /\ call \in [Callers -> Calls]

Init ==
  /\ accepting_controls = FALSE
  /\ control_commands = <<>>
  /\ pending = <<>>
  /\ fatal_control_error = FALSE
  /\ stop_requested = FALSE
  /\ keep_running = TRUE
  /\ phase = "down"
  /\ call = [c \in Callers |-> "none"]

-----------------------------------------------------------------------------
(* The callers: invokeControl. *)

Answer(c, answer) == call' = [call EXCEPT ![c] = answer]

Refuse(c) ==
  /\ call[c] = "none"
  /\ ~accepting_controls
  /\ Answer(c, "refused")
  /\ UNCHANGED <<line, session, phase>>

TurnAway(c) ==
  /\ call[c] = "none"
  /\ accepting_controls
  /\ Len(control_commands) >= Limit
  /\ Answer(c, "full")
  /\ UNCHANGED <<line, session, phase>>

\* Who may join the deque, and where (mutated form: the flag is not looked at
\* under the lock).
AdmitsAnyTime == TRUE
Admits == accepting_controls

Joined(c) == Append(control_commands, c)

Enqueue(c) ==
  /\ call[c] = "none"
  /\ Admits
  /\ Len(control_commands) < Limit
  /\ control_commands' = Joined(c)
  /\ Answer(c, "waiting")
  /\ UNCHANGED <<accepting_controls, pending, session, phase>>

\* future.get() returns or throws, and the caller is free to call again.
Return(c) ==
  /\ call[c] \in Answers
  /\ Answer(c, "none")
  /\ UNCHANGED <<line, session, phase>>

\* Driver::requestStop, from any thread, and the end of ROS.
RequestStop ==
  /\ stop_requested' = TRUE
  /\ UNCHANGED <<line, fatal_control_error, keep_running, phase, call>>

Shutdown ==
  /\ keep_running' = FALSE
  /\ UNCHANGED <<line, fatal_control_error, stop_requested, phase, call>>

-----------------------------------------------------------------------------
(* The sensor thread: Driver::run. *)

Move(from, to) == phase = from /\ phase' = to

Run ==
  /\ Move("down", "opening")
  /\ stop_requested' = FALSE
  /\ fatal_control_error' = FALSE
  /\ UNCHANGED <<line, keep_running, call>>

\* openClient, deviceInfo and the checks on it: a failure leaves run() before
\* the try, with no cancelControls.
Open ==
  /\ Move("opening", "starting")
  /\ UNCHANGED <<line, session, call>>

OpenFails ==
  /\ Move("opening", "down")
  /\ UNCHANGED <<line, session, call>>

\* startConfiguredStreams returns: enableControls.
EnableControls ==
  /\ Move("starting", "top")
  /\ accepting_controls' = TRUE
  /\ UNCHANGED <<control_commands, pending, session, call>>

StartFails ==
  /\ Move("starting", "leaving")
  /\ UNCHANGED <<line, session, call>>

\* !(!stop_requested.load() && keep_running()), the end of the while
\* loop.
Stops == stop_requested \/ ~keep_running

LeaveLoop ==
  /\ Move("top", "leaving")
  /\ Stops
  /\ UNCHANGED <<line, session, call>>

\* What processControls takes of the deque it empties (mutated form: one
\* command a turn).
TakenOne ==
  IF control_commands = <<>> THEN <<>> ELSE <<Head(control_commands)>>
Taken == control_commands

TakeCommands ==
  /\ Move("top", "controls")
  /\ ~Stops
  /\ pending' = Taken
  /\ control_commands' = <<>>
  /\ UNCHANGED <<accepting_controls, session, call>>

\* One command: its promise gets the value or the exception.  A command that
\* sets fatal_control_error does not keep the rest from being executed.
Execute ==
  /\ phase = "controls"
  /\ pending # <<>>
  /\ pending' = Tail(pending)
  /\ \/ Answer(Head(pending), "value") /\ UNCHANGED fatal_control_error
     \/ Answer(Head(pending), "error") /\ UNCHANGED fatal_control_error
     \/ Answer(Head(pending), "error") /\ fatal_control_error' = TRUE
  /\ UNCHANGED <<accepting_controls, control_commands, stop_requested,
                 keep_running, phase>>

\* if (!fatal_control_error.empty()) throw (mutated form: it is not tested).
ReadsOn == "reading"
AfterControls == IF fatal_control_error THEN "leaving" ELSE "reading"

ControlsDone ==
  /\ pending = <<>>
  /\ Move("controls", AfterControls)
  /\ UNCHANGED <<line, session, call>>

\* Sensor frames, polls and status; an exception that is no timeout ends run().
Read ==
  /\ \/ Move("reading", "top")
     \/ Move("reading", "leaving")
  /\ UNCHANGED <<line, session, call>>

\* cancelControls: closes the door and takes what is there, in one critical
\* section.
CancelControls ==
  /\ Move("leaving", "cancelling")
  /\ accepting_controls' = FALSE
  /\ pending' = control_commands
  /\ control_commands' = <<>>
  /\ UNCHANGED <<session, call>>

Cancel ==
  /\ phase = "cancelling"
  /\ pending # <<>>
  /\ pending' = Tail(pending)
  /\ Answer(Head(pending), "cancelled")
  /\ UNCHANGED <<accepting_controls, control_commands, session, phase>>

Cleanup ==
  /\ Move("cancelling", "closing")
  /\ pending = <<>>
  /\ UNCHANGED <<line, session, call>>

RunReturns ==
  /\ Move("closing", "down")
  /\ UNCHANGED <<line, session, call>>

-----------------------------------------------------------------------------
CallerStep == \E c \in Callers : Refuse(c) \/ TurnAway(c) \/ Enqueue(c) \/ Return(c)

\* The steps of run() once it has been called.
Running == \/ Open \/ OpenFails \/ EnableControls \/ StartFails
           \/ LeaveLoop \/ TakeCommands \/ Execute \/ ControlsDone \/ Read
           \/ CancelControls \/ Cancel \/ Cleanup \/ RunReturns

Next == CallerStep \/ RequestStop \/ Shutdown \/ Run \/ Running

SafeSpec == Init /\ [][Next]_vars

\* run() makes progress: every SDK call it makes has a timeout of its own.
Spec == SafeSpec /\ WF_vars(Running)

-----------------------------------------------------------------------------
(* Properties. *)

In(c, s) == \E i \in DOMAIN s : s[i] = c
Distinct(s) == \A i, j \in DOMAIN s : s[i] = s[j] => i = j

\* Each caller that waits has exactly one command, in the deque or in the
\* batch being answered, and nobody else has any: no promise is set twice and
\* none is dropped unset.
EveryWaiterHeldOnce ==
  /\ Distinct(control_commands) /\ Distinct(pending)
  /\ \A c \in Callers :
       /\ ~(In(c, control_commands) /\ In(c, pending))
       /\ call[c] = "waiting" <=> In(c, control_commands) \/ In(c, pending)

\* Once run() has cleaned up, and until it serves again, no thread is blocked
\* in a service: joining that thread (the spinner of the ROS 2 main) returns.
NobodyWaitsWhenDown ==
  phase \in {"closing", "down", "opening", "starting"} =>
    \A c \in Callers : call[c] # "waiting"

\* Commands are answered in the order they were accepted: a step takes the
\* oldest one, adds a newest one, or leaves the line as it is.
Line == pending \o control_commands
AnsweredInOrder ==
  [][\/ Line' = Line
     \/ Line # <<>> /\ Line' = Tail(Line)
     \/ \E c \in Callers : Line' = Append(Line, c)]_vars

\* A command whose failure left the streams unrecovered ends the session: no
\* later command is taken from the deque and executed, and no frame is read.
FatalEndsSession ==
  fatal_control_error =>
    phase \in {"controls", "leaving", "cancelling", "closing", "down"}

\* Every service call returns, with an answer or a refusal.
EveryCallReturns == \A c \in Callers : call[c] = "waiting" ~> call[c] # "waiting"

=============================================================================
