--------------------------- MODULE DispatchQueue ---------------------------
(***************************************************************************)
(* One DispatchQueue<T> of common/src/driver.cpp: the bounded queue, the    *)
(* mutex and condition variable, and the worker thread that stand between   *)
(* the sensor thread (Driver::run, which calls start, push and stop) and a  *)
(* ROS publisher callback (handler_).  The driver owns eleven of them.      *)
(*                                                                         *)
(* Steps are the code's atomic regions: one access of an atomic, one        *)
(* critical section of mutex_, one wait or notify of cv_.  The predicate    *)
(* of cv_.wait is evaluated and the thread put to sleep in two steps, as    *)
(* running_ changes without the mutex.  The values pushed are numbered.     *)
(***************************************************************************)
EXTENDS Naturals, Sequences

CONSTANTS Capacity,    \* capacity_
          MaxPushes    \* bound on the number of values accepted by push

ASSUME CapacityAssumption == Capacity \in Nat \ {0}
ASSUME MaxPushesAssumption == MaxPushes \in Nat

VARIABLES
  running,          \* running_
  queue,            \* queue_
  depth, peak,      \* depth_, peak_
  dropped,          \* dropped_
  callback_errors,  \* callback_errors_
  driver,           \* where the sensor thread is in start/push/stop
  worker,           \* where worker_ is in workerMain
  accepted,         \* history: how many values push has queued
  taken,            \* history: how many values the worker has taken
  handed,           \* history: the value the handler was last called with
  cleared           \* history: how many values stop has thrown away

counters == <<depth, peak, dropped, callback_errors>>
history == <<accepted, taken, handed, cleared>>
dispatchVars == <<running, queue, counters, driver, worker, history>>

DriverPlaces == {"idle", "push_notify", "stop_clear", "stop_notify", "join"}
WorkerPlaces == {"none", "loop", "lock", "predicate", "blocking", "asleep",
                 "check", "pop", "handler", "done"}

\* The worker holds mutex_ at these places (the sensor thread's critical
\* sections are single steps, so it never holds the mutex between steps).
MutexHeld == worker \in {"predicate", "blocking", "check", "pop"}

DispatchTypeOK ==
  /\ running \in BOOLEAN
  /\ queue \in Seq(Nat)
  /\ depth \in Nat /\ peak \in Nat /\ dropped \in Nat /\ callback_errors \in Nat
  /\ driver \in DriverPlaces
  /\ worker \in WorkerPlaces
  /\ accepted \in Nat /\ taken \in Nat /\ handed \in Nat /\ cleared \in Nat

DispatchInit ==
  /\ running = FALSE
  /\ queue = <<>>
  /\ depth = 0 /\ peak = 0 /\ dropped = 0 /\ callback_errors = 0
  /\ driver = "idle"
  /\ worker = "none"
  /\ accepted = 0 /\ taken = 0 /\ handed = 0 /\ cleared = 0

-----------------------------------------------------------------------------
(* The sensor thread. *)

\* start(): an exchange of running_ and a new worker thread.
Start ==
  /\ driver = "idle"
  /\ ~running
  /\ running' = TRUE
  /\ worker' = "loop"
  /\ UNCHANGED <<queue, counters, driver, history>>

\* The values a push leaves in the queue: when it is full the oldest goes.
KeptOffByOne(q) == IF Len(q) > Capacity THEN Tail(q) ELSE q
Kept(q) == IF Len(q) >= Capacity THEN Tail(q) ELSE q

\* push(), after its test of running_ (which only this thread changes): the
\* critical section.
Push ==
  /\ driver = "idle"
  /\ running
  /\ ~MutexHeld
  /\ accepted < MaxPushes
  /\ queue' = Append(Kept(queue), accepted + 1)
  /\ dropped' = dropped + Len(queue) - Len(Kept(queue))
  /\ depth' = Len(queue')
  /\ peak' = IF depth' > peak THEN depth' ELSE peak
  /\ accepted' = accepted + 1
  /\ driver' = "push_notify"
  /\ UNCHANGED <<running, worker, callback_errors, taken, handed, cleared>>

\* notify_one and notify_all: only the worker ever waits on cv_.
Notify == worker' = IF worker = "asleep" THEN "lock" ELSE worker

PushNotifyNobody ==
  /\ driver = "push_notify"
  /\ driver' = "idle"
  /\ UNCHANGED <<running, queue, counters, worker, history>>

PushNotify ==
  /\ driver = "push_notify"
  /\ Notify
  /\ driver' = "idle"
  /\ UNCHANGED <<running, queue, counters, history>>

\* stop(): the exchange of running_.
Stop ==
  /\ driver = "idle"
  /\ running
  /\ running' = FALSE
  /\ driver' = "stop_clear"
  /\ UNCHANGED <<queue, counters, worker, history>>

\* Mutated forms of stop()'s critical section: none at all, and without
\* resetting the depth.
StopClearGone ==
  /\ driver = "stop_clear"
  /\ driver' = "stop_notify"
  /\ UNCHANGED <<running, queue, counters, worker, history>>

StopClearKeepsDepth ==
  /\ driver = "stop_clear"
  /\ ~MutexHeld
  /\ queue' = <<>>
  /\ cleared' = cleared + Len(queue)
  /\ driver' = "stop_notify"
  /\ UNCHANGED <<running, counters, worker, accepted, taken, handed>>

\* stop(), its critical section.
StopClear ==
  /\ driver = "stop_clear"
  /\ ~MutexHeld
  /\ queue' = <<>>
  /\ depth' = 0
  /\ cleared' = cleared + Len(queue)
  /\ driver' = "stop_notify"
  /\ UNCHANGED <<running, peak, dropped, callback_errors, worker,
                 accepted, taken, handed>>

StopNotify ==
  /\ driver = "stop_notify"
  /\ Notify
  /\ driver' = "join"
  /\ UNCHANGED <<running, queue, counters, history>>

\* worker_.join() returns once workerMain has.
Join ==
  /\ driver = "join"
  /\ worker = "done"
  /\ worker' = "none"
  /\ driver' = "idle"
  /\ UNCHANGED <<running, queue, counters, history>>

-----------------------------------------------------------------------------
(* The worker thread, workerMain(). *)

Goto(from, to) == worker = from /\ worker' = to

\* while (running_.load())
LoopTest ==
  /\ Goto("loop", IF running THEN "lock" ELSE "done")
  /\ UNCHANGED <<running, queue, counters, driver, history>>

\* unique_lock, and cv_.wait's return from sleep: both take the mutex.
Lock ==
  /\ Goto("lock", "predicate")
  /\ UNCHANGED <<running, queue, counters, driver, history>>

\* The predicate of cv_.wait: !running_ || !queue_.empty().
Predicate ==
  /\ Goto("predicate",
          IF ~running \/ queue # <<>> THEN "check" ELSE "blocking")
  /\ UNCHANGED <<running, queue, counters, driver, history>>

\* cv_.wait releases the mutex and sleeps, in one step.
Sleep ==
  /\ Goto("blocking", "asleep")
  /\ UNCHANGED <<running, queue, counters, driver, history>>

\* cv_ may wake the worker for no reason.
SpuriousWakeup ==
  /\ Goto("asleep", "lock")
  /\ UNCHANGED <<running, queue, counters, driver, history>>

\* if (!running_.load()) break;
Check ==
  /\ Goto("check", IF running THEN "pop" ELSE "done")
  /\ UNCHANGED <<running, queue, counters, driver, history>>

\* The front is moved out, the mutex released, the handler called.
Pop ==
  /\ Goto("pop", "handler")
  /\ handed' = Head(queue)
  /\ queue' = Tail(queue)
  /\ depth' = Len(queue) - 1
  /\ taken' = taken + 1
  /\ UNCHANGED <<running, peak, dropped, callback_errors, driver,
                 accepted, cleared>>

HandlerReturns ==
  /\ Goto("handler", "loop")
  /\ UNCHANGED <<running, queue, counters, driver, history>>

\* catch (...): whatever the handler throws is counted and forgotten.
HandlerThrows ==
  /\ Goto("handler", "loop")
  /\ callback_errors' = callback_errors + 1
  /\ UNCHANGED <<running, queue, depth, peak, dropped, driver, history>>

-----------------------------------------------------------------------------
DriverInsideCall == PushNotify \/ StopClear \/ StopNotify \/ Join

WorkerStep == \/ LoopTest \/ Lock \/ Predicate \/ Sleep \/ Check
              \/ Pop \/ HandlerReturns \/ HandlerThrows

DispatchNext == \/ Start \/ Push \/ Stop \/ DriverInsideCall
                \/ WorkerStep \/ SpuriousWakeup

DispatchSafeSpec == DispatchInit /\ [][DispatchNext]_dispatchVars

\* Each thread is scheduled: a call the sensor thread has begun goes on, and
\* so does the worker (its handler returns or throws).  No fairness makes the
\* driver start, push or stop, or cv_ wake spuriously.
DispatchSpec == /\ DispatchSafeSpec
                /\ WF_dispatchVars(DriverInsideCall)
                /\ WF_dispatchVars(WorkerStep)

-----------------------------------------------------------------------------
(* Properties. *)

\* The worker never takes the front of an empty queue: between the predicate
\* that saw a value and the pop, no stop() or push() can have emptied it.
PopFindsValue == worker = "pop" => queue # <<>>

\* The queue is bounded and holds exactly the newest values, oldest first: a
\* burst costs the oldest samples, never the latest one nor their order.
QueueIsNewest ==
  /\ Len(queue) <= Capacity
  /\ \A i \in 1..Len(queue) : queue[i] = accepted - Len(queue) + i

\* Every value pushed is waiting, was handed over once, was counted as
\* dropped, or was thrown away by a stop(): none is lost without a trace.
\* The depth and peak that DriverStatus publishes agree with the queue.
Accounting ==
  /\ accepted = taken + Len(queue) + dropped + cleared
  /\ depth = Len(queue)
  /\ depth <= peak /\ peak <= Capacity

\* When stop() has returned (and before the first start()) no worker exists,
\* no handler runs and nothing waits: the driver may destroy what the handler
\* uses, and the next start() begins empty.
SilentWhenStopped ==
  (driver = "idle" /\ ~running) => worker = "none" /\ queue = <<>>

\* Values reach the handler in the order they were pushed, none twice, over
\* every start and stop.
HandedInOrder == [][handed' # handed => handed' > handed]_dispatchVars

\* A stop() always returns: the worker is never left asleep by a wakeup that
\* came before it slept.
StopReturns == driver = "stop_clear" ~> driver = "idle"

\* While the queue runs, a value it holds does not stay there for ever.
ValueLeaves ==
  \A n \in 1..MaxPushes :
    (\E i \in DOMAIN queue : queue[i] = n) ~> ~(\E i \in DOMAIN queue : queue[i] = n)

\* The queue keeps the promise of DropOldestQueue.
Phase == IF running THEN "open" ELSE IF driver = "idle" THEN "closed" ELSE "closing"

Contract == INSTANCE DropOldestQueue
              WITH phase <- Phase, buf <- queue, busy <- (worker = "handler")

ImplementsContract == Contract!Spec
=============================================================================
