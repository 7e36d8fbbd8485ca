----------------------------- MODULE QueueProofs -----------------------------
(***************************************************************************)
(* Proofs about the two queues of the driver: DispatchQueue, for every      *)
(* Capacity and every bound on the pushes, and ControlQueue, for every set  *)
(* of callers and every limit.                                              *)
(*                                                                         *)
(* DispatchQueue's inductive invariant adds to the properties where the two *)
(* threads can be at the same time (Rendezvous) and that the value last     *)
(* handed over is older than everything that waits (HandedIsOlder).         *)
(* ControlQueue's adds where the two deques can hold a command: a batch     *)
(* only while run() answers it, the deque only while the door is open       *)
(* (Doors).                                                                 *)
(***************************************************************************)
EXTENDS DispatchQueue, ControlQueue, TLAPS

-----------------------------------------------------------------------------
(* DispatchQueue.                                                           *)

\* Where the sensor thread and the worker can be, for each running_.
Rendezvous ==
  /\ running => driver \in {"idle", "push_notify"} /\ worker \notin {"none", "done"}
  /\ ~running => driver # "push_notify"
  /\ driver \in {"stop_clear", "stop_notify", "join"} => worker # "none"
  /\ driver \in {"stop_notify", "join"} => queue = <<>>

\* The predicate of cv_.wait is still good when the worker acts on it.
PredicateHolds == (worker = "check" /\ running) \/ worker = "pop" => queue # <<>>

HandedIsOlder == handed <= accepted - Len(queue)

DispatchIInv == /\ DispatchTypeOK
                /\ Rendezvous
                /\ PredicateHolds
                /\ QueueIsNewest
                /\ Accounting
                /\ SilentWhenStopped
                /\ HandedIsOlder

-----------------------------------------------------------------------------
\* Making room keeps the newest of what was there, and leaves room for one.
LEMMA KeptFacts ==
  ASSUME NEW q \in Seq(Nat), NEW n \in Nat, Len(q) <= Capacity,
         \A i \in 1..Len(q) : q[i] = n - Len(q) + i
  PROVE  /\ Kept(q) \in Seq(Nat)
         /\ Len(Kept(q)) < Capacity
         /\ Len(Kept(q)) <= Len(q)
         /\ \A i \in 1..Len(Kept(q)) : Kept(q)[i] = n - Len(Kept(q)) + i
<1>. Capacity \in Nat /\ Capacity > 0
  BY CapacityAssumption
<1>1. CASE Len(q) >= Capacity
  <2>1. q # <<>> /\ Kept(q) = Tail(q)
    BY <1>1 DEF Kept
  <2>2. Tail(q) \in Seq(Nat) /\ Len(Tail(q)) = Len(q) - 1
    BY <2>1
  <2>3. \A i \in 1..Len(Tail(q)) : Tail(q)[i] = q[i + 1]
    BY <2>1
  <2>. QED BY <1>1, <2>1, <2>2, <2>3
<1>2. CASE ~(Len(q) >= Capacity)
  BY <1>2 DEF Kept
<1>. QED BY <1>1, <1>2

LEMMA DispatchInitIInv == DispatchInit => DispatchIInv
<1>. SUFFICES ASSUME DispatchInit PROVE DispatchIInv
  OBVIOUS
<1>1. queue = <<>> /\ queue \in Seq(Nat) /\ Len(queue) = 0
  BY DEF DispatchInit
<1>2. DispatchTypeOK
  BY <1>1 DEF DispatchInit, DispatchTypeOK, DriverPlaces, WorkerPlaces
<1>3. QueueIsNewest /\ Accounting /\ HandedIsOlder
  BY <1>1, CapacityAssumption DEF DispatchInit, QueueIsNewest, Accounting, HandedIsOlder
<1>4. Rendezvous /\ PredicateHolds /\ SilentWhenStopped
  BY DEF DispatchInit, Rendezvous, PredicateHolds, SilentWhenStopped
<1>. QED BY <1>2, <1>3, <1>4 DEF DispatchIInv

\* Steps that move a thread and touch neither the queue nor a counter.
LEMMA QuietSteps ==
  ASSUME DispatchIInv,
         \/ Start \/ PushNotify \/ Stop \/ StopNotify \/ Join
         \/ LoopTest \/ Lock \/ Predicate \/ Sleep \/ SpuriousWakeup
         \/ Check \/ HandlerReturns
  PROVE  DispatchIInv'
<1>. USE DEF DispatchIInv
<1>1. DispatchTypeOK'
  BY DEF DispatchTypeOK, DriverPlaces, WorkerPlaces, Start, PushNotify, Stop, StopNotify,
     Join, LoopTest, Lock, Predicate, Sleep, SpuriousWakeup, Check,
     HandlerReturns, Goto, Notify, counters, history
<1>2. Rendezvous'
  BY DEF DispatchTypeOK, DriverPlaces, Rendezvous, SilentWhenStopped, Start, PushNotify,
     Stop, StopNotify, Join, LoopTest, Lock, Predicate, Sleep,
     SpuriousWakeup, Check, HandlerReturns, Goto, Notify, counters, history
<1>3. PredicateHolds'
  BY DEF PredicateHolds, Rendezvous, SilentWhenStopped, Start, PushNotify,
     Stop, StopNotify, Join, LoopTest, Lock, Predicate, Sleep,
     SpuriousWakeup, Check, HandlerReturns, Goto, Notify, counters, history
<1>4. SilentWhenStopped'
  BY DEF DispatchTypeOK, DriverPlaces, Rendezvous, SilentWhenStopped, Start, PushNotify,
     Stop, StopNotify, Join, LoopTest, Lock, Predicate, Sleep,
     SpuriousWakeup, Check, HandlerReturns, Goto, Notify, counters, history
<1>5. UNCHANGED <<queue, counters, history>>
  BY DEF Start, PushNotify, Stop, StopNotify, Join, LoopTest, Lock, Predicate,
     Sleep, SpuriousWakeup, Check, HandlerReturns
<1>6. QueueIsNewest' /\ Accounting' /\ HandedIsOlder'
  BY <1>5 DEF QueueIsNewest, Accounting, HandedIsOlder, counters, history
<1>. QED BY <1>1, <1>2, <1>3, <1>4, <1>6

LEMMA PushStep == DispatchIInv /\ Push => DispatchIInv'
<1>. SUFFICES ASSUME DispatchIInv, Push PROVE DispatchIInv'
  OBVIOUS
<1>. USE DEF DispatchIInv
<1>0. /\ queue \in Seq(Nat) /\ accepted \in Nat /\ Len(queue) <= Capacity
      /\ \A i \in 1..Len(queue) : queue[i] = accepted - Len(queue) + i
      /\ Capacity \in Nat
  BY CapacityAssumption DEF DispatchTypeOK, QueueIsNewest
<1>1. /\ Kept(queue) \in Seq(Nat)
      /\ Len(Kept(queue)) < Capacity
      /\ Len(Kept(queue)) <= Len(queue)
      /\ \A i \in 1..Len(Kept(queue)) :
            Kept(queue)[i] = accepted - Len(Kept(queue)) + i
  BY <1>0, KeptFacts
<1>2. /\ queue' \in Seq(Nat)
      /\ Len(queue') = Len(Kept(queue)) + 1
      /\ queue'[Len(queue')] = accepted + 1
      /\ \A i \in 1..Len(Kept(queue)) : queue'[i] = Kept(queue)[i]
  BY <1>0, <1>1 DEF Push
<1>3. DispatchTypeOK'
  BY <1>0, <1>1, <1>2 DEF DispatchTypeOK, DriverPlaces, Push
<1>4. QueueIsNewest'
  <2>1. Len(Kept(queue)) \in Nat /\ accepted' = accepted + 1
    BY <1>1 DEF Push
  <2>2. Len(queue') <= Capacity
    BY <1>0, <1>1, <1>2, <2>1
  <2>3. ASSUME NEW i \in 1..Len(queue')
        PROVE  queue'[i] = accepted' - Len(queue') + i
    <3>1. CASE i = Len(queue')
      BY <1>0, <1>2, <2>1, <3>1
    <3>2. CASE i \in 1..Len(Kept(queue))
      BY <1>0, <1>1, <1>2, <2>1, <3>2
    <3>. QED BY <1>2, <2>1, <2>3, <3>1, <3>2
  <2>. QED BY <2>2, <2>3 DEF QueueIsNewest
<1>5. Accounting'
  BY <1>0, <1>1, <1>2 DEF Accounting, DispatchTypeOK, Push
<1>6. HandedIsOlder'
  BY <1>0, <1>1, <1>2 DEF HandedIsOlder, DispatchTypeOK, Push
<1>7. Rendezvous' /\ PredicateHolds' /\ SilentWhenStopped'
  BY <1>0, <1>2 DEF Rendezvous, PredicateHolds, SilentWhenStopped, MutexHeld, Push
<1>. QED BY <1>3, <1>4, <1>5, <1>6, <1>7

LEMMA StopClearStep == DispatchIInv /\ StopClear => DispatchIInv'
<1>. SUFFICES ASSUME DispatchIInv, StopClear PROVE DispatchIInv'
  OBVIOUS
<1>. USE DEF DispatchIInv
<1>1. DispatchTypeOK'
  BY DEF DispatchTypeOK, DriverPlaces, StopClear
<1>2. QueueIsNewest' /\ Accounting' /\ HandedIsOlder'
  BY CapacityAssumption
     DEF DispatchTypeOK, QueueIsNewest, Accounting, HandedIsOlder, StopClear
<1>3. Rendezvous' /\ PredicateHolds' /\ SilentWhenStopped'
  BY DEF Rendezvous, PredicateHolds, SilentWhenStopped, MutexHeld, StopClear
<1>. QED BY <1>1, <1>2, <1>3

LEMMA PopStep == DispatchIInv /\ Pop => DispatchIInv' /\ handed' > handed
<1>. SUFFICES ASSUME DispatchIInv, Pop PROVE DispatchIInv' /\ handed' > handed
  OBVIOUS
<1>. USE DEF DispatchIInv
<1>1. queue \in Seq(Nat) /\ queue # <<>> /\ accepted \in Nat
  BY DEF DispatchTypeOK, PredicateHolds, Pop, Goto
<1>2. /\ queue' \in Seq(Nat)
      /\ Len(queue') = Len(queue) - 1
      /\ Len(queue) \in Nat \ {0}
      /\ \A i \in 1..Len(queue') : queue'[i] = queue[i + 1]
      /\ handed' = queue[1]
  BY <1>1 DEF Pop
<1>3. handed' = accepted - Len(queue) + 1
  BY <1>1, <1>2 DEF QueueIsNewest
<1>4. Len(queue) <= accepted
  BY <1>1, <1>2 DEF Accounting, DispatchTypeOK
<1>5. DispatchTypeOK'
  BY <1>1, <1>2, <1>3, <1>4 DEF DispatchTypeOK, WorkerPlaces, Pop, Goto
<1>6. QueueIsNewest'
  BY <1>1, <1>2, CapacityAssumption DEF QueueIsNewest, Pop
<1>7. Accounting' /\ HandedIsOlder' /\ handed' > handed
  BY <1>1, <1>2, <1>3, CapacityAssumption
     DEF Accounting, HandedIsOlder, DispatchTypeOK, QueueIsNewest, Pop
<1>8. Rendezvous' /\ PredicateHolds' /\ SilentWhenStopped'
  BY <1>1 DEF Rendezvous, PredicateHolds, SilentWhenStopped, Pop, Goto
<1>. QED BY <1>5, <1>6, <1>7, <1>8

LEMMA HandlerThrowsStep == DispatchIInv /\ HandlerThrows => DispatchIInv'
<1>. SUFFICES ASSUME DispatchIInv, HandlerThrows PROVE DispatchIInv'
  OBVIOUS
<1>. USE DEF DispatchIInv
<1>1. DispatchTypeOK'
  BY DEF DispatchTypeOK, WorkerPlaces, HandlerThrows, Goto, history
<1>2. QueueIsNewest' /\ Accounting' /\ HandedIsOlder'
  BY DEF QueueIsNewest, Accounting, HandedIsOlder, HandlerThrows, history
<1>3. Rendezvous' /\ PredicateHolds' /\ SilentWhenStopped'
  BY DEF Rendezvous, PredicateHolds, SilentWhenStopped, HandlerThrows, Goto
<1>. QED BY <1>1, <1>2, <1>3

LEMMA StutterStep == DispatchIInv /\ UNCHANGED dispatchVars => DispatchIInv'
BY DEF DispatchIInv, DispatchTypeOK, Rendezvous, PredicateHolds, QueueIsNewest, Accounting,
   SilentWhenStopped, HandedIsOlder, dispatchVars, counters, history

LEMMA DispatchNextIInv == DispatchIInv /\ [DispatchNext]_dispatchVars => DispatchIInv'
<1>. SUFFICES ASSUME DispatchIInv, [DispatchNext]_dispatchVars PROVE DispatchIInv'
  OBVIOUS
<1>1. CASE Push
  BY <1>1, PushStep
<1>2. CASE StopClear
  BY <1>2, StopClearStep
<1>3. CASE Pop
  BY <1>3, PopStep
<1>4. CASE HandlerThrows
  BY <1>4, HandlerThrowsStep
<1>5. CASE \/ Start \/ PushNotify \/ Stop \/ StopNotify \/ Join
           \/ LoopTest \/ Lock \/ Predicate \/ Sleep \/ SpuriousWakeup
           \/ Check \/ HandlerReturns
  BY <1>5, QuietSteps
<1>6. CASE UNCHANGED dispatchVars
  BY <1>6, StutterStep
<1>. QED BY <1>1, <1>2, <1>3, <1>4, <1>5, <1>6 DEF DispatchNext, DriverInsideCall,
                                                   WorkerStep

-----------------------------------------------------------------------------
\* The inductive invariant holds in every reachable state.
THEOREM DispatchInvariance == DispatchSpec => []DispatchIInv
<1>. QED BY DispatchInitIInv, DispatchNextIInv, PTL DEF DispatchSpec, DispatchSafeSpec

\* Every variable keeps its type.
THEOREM DispatchTypeCorrect == DispatchSpec => []DispatchTypeOK
BY DispatchInvariance, PTL DEF DispatchIInv

\* front() and pop_front() of workerMain never meet an empty queue, whatever
\* stop() and push() do between the wait and the pop.
THEOREM PopSafe == DispatchSpec => []PopFindsValue
<1>1. DispatchIInv => PopFindsValue
  BY DEF DispatchIInv, PredicateHolds, PopFindsValue
<1>. QED BY <1>1, DispatchInvariance, PTL

\* A queue of any capacity holds the newest values in order.
THEOREM Newest == DispatchSpec => []QueueIsNewest
BY DispatchInvariance, PTL DEF DispatchIInv

\* No value is lost without being counted, for any capacity and any number of
\* starts and stops.
THEOREM Accounted == DispatchSpec => []Accounting
BY DispatchInvariance, PTL DEF DispatchIInv

\* After stop() there is no worker, no callback and no waiting value.
THEOREM Silent == DispatchSpec => []SilentWhenStopped
BY DispatchInvariance, PTL DEF DispatchIInv

\* The handler sees the values in the order they were pushed, none twice.
THEOREM Ordered == DispatchSpec => HandedInOrder
<1>1. DispatchIInv /\ [DispatchNext]_dispatchVars =>
        [handed' # handed => handed' > handed]_dispatchVars
  <2>. SUFFICES ASSUME DispatchIInv, DispatchNext, handed' # handed PROVE handed' > handed
    BY DEF dispatchVars
  <2>1. Pop
    BY DEF DispatchNext, DriverInsideCall, WorkerStep, Start, Push, PushNotify, Stop,
       StopClear, StopNotify, Join, LoopTest, Lock, Predicate, Sleep,
       SpuriousWakeup, Check, HandlerReturns, HandlerThrows, history
  <2>. QED BY <2>1, PopStep
<1>. QED BY <1>1, DispatchInvariance, PTL DEF DispatchSpec, DispatchSafeSpec, HandedInOrder

-----------------------------------------------------------------------------
\* The steps that only the threads can see are stutters of the contract.
LEMMA InternalStepsStutter ==
  ASSUME DispatchIInv,
         \/ PushNotify \/ StopNotify \/ LoopTest \/ Lock \/ Predicate
         \/ Sleep \/ SpuriousWakeup \/ Check
  PROVE  UNCHANGED Contract!vars
<1>1. UNCHANGED <<queue, accepted, handed, running>>
  BY DEF PushNotify, StopNotify, LoopTest, Lock, Predicate, Sleep,
     SpuriousWakeup, Check, history
<1>2. UNCHANGED Phase
  BY <1>1 DEF Phase, DispatchIInv, Rendezvous, PushNotify, StopNotify, LoopTest, Lock,
     Predicate, Sleep, SpuriousWakeup, Check
<1>3. UNCHANGED (worker = "handler")
  BY DEF PushNotify, StopNotify, LoopTest, Lock, Predicate, Sleep,
     SpuriousWakeup, Check, Goto, Notify
<1>. QED BY <1>1, <1>2, <1>3 DEF Contract!vars

\* Every step of the two threads is a step of the contract or a stutter.
LEMMA StepsRefine ==
  DispatchIInv /\ DispatchIInv' /\ [DispatchNext]_dispatchVars =>
    [Contract!Next]_(Contract!vars)
<1>. SUFFICES ASSUME DispatchIInv, DispatchIInv', [DispatchNext]_dispatchVars
              PROVE  [Contract!Next]_(Contract!vars)
  OBVIOUS
<1>. USE DEF Phase
<1>1. CASE Start
  <2>1. Contract!Open
    BY <1>1 DEF Start, Contract!Open, DispatchIInv, SilentWhenStopped, history
  <2>. QED BY <2>1 DEF Contract!Next
<1>2. CASE Push
  <2>1. Contract!Accept
    BY <1>2 DEF Push, Kept, Contract!Accept, Contract!Accommodate
  <2>. QED BY <2>1 DEF Contract!Next
<1>3. CASE Stop
  <2>1. Contract!Close
    BY <1>3 DEF Stop, Contract!Close, history
  <2>. QED BY <2>1 DEF Contract!Next
<1>4. CASE StopClear
  <2>1. Contract!Discard
    BY <1>4 DEF StopClear, Contract!Discard, DispatchIInv, Rendezvous
  <2>. QED BY <2>1 DEF Contract!Next
<1>5. CASE Join
  <2>1. Contract!Closed
    BY <1>5 DEF Join, Contract!Closed, DispatchIInv, Rendezvous, history
  <2>. QED BY <2>1 DEF Contract!Next
<1>6. CASE Pop
  <2>1. Contract!Take
    BY <1>6 DEF Pop, Goto, Contract!Take, DispatchIInv, PredicateHolds, Rendezvous,
       SilentWhenStopped
  <2>. QED BY <2>1 DEF Contract!Next
<1>7. CASE HandlerReturns \/ HandlerThrows
  <2>1. Contract!Finish
    BY <1>7 DEF HandlerReturns, HandlerThrows, Goto, Contract!Finish, history
  <2>. QED BY <2>1 DEF Contract!Next
<1>8. CASE \/ PushNotify \/ StopNotify \/ LoopTest \/ Lock \/ Predicate
           \/ Sleep \/ SpuriousWakeup \/ Check
  BY <1>8, InternalStepsStutter
<1>9. CASE UNCHANGED dispatchVars
  BY <1>9 DEF dispatchVars, history, Contract!vars
<1>. QED BY <1>1, <1>2, <1>3, <1>4, <1>5, <1>6, <1>7, <1>8, <1>9
         DEF DispatchNext, DriverInsideCall, WorkerStep

\* The two threads, the lock and the condition variable implement the
\* drop-oldest queue (its safety part; the liveness part is left to TLC).
THEOREM Refines == DispatchSpec => Contract!SafeSpec
<1>1. DispatchInit => Contract!Init
  BY DEF DispatchInit, Contract!Init, Phase
<1>. QED BY <1>1, StepsRefine, DispatchInvariance, PTL DEF DispatchSpec, DispatchSafeSpec,
                                                           Contract!SafeSpec

-----------------------------------------------------------------------------
(* ControlQueue.                                                            *)

Doors ==
  /\ pending # <<>> => phase \in {"controls", "cancelling"}
  /\ accepting_controls => phase \in {"top", "controls", "reading", "leaving"}
  /\ control_commands # <<>> => accepting_controls

ControlIInv == TypeOK /\ Doors /\ EveryWaiterHeldOnce /\ FatalEndsSession

-----------------------------------------------------------------------------
(* What the operations on a deque do to who is in it. *)

LEMMA AppendIn ==
  ASSUME NEW s \in Seq(Callers), NEW c \in Callers, Distinct(s), ~In(c, s)
  PROVE  /\ Append(s, c) \in Seq(Callers)
         /\ Distinct(Append(s, c))
         /\ \A d \in Callers : In(d, Append(s, c)) <=> (d = c \/ In(d, s))
<1>1. /\ Append(s, c) \in Seq(Callers)
      /\ Len(s) \in Nat
      /\ DOMAIN s = 1..Len(s)
      /\ DOMAIN Append(s, c) = 1..(Len(s) + 1)
      /\ Append(s, c)[Len(s) + 1] = c
      /\ \A i \in 1..Len(s) : Append(s, c)[i] = s[i]
  OBVIOUS
<1>2. Distinct(Append(s, c))
  BY <1>1 DEF Distinct, In
<1>3. ASSUME NEW d \in Callers
      PROVE  In(d, Append(s, c)) <=> (d = c \/ In(d, s))
  <2>1. In(d, Append(s, c)) => d = c \/ In(d, s)
    BY <1>1 DEF In
  <2>2. d = c => In(d, Append(s, c))
    <3>1. Len(s) + 1 \in DOMAIN Append(s, c)
      BY <1>1
    <3>. QED BY <1>1, <3>1 DEF In
  <2>3. In(d, s) => In(d, Append(s, c))
    BY <1>1 DEF In
  <2>. QED BY <2>1, <2>2, <2>3
<1>. QED BY <1>1, <1>2, <1>3

LEMMA TailIn ==
  ASSUME NEW s \in Seq(Callers), s # <<>>, Distinct(s)
  PROVE  /\ Tail(s) \in Seq(Callers)
         /\ Head(s) \in Callers
         /\ Len(Tail(s)) <= Len(s)
         /\ Distinct(Tail(s))
         /\ In(Head(s), s)
         /\ ~In(Head(s), Tail(s))
         /\ \A d \in Callers : d # Head(s) => (In(d, Tail(s)) <=> In(d, s))
<1>1. /\ Len(s) \in Nat /\ Len(s) > 0
      /\ DOMAIN s = 1..Len(s)
      /\ Tail(s) \in Seq(Callers) /\ Head(s) = s[1] /\ Head(s) \in Callers
      /\ Len(Tail(s)) = Len(s) - 1
      /\ DOMAIN Tail(s) = 1..(Len(s) - 1)
      /\ \A i \in 1..(Len(s) - 1) : Tail(s)[i] = s[i + 1]
  OBVIOUS
<1>2. Distinct(Tail(s))
  BY <1>1 DEF Distinct
<1>3. In(Head(s), s)
  BY <1>1 DEF In
<1>4. ~In(Head(s), Tail(s))
  BY <1>1 DEF In, Distinct
<1>5. ASSUME NEW d \in Callers, d # Head(s)
      PROVE  In(d, Tail(s)) <=> In(d, s)
  <2>1. In(d, Tail(s)) => In(d, s)
    BY <1>1 DEF In
  <2>2. ASSUME In(d, s) PROVE In(d, Tail(s))
    <3>1. PICK i \in 1..Len(s) : s[i] = d
      BY <1>1, <2>2 DEF In
    <3>2. i - 1 \in 1..(Len(s) - 1) /\ Tail(s)[i - 1] = d
      BY <1>1, <1>5, <3>1
    <3>. QED BY <1>1, <3>2 DEF In
  <2>. QED BY <2>1, <2>2
<1>. QED BY <1>1, <1>2, <1>3, <1>4, <1>5

LEMMA EmptyIn == /\ <<>> \in Seq(Callers) /\ Len(<<>>) = 0
                 /\ Distinct(<<>>)
                 /\ \A d : ~In(d, <<>>)
BY DEF Distinct, In

-----------------------------------------------------------------------------
LEMMA ControlInitIInv == Init => ControlIInv
<1>. SUFFICES ASSUME Init PROVE ControlIInv
  OBVIOUS
<1>1. control_commands = <<>> /\ pending = <<>> /\ \A c \in Callers : call[c] = "none"
  BY DEF Init
<1>2. TypeOK
  <2>1. call \in [Callers -> Calls] /\ phase \in Phases
    BY DEF Init, Phases, Calls
  <2>2. Len(<<>>) <= Limit
    BY LimitAssumption
  <2>. QED BY <2>1, <2>2, EmptyIn DEF Init, TypeOK
<1>3. EveryWaiterHeldOnce
  BY <1>1, EmptyIn DEF EveryWaiterHeldOnce
<1>4. Doors /\ FatalEndsSession
  BY DEF Init, Doors, FatalEndsSession
<1>. QED BY <1>2, <1>3, <1>4 DEF ControlIInv

\* Steps that leave the deques alone and give nobody an answer.
LEMMA LoopSteps ==
  ASSUME ControlIInv,
         \/ RequestStop \/ Shutdown \/ Run \/ Open \/ OpenFails \/ EnableControls
         \/ StartFails \/ LeaveLoop \/ ControlsDone \/ Read \/ Cleanup \/ RunReturns
  PROVE  ControlIInv'
<1>. USE DEF ControlIInv, Stops, AfterControls
<1>1. UNCHANGED <<control_commands, pending, call>>
  BY DEF RequestStop, Shutdown, Run, Open, OpenFails, EnableControls, StartFails,
     LeaveLoop, ControlsDone, Read, Cleanup, RunReturns, line, session
<1>2. TypeOK'
  BY <1>1 DEF TypeOK, Phases, Move, RequestStop, Shutdown, Run, Open, OpenFails,
     EnableControls, StartFails, LeaveLoop, ControlsDone, Read, Cleanup,
     RunReturns, line, session
<1>3. Doors' /\ FatalEndsSession'
  BY <1>1 DEF Doors, FatalEndsSession, Move, RequestStop, Shutdown, Run, Open,
     OpenFails, EnableControls, StartFails, LeaveLoop, ControlsDone, Read,
     Cleanup, RunReturns, line, session
<1>4. EveryWaiterHeldOnce'
  BY <1>1 DEF EveryWaiterHeldOnce, Distinct, In
<1>. QED BY <1>2, <1>3, <1>4

\* A caller that is refused, turned away or let go was not waiting and is not.
LEMMA UnheldCallerSteps ==
  ASSUME ControlIInv, NEW c \in Callers, Refuse(c) \/ TurnAway(c) \/ Return(c)
  PROVE  ControlIInv'
<1>. USE DEF ControlIInv
<1>1. UNCHANGED <<line, session, phase>>
  BY DEF Refuse, TurnAway, Return
<1>2. \E a \in Calls \ {"waiting"} :
         call[c] # "waiting" /\ call' = [call EXCEPT ![c] = a]
  BY DEF Refuse, TurnAway, Return, Answer, Calls, Answers
<1>3. TypeOK'
  BY <1>1, <1>2 DEF TypeOK, line, session
<1>4. EveryWaiterHeldOnce'
  BY <1>1, <1>2 DEF TypeOK, EveryWaiterHeldOnce, Distinct, In, line
<1>5. Doors' /\ FatalEndsSession'
  BY <1>1 DEF Doors, FatalEndsSession, line, session
<1>. QED BY <1>3, <1>4, <1>5

LEMMA EnqueueStep ==
  ASSUME ControlIInv, NEW c \in Callers, Enqueue(c)
  PROVE  ControlIInv'
<1>. USE DEF ControlIInv
<1>1. /\ control_commands \in Seq(Callers)
      /\ Distinct(control_commands)
      /\ ~In(c, control_commands) /\ ~In(c, pending)
  BY DEF TypeOK, EveryWaiterHeldOnce, Enqueue
<1>2. /\ control_commands' = Append(control_commands, c)
      /\ control_commands' \in Seq(Callers)
      /\ Distinct(control_commands')
      /\ \A d \in Callers : In(d, control_commands') <=> (d = c \/ In(d, control_commands))
  BY <1>1, AppendIn DEF Enqueue, Joined
<1>3. /\ UNCHANGED <<accepting_controls, pending, session, phase>>
      /\ accepting_controls
      /\ call' = [call EXCEPT ![c] = "waiting"]
  BY DEF Enqueue, Answer, Admits
<1>4. Len(control_commands') <= Limit
  BY <1>1, <1>2, LimitAssumption DEF Enqueue
<1>5. TypeOK'
  BY <1>2, <1>3, <1>4 DEF TypeOK, Calls, session
<1>6. EveryWaiterHeldOnce'
  <2>1. Distinct(pending') /\ \A d \in Callers : In(d, pending') <=> In(d, pending)
    BY <1>3 DEF EveryWaiterHeldOnce
  <2>2. ASSUME NEW d \in Callers
        PROVE  /\ ~(In(d, control_commands') /\ In(d, pending'))
               /\ call'[d] = "waiting" <=> In(d, control_commands') \/ In(d, pending')
    <3>1. CASE d = c
      BY <1>1, <1>2, <1>3, <2>1, <3>1 DEF TypeOK
    <3>2. CASE d # c
      BY <1>2, <1>3, <2>1, <3>2 DEF TypeOK, EveryWaiterHeldOnce
    <3>. QED BY <3>1, <3>2
  <2>. QED BY <1>2, <2>1, <2>2 DEF EveryWaiterHeldOnce
<1>7. Doors' /\ FatalEndsSession'
  BY <1>3 DEF Doors, FatalEndsSession, session
<1>. QED BY <1>5, <1>6, <1>7

\* The swap of processControls and the one of cancelControls.
LEMMA SwapSteps ==
  ASSUME ControlIInv, TakeCommands \/ CancelControls
  PROVE  ControlIInv'
<1>. USE DEF ControlIInv
<1>1. /\ pending = <<>>
      /\ pending' = control_commands /\ control_commands' = <<>>
      /\ UNCHANGED <<session, call>>
  BY DEF Doors, TakeCommands, CancelControls, Taken, Move
<1>2. TypeOK'
  BY <1>1, EmptyIn, LimitAssumption
     DEF TypeOK, Phases, Move, TakeCommands, CancelControls, session
<1>3. EveryWaiterHeldOnce'
  BY <1>1, EmptyIn DEF EveryWaiterHeldOnce, Distinct, In
<1>4. Doors' /\ FatalEndsSession'
  BY <1>1 DEF Doors, FatalEndsSession, Move, TakeCommands, CancelControls, session
<1>. QED BY <1>2, <1>3, <1>4

\* One command leaves the batch and its caller gets an answer.
LEMMA AnswerSteps ==
  ASSUME ControlIInv, Execute \/ Cancel
  PROVE  ControlIInv'
<1>. USE DEF ControlIInv
<1>. DEFINE c == Head(pending)
<1>1. /\ pending # <<>> /\ pending \in Seq(Callers) /\ Distinct(pending)
      /\ pending' = Tail(pending)
      /\ UNCHANGED <<accepting_controls, control_commands, phase>>
  BY DEF TypeOK, EveryWaiterHeldOnce, Execute, Cancel
<1>2. /\ pending' \in Seq(Callers) /\ c \in Callers
      /\ Len(pending') <= Len(pending)
      /\ Distinct(pending')
      /\ In(c, pending) /\ ~In(c, pending')
      /\ \A d \in Callers : d # c => (In(d, pending') <=> In(d, pending))
  BY <1>1, TailIn
<1>3. \E a \in Calls \ {"waiting"} : call' = [call EXCEPT ![c] = a]
  BY DEF Execute, Cancel, Answer, Calls, Answers
<1>4. TypeOK'
  <2>1. /\ fatal_control_error' \in BOOLEAN
        /\ UNCHANGED <<stop_requested, keep_running>>
    BY DEF TypeOK, Execute, Cancel, session
  <2>2. Len(pending') <= Limit
    BY <1>1, <1>2, LimitAssumption DEF TypeOK
  <2>. QED BY <1>1, <1>2, <1>3, <2>1, <2>2 DEF TypeOK
<1>5. EveryWaiterHeldOnce'
  <2>1. ASSUME NEW d \in Callers
        PROVE  /\ ~(In(d, control_commands') /\ In(d, pending'))
               /\ call'[d] = "waiting" <=> In(d, control_commands') \/ In(d, pending')
    <3>1. In(d, control_commands') <=> In(d, control_commands)
      BY <1>1
    <3>2. CASE d = c
      BY <1>2, <1>3, <3>1, <3>2 DEF TypeOK, EveryWaiterHeldOnce
    <3>3. CASE d # c
      BY <1>2, <1>3, <3>1, <3>3 DEF TypeOK, EveryWaiterHeldOnce
    <3>. QED BY <3>2, <3>3
  <2>2. Distinct(control_commands')
    BY <1>1 DEF EveryWaiterHeldOnce
  <2>. QED BY <1>2, <2>1, <2>2 DEF EveryWaiterHeldOnce
<1>6. Doors'
  BY <1>1 DEF Doors
<1>7. FatalEndsSession'
  BY <1>1 DEF FatalEndsSession, Execute, Cancel, session
<1>. QED BY <1>4, <1>5, <1>6, <1>7

LEMMA ControlNextIInv == ControlIInv /\ [Next]_vars => ControlIInv'
<1>. SUFFICES ASSUME ControlIInv, [Next]_vars PROVE ControlIInv'
  OBVIOUS
<1>1. CASE CallerStep
  BY <1>1, UnheldCallerSteps, EnqueueStep DEF CallerStep
<1>2. CASE TakeCommands \/ CancelControls
  BY <1>2, SwapSteps
<1>3. CASE Execute \/ Cancel
  BY <1>3, AnswerSteps
<1>4. CASE \/ RequestStop \/ Shutdown \/ Run \/ Open \/ OpenFails \/ EnableControls
           \/ StartFails \/ LeaveLoop \/ ControlsDone \/ Read \/ Cleanup \/ RunReturns
  BY <1>4, LoopSteps
<1>5. CASE UNCHANGED vars
  BY <1>5 DEF ControlIInv, TypeOK, Doors, EveryWaiterHeldOnce, FatalEndsSession, Distinct,
     In, vars, line, session
<1>. QED BY <1>1, <1>2, <1>3, <1>4, <1>5 DEF Next, Running

-----------------------------------------------------------------------------
\* The inductive invariant holds in every reachable state.
THEOREM ControlInvariance == Spec => []ControlIInv
BY ControlInitIInv, ControlNextIInv, PTL DEF Spec, SafeSpec

\* Every variable keeps its type, and neither deque outgrows the limit.
THEOREM ControlTypeCorrect == Spec => []TypeOK
BY ControlInvariance, PTL DEF ControlIInv

\* Every waiting caller has one command, and only they have one.
THEOREM HeldOnce == Spec => []EveryWaiterHeldOnce
BY ControlInvariance, PTL DEF ControlIInv

\* No service thread is blocked once run() is cleaning up or has returned.
THEOREM NobodyWaits == Spec => []NobodyWaitsWhenDown
<1>1. ControlIInv => NobodyWaitsWhenDown
  <2>. SUFFICES ASSUME ControlIInv, phase \in {"closing", "down", "opening", "starting"},
                       NEW c \in Callers
                PROVE  call[c] # "waiting"
    BY DEF NobodyWaitsWhenDown
  <2>1. pending = <<>> /\ control_commands = <<>>
    BY DEF ControlIInv, Doors
  <2>. QED BY <2>1, EmptyIn DEF ControlIInv, EveryWaiterHeldOnce
<1>. QED BY <1>1, ControlInvariance, PTL

\* An unrecoverable command failure ends the session.
THEOREM FatalEnds == Spec => []FatalEndsSession
BY ControlInvariance, PTL DEF ControlIInv

\* Commands are answered in the order in which they were accepted.
THEOREM InOrder == Spec => AnsweredInOrder
<1>. DEFINE A == \/ Line' = Line
                 \/ Line # <<>> /\ Line' = Tail(Line)
                 \/ \E c \in Callers : Line' = Append(Line, c)
<1>1. ControlIInv /\ [Next]_vars => [A]_vars
  <2>. SUFFICES ASSUME ControlIInv, Next PROVE A
    OBVIOUS
  <2>0. pending \in Seq(Callers) /\ control_commands \in Seq(Callers)
    BY DEF ControlIInv, TypeOK
  <2>1. CASE \E c \in Callers : Enqueue(c)
    <3>1. PICK c \in Callers : Enqueue(c)
      BY <2>1
    <3>2. pending' = pending /\ control_commands' = Append(control_commands, c)
      BY <3>1 DEF Enqueue, Joined
    <3>3. pending \o Append(control_commands, c) = Append(pending \o control_commands, c)
      BY <2>0
    <3>. QED BY <3>2, <3>3 DEF Line
  <2>2. CASE Execute \/ Cancel
    <3>1. pending # <<>> /\ pending' = Tail(pending) /\ control_commands' = control_commands
      BY <2>2 DEF Execute, Cancel
    <3>2. /\ Tail(pending) \o control_commands = Tail(pending \o control_commands)
          /\ pending \o control_commands # <<>>
      BY <2>0, <3>1
    <3>. QED BY <3>1, <3>2 DEF Line
  <2>3. CASE TakeCommands \/ CancelControls
    <3>1. pending = <<>> /\ pending' = control_commands /\ control_commands' = <<>>
      BY <2>3 DEF ControlIInv, Doors, TakeCommands, CancelControls, Taken, Move
    <3>2. <<>> \o control_commands = control_commands \o <<>>
      BY <2>0
    <3>. QED BY <3>1, <3>2 DEF Line
  <2>4. CASE \/ \E c \in Callers : Refuse(c) \/ TurnAway(c) \/ Return(c)
             \/ RequestStop \/ Shutdown \/ Run \/ Open \/ OpenFails \/ EnableControls
             \/ StartFails \/ LeaveLoop \/ ControlsDone \/ Read \/ Cleanup \/ RunReturns
    <3>1. UNCHANGED <<pending, control_commands>>
      BY <2>4 DEF Refuse, TurnAway, Return, RequestStop, Shutdown, Run, Open,
         OpenFails, EnableControls, StartFails, LeaveLoop, ControlsDone, Read,
         Cleanup, RunReturns, line
    <3>. QED BY <3>1 DEF Line
  <2>. QED BY <2>1, <2>2, <2>3, <2>4 DEF Next, CallerStep, Running
<1>. QED BY <1>1, ControlInvariance, PTL DEF Spec, SafeSpec, AnsweredInOrder

=============================================================================
