------------------------------ MODULE RawFeed ------------------------------
(***************************************************************************)
(* The raw GNSS and CORS bytes, from the Agent's cache to the two topics    *)
(* (docs/gnss-raw.md): the polling block of Driver::Impl::run, the dispatch *)
(* queue raw_dispatch with the handler that stamps its drop counter on each *)
(* chunk, and callbacks.gnss_raw of the nodes, which sends a chunk to the   *)
(* topic of its channel and a marker to both.                               *)
(*                                                                         *)
(* The Agent is outside src/: it numbers the records of a session, forgets  *)
(* the oldest ones, restarts, and answers a query with the records after    *)
(* the cursor, saying gap when some of them are forgotten.  A query may     *)
(* fail, also when only its answer was lost.                                *)
(*                                                                         *)
(* The state is one run() of the driver, whose cursor starts at zero.  The  *)
(* worker's two steps are apart because the drop counter it stamps is read  *)
(* after the chunk has left the queue.  Bytes, flags and times are left out; *)
(* the 50 ms and 5 s between two polls are any time.                        *)
(***************************************************************************)
EXTENDS Naturals, Sequences, FiniteSets

CONSTANTS Capacity,     \* capacity of raw_dispatch
          MaxPages,     \* pages asked for in one poll
          CacheSize,    \* records the Agent keeps
          PageSize,     \* records in one answer
          MaxRecords,   \* bound on the records of all sessions
          MaxRestarts,  \* bound on the Agent's restarts
          MaxFailures   \* bound on the queries that fail

ASSUME CapacityAssumption == Capacity \in Nat \ {0}
ASSUME PagesAssumption == MaxPages \in Nat \ {0} /\ PageSize \in Nat \ {0}
ASSUME CacheAssumption == CacheSize \in Nat \ {0}
ASSUME BoundsAssumption ==
  MaxRecords \in Nat /\ MaxRestarts \in Nat /\ MaxFailures \in Nat

VARIABLES
  log,       \* the Agent: the channels of the records of each session so far
  cursor,    \* raw_cursor: the last record asked for
  session,   \* raw_session
  page,      \* the page of a poll that is asked for next
  told,      \* out.session of this poll
  pending,   \* what is still to be pushed of the last answer
  buf,       \* the queue
  dropped,   \* its drop counter
  taken,     \* the chunk the worker has popped, as a sequence of at most one
  received,  \* what each topic has carried, in order
  failures   \* history: the queries that failed

agent == <<log>>
poll == <<cursor, session, page, told, pending, failures>>
queue == <<buf, dropped>>
worker == <<taken, received>>
vars == <<agent, poll, queue, worker>>

Raw == 1
Cors == 2
Topics == {Raw, Cors}

\* A chunk: a record of a session, or a marker on channel 0.
Chunk == [kind : {"record", "gap", "failed"}, session : Nat, sequence : Nat,
          channel : {0} \cup Topics]
Message == [chunk : Chunk, stamp : Nat]

Record(s, n) ==
  [kind |-> "record", session |-> s, sequence |-> n, channel |-> log[s][n]]
Marker(kind, s) == [kind |-> kind, session |-> s, sequence |-> 0, channel |-> 0]

TypeOK ==
  /\ log \in Seq(Seq(Topics)) /\ log # <<>>
  /\ cursor \in Nat /\ session \in 0..Len(log)
  /\ page \in 1..MaxPages /\ told \in 0..Len(log)
  /\ pending \in Seq(Chunk)
  /\ buf \in Seq(Chunk) /\ Len(buf) <= Capacity
  /\ dropped \in Nat
  /\ taken \in Seq(Chunk) /\ Len(taken) <= 1
  /\ received \in [Topics -> Seq(Message)]
  /\ failures \in 0..MaxFailures

Init ==
  /\ log = << <<>> >>
  /\ cursor = 0 /\ session = 0
  /\ page = 1 /\ told = 0
  /\ pending = <<>>
  /\ buf = <<>> /\ dropped = 0
  /\ taken = <<>>
  /\ received = [t \in Topics |-> <<>>]
  /\ failures = 0

-----------------------------------------------------------------------------
(* The Agent. *)

Now == Len(log)                \* its current session
Newest == Len(log[Now])        \* the number of its newest record
Oldest == IF Newest > CacheSize THEN Newest - CacheSize + 1 ELSE 1

Recorded == {r \in (1..Now) \X (1..MaxRecords) : r[2] <= Len(log[r[1]])}

AgentRecords ==
  /\ Cardinality(Recorded) < MaxRecords
  /\ \E channel \in Topics : log' = [log EXCEPT ![Now] = Append(@, channel)]
  /\ UNCHANGED <<poll, queue, worker>>

AgentRestarts ==
  /\ Now <= MaxRestarts
  /\ log' = Append(log, <<>>)
  /\ UNCHANGED <<poll, queue, worker>>

\* Its answer to a query: the first record, the last one and gap.  To a session
\* that is not its own it answers from the oldest record, and may say gap.
Known == session = Now
FirstAfter == IF Known /\ cursor >= Oldest THEN cursor + 1 ELSE Oldest
LastAfter == IF Newest < FirstAfter + PageSize - 1 THEN Newest
             ELSE FirstAfter + PageSize - 1
Gaps == IF Known THEN {cursor + 1 < Oldest} ELSE BOOLEAN

-----------------------------------------------------------------------------
(* The sensor thread: one poll, page after page.  Between two pages the      *)
(* fields of out that belong to a record are reset, so a marker carries none. *)

\* The chunks of an answer: the marker of a gap goes first.
Marked(gap, records) == IF gap THEN <<Marker("gap", Now)>> \o records ELSE records

\* The records of an answer, in order.
Page == [i \in 1..((LastAfter + 1) - FirstAfter) |-> Record(Now, FirstAfter + i - 1)]

\* The cursor of an answer (mutated form: the record after it).
CursorAhead == LastAfter + 1
CursorAfter == LastAfter

\* The loop goes on to another page, or the poll is over and the next one
\* begins with a new out.
GoesOn == LastAfter < Newest /\ page < MaxPages

\* A page arrives: the cursor moves, its chunks are about to be pushed.
PageArrives ==
  /\ pending = <<>>
  /\ \E gap \in Gaps : pending' = Marked(gap, Page)
  /\ cursor' = CursorAfter
  /\ session' = Now
  /\ page' = IF GoesOn THEN page + 1 ELSE 1
  /\ told' = IF GoesOn THEN Now ELSE 0
  /\ UNCHANGED <<failures, agent, queue, worker>>

\* The query fails, or its answer is lost: a marker, and the poll is over.  The
\* cursor stays (mutated form: it does not).
QueryFailsForgets ==
  /\ pending = <<>>
  /\ failures < MaxFailures
  /\ failures' = failures + 1
  /\ pending' = <<Marker("failed", told)>>
  /\ page' = 1 /\ told' = 0
  /\ cursor' = 0
  /\ UNCHANGED <<session, agent, queue, worker>>
QueryFails ==
  /\ pending = <<>>
  /\ failures < MaxFailures
  /\ failures' = failures + 1
  /\ pending' = <<Marker("failed", told)>>
  /\ page' = 1 /\ told' = 0
  /\ UNCHANGED <<cursor, session, agent, queue, worker>>

-----------------------------------------------------------------------------
(* raw_dispatch. *)

\* push: the oldest chunk makes room, and is counted (mutated form: it is not).
Uncounted == dropped
Counted == IF Len(buf) >= Capacity THEN dropped + 1 ELSE dropped

Push ==
  /\ pending # <<>>
  /\ pending' = Tail(pending)
  /\ buf' = Append(IF Len(buf) >= Capacity THEN Tail(buf) ELSE buf, Head(pending))
  /\ dropped' = Counted
  /\ UNCHANGED <<cursor, session, page, told, failures, agent, worker>>

Pop ==
  /\ taken = <<>> /\ buf # <<>>
  /\ taken' = <<Head(buf)>>
  /\ buf' = Tail(buf)
  /\ UNCHANGED <<dropped, received, agent, poll>>

\* The handler stamps the counter and calls the node, which routes the chunk.
TopicsOf(chunk) == IF chunk.channel = 0 THEN Topics ELSE {chunk.channel}

HandOver ==
  /\ taken # <<>>
  /\ received' = [t \in Topics |->
       IF t \in TopicsOf(taken[1])
       THEN Append(received[t], [chunk |-> taken[1], stamp |-> dropped])
       ELSE received[t]]
  /\ taken' = <<>>
  /\ UNCHANGED <<queue, agent, poll>>

Next == \/ AgentRecords \/ AgentRestarts
        \/ PageArrives \/ QueryFails
        \/ Push \/ Pop \/ HandOver

\* The loop polls again and again and the worker keeps handing over; the Agent
\* may record, restart and fail when it likes.
Fairness == /\ WF_vars(PageArrives) /\ WF_vars(Push)
            /\ WF_vars(Pop) /\ WF_vars(HandOver)

Spec == Init /\ [][Next]_vars /\ Fairness

-----------------------------------------------------------------------------
(* Properties. *)

IsRecord(m) == m.chunk.kind = "record"

\* A topic carries the records of its channel in the order of their numbers,
\* sessions in their order, and none twice: not after a failed query, a lost
\* answer or a restart of the Agent.
InOrderOnce ==
  \A t \in Topics : \A i, j \in DOMAIN received[t] :
    LET a == received[t][i]
        b == received[t][j]
    IN (i < j /\ IsRecord(a) /\ IsRecord(b)) =>
         /\ a.chunk.channel = t /\ b.chunk.channel = t
         /\ \/ a.chunk.session < b.chunk.session
            \/ /\ a.chunk.session = b.chunk.session
               /\ a.chunk.sequence < b.chunk.sequence

\* Two messages in a row on topic t are records of one session that the Agent
\* had a third one between.
Splice(t, k) ==
  LET a == received[t][k - 1]
      b == received[t][k]
  IN /\ IsRecord(a) /\ IsRecord(b)
     /\ a.chunk.session = b.chunk.session
     /\ \E n \in (a.chunk.sequence + 1)..(b.chunk.sequence - 1) :
          log[a.chunk.session][n] = t

\* What a decoder compares the counter of message k with: that of the message
\* before it, or of the one before that; zero when there is none.
Before(t, k) == IF k < 1 THEN 0 ELSE received[t][k].stamp

\* A loss shows: where a decoder would join two fragments that do not belong
\* together, the counter has risen since the message before the first of them.
LossAnnounced ==
  \A t \in Topics : \A k \in 2..Len(received[t]) :
    Splice(t, k) => received[t][k].stamp > Before(t, k - 2)

\* When the Agent is quiet and its queries work again, what it still holds
\* reaches the topics.
CaughtUp ==
  session = Now /\ cursor = Newest /\ pending = <<>> /\ buf = <<>> /\ taken = <<>>
CatchesUp == <>[](session = Now /\ cursor = Newest) /\ []<>CaughtUp
=============================================================================
